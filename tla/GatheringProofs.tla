-------------------------- MODULE GatheringProofs --------------------------
(* What the rows pay and what the table links to them is the same, proved. *)
EXTENDS Gathering, FiniteTotals

TxRow == [method : Methods, of : SUBSET Nat, deposit : Deposits \cup {NoDeposit},
          finish : BOOLEAN, amount : Nat, fee : Nat, validTo : Nat,
          status : {"queued", "sent", "failed", "confirmed", "reverted"}]

Workload == [requests : Seq(Requests), deposits : SUBSET Deposits]
Command == [id : Nat, row : Transfer]
Order == [left : SUBSET SUBSET Nat, all : SUBSET Nat, deposit : Deposits \cup {NoDeposit}]

Typed ==
    /\ transfer \in Seq(Transfer)
    /\ tx \in Seq(TxRow)
    /\ copy \in Seq(Transfer)
    /\ groups \subseteq SUBSET Nat
    /\ order \in Order
    /\ todo \in Workload
    /\ cli # NoId => cli \in Command

\* A transfer is linked to a row that exists.
Links == \A i \in DOMAIN transfer : transfer[i].tx \in DOMAIN tx \cup {NoId}

\* A command works only while the service does not, and on a transfer that
\* has no row.
OneAtATime ==
    /\ pc # "down" => up
    /\ cli # NoId => /\ ~up
                     /\ cli.id \in DOMAIN transfer
                     /\ transfer[cli.id].tx = NoId
                     /\ cli.row.tx = NoId

\* The copies of a gathering know the rows of their transfers.
CopiesAgree ==
    \A i \in DOMAIN copy : i \in DOMAIN transfer /\ copy[i].tx = transfer[i].tx

\* Only a gathering has copies.
NothingKept == pc # "gather" => copy = <<>> /\ groups = {} /\ order = NoOrder

\* The groups that wait for a row, of an order or not, share no transfer,
\* and none of their transfers has a row.
Groups == groups \cup order.left
GroupsWait ==
    /\ \A g \in Groups : \A i \in g :
        i \in DOMAIN copy /\ copy[i].tx = NoId /\ copy[i].to # NoAccount
    /\ \A g, h \in Groups : g # h => g \cap h = {}
    /\ groups \cap order.left = {}
    /\ order.all \subseteq DOMAIN copy

GatheringInv ==
    /\ Typed
    /\ Links
    /\ RowPaysItsTransfers
    /\ OneAtATime
    /\ CopiesAgree
    /\ NothingKept
    /\ GroupsWait

----------------------------------------------------------------------------
(* Sequences and rows.                                                     *)

\* A function on the indices of a sequence is a sequence.
LEMMA SameLength ==
    ASSUME NEW S, NEW T, NEW s \in Seq(S), NEW f \in [DOMAIN s -> T]
    PROVE  f \in Seq(T) /\ DOMAIN f = DOMAIN s /\ Len(f) = Len(s)
OBVIOUS

\* Append adds one index.
LEMMA AppendIndices ==
    ASSUME NEW S, NEW s \in Seq(S), NEW e \in S
    PROVE  /\ Append(s, e) \in Seq(S)
           /\ DOMAIN Append(s, e) = DOMAIN s \cup {Len(s) + 1}
           /\ Len(s) + 1 \notin DOMAIN s
           /\ Len(s) + 1 \in Nat
           /\ Append(s, e)[Len(s) + 1] = e
           /\ \A i \in DOMAIN s : Append(s, e)[i] = s[i]
OBVIOUS

\* What a request becomes.
LEMMA NewRowTyped ==
    ASSUME GatheringAssumption, NEW request \in Requests
    PROVE  NewRow(request) \in Transfer /\ NewRow(request).tx = NoId
BY DEF GatheringAssumption, NewRow, Transfer

LEMMA RowTyped ==
    ASSUME NEW method \in Methods, NEW of \in SUBSET Nat,
           NEW d \in Deposits \cup {NoDeposit}, NEW finish \in BOOLEAN
    PROVE  Row(method, of, d, finish) \in TxRow /\ Row(method, of, d, finish).of = of
BY DEF Row, TxRow

\* Rows that pay nothing and transfers without a row may be added.
LEMMA LinksKept ==
    ASSUME Links, RowPaysItsTransfers,
           DOMAIN transfer \subseteq DOMAIN transfer',
           \A i \in DOMAIN transfer : transfer'[i].tx = transfer[i].tx,
           \A i \in DOMAIN transfer' \ DOMAIN transfer : transfer'[i].tx = NoId,
           NoId \notin DOMAIN tx',
           DOMAIN tx \subseteq DOMAIN tx',
           \A r \in DOMAIN tx : tx'[r].of = tx[r].of,
           \A r \in DOMAIN tx' \ DOMAIN tx : tx'[r].of = {}
    PROVE  Links' /\ RowPaysItsTransfers'
<1>1. Links' BY DEF Links
<1>2. ASSUME NEW r \in DOMAIN tx' PROVE tx'[r].of = TransfersOf(r)'
  <2>1. TransfersOf(r)' = {i \in DOMAIN transfer : transfer[i].tx = r}
    BY DEF TransfersOf
  <2>2. CASE r \in DOMAIN tx BY <2>1, <2>2 DEF RowPaysItsTransfers, TransfersOf
  <2>3. CASE r \notin DOMAIN tx BY <2>1, <2>3 DEF Links
  <2> QED BY <2>2, <2>3
<1> QED BY <1>1, <1>2 DEF RowPaysItsTransfers

\* A row is queued and the transfers it pays, which have none, are linked to
\* it, from the copies.
LEMMA LinksWritten ==
    ASSUME GatheringAssumption, Typed, Links, RowPaysItsTransfers, CopiesAgree,
           NEW ids \in SUBSET Nat, NEW row \in TxRow, row.of = ids,
           \A i \in ids : i \in DOMAIN copy /\ copy[i].tx = NoId,
           Queue(row), WriteCopies(ids, Len(tx) + 1)
    PROVE  /\ transfer' \in Seq(Transfer) /\ tx' \in Seq(TxRow)
           /\ copy' \in Seq(Transfer)
           /\ Links' /\ RowPaysItsTransfers' /\ CopiesAgree'
           /\ DOMAIN copy' = DOMAIN copy
           /\ \A i \in DOMAIN copy : i \notin ids => copy'[i] = copy[i]
<1> DEFINE r == Len(tx) + 1
<1>1. /\ tx' \in Seq(TxRow)
      /\ DOMAIN tx' = DOMAIN tx \cup {r}
      /\ r \notin DOMAIN tx /\ r \in Nat
      /\ tx'[r] = row
      /\ \A q \in DOMAIN tx : tx'[q] = tx[q]
  BY AppendIndices DEF Typed, Queue
<1>2. \A i \in DOMAIN copy : copy[i] \in Transfer BY DEF Typed
<1>3. \A i \in DOMAIN transfer : transfer[i] \in Transfer BY DEF Typed
<1>4. \A i \in DOMAIN copy : /\ [copy[i] EXCEPT !.tx = r] \in Transfer
                             /\ [copy[i] EXCEPT !.tx = r].tx = r
  BY <1>1, <1>2 DEF Transfer
<1>5. copy' \in [DOMAIN copy -> Transfer] BY <1>2, <1>4 DEF WriteCopies
<1>6. transfer' \in [DOMAIN transfer -> Transfer]
  BY <1>3, <1>5 DEF WriteCopies
<1>7. copy' \in Seq(Transfer) /\ transfer' \in Seq(Transfer)
  BY <1>5, <1>6, SameLength DEF Typed
<1>8. DOMAIN copy' = DOMAIN copy /\ DOMAIN transfer' = DOMAIN transfer
  BY <1>5, <1>6
<1>9. /\ \A i \in ids : i \in DOMAIN transfer /\ transfer'[i].tx = r /\ copy'[i].tx = r
      /\ \A i \in DOMAIN transfer : i \notin ids => transfer'[i] = transfer[i]
      /\ \A i \in DOMAIN copy : i \notin ids => copy'[i] = copy[i]
  BY <1>4 DEF WriteCopies, CopiesAgree
<1>10. Links' BY <1>1, <1>8, <1>9 DEF Links
<1>11. CopiesAgree' BY <1>8, <1>9 DEF CopiesAgree
<1>12. ASSUME NEW q \in DOMAIN tx' PROVE tx'[q].of = TransfersOf(q)'
  <2>1. TransfersOf(q)' = {i \in DOMAIN transfer : transfer'[i].tx = q}
    BY <1>8 DEF TransfersOf
  <2>2. CASE q = r
    <3>1. \A i \in DOMAIN transfer : transfer[i].tx # r
      BY <1>1 DEF Links, GatheringAssumption
    <3> QED BY <1>1, <1>9, <2>1, <2>2, <3>1
  <2>3. CASE q # r
    <3>1. q \in DOMAIN tx /\ q # NoId BY <1>1, <2>3 DEF GatheringAssumption, Typed
    <3>2. \A i \in ids : transfer[i].tx = NoId BY DEF CopiesAgree
    <3>3. TransfersOf(q)' = TransfersOf(q)
      BY <1>9, <2>1, <2>3, <3>1, <3>2 DEF TransfersOf
    <3> QED BY <1>1, <3>1, <3>3 DEF RowPaysItsTransfers
  <2> QED BY <2>2, <2>3
<1>13. RowPaysItsTransfers' BY <1>12 DEF RowPaysItsTransfers
<1> QED BY <1>1, <1>7, <1>8, <1>9, <1>10, <1>11, <1>13

----------------------------------------------------------------------------
(* Users.                                                                  *)

\* What users do leaves the gathering as it is.
Untouched == UNCHANGED <<pc, copy, groups, order>>

LEMMA InitHolds == ASSUME GatheringAssumption, Init PROVE GatheringInv
<1>1. Typed BY DEF Init, Typed, Order, NoOrder, GatheringAssumption, Workload
<1>2. Links /\ RowPaysItsTransfers /\ CopiesAgree
  BY DEF Init, Links, RowPaysItsTransfers, CopiesAgree
<1>3. OneAtATime /\ NothingKept /\ GroupsWait
  BY DEF Init, OneAtATime, NothingKept, GroupsWait, Groups, NoOrder
<1> QED BY <1>1, <1>2, <1>3 DEF GatheringInv

\* The copies still agree when no link of the table changes.
LEMMA CopiesKept ==
    ASSUME CopiesAgree, GroupsWait, NothingKept, Untouched,
           DOMAIN transfer \subseteq DOMAIN transfer',
           \A i \in DOMAIN transfer : transfer'[i].tx = transfer[i].tx
    PROVE  CopiesAgree' /\ GroupsWait' /\ NothingKept'
BY DEF CopiesAgree, GroupsWait, NothingKept, Groups, Untouched

LEMMA InsertKeeps ==
    ASSUME GatheringAssumption, GatheringInv, Insert, Untouched, UNCHANGED tx
    PROVE  /\ transfer' \in Seq(Transfer) /\ todo' \in Workload
           /\ Links' /\ RowPaysItsTransfers'
           /\ CopiesAgree' /\ GroupsWait' /\ NothingKept'
           /\ Len(transfer') \in DOMAIN transfer'
           /\ transfer'[Len(transfer')] = NewRow(Head(todo.requests))
           /\ NewRow(Head(todo.requests)) \in Transfer
           /\ NewRow(Head(todo.requests)).tx = NoId
           /\ Len(transfer') \in Nat
           /\ DOMAIN transfer \subseteq DOMAIN transfer'
           /\ \A i \in DOMAIN transfer : transfer'[i] = transfer[i]
<1> DEFINE row == NewRow(Head(todo.requests))
<1>1. Head(todo.requests) \in Requests /\ Tail(todo.requests) \in Seq(Requests)
  BY DEF Insert, GatheringInv, Typed, Workload
<1>2. row \in Transfer /\ row.tx = NoId BY <1>1, NewRowTyped
<1>3. todo' \in Workload BY <1>1 DEF Insert, GatheringInv, Typed, Workload
<1>4. /\ transfer' = Append(transfer, row) /\ transfer \in Seq(Transfer)
      /\ tx \in Seq(TxRow) /\ tx' = tx
  BY DEF Insert, GatheringInv, Typed
<1>5. /\ transfer' \in Seq(Transfer)
      /\ DOMAIN transfer' = DOMAIN transfer \cup {Len(transfer) + 1}
      /\ transfer'[Len(transfer) + 1] = row
      /\ \A i \in DOMAIN transfer : transfer'[i] = transfer[i]
  BY <1>2, <1>4, AppendIndices
<1>6. Len(transfer') = Len(transfer) + 1 /\ Len(transfer') \in Nat BY <1>2, <1>4
<1>7. NoId \notin DOMAIN tx' BY <1>4 DEF GatheringAssumption
<1>8. Links' /\ RowPaysItsTransfers'
  BY <1>2, <1>4, <1>5, <1>7, LinksKept DEF GatheringInv
<1>9. CopiesAgree' /\ GroupsWait' /\ NothingKept'
  BY <1>5, CopiesKept DEF GatheringInv
<1> QED BY <1>2, <1>3, <1>5, <1>6, <1>8, <1>9

LEMMA NewTransferStep ==
    ASSUME GatheringAssumption, GatheringInv, NewTransfer PROVE GatheringInv'
<1>1. Insert /\ Untouched /\ UNCHANGED <<tx, up, cli>> /\ up
  BY DEF NewTransfer, Untouched, workVars
<1>2. Typed' BY <1>1, InsertKeeps DEF GatheringInv, Typed, Untouched
<1>3. OneAtATime' BY <1>1 DEF GatheringInv, OneAtATime, Untouched
<1> QED BY <1>1, <1>2, <1>3, InsertKeeps DEF GatheringInv

LEMMA CliTransferStep ==
    ASSUME GatheringAssumption, GatheringInv, CliTransfer, ~CliWhenUp PROVE GatheringInv'
<1>1. Insert /\ Untouched /\ UNCHANGED <<tx, up>> /\ ~up
  BY DEF CliTransfer, CliMayRun, Untouched, workVars
<1>2. cli' = [id |-> Len(transfer'), row |-> NewRow(Head(todo.requests))]
  BY DEF CliTransfer
<1>3. Typed' BY <1>1, <1>2, InsertKeeps DEF GatheringInv, Typed, Untouched, Command
<1>4. OneAtATime' BY <1>1, <1>2, InsertKeeps DEF GatheringInv, OneAtATime, Untouched
<1> QED BY <1>1, <1>3, <1>4, InsertKeeps DEF GatheringInv

LEMMA RefusedStep ==
    ASSUME GatheringAssumption, GatheringInv, Refused PROVE GatheringInv'
<1>1. UNCHANGED <<transfer, tx, copy, groups, order, cli, pc, up>>
  BY DEF Refused, dbVars, workVars
<1>2. todo' \in Workload
  <2>1. Tail(todo.requests) \in Seq(Requests)
    BY DEF Refused, GatheringInv, Typed, Workload
  <2> QED BY <2>1 DEF Refused, GatheringInv, Typed, Workload
<1>3. Typed' BY <1>1, <1>2 DEF GatheringInv, Typed
<1> QED BY <1>1, <1>3 DEF GatheringInv, Links, RowPaysItsTransfers, TransfersOf,
          OneAtATime, CopiesAgree, NothingKept, GroupsWait, Groups

\* A step of a user that changes rows of the table, but not their links.
LEMMA TransfersChange ==
    ASSUME GatheringAssumption, GatheringInv, Untouched, UNCHANGED <<tx, todo, up>>,
           cli' = cli \/ cli' = NoId,
           transfer' \in Seq(Transfer), DOMAIN transfer \subseteq DOMAIN transfer',
           \A i \in DOMAIN transfer : transfer'[i].tx = transfer[i].tx,
           \A i \in DOMAIN transfer' \ DOMAIN transfer : transfer'[i].tx = NoId
    PROVE  GatheringInv'
<1>1. NoId \notin DOMAIN tx' BY DEF GatheringInv, Typed, GatheringAssumption
<1>2. Links' /\ RowPaysItsTransfers' BY <1>1, LinksKept DEF GatheringInv
<1>3. Typed' BY DEF GatheringInv, Typed, Untouched
<1>4. OneAtATime' BY DEF GatheringInv, OneAtATime, Untouched
<1> QED BY <1>2, <1>3, <1>4, CopiesKept DEF GatheringInv

LEMMA CliPaymentIdStep ==
    ASSUME GatheringAssumption, GatheringInv, CliPaymentId PROVE GatheringInv'
<1>1. Untouched /\ UNCHANGED <<tx, todo, up>> /\ cli' = NoId
  BY DEF CliPaymentId, Untouched, workVars
<1>2. /\ cli.row \in Transfer /\ cli.row.tx = NoId
      /\ cli.id \in DOMAIN transfer /\ transfer[cli.id].tx = NoId
  BY DEF CliPaymentId, GatheringInv, OneAtATime, Typed, Command
<1>3. transfer' \in [DOMAIN transfer -> Transfer]
  BY <1>2 DEF CliPaymentId, GatheringInv, Typed
<1>4. transfer' \in Seq(Transfer) /\ DOMAIN transfer' = DOMAIN transfer
  BY <1>3, SameLength DEF GatheringInv, Typed
<1>5. \A i \in DOMAIN transfer : transfer'[i].tx = transfer[i].tx
  BY <1>2 DEF CliPaymentId
<1> QED BY <1>1, <1>4, <1>5, TransfersChange

LEMMA CloseDepositStep ==
    ASSUME GatheringAssumption, GatheringInv, NEW d \in Deposits, CloseDeposit(d)
    PROVE  GatheringInv'
<1>1. Untouched /\ UNCHANGED <<tx, todo, up, cli>>
  BY DEF CloseDeposit, Untouched, workVars
<1>2. transfer \in Seq(Transfer) BY DEF GatheringInv, Typed
<1>3. CASE \E i : transfer' = [transfer EXCEPT ![i].finish = TRUE]
  <2>1. PICK i : transfer' = [transfer EXCEPT ![i].finish = TRUE] BY <1>3
  <2>2. \A j \in DOMAIN transfer : transfer[j] \in Transfer BY <1>2
  <2>3. \A j \in DOMAIN transfer :
          transfer'[j] \in Transfer /\ transfer'[j].tx = transfer[j].tx
    BY <2>1, <2>2 DEF Transfer
  <2>4. transfer' \in [DOMAIN transfer -> Transfer] BY <2>1, <2>3
  <2>5. transfer' \in Seq(Transfer) /\ DOMAIN transfer' = DOMAIN transfer
    BY <1>2, <2>4, SameLength
  <2> QED BY <1>1, <2>3, <2>5, TransfersChange
<1>4. CASE transfer' = Append(transfer, CloseMarker(d))
  <2>1. CloseMarker(d) \in Transfer /\ CloseMarker(d).tx = NoId
    BY DEF CloseMarker, NewRow, Transfer
  <2>2. /\ transfer' \in Seq(Transfer)
        /\ DOMAIN transfer' = DOMAIN transfer \cup {Len(transfer) + 1}
        /\ transfer'[Len(transfer) + 1] = CloseMarker(d)
        /\ \A i \in DOMAIN transfer : transfer'[i] = transfer[i]
    BY <1>2, <1>4, <2>1, AppendIndices
  <2> QED BY <1>1, <2>1, <2>2, TransfersChange
<1> QED BY <1>3, <1>4 DEF CloseDeposit

\* A row that pays nothing is queued.
LEMMA QueueStep ==
    ASSUME GatheringAssumption, GatheringInv,
           NEW row \in TxRow, row.of = {}, Queue(row), UNCHANGED transfer
    PROVE  tx' \in Seq(TxRow) /\ Links' /\ RowPaysItsTransfers'
<1>1. /\ tx' \in Seq(TxRow)
      /\ DOMAIN tx' = DOMAIN tx \cup {Len(tx) + 1}
      /\ Len(tx) + 1 \in Nat
      /\ tx'[Len(tx) + 1] = row
      /\ \A q \in DOMAIN tx : tx'[q] = tx[q]
  BY AppendIndices DEF GatheringInv, Typed, Queue
<1>2. NoId \notin DOMAIN tx' BY <1>1 DEF GatheringAssumption, GatheringInv, Typed
<1> QED BY <1>1, <1>2, LinksKept DEF GatheringInv

LEMMA DepositCommandStep ==
    ASSUME GatheringAssumption, LockAssumption, GatheringInv, NEW d \in Deposits,
           MakeDeposit(d) \/ TerminateDeposit(d)
    PROVE  GatheringInv'
<1>1. Untouched /\ UNCHANGED <<transfer, todo, up, cli>>
  BY DEF MakeDeposit, TerminateDeposit, Untouched, workVars
<1>2. PICK row \in TxRow : row.of = {} /\ Queue(row)
  <2>1. CASE MakeDeposit(d)
    <3>1. PICK amount \in Nat, fee \in Nat, validTo \in Nat :
              Queue(CreateDeposit(d, amount, fee, validTo))
      BY <2>1 DEF MakeDeposit, LockAssumption
    <3>2. /\ CreateDeposit(d, amount, fee, validTo) \in TxRow
          /\ CreateDeposit(d, amount, fee, validTo).of = {}
      BY DEF CreateDeposit, Row, TxRow, Methods
    <3> QED BY <3>1, <3>2
  <2>2. CASE TerminateDeposit(d)
    <3>1. TerminateOfDeposit(d) \in TxRow /\ TerminateOfDeposit(d).of = {}
      BY RowTyped DEF TerminateOfDeposit, Methods
    <3> QED BY <2>2, <3>1 DEF TerminateDeposit
  <2> QED BY <2>1, <2>2
<1>3. tx' \in Seq(TxRow) /\ Links' /\ RowPaysItsTransfers'
  BY <1>1, <1>2, QueueStep
<1>4. Typed' BY <1>1, <1>3 DEF GatheringInv, Typed, Untouched
<1>5. OneAtATime' BY <1>1 DEF GatheringInv, OneAtATime, Untouched
<1>6. CopiesAgree' /\ GroupsWait' /\ NothingKept'
  BY <1>1, CopiesKept DEF GatheringInv
<1> QED BY <1>3, <1>4, <1>5, <1>6 DEF GatheringInv

----------------------------------------------------------------------------
(* The sender.                                                             *)

\* An error or a payment is written to rows of the table.
LEMMA MarkedTyped ==
    ASSUME NEW row \in Transfer
    PROVE  /\ [row EXCEPT !.error = TRUE] \in Transfer
           /\ [row EXCEPT !.error = TRUE].tx = row.tx
           /\ [row EXCEPT !.error = TRUE].to = row.to
           /\ [row EXCEPT !.paid = TRUE] \in Transfer
           /\ [row EXCEPT !.paid = TRUE].tx = row.tx
BY DEF Transfer

LEMMA StatusWritten ==
    ASSUME GatheringInv, NEW r,
           NEW status \in {"sent", "failed", "confirmed", "reverted"},
           tx' = [tx EXCEPT ![r].status = status]
    PROVE  /\ tx' \in Seq(TxRow) /\ DOMAIN tx' = DOMAIN tx
           /\ \A q \in DOMAIN tx : tx'[q].of = tx[q].of
<1>1. tx \in Seq(TxRow) BY DEF GatheringInv, Typed
<1>2. \A q \in DOMAIN tx : tx[q] \in TxRow BY <1>1
<1>3. \A q \in DOMAIN tx : tx'[q] \in TxRow /\ tx'[q].of = tx[q].of
  BY <1>2 DEF TxRow
<1>4. tx' \in [DOMAIN tx -> TxRow] BY <1>3
<1> QED BY <1>1, <1>3, <1>4, SameLength

\* The sender writes the status of a row and marks transfers.
LEMMA RowWritten ==
    ASSUME GatheringAssumption, GatheringInv, Untouched, UNCHANGED <<todo, up, cli>>,
           tx' \in Seq(TxRow), DOMAIN tx' = DOMAIN tx,
           \A q \in DOMAIN tx : tx'[q].of = tx[q].of,
           transfer' \in [DOMAIN transfer -> Transfer],
           \A i \in DOMAIN transfer : transfer'[i].tx = transfer[i].tx
    PROVE  GatheringInv'
<1>1. transfer' \in Seq(Transfer) /\ DOMAIN transfer' = DOMAIN transfer
  BY SameLength DEF GatheringInv, Typed
<1>2. NoId \notin DOMAIN tx' BY DEF GatheringInv, Typed, GatheringAssumption
<1>3. Links' /\ RowPaysItsTransfers' BY <1>1, <1>2, LinksKept DEF GatheringInv
<1>4. Typed' BY <1>1 DEF GatheringInv, Typed, Untouched
<1>5. OneAtATime' BY <1>1 DEF GatheringInv, OneAtATime, Untouched
<1> QED BY <1>1, <1>3, <1>4, <1>5, CopiesKept DEF GatheringInv

LEMMA SenderStep ==
    ASSUME GatheringAssumption, GatheringInv, Skip \/ Send \/ Confirm
    PROVE  GatheringInv'
<1> USE DEF Untouched, workVars
<1>1. \A i \in DOMAIN transfer : transfer[i] \in Transfer BY DEF GatheringInv, Typed
<1>2. CASE Skip
  <2>1. PICK r : tx' = [tx EXCEPT ![r].status = "failed"] BY <1>2 DEF Skip
  <2>2. /\ transfer' \in [DOMAIN transfer -> Transfer]
        /\ \A i \in DOMAIN transfer : transfer'[i].tx = transfer[i].tx
    BY <1>1, <1>2, MarkedTyped DEF Skip
  <2>3. Untouched /\ UNCHANGED <<todo, up, cli>> BY <1>2 DEF Skip
  <2> QED BY <2>1, <2>2, <2>3, StatusWritten, RowWritten
<1>3. CASE Send
  <2>1. PICK r : tx' = [tx EXCEPT ![r].status = "sent"] BY <1>3 DEF Send
  <2>2. /\ transfer' \in [DOMAIN transfer -> Transfer]
        /\ \A i \in DOMAIN transfer : transfer'[i].tx = transfer[i].tx
    BY <1>1, <1>3 DEF Send, GatheringInv, Typed
  <2>3. Untouched /\ UNCHANGED <<todo, up, cli>> BY <1>3 DEF Send
  <2> QED BY <2>1, <2>2, <2>3, StatusWritten, RowWritten
<1>4. CASE Confirm
  <2>1. PICK status \in {"confirmed", "reverted"} :
            \E r : tx' = [tx EXCEPT ![r].status = status]
    <3>1. tx' = [tx EXCEPT ![Min(Unresolved)].status =
                    IF Succeeds(tx[Min(Unresolved)]) THEN "confirmed" ELSE "reverted"]
      BY <1>4 DEF Confirm
    <3> QED BY <3>1
  <2>2. /\ transfer' \in [DOMAIN transfer -> Transfer]
        /\ \A i \in DOMAIN transfer : transfer'[i].tx = transfer[i].tx
    BY <1>1, <1>4, MarkedTyped DEF Confirm
  <2>3. Untouched /\ UNCHANGED <<todo, up, cli>> BY <1>4 DEF Confirm
  <2> QED BY <2>1, <2>2, <2>3, StatusWritten, RowWritten
<1> QED BY <1>2, <1>3, <1>4

----------------------------------------------------------------------------
(* Gathering.                                                              *)

LEMMA GatherPreStep ==
    ASSUME GatheringAssumption, GatheringInv, GatherPre PROVE GatheringInv'
<1> DEFINE ids == {i \in Pending : transfer[i].to # NoAccount}
<1>1. /\ UNCHANGED <<transfer, tx, up, order, cli, todo>> /\ up
      /\ copy' = transfer /\ groups' = Grouped(ids) /\ pc' = "gather"
      /\ order = NoOrder
  BY DEF GatherPre, dbVars, GatheringInv, NothingKept
<1>2. \A i \in ids : i \in DOMAIN transfer /\ transfer[i].tx = NoId /\ transfer[i].to # NoAccount
  BY DEF Pending
<1>3. \A g \in Grouped(ids) : g \subseteq ids BY DEF Grouped
<1>4. \A g, h \in Grouped(ids) : g # h => g \cap h = {} BY DEF Grouped
<1>5. Typed'
  <2>1. DOMAIN transfer \subseteq Nat BY DEF GatheringInv, Typed
  <2>2. Grouped(ids) \subseteq SUBSET Nat BY <1>2, <1>3, <2>1
  <2> QED BY <1>1, <2>2 DEF GatheringInv, Typed
<1>6. Links' /\ RowPaysItsTransfers'
  BY <1>1 DEF GatheringInv, Links, RowPaysItsTransfers, TransfersOf
<1>7. OneAtATime' BY <1>1 DEF GatheringInv, OneAtATime
<1>8. CopiesAgree' /\ NothingKept' BY <1>1 DEF CopiesAgree, NothingKept
<1>9. GroupsWait'
  BY <1>1, <1>2, <1>3, <1>4 DEF GroupsWait, Groups, NoOrder
<1> QED BY <1>5, <1>6, <1>7, <1>8, <1>9 DEF GatheringInv

\* A row for the transfers of ids, whose groups no longer wait.
LEMMA PaidByRow ==
    ASSUME GatheringAssumption, GatheringInv, pc = "gather",
           UNCHANGED <<up, pc, cli, todo>>,
           NEW ids \in SUBSET Nat, NEW row \in TxRow, row.of = ids,
           \A i \in ids : i \in DOMAIN copy /\ copy[i].tx = NoId,
           Queue(row), WriteCopies(ids, Len(tx) + 1),
           groups' \subseteq groups, order' \in Order,
           order'.left \subseteq order.left, order'.all \subseteq order.all,
           \A g \in groups' \cup order'.left : g \cap ids = {}
    PROVE  GatheringInv'
<1>1. Typed /\ Links /\ RowPaysItsTransfers /\ CopiesAgree BY DEF GatheringInv
<1>2. /\ transfer' \in Seq(Transfer) /\ tx' \in Seq(TxRow) /\ copy' \in Seq(Transfer)
      /\ Links' /\ RowPaysItsTransfers' /\ CopiesAgree'
      /\ DOMAIN copy' = DOMAIN copy
      /\ \A i \in DOMAIN copy : i \notin ids => copy'[i] = copy[i]
  BY <1>1, LinksWritten
<1>3. Typed' BY <1>1, <1>2 DEF Typed
<1>4. OneAtATime' BY DEF GatheringInv, OneAtATime
<1>5. NothingKept' BY DEF NothingKept
<1>6. Groups' \subseteq Groups BY DEF Groups
<1>7. \A g \in Groups' : \A i \in g : i \in DOMAIN copy /\ copy'[i] = copy[i]
  BY <1>2, <1>6 DEF GatheringInv, GroupsWait, Groups
<1>8. \A g \in Groups : \A i \in g : copy[i].tx = NoId /\ copy[i].to # NoAccount
  BY DEF GatheringInv, GroupsWait
<1>9. \A g \in Groups' : \A i \in g :
        i \in DOMAIN copy' /\ copy'[i].tx = NoId /\ copy'[i].to # NoAccount
  BY <1>2, <1>6, <1>7, <1>8
<1>10. \A g, h \in Groups' : g # h => g \cap h = {}
  BY <1>6 DEF GatheringInv, GroupsWait
<1>11. groups' \cap order'.left = {} BY DEF GatheringInv, GroupsWait
<1>12. order'.all \subseteq DOMAIN copy' BY <1>2 DEF GatheringInv, GroupsWait
<1>13. GroupsWait' BY <1>9, <1>10, <1>11, <1>12 DEF GroupsWait
<1> QED BY <1>2, <1>3, <1>4, <1>5, <1>13 DEF GatheringInv

LEMMA CloseGetsRowStep ==
    ASSUME GatheringAssumption, GatheringInv, NEW i \in Special, CloseGetsRow(i)
    PROVE  GatheringInv'
<1>1. i \in DOMAIN copy /\ copy[i].tx = NoId /\ copy[i].to = NoAccount BY DEF Special
<1>2. i \in Nat /\ copy[i] \in Transfer BY <1>1 DEF GatheringInv, Typed
<1>3. CloseOfDeposit(i, copy[i].deposit) \in TxRow /\ CloseOfDeposit(i, copy[i].deposit).of = {i}
  <2>1. copy[i].deposit \in Deposits \cup {NoDeposit} BY <1>2 DEF Transfer
  <2>2. "LOCK.close" \in Methods /\ {i} \in SUBSET Nat BY <1>2 DEF Methods
  <2> QED BY <2>1, <2>2, RowTyped DEF CloseOfDeposit
<1>4. /\ pc = "gather" /\ UNCHANGED <<up, pc, cli, todo, groups, order>>
      /\ Queue(CloseOfDeposit(i, copy[i].deposit)) /\ WriteCopies({i}, Len(tx) + 1)
  BY DEF CloseGetsRow
<1>5. order \in Order BY DEF GatheringInv, Typed
<1>6. \A g \in groups \cup order.left : g \cap {i} = {}
  BY <1>1 DEF GatheringInv, GroupsWait, Groups
<1>7. {i} \in SUBSET Nat BY <1>2
<1>8. \A j \in {i} : j \in DOMAIN copy /\ copy[j].tx = NoId BY <1>1
<1> QED BY <1>3, <1>4, <1>5, <1>6, <1>7, <1>8, PaidByRow

LEMMA NoReceiverStep ==
    ASSUME GatheringAssumption, GatheringInv, NEW i \in Special, NoReceiver(i)
    PROVE  GatheringInv'
<1>1. i \in DOMAIN copy /\ copy \in Seq(Transfer) BY DEF Special, GatheringInv, Typed
<1>2. /\ copy' = [copy EXCEPT ![i].error = TRUE] /\ transfer' = [transfer EXCEPT ![i] = copy'[i]]
      /\ UNCHANGED <<tx, up, pc, cli, todo, groups, order>> /\ pc = "gather"
  BY DEF NoReceiver
<1>3. copy[i] \in Transfer /\ i \in DOMAIN transfer /\ copy[i].tx = transfer[i].tx
  BY <1>1 DEF GatheringInv, CopiesAgree
<1>4. copy'[i] \in Transfer /\ copy'[i].tx = copy[i].tx /\ copy'[i].to = copy[i].to
  BY <1>1, <1>2, <1>3, MarkedTyped
<1>5. copy' \in [DOMAIN copy -> Transfer] BY <1>1, <1>2, <1>4
<1>6. transfer' \in [DOMAIN transfer -> Transfer]
  <2>1. \A j \in DOMAIN transfer : transfer[j] \in Transfer BY DEF GatheringInv, Typed
  <2> QED BY <1>2, <1>4, <2>1
<1>7. /\ copy' \in Seq(Transfer) /\ transfer' \in Seq(Transfer)
      /\ DOMAIN copy' = DOMAIN copy /\ DOMAIN transfer' = DOMAIN transfer
  BY <1>1, <1>5, <1>6, SameLength DEF GatheringInv, Typed
<1>8. \A j \in DOMAIN transfer : transfer'[j].tx = transfer[j].tx
  BY <1>2, <1>3, <1>4
<1>9. \A j \in DOMAIN copy : copy'[j].tx = copy[j].tx /\ copy'[j].to = copy[j].to
  BY <1>1, <1>2, <1>4
<1>10. NoId \notin DOMAIN tx BY DEF GatheringInv, Typed, GatheringAssumption
<1>11. Links' /\ RowPaysItsTransfers'
  BY <1>2, <1>7, <1>8, <1>10, LinksKept DEF GatheringInv
<1>12. Typed' BY <1>2, <1>7 DEF GatheringInv, Typed
<1>13. OneAtATime' BY <1>2, <1>7, <1>8 DEF GatheringInv, OneAtATime
<1>14. CopiesAgree' BY <1>7, <1>8, <1>9 DEF GatheringInv, CopiesAgree
<1>15. NothingKept' BY <1>2 DEF NothingKept
<1>16. GroupsWait' BY <1>2, <1>7, <1>9 DEF GatheringInv, GroupsWait, Groups
<1> QED BY <1>11, <1>12, <1>13, <1>14, <1>15, <1>16 DEF GatheringInv

LEMMA GatherGasStep ==
    ASSUME GatheringAssumption, GatheringInv, NEW g \in groups, GatherGas(g)
    PROVE  GatheringInv'
<1>1. g \in SUBSET Nat /\ order \in Order BY DEF GatheringInv, Typed
<1>2. EthTransfer(g) \in TxRow /\ EthTransfer(g).of = g
  BY <1>1, RowTyped DEF EthTransfer, Methods
<1>3. /\ pc = "gather" /\ UNCHANGED <<up, pc, cli, todo, order>>
      /\ groups' = groups \ {g}
      /\ Queue(EthTransfer(g)) /\ WriteCopies(g, Len(tx) + 1)
  BY DEF GatherGas
<1>4. \A i \in g : i \in DOMAIN copy /\ copy[i].tx = NoId
  BY DEF GatheringInv, GroupsWait, Groups
<1>5. \A h \in (groups \ {g}) \cup order.left : h \cap g = {}
  BY DEF GatheringInv, GroupsWait, Groups
<1> QED BY <1>1, <1>2, <1>3, <1>4, <1>5, PaidByRow

LEMMA BatchRowTyped ==
    ASSUME NEW ids \in SUBSET Nat, NEW d \in Deposits \cup {NoDeposit}
    PROVE  BatchRow(ids, d) \in TxRow /\ BatchRow(ids, d).of = ids
<1>1. ClosesDeposit(ids) \in BOOLEAN BY DEF ClosesDeposit
<1>2. Row("ERC20.transfer", ids, NoDeposit, FALSE) \in TxRow
      /\ Row("ERC20.transfer", ids, NoDeposit, FALSE).of = ids
  BY RowTyped DEF Methods
<1>3. Row("MULTI", ids, NoDeposit, FALSE) \in TxRow
      /\ Row("MULTI", ids, NoDeposit, FALSE).of = ids
  BY RowTyped DEF Methods
<1>4. Row("LOCK.single", ids, d, ClosesDeposit(ids)) \in TxRow
      /\ Row("LOCK.single", ids, d, ClosesDeposit(ids)).of = ids
  BY <1>1, RowTyped DEF Methods
<1>5. Row("LOCK.multi", ids, d, ClosesDeposit(ids)) \in TxRow
      /\ Row("LOCK.multi", ids, d, ClosesDeposit(ids)).of = ids
  BY <1>1, RowTyped DEF Methods
<1> QED BY <1>2, <1>3, <1>4, <1>5
    DEF BatchRow, Erc20Transfer, MultiTransfer, DepositTransfer, DepositMultiTransfer

LEMMA GatherBatchStep ==
    ASSUME GatheringAssumption, GatheringInv, GatherBatch PROVE GatheringInv'
<1>1. order \in Order /\ Batch \subseteq order.left
  BY DEF GatheringInv, Typed, Batch
<1>2. BatchIds \in SUBSET Nat BY <1>1 DEF BatchIds, Order
<1>3. BatchRow(BatchIds, order.deposit) \in TxRow /\ BatchRow(BatchIds, order.deposit).of = BatchIds
  BY <1>1, <1>2, BatchRowTyped DEF Order
<1>4. /\ pc = "gather" /\ UNCHANGED <<up, pc, cli, todo, groups>>
      /\ Queue(BatchRow(BatchIds, order.deposit)) /\ WriteCopies(BatchIds, Len(tx) + 1)
      /\ order' = IF Batch = order.left THEN NoOrder ELSE [order EXCEPT !.left = @ \ Batch]
  BY DEF GatherBatch
<1>5. \A i \in BatchIds : i \in DOMAIN copy /\ copy[i].tx = NoId
  BY <1>1 DEF BatchIds, GatheringInv, GroupsWait, Groups
<1>6. /\ order' \in Order /\ order'.left = order.left \ Batch /\ order'.all \subseteq order.all
  BY <1>1, <1>4 DEF Order, NoOrder
<1>7. \A g \in groups \cup order'.left : \A h \in Batch : g \cap h = {}
  BY <1>1, <1>6 DEF GatheringInv, GroupsWait, Groups
<1>8. \A g \in groups \cup order'.left : g \cap BatchIds = {} BY <1>7 DEF BatchIds
<1>9. order'.left \subseteq order.left BY <1>6
<1> QED BY <1>2, <1>3, <1>4, <1>5, <1>6, <1>8, <1>9, PaidByRow

LEMMA PickOrderStep ==
    ASSUME GatheringAssumption, GatheringInv, NEW d \in Deposits \cup {NoDeposit}, PickOrder(d)
    PROVE  GatheringInv'
<1> DEFINE ours == {g \in groups : DepositOf(g) = d}
<1>1. /\ UNCHANGED <<transfer, tx, up, cli, todo>>
      /\ pc = "gather" /\ order = NoOrder
  BY DEF PickOrder, dbVars
<1>2. Links' /\ RowPaysItsTransfers'
  BY <1>1 DEF GatheringInv, Links, RowPaysItsTransfers, TransfersOf
<1>3. CASE /\ groups' = groups \ ours
           /\ order' = [left |-> ours, all |-> UNION ours, deposit |-> d]
           /\ UNCHANGED <<pc, copy>>
  <2>1. groups \subseteq SUBSET Nat BY DEF GatheringInv, Typed
  <2>2. order' \in Order /\ groups' \subseteq SUBSET Nat BY <1>3, <2>1 DEF Order
  <2>3. Typed' BY <1>1, <1>3, <2>2 DEF GatheringInv, Typed
  <2>4. OneAtATime' BY <1>1, <1>3 DEF GatheringInv, OneAtATime
  <2>5. CopiesAgree' BY <1>1, <1>3 DEF GatheringInv, CopiesAgree
  <2>6. NothingKept' BY <1>1, <1>3 DEF NothingKept
  <2>7. Groups' \subseteq groups BY <1>3 DEF Groups
  <2>8. order'.all \subseteq DOMAIN copy'
    BY <1>3 DEF GatheringInv, GroupsWait, Groups
  <2>9. GroupsWait' BY <1>3, <2>7, <2>8 DEF GatheringInv, GroupsWait, Groups
  <2> QED BY <1>2, <2>3, <2>4, <2>5, <2>6, <2>9 DEF GatheringInv
<1>4. CASE groups' = {} /\ pc' = "allowance" /\ copy' = <<>> /\ order' = order
  <2>1. Typed' BY <1>1, <1>4 DEF GatheringInv, Typed
  <2>2. OneAtATime' BY <1>1, <1>4 DEF GatheringInv, OneAtATime
  <2>3. CopiesAgree' /\ NothingKept' BY <1>1, <1>4 DEF CopiesAgree, NothingKept
  <2>4. GroupsWait' BY <1>1, <1>4 DEF GroupsWait, Groups, NoOrder
  <2> QED BY <1>2, <2>1, <2>2, <2>3, <2>4 DEF GatheringInv
<1> QED BY <1>3, <1>4 DEF PickOrder

LEMMA BatchFailsStep ==
    ASSUME GatheringAssumption, GatheringInv, BatchFails PROVE GatheringInv'
<1>1. /\ UNCHANGED <<tx, up, pc, copy, groups, cli, todo>> /\ pc = "gather"
      /\ order' = NoOrder
  BY DEF BatchFails
<1>2. \A i \in DOMAIN transfer : transfer[i] \in Transfer BY DEF GatheringInv, Typed
<1>3. \A i \in order.all :
        copy[i] \in Transfer /\ i \in DOMAIN transfer /\ copy[i].tx = transfer[i].tx
  BY DEF GatheringInv, Typed, CopiesAgree, GroupsWait
<1>4. /\ transfer' \in [DOMAIN transfer -> Transfer]
      /\ \A i \in DOMAIN transfer : transfer'[i].tx = transfer[i].tx
  BY <1>2, <1>3, MarkedTyped DEF BatchFails
<1>5. transfer' \in Seq(Transfer) /\ DOMAIN transfer' = DOMAIN transfer
  BY <1>4, SameLength DEF GatheringInv, Typed
<1>6. NoId \notin DOMAIN tx BY DEF GatheringInv, Typed, GatheringAssumption
<1>7. Links' /\ RowPaysItsTransfers'
  BY <1>1, <1>4, <1>5, <1>6, LinksKept DEF GatheringInv
<1>8. Typed' BY <1>1, <1>5 DEF GatheringInv, Typed, Order, NoOrder
<1>9. OneAtATime' BY <1>1, <1>4, <1>5 DEF GatheringInv, OneAtATime
<1>10. CopiesAgree' BY <1>1, <1>4, <1>5 DEF GatheringInv, CopiesAgree
<1>11. NothingKept' BY <1>1 DEF NothingKept
<1>12. GroupsWait' BY <1>1 DEF GatheringInv, GroupsWait, Groups, NoOrder
<1> QED BY <1>7, <1>8, <1>9, <1>10, <1>11, <1>12 DEF GatheringInv

\* The gathering ends, or the process, and nothing of it is kept.
LEMMA NothingIsKept ==
    ASSUME GatheringInv, UNCHANGED <<transfer, tx, cli, todo>>,
           copy' = <<>>, groups' = {}, order' = NoOrder, pc' # "gather", OneAtATime'
    PROVE  GatheringInv'
<1>1. Typed' BY DEF GatheringInv, Typed, Order, NoOrder
<1>2. Links' /\ RowPaysItsTransfers'
  BY DEF GatheringInv, Links, RowPaysItsTransfers, TransfersOf
<1>3. CopiesAgree' /\ NothingKept' BY DEF CopiesAgree, NothingKept
<1>4. GroupsWait' BY DEF GroupsWait, Groups, NoOrder
<1> QED BY <1>1, <1>2, <1>3, <1>4 DEF GatheringInv

LEMMA ServiceEndsStep ==
    ASSUME GatheringInv, GatherEnds \/ Finish \/ Crash \/ (Start /\ ~CliWhenUp)
    PROVE  GatheringInv'
<1> USE DEF dbVars, workVars, GatheringInv, OneAtATime, NothingKept
<1>1. CASE GatherEnds BY <1>1, NothingIsKept DEF GatherEnds
<1>2. CASE Finish BY <1>2, NothingIsKept DEF Finish
<1>3. CASE Crash BY <1>3, NothingIsKept DEF Crash
<1>4. CASE Start /\ ~CliWhenUp
  <2>1. ~up /\ pc = "down" /\ pc' = "process" /\ up' /\ cli = NoId
    BY <1>4 DEF Start
  <2>2. UNCHANGED <<transfer, tx, cli, todo, copy, groups, order>> BY <1>4 DEF Start
  <2> QED BY <2>1, <2>2, NothingIsKept
<1> QED BY <1>1, <1>2, <1>3, <1>4

LEMMA ProcessAllowanceStep ==
    ASSUME GatheringAssumption, GatheringInv, ProcessAllowance PROVE GatheringInv'
<1>1. /\ UNCHANGED <<transfer, up, copy, groups, order, cli, todo>>
      /\ pc = "allowance" /\ pc' = "process"
      /\ Queue(Erc20Approve) \/ UNCHANGED tx
  BY DEF ProcessAllowance, workVars
<1>2. tx' \in Seq(TxRow) /\ Links' /\ RowPaysItsTransfers'
  <2>1. CASE Queue(Erc20Approve)
    <3>1. Erc20Approve \in TxRow /\ Erc20Approve.of = {}
      BY RowTyped DEF Erc20Approve, Methods
    <3> QED BY <1>1, <2>1, <3>1, QueueStep
  <2>2. CASE UNCHANGED tx
    BY <1>1, <2>2 DEF GatheringInv, Typed, Links, RowPaysItsTransfers, TransfersOf
  <2> QED BY <1>1, <2>1, <2>2
<1>3. Typed' BY <1>1, <1>2 DEF GatheringInv, Typed
<1>4. OneAtATime' BY <1>1 DEF GatheringInv, OneAtATime
<1>5. CopiesAgree' /\ NothingKept' /\ GroupsWait'
  BY <1>1 DEF GatheringInv, CopiesAgree, NothingKept, GroupsWait, Groups
<1> QED BY <1>2, <1>3, <1>4, <1>5 DEF GatheringInv

----------------------------------------------------------------------------
LEMMA OthersStep ==
    ASSUME GatheringInv, UNCHANGED <<transfer, tx, up, pc, copy, groups, order, cli, todo>>
    PROVE  GatheringInv'
BY DEF GatheringInv, Typed, Links, RowPaysItsTransfers, TransfersOf, OneAtATime,
       CopiesAgree, NothingKept, GroupsWait, Groups

LEMMA StepHolds ==
    ASSUME GatheringAssumption, LockAssumption, ~CliWhenUp, GatheringInv, [Next]_vars
    PROVE  GatheringInv'
<1>1. CASE Service \/ Skip
  <2>1. CASE Skip \/ Send \/ Confirm BY <2>1, SenderStep
  <2>2. CASE GatherPre BY <2>2, GatherPreStep
  <2>3. CASE \E i \in Special : CloseGetsRow(i) \/ NoReceiver(i)
    BY <2>3, CloseGetsRowStep, NoReceiverStep
  <2>4. CASE \E g \in groups : GatherGas(g) BY <2>4, GatherGasStep
  <2>5. CASE \E d \in Deposits \cup {NoDeposit} : PickOrder(d) BY <2>5, PickOrderStep
  <2>6. CASE GatherBatch BY <2>6, GatherBatchStep
  <2>7. CASE BatchFails BY <2>7, BatchFailsStep
  <2>8. CASE GatherEnds BY <2>8, ServiceEndsStep
  <2>9. CASE ProcessAllowance BY <2>9, ProcessAllowanceStep
  <2> QED BY <1>1, <2>1, <2>2, <2>3, <2>4, <2>5, <2>6, <2>7, <2>8, <2>9 DEF Service
<1>2. CASE Users
  <2>1. todo.deposits \subseteq Deposits BY DEF GatheringInv, Typed, Workload
  <2>2. CASE NewTransfer BY <2>2, NewTransferStep
  <2>3. CASE CliTransfer BY <2>3, CliTransferStep
  <2>4. CASE CliPaymentId BY <2>4, CliPaymentIdStep
  <2>5. CASE Refused BY <2>5, RefusedStep
  <2>6. CASE \E d \in todo.deposits : CloseDeposit(d) \/ MakeDeposit(d) \/ TerminateDeposit(d)
    BY <2>1, <2>6, CloseDepositStep, DepositCommandStep
  <2> QED BY <1>2, <2>2, <2>3, <2>4, <2>5, <2>6 DEF Users
<1>3. CASE Others BY <1>3, OthersStep DEF Others, dbVars, workVars
<1>4. CASE Start \/ Finish \/ Crash BY <1>4, ServiceEndsStep
<1>5. CASE UNCHANGED vars BY <1>5, OthersStep DEF vars, dbVars, workVars
<1> QED BY <1>1, <1>2, <1>3, <1>4, <1>5 DEF Next

\* With commands given while the service is down, what the call of a row
\* pays is what the table links to it, for every workload, every size of a
\* chunk, and every number of crashes: no transfer is in two rows, and no
\* transfer that has a row is left out of its call.
THEOREM RowsAreExact ==
    ASSUME GatheringAssumption, LockAssumption, ~CliWhenUp
    PROVE  Spec => []RowPaysItsTransfers
<1>1. Init => GatheringInv BY InitHolds
<1>2. GatheringInv /\ [Next]_vars => GatheringInv' BY StepHolds
<1>3. GatheringInv => RowPaysItsTransfers BY DEF GatheringInv
<1> QED BY <1>1, <1>2, <1>3, PTL DEF Spec


----------------------------------------------------------------------------
(* The contract: what its functions do to the state.                       *)

LockState == [deposits : [Deposits -> Deposit], glm : [Accounts -> Nat]]

\* A call changes one deposit, and the balance of the contract by n or more.
Effect(s, t, d, amount, fee, n) ==
    /\ t \in LockState
    /\ \A e \in Deposits \ {d} : t.deposits[e] = s.deposits[e]
    /\ t.deposits[d].amount = amount
    /\ t.deposits[d].fee = fee
    /\ t.glm[Lock] >= s.glm[Lock] + n

LEMMA MovedEffect ==
    ASSUME LockAssumption, NEW s \in LockState, NEW from \in Accounts, NEW to \in Accounts,
           NEW n \in Nat, s.glm[from] >= n
    PROVE  /\ Moved(s, from, to, n) \in LockState
           /\ Moved(s, from, to, n).deposits = s.deposits
           /\ from # Lock => Moved(s, from, to, n).glm[Lock] =
                                s.glm[Lock] + (IF to = Lock THEN n ELSE 0)
           /\ from = Lock => Moved(s, from, to, n).glm[Lock] =
                                s.glm[Lock] - (IF to = Lock THEN 0 ELSE n)
<1> DEFINE t == Moved(s, from, to, n)
<1>1. s.glm \in [Accounts -> Nat] /\ s.deposits \in [Deposits -> Deposit] /\ Lock \in Accounts
  BY DEF LockState, LockAssumption
<1>2. \A a \in Accounts : s.glm[a] \in Nat
  BY <1>1
<1> DEFINE u == [s EXCEPT !.glm[from] = @ - n]
<1>3. u.deposits = s.deposits /\ u.glm = [s.glm EXCEPT ![from] = @ - n]
      /\ u \in [deposits : [Deposits -> Deposit], glm : [Accounts -> Int]]
  BY <1>1, <1>2 DEF LockState
<1>4. t = [u EXCEPT !.glm[to] = @ + n]
  BY DEF Moved
<1>5. t.deposits = s.deposits /\ t.glm = [u.glm EXCEPT ![to] = @ + n]
      /\ t \in [deposits : [Deposits -> Deposit], glm : [Accounts -> Int]]
  <2> HIDE DEF u
  <2> QED BY <1>3, <1>4
<1>6. \A a \in Accounts : t.glm[a] = s.glm[a] - (IF a = from THEN n ELSE 0)
                                              + (IF a = to THEN n ELSE 0)
  BY <1>1, <1>2, <1>3, <1>5
<1>7. t.glm \in [Accounts -> Nat]
  <2>1. \A a \in Accounts : t.glm[a] \in Nat
    BY <1>2, <1>6
  <2>2. DOMAIN t.glm = Accounts /\ t.glm = [a \in Accounts |-> t.glm[a]]
    BY <1>3, <1>5
  <2> QED BY <2>1, <2>2
<1>8. t \in LockState
  BY <1>5, <1>7 DEF LockState
<1>9. t.glm[Lock] = s.glm[Lock] - (IF Lock = from THEN n ELSE 0) + (IF Lock = to THEN n ELSE 0)
  BY <1>1, <1>6
<1> HIDE DEF t
<1>10. s.glm[Lock] \in Nat
  BY <1>1, <1>2
<1> QED BY <1>5, <1>8, <1>9, <1>10 DEF t

LEMMA DepositWritten ==
    ASSUME LockAssumption, NEW s \in LockState, NEW d \in Deposits, NEW dep \in Deposit
    PROVE  Effect(s, [s EXCEPT !.deposits[d] = dep], d, dep.amount, dep.fee, 0)
<1> DEFINE t == [s EXCEPT !.deposits[d] = dep]
<1>1. t \in LockState /\ t.glm = s.glm
  BY DEF LockState
<1>2. t.deposits[d] = dep /\ \A e \in Deposits \ {d} : t.deposits[e] = s.deposits[e]
  BY DEF LockState
<1>3. t.glm[Lock] >= s.glm[Lock] + 0
  BY <1>1 DEF LockState, LockAssumption
<1> QED BY <1>1, <1>2, <1>3 DEF Effect

\* A call moves GLM, then writes the deposit.
LEMMA EffectOfBoth ==
    ASSUME NEW s \in LockState, NEW m \in LockState, NEW d \in Deposits,
           m.deposits = s.deposits, NEW n \in Int, m.glm[Lock] >= s.glm[Lock] + n,
           NEW t, NEW amount, NEW fee, Effect(m, t, d, amount, fee, 0), LockAssumption
    PROVE  Effect(s, t, d, amount, fee, n)
<1>1. m.glm[Lock] \in Nat /\ s.glm[Lock] \in Nat
  BY DEF LockState, LockAssumption
<1>2. t \in LockState /\ t.glm[Lock] >= m.glm[Lock] + 0
  BY DEF Effect
<1>3. t.glm[Lock] \in Nat
  BY <1>2 DEF LockState, LockAssumption
<1>4. t.glm[Lock] >= s.glm[Lock] + n
  BY <1>1, <1>2, <1>3
<1> QED BY <1>2, <1>4 DEF Effect

LEMMA CreatedEffect ==
    ASSUME LockAssumption, NEW s \in LockState, NEW d \in Deposits, NEW spender \in Accounts,
           NEW amount \in Nat, NEW fee \in Nat, NEW validTo \in 0..MaxTime,
           NEW caller, CanCreate(s, caller, d, spender, amount, fee)
    PROVE  /\ Effect(s, Created(s, d, spender, amount, fee, validTo), d, amount, fee, amount + fee)
           /\ s.deposits[d].amount = 0
<1> DEFINE m == Moved(s, FunderOf[d], Lock, amount + fee)
           dep == [spender |-> spender, amount |-> amount, fee |-> fee, validTo |-> validTo]
<1>1. FunderOf[d] \in Accounts \ {Lock} /\ Lock \in Accounts /\ s.glm[FunderOf[d]] >= amount + fee
  BY DEF LockAssumption, CanCreate
<1>2. amount + fee \in Nat
  OBVIOUS
<1>3. m \in LockState /\ m.deposits = s.deposits /\ m.glm[Lock] = s.glm[Lock] + (amount + fee)
  BY <1>1, <1>2, MovedEffect
<1>4. dep \in Deposit
  BY DEF Deposit
<1>5. Created(s, d, spender, amount, fee, validTo) = [m EXCEPT !.deposits[d] = dep]
  BY DEF Created
<1>6. dep.amount = amount /\ dep.fee = fee
  OBVIOUS
<1> HIDE DEF m, dep
<1>7. Effect(m, Created(s, d, spender, amount, fee, validTo), d, amount, fee, 0)
  BY <1>3, <1>4, <1>5, <1>6, DepositWritten
<1>8. m.glm[Lock] >= s.glm[Lock] + (amount + fee)
  BY <1>1, <1>3 DEF LockState
<1> QED BY <1>2, <1>3, <1>7, <1>8, EffectOfBoth DEF CanCreate

LEMMA ExtendedEffect ==
    ASSUME LockAssumption, NEW s \in LockState, NEW d \in Deposits,
           NEW amount \in Nat, NEW fee \in Nat, NEW validTo \in 0..MaxTime,
           NEW caller, CanExtend(s, caller, d, amount, fee, validTo)
    PROVE  Effect(s, Extended(s, d, amount, fee, validTo), d,
                  s.deposits[d].amount + amount, s.deposits[d].fee + fee, amount + fee)
<1> DEFINE m == Moved(s, FunderOf[d], Lock, amount + fee)
           old == s.deposits[d]
           dep == [spender |-> old.spender, amount |-> old.amount + amount,
                   fee |-> old.fee + fee, validTo |-> validTo]
<1>1. FunderOf[d] \in Accounts \ {Lock} /\ Lock \in Accounts /\ s.glm[FunderOf[d]] >= amount + fee
  BY DEF LockAssumption, CanExtend
<1>2. amount + fee \in Nat
  OBVIOUS
<1>3. m \in LockState /\ m.deposits = s.deposits /\ m.glm[Lock] = s.glm[Lock] + (amount + fee)
  BY <1>1, <1>2, MovedEffect
<1>4. old \in Deposit
  BY DEF LockState
<1>5. dep \in Deposit
  BY <1>4 DEF Deposit
<1>6. Extended(s, d, amount, fee, validTo) = [m EXCEPT !.deposits[d] = dep]
  BY DEF Extended
<1>7. dep.amount = old.amount + amount /\ dep.fee = old.fee + fee
  OBVIOUS
<1> HIDE DEF m, dep
<1>8. Effect(m, Extended(s, d, amount, fee, validTo), d, old.amount + amount, old.fee + fee, 0)
  BY <1>3, <1>5, <1>6, <1>7, DepositWritten
<1>9. m.glm[Lock] >= s.glm[Lock] + (amount + fee)
  BY <1>1, <1>3 DEF LockState
<1> QED BY <1>2, <1>3, <1>8, <1>9, EffectOfBoth

\* The fee leaves the contract twice.
LEMMA ClosedEffect ==
    ASSUME LockAssumption, NEW s \in LockState, NEW d \in Deposits,
           NEW caller \in Accounts, CanClose(s, caller, d)
    PROVE  Effect(s, Closed(s, d), d, 0, 0, -(s.deposits[d].amount + 2 * s.deposits[d].fee))
<1> DEFINE dep == s.deposits[d]
           both == dep.amount + dep.fee
           paid == Moved(s, Lock, FunderOf[d], both)
           m == Moved(paid, Lock, dep.spender, dep.fee)
           none == [dep EXCEPT !.amount = 0, !.fee = 0]
<1>1. FunderOf[d] \in Accounts \ {Lock} /\ Lock \in Accounts
  BY DEF LockAssumption
<1>2. dep \in Deposit /\ dep.amount \in Nat /\ dep.fee \in Nat
  BY DEF LockState, Deposit
<1>3. dep.spender \in Accounts /\ s.glm[Lock] >= dep.amount + 2 * dep.fee
  BY DEF CanClose
<1>4. s.glm[Lock] \in Nat
  BY <1>1 DEF LockState
<1>5. none \in Deposit /\ none.amount = 0 /\ none.fee = 0
  BY <1>2 DEF Deposit
<1>6. Closed(s, d) = [m EXCEPT !.deposits[d] = none]
  BY DEF Closed
<1> HIDE DEF dep, both, paid, m, none
<1>7. both \in Nat /\ s.glm[Lock] >= both
  BY <1>2, <1>3, <1>4 DEF both
<1>8. paid \in LockState /\ paid.deposits = s.deposits /\ paid.glm[Lock] = s.glm[Lock] - both
  BY <1>1, <1>7, MovedEffect DEF paid
<1>9. paid.glm[Lock] >= dep.fee
  BY <1>2, <1>3, <1>4, <1>8 DEF both
<1>10. /\ m \in LockState /\ m.deposits = paid.deposits
       /\ m.glm[Lock] = paid.glm[Lock] - (IF dep.spender = Lock THEN 0 ELSE dep.fee)
  BY <1>1, <1>2, <1>3, <1>8, <1>9, MovedEffect DEF m
<1>11. m.glm[Lock] >= s.glm[Lock] + (-(dep.amount + 2 * dep.fee))
  BY <1>2, <1>4, <1>8, <1>10 DEF both
<1>12. Effect(m, Closed(s, d), d, 0, 0, 0)
  BY <1>5, <1>6, <1>10, DepositWritten
<1>13. -(dep.amount + 2 * dep.fee) \in Int
  BY <1>2
<1> QED BY <1>8, <1>10, <1>11, <1>12, <1>13, EffectOfBoth DEF dep

LEMMA TerminatedEffect ==
    ASSUME LockAssumption, NEW s \in LockState, NEW d \in Deposits,
           NEW caller, CanTerminate(s, caller, d)
    PROVE  Effect(s, Terminated(s, d), d, 0, 0, -(s.deposits[d].amount + s.deposits[d].fee))
<1> DEFINE dep == s.deposits[d]
           both == dep.amount + dep.fee
           m == Moved(s, Lock, FunderOf[d], both)
           none == [dep EXCEPT !.amount = 0, !.fee = 0]
<1>1. FunderOf[d] \in Accounts \ {Lock} /\ Lock \in Accounts /\ s.glm[Lock] >= both
  BY DEF LockAssumption, CanTerminate
<1>2. dep \in Deposit /\ dep.amount \in Nat /\ dep.fee \in Nat
  BY DEF LockState, Deposit
<1>3. s.glm[Lock] \in Nat
  BY <1>1 DEF LockState
<1>4. none \in Deposit /\ none.amount = 0 /\ none.fee = 0
  BY <1>2 DEF Deposit
<1>5. Terminated(s, d) = [m EXCEPT !.deposits[d] = none]
  BY DEF Terminated
<1>6. both \in Nat
  BY <1>2
<1> HIDE DEF both, m, none
<1>7. m \in LockState /\ m.deposits = s.deposits /\ m.glm[Lock] = s.glm[Lock] - both
  BY <1>1, <1>6, MovedEffect DEF m
<1>8. m.glm[Lock] >= s.glm[Lock] + (-both)
  BY <1>3, <1>6, <1>7
<1>9. Effect(m, Terminated(s, d), d, 0, 0, 0)
  BY <1>4, <1>5, <1>7, DepositWritten
<1>10. -both \in Int
  BY <1>6
<1> QED BY <1>7, <1>8, <1>9, <1>10, EffectOfBoth DEF both

\* Amounts to receivers.
IsPayment(payments) ==
    /\ IsFiniteSet(DOMAIN payments)
    /\ Summable(payments, DOMAIN payments)
    /\ \A a \in DOMAIN payments : payments[a] >= 0

LEMMA TotalIsNat ==
    ASSUME NEW payments, IsPayment(payments)
    PROVE  Total(payments) \in Nat /\ \A a \in DOMAIN payments : payments[a] \in Nat
<1>1. Total(payments) = TotalOf(payments)
  BY Zenon DEF Total, TotalOf
<1>2. TotalOf(payments) \in Nat
  BY TotalOfNats DEF IsPayment
<1>3. \A a \in DOMAIN payments : payments[a] \in Nat
  BY DEF IsPayment, Summable
<1> QED BY <1>1, <1>2, <1>3

LEMMA PaidOutEffect ==
    ASSUME LockAssumption, NEW s \in LockState, NEW d \in Deposits, NEW caller,
           NEW payments, IsPayment(payments), CanPay(s, caller, d, payments)
    PROVE  Effect(s, PaidOut(s, d, payments), d, s.deposits[d].amount - Total(payments),
                  s.deposits[d].fee, -Total(payments))
<1> DEFINE n == Total(payments)
           dep == [s.deposits[d] EXCEPT !.amount = @ - n]
           u == [s EXCEPT !.deposits[d].amount = @ - n]
           t == PaidOut(s, d, payments)
           received(a) == IF a \in DOMAIN payments THEN payments[a] ELSE 0
           balance == [a \in Accounts |->
                         s.glm[a] - (IF a = Lock THEN n ELSE 0) + received(a)]
<1>1. n \in Nat /\ \A a \in Accounts : received(a) \in Nat
  BY TotalIsNat
<1>2. s.glm[Lock] >= n /\ s.deposits[d].amount >= n
  BY DEF CanPay
<1>3. u.glm = s.glm
  BY DEF LockState
<1>4. t = [u EXCEPT !.glm = balance]
  BY DEF PaidOut, LockState
<1> HIDE DEF n, t, received, balance
<1>5. dep \in Deposit /\ dep.amount = s.deposits[d].amount - n /\ dep.fee = s.deposits[d].fee
  BY <1>1, <1>2 DEF LockState, Deposit
<1>6. u.deposits[d] = dep /\ \A e \in Deposits \ {d} : u.deposits[e] = s.deposits[e]
  BY DEF LockState
<1>7. u \in LockState
  BY <1>5 DEF LockState
<1>8. balance \in [Accounts -> Nat]
  <2>1. \A a \in Accounts : s.glm[a] - (IF a = Lock THEN n ELSE 0) + received(a) \in Nat
    BY <1>1, <1>2 DEF LockState
  <2> QED BY <2>1 DEF balance
<1>9. balance[Lock] >= s.glm[Lock] + (-n)
  BY <1>1 DEF balance, LockState, LockAssumption
<1> HIDE DEF u, dep
<1>10. t \in LockState /\ t.deposits = u.deposits /\ t.glm = balance
  BY <1>4, <1>7, <1>8 DEF LockState
<1> QED BY <1>5, <1>6, <1>9, <1>10 DEF Effect, t, n

----------------------------------------------------------------------------
(* What the deposits hold.                                                 *)

LEMMA HeldChange ==
    ASSUME LockAssumption, NEW s \in LockState, NEW t \in LockState, NEW d \in Deposits,
           \A e \in Deposits \ {d} : t.deposits[e] = s.deposits[e]
    PROVE  /\ Held(s) \in Int
           /\ Held(t) = Held(s) - (s.deposits[d].amount + s.deposits[d].fee)
                                + (t.deposits[d].amount + t.deposits[d].fee)
<1> DEFINE f == [e \in Deposits |-> s.deposits[e].amount + s.deposits[e].fee]
           g == [e \in Deposits |-> t.deposits[e].amount + t.deposits[e].fee]
<1>1. IsFiniteSet(Deposits)
  BY DEF LockAssumption
<1>2. Summable(f, Deposits) /\ Summable(g, Deposits)
  BY DEF Summable, LockState, Deposit
<1>3. \A e \in Deposits \ {d} : g[e] = f[e]
  OBVIOUS
<1>4. Held(s) = TotalOf(f) /\ Held(t) = TotalOf(g)
  BY Zenon DEF Held, Total, TotalOf
<1>5. f[d] = s.deposits[d].amount + s.deposits[d].fee
      /\ g[d] = t.deposits[d].amount + t.deposits[d].fee
  OBVIOUS
<1> HIDE DEF f, g
<1>6. TotalOf(f) \in Int /\ TotalOf(g) = TotalOf(f) - f[d] + g[d]
  BY <1>1, <1>2, <1>3, TotalChange
<1> QED BY <1>4, <1>5, <1>6

\* A call that adds to a deposit no more than it moves to the contract, but
\* for extra, loses no more than extra.
LEMMA EffectLoses ==
    ASSUME LockAssumption, NEW s \in LockState, NEW d \in Deposits,
           NEW t, NEW amount \in Int, NEW fee \in Int, NEW n \in Int, NEW extra \in Int,
           Effect(s, t, d, amount, fee, n),
           (amount + fee) - (s.deposits[d].amount + s.deposits[d].fee) <= n + extra
    PROVE  Missing(t) <= Missing(s) + extra
<1>1. /\ t \in LockState /\ \A e \in Deposits \ {d} : t.deposits[e] = s.deposits[e]
      /\ t.deposits[d].amount = amount /\ t.deposits[d].fee = fee
      /\ t.glm[Lock] >= s.glm[Lock] + n
  BY DEF Effect
<1>2. Held(s) \in Int /\ Held(t) = Held(s) - (s.deposits[d].amount + s.deposits[d].fee)
                                           + (t.deposits[d].amount + t.deposits[d].fee)
  BY <1>1, HeldChange
<1>3. s.deposits[d].amount \in Int /\ s.deposits[d].fee \in Int
      /\ s.glm[Lock] \in Int /\ t.glm[Lock] \in Int
  BY <1>1 DEF LockState, Deposit, LockAssumption
<1> QED BY <1>1, <1>2, <1>3 DEF Missing

\* A state that a call leads to.
CallTo(s, t) == t \in LockState /\ (Missing(t) <= Missing(s) \/ FeeIsLost(s, t))

LEMMA MissingIsInt ==
    ASSUME LockAssumption, NEW s \in LockState, NEW d \in Deposits
    PROVE  Missing(s) \in Int
<1>1. Held(s) \in Int
  BY HeldChange
<1>2. s.glm[Lock] \in Int
  BY DEF LockState, LockAssumption
<1> QED BY <1>1, <1>2 DEF Missing

LEMMA NothingIsLost ==
    ASSUME LockAssumption, NEW s \in LockState
    PROVE  CallTo(s, s)
<1>1. Held(s) \in Int
  <2> DEFINE f == [e \in Deposits |-> s.deposits[e].amount + s.deposits[e].fee]
  <2>1. Held(s) = TotalOf(f)
    BY Zenon DEF Held, Total, TotalOf
  <2>2. Summable(f, Deposits) /\ \A d \in Deposits : f[d] >= 0
    BY DEF Summable, LockState, Deposit
  <2>3. IsFiniteSet(Deposits)
    BY DEF LockAssumption
  <2> HIDE DEF f
  <2> QED BY <2>1, <2>2, <2>3, TotalOfNats
<1>2. s.glm[Lock] \in Int
  BY DEF LockState, LockAssumption
<1> QED BY <1>1, <1>2 DEF CallTo, Missing

LEMMA CreateCall ==
    ASSUME LockAssumption, NEW s \in LockState, NEW d \in Deposits, NEW spender \in Accounts,
           NEW amount \in Nat, NEW fee \in Nat, NEW validTo \in 0..MaxTime,
           NEW caller, CanCreate(s, caller, d, spender, amount, fee)
    PROVE  CallTo(s, Created(s, d, spender, amount, fee, validTo))
<1> DEFINE t == Created(s, d, spender, amount, fee, validTo)
<1>1. Effect(s, t, d, amount, fee, amount + fee) /\ s.deposits[d].amount = 0
  BY CreatedEffect
<1>2. s.deposits[d].fee \in Nat /\ Missing(s) \in Int
  BY MissingIsInt DEF LockState, Deposit
<1> HIDE DEF t
<1>3. Missing(t) <= Missing(s) + 0
  BY <1>1, <1>2, EffectLoses
<1> QED BY <1>1, <1>2, <1>3 DEF CallTo, Effect, t

LEMMA ExtendCall ==
    ASSUME LockAssumption, NEW s \in LockState, NEW d \in Deposits,
           NEW amount \in Nat, NEW fee \in Nat, NEW validTo \in 0..MaxTime,
           NEW caller, CanExtend(s, caller, d, amount, fee, validTo)
    PROVE  CallTo(s, Extended(s, d, amount, fee, validTo))
<1> DEFINE t == Extended(s, d, amount, fee, validTo)
           dep == s.deposits[d]
<1>1. Effect(s, t, d, dep.amount + amount, dep.fee + fee, amount + fee)
  BY ExtendedEffect
<1>2. dep.amount \in Nat /\ dep.fee \in Nat /\ Missing(s) \in Int
  BY MissingIsInt DEF LockState, Deposit
<1> HIDE DEF t
<1>3. Missing(t) <= Missing(s) + 0
  BY <1>1, <1>2, EffectLoses
<1> QED BY <1>1, <1>2, <1>3 DEF CallTo, Effect, t

\* A close loses the fee of the deposit.
LEMMA CloseLoses ==
    ASSUME LockAssumption, NEW s \in LockState, NEW d \in Deposits,
           NEW caller \in Accounts, CanClose(s, caller, d)
    PROVE  /\ Closed(s, d) \in LockState
           /\ Closed(s, d).deposits[d].amount = 0 /\ Closed(s, d).deposits[d].fee = 0
           /\ Missing(Closed(s, d)) <= Missing(s) + s.deposits[d].fee
<1> DEFINE dep == s.deposits[d]
           n == -(dep.amount + 2 * dep.fee)
<1>1. Effect(s, Closed(s, d), d, 0, 0, n)
  BY ClosedEffect
<1>2. dep.amount \in Nat /\ dep.fee \in Nat
  BY DEF LockState, Deposit
<1>3. n \in Int /\ (0 + 0) - (dep.amount + dep.fee) <= n + dep.fee
  BY <1>2
<1> HIDE DEF n
<1>4. Missing(Closed(s, d)) <= Missing(s) + dep.fee
  BY <1>1, <1>2, <1>3, EffectLoses
<1> QED BY <1>1, <1>4 DEF Effect

LEMMA CloseCall ==
    ASSUME LockAssumption, NEW s \in LockState, NEW d \in Deposits,
           NEW caller \in Accounts, CanClose(s, caller, d)
    PROVE  CallTo(s, Closed(s, d))
<1>1. /\ Closed(s, d) \in LockState
      /\ Closed(s, d).deposits[d].amount = 0 /\ Closed(s, d).deposits[d].fee = 0
      /\ Missing(Closed(s, d)) <= Missing(s) + s.deposits[d].fee
  BY CloseLoses
<1>2. s.deposits[d].fee \in Nat /\ Missing(s) \in Int
  BY MissingIsInt DEF LockState, Deposit
<1>3. CASE s.deposits[d].fee > 0
  BY <1>1, <1>3 DEF CallTo, FeeIsLost
<1>4. CASE s.deposits[d].fee = 0
  BY <1>1, <1>2, <1>4 DEF CallTo
<1> QED BY <1>2, <1>3, <1>4

LEMMA TerminateCall ==
    ASSUME LockAssumption, NEW s \in LockState, NEW d \in Deposits,
           NEW caller, CanTerminate(s, caller, d)
    PROVE  CallTo(s, Terminated(s, d))
<1> DEFINE dep == s.deposits[d]
           n == -(dep.amount + dep.fee)
<1>1. Effect(s, Terminated(s, d), d, 0, 0, n)
  BY TerminatedEffect
<1>2. dep.amount \in Nat /\ dep.fee \in Nat /\ Missing(s) \in Int
  BY MissingIsInt DEF LockState, Deposit
<1>3. n \in Int /\ (0 + 0) - (dep.amount + dep.fee) <= n + 0
  BY <1>2
<1> HIDE DEF n
<1>4. Missing(Terminated(s, d)) <= Missing(s) + 0
  BY <1>1, <1>3, EffectLoses
<1> QED BY <1>1, <1>2, <1>4 DEF CallTo, Effect

\* A payment loses nothing, and leaves the fee.
LEMMA PayCall ==
    ASSUME LockAssumption, NEW s \in LockState, NEW d \in Deposits, NEW caller,
           NEW payments, IsPayment(payments), CanPay(s, caller, d, payments)
    PROVE  /\ PaidOut(s, d, payments) \in LockState
           /\ PaidOut(s, d, payments).deposits[d].fee = s.deposits[d].fee
           /\ Missing(PaidOut(s, d, payments)) <= Missing(s)
<1> DEFINE dep == s.deposits[d]
           n == Total(payments)
           t == PaidOut(s, d, payments)
<1>1. Effect(s, t, d, dep.amount - n, dep.fee, -n)
  BY PaidOutEffect
<1>2. dep.amount \in Nat /\ dep.fee \in Nat /\ n \in Nat /\ Missing(s) \in Int
  BY TotalIsNat, MissingIsInt DEF LockState, Deposit
<1> HIDE DEF n, t
<1>3. dep.amount - n \in Int /\ -n \in Int
      /\ ((dep.amount - n) + dep.fee) - (dep.amount + dep.fee) <= -n + 0
  BY <1>2
<1>4. Missing(t) <= Missing(s) + 0
  BY <1>1, <1>2, <1>3, EffectLoses
<1> QED BY <1>1, <1>2, <1>4 DEF Effect, t

----------------------------------------------------------------------------
(* What a row pays.                                                        *)

LEMMA ImageIsFinite ==
    ASSUME NEW S, IsFiniteSet(S), NEW f
    PROVE  IsFiniteSet({f[x] : x \in S})
<1> DEFINE T == {f[x] : x \in S}
           g == [x \in S |-> f[x]]
<1>1. g \in [S -> T]
  OBVIOUS
<1>2. \A y \in T : \E x \in S : g[x] = y
  OBVIOUS
<1> HIDE DEF T, g
<1>3. g \in Surjection(S, T)
  BY <1>1, <1>2 DEF Surjection
<1> QED BY <1>3, FS_Surjection DEF T

LEMMA TablesAreFinite ==
    ASSUME Typed
    PROVE  /\ IsFiniteSet(DOMAIN transfer) /\ IsFiniteSet(DOMAIN copy) /\ IsFiniteSet(DOMAIN tx)
           /\ DOMAIN transfer \subseteq Nat /\ DOMAIN copy \subseteq Nat /\ DOMAIN tx \subseteq Nat
<1>1. /\ DOMAIN transfer = 1..Len(transfer) /\ Len(transfer) \in Nat
      /\ DOMAIN copy = 1..Len(copy) /\ Len(copy) \in Nat
      /\ DOMAIN tx = 1..Len(tx) /\ Len(tx) \in Nat
  BY DEF Typed
<1>2. \A n \in Nat : IsFiniteSet(1..n) /\ 1..n \subseteq Nat
  BY FS_Interval
<1> QED BY <1>1, <1>2

LEMMA AmountIsNat ==
    ASSUME Typed, NEW ids \in SUBSET DOMAIN transfer
    PROVE  Amount(ids) \in Nat
<1> DEFINE f == [i \in ids |-> transfer[i].amount]
<1>1. IsFiniteSet(ids)
  BY TablesAreFinite, FS_Subset
<1>2. \A i \in ids : transfer[i].amount \in Nat
  <2>1. \A i \in ids : transfer[i] \in Transfer
    BY DEF Typed
  <2> QED BY <2>1 DEF Transfer
<1>3. DOMAIN f = ids /\ Summable(f, ids) /\ \A i \in ids : f[i] >= 0
  BY <1>2 DEF Summable
<1> HIDE DEF f
<1>4. Total(f) \in Nat
  BY <1>1, <1>3, TotalIsNat DEF IsPayment
<1> QED BY <1>4 DEF Amount, f

LEMMA SumsTyped ==
    ASSUME Typed, NEW ids \in SUBSET DOMAIN transfer
    PROVE  /\ IsFiniteSet(DOMAIN SumsOf(ids))
           /\ SumsOf(ids) \in [DOMAIN SumsOf(ids) -> Nat]
<1> DEFINE to == [i \in DOMAIN transfer |-> transfer[i].to]
           R == {to[i] : i \in ids}
<1>1. IsFiniteSet(ids)
  BY TablesAreFinite, FS_Subset
<1>2. IsFiniteSet(R)
  <2> HIDE DEF to
  <2> QED BY <1>1, ImageIsFinite
<1>3. R = {transfer[i].to : i \in ids}
  OBVIOUS
<1>4. \A a \in R : Amount({i \in ids : transfer[i].to = a}) \in Nat
  BY AmountIsNat
<1> HIDE DEF R
<1>5. SumsOf(ids) = [a \in R |-> Amount({i \in ids : transfer[i].to = a})]
  BY <1>3 DEF SumsOf
<1> QED BY <1>2, <1>4, <1>5

LEMMA PaymentsTyped ==
    ASSUME GatheringAssumption, Typed, RowPaysItsTransfers, NEW r \in DOMAIN tx
    PROVE  IsPayment(PaymentsOf(tx[r]))
<1> DEFINE sums == SumsOf(tx[r].of)
           payments == PaymentsOf(tx[r])
<1>1. tx[r].of \in SUBSET DOMAIN transfer
  BY DEF RowPaysItsTransfers, TransfersOf
<1>2. IsFiniteSet(DOMAIN sums) /\ sums \in [DOMAIN sums -> Nat]
  BY <1>1, SumsTyped
<1>3. payments = sums \/ payments = [a \in DOMAIN sums |-> sums[a] % MaxPacked]
  BY DEF PaymentsOf
<1>4. MaxPacked \in Nat \ {0}
  BY DEF GatheringAssumption
<1> HIDE DEF sums, payments
<1>5. \A n \in Nat : n % MaxPacked \in Nat
  BY <1>4
<1>6. DOMAIN payments = DOMAIN sums /\ payments \in [DOMAIN sums -> Nat]
  BY <1>2, <1>3, <1>5
<1>7. \A a \in DOMAIN sums : payments[a] >= 0
  BY <1>6
<1> QED BY <1>2, <1>6, <1>7 DEF IsPayment, Summable, payments

----------------------------------------------------------------------------
(* The types.                                                              *)

LockMethods == {"LOCK.single", "LOCK.multi", "LOCK.close", "LOCK.create", "LOCK.terminate"}

\* A row for the contract names a deposit.
NamesDeposit(row) ==
    /\ row.method \in LockMethods => row.deposit \in Deposits
    /\ row.validTo \in 0..MaxTime
DepositRows == \A r \in DOMAIN tx : NamesDeposit(tx[r])

ChainTyped ==
    /\ lock \in LockState
    /\ now \in 0..MaxTime
    /\ approved \in 0..MaximumAllowance
    /\ pc \in {"down", "process", "gather", "allowance"}

TypeInv == GatheringInv /\ DepositRows /\ ChainTyped

\* What a step does to the table tx: nothing, a status, or a row more.
TxStep(new) ==
    \/ UNCHANGED tx
    \/ \E r \in DOMAIN tx, status \in {"sent", "failed", "confirmed", "reverted"} :
            tx' = [tx EXCEPT ![r].status = status]
    \/ \E row \in new : Queue(row)

LEMMA DepositRowsKept ==
    ASSUME Typed, DepositRows, NEW new, new \subseteq TxRow,
           \A row \in new : NamesDeposit(row), TxStep(new)
    PROVE  DepositRows'
<1>1. CASE UNCHANGED tx
  BY <1>1 DEF DepositRows, NamesDeposit
<1>2. ASSUME NEW r \in DOMAIN tx, NEW status, tx' = [tx EXCEPT ![r].status = status]
      PROVE  DepositRows'
  <2>1. DOMAIN tx' = DOMAIN tx
    BY <1>2
  <2>2. \A q \in DOMAIN tx : /\ tx'[q].method = tx[q].method
                            /\ tx'[q].deposit = tx[q].deposit
                            /\ tx'[q].validTo = tx[q].validTo
    BY <1>2 DEF Typed, TxRow
  <2> QED BY <2>1, <2>2 DEF DepositRows, NamesDeposit
<1>3. ASSUME NEW row \in new, Queue(row) PROVE DepositRows'
  <2>1. /\ DOMAIN tx' = DOMAIN tx \cup {Len(tx) + 1}
        /\ tx'[Len(tx) + 1] = row /\ \A q \in DOMAIN tx : tx'[q] = tx[q]
    BY <1>3, AppendIndices DEF Typed, Queue
  <2> QED BY <1>3, <2>1 DEF DepositRows, NamesDeposit
<1> QED BY <1>1, <1>2, <1>3 DEF TxStep

\* The rows that the actions queue.
NewRows ==
    {CreateDeposit(d, amount, fee, validTo) :
        d \in Deposits, amount \in LockAmounts, fee \in Fees, validTo \in 0..MaxTime}
    \cup {TerminateOfDeposit(d) : d \in Deposits}
    \cup {CloseOfDeposit(i, d) : i \in Nat, d \in Deposits}
    \cup {EthTransfer(ids) : ids \in SUBSET Nat}
    \cup {BatchRow(ids, d) : ids \in SUBSET Nat, d \in Deposits \cup {NoDeposit}}
    \cup {Erc20Approve}

LEMMA NewRowsNameDeposit ==
    ASSUME GatheringAssumption, LockAssumption
    PROVE  /\ NewRows \subseteq TxRow
           /\ \A row \in NewRows : NamesDeposit(row)
<1> USE DEF NamesDeposit, LockMethods, Row
<1>0. 0 \in 0..MaxTime
  BY DEF LockAssumption
<1>1. \A d \in Deposits, amount \in LockAmounts, fee \in Fees, validTo \in 0..MaxTime :
        /\ CreateDeposit(d, amount, fee, validTo) \in TxRow
        /\ NamesDeposit(CreateDeposit(d, amount, fee, validTo))
  <2> TAKE d \in Deposits, amount \in LockAmounts, fee \in Fees, validTo \in 0..MaxTime
  <2>1. amount \in Nat /\ fee \in Nat /\ validTo \in Nat
    BY DEF LockAssumption
  <2> QED BY <2>1 DEF CreateDeposit, TxRow, Methods
<1>2. \A d \in Deposits : TerminateOfDeposit(d) \in TxRow /\ NamesDeposit(TerminateOfDeposit(d))
  BY <1>0 DEF TerminateOfDeposit, TxRow, Methods
<1>3. \A i \in Nat, d \in Deposits :
        CloseOfDeposit(i, d) \in TxRow /\ NamesDeposit(CloseOfDeposit(i, d))
  BY <1>0 DEF CloseOfDeposit, TxRow, Methods
<1>4. \A ids \in SUBSET Nat : EthTransfer(ids) \in TxRow /\ NamesDeposit(EthTransfer(ids))
  BY <1>0 DEF EthTransfer, TxRow, Methods
<1>5. \A ids \in SUBSET Nat, d \in Deposits \cup {NoDeposit} :
        BatchRow(ids, d) \in TxRow /\ NamesDeposit(BatchRow(ids, d))
  <2> TAKE ids \in SUBSET Nat, d \in Deposits \cup {NoDeposit}
  <2>1. BatchRow(ids, d) \in TxRow /\ BatchRow(ids, d).validTo \in 0..MaxTime
    BY <1>0, BatchRowTyped DEF BatchRow, Erc20Transfer, MultiTransfer, DepositTransfer,
       DepositMultiTransfer
  <2>2. CASE d = NoDeposit
    <3>1. BatchRow(ids, d) = Erc20Transfer(ids) \/ BatchRow(ids, d) = MultiTransfer(ids)
      BY <2>2 DEF BatchRow
    <3>2. Erc20Transfer(ids).method = "ERC20.transfer" /\ MultiTransfer(ids).method = "MULTI"
      BY DEF Erc20Transfer, MultiTransfer
    <3> QED BY <2>1, <3>1, <3>2
  <2>3. CASE d # NoDeposit
    <3>1. BatchRow(ids, d).deposit = d
      BY <2>3 DEF BatchRow, DepositTransfer, DepositMultiTransfer
    <3> QED BY <2>1, <2>3, <3>1
  <2> QED BY <2>2, <2>3
<1>6. Erc20Approve \in TxRow /\ NamesDeposit(Erc20Approve)
  BY <1>0 DEF Erc20Approve, TxRow, Methods
<1> QED BY <1>1, <1>2, <1>3, <1>4, <1>5, <1>6 DEF NewRows

\* The sender takes a row of the table.
LEMMA RowOfSender ==
    ASSUME Typed, Sending
    PROVE  Min(Unresolved) \in DOMAIN tx /\ Min(Unresolved) \in Unresolved
<1>1. Unresolved \subseteq DOMAIN tx /\ Unresolved # {}
  BY DEF Sending, Unresolved
<1>2. Unresolved \in SUBSET Nat
  BY <1>1, TablesAreFinite
<1> QED BY <1>1, <1>2, SmallestNumber

\* The row that an action queues.
PaysNobody(row) == row.of = {} /\ ~row.finish /\ row.method \notin {"MULTI", "LOCK.multi"}
RowQueued(row) ==
    \/ PaysNobody(row) /\ UNCHANGED transfer
    \/ \E i \in Special : CloseGetsRow(i) /\ row = CloseOfDeposit(i, copy[i].deposit)
    \/ \E g \in groups : GatherGas(g) /\ row = EthTransfer(g)
    \/ GatherBatch /\ row = BatchRow(BatchIds, order.deposit)
QueuedRows == {row \in NewRows : RowQueued(row)}

LEMMA TxSteps ==
    ASSUME GatheringAssumption, LockAssumption, GatheringInv, Next
    PROVE  TxStep(QueuedRows)
<1>0. Typed
  BY DEF GatheringInv
<1>1. CASE Skip \/ Send \/ Confirm
  <2> DEFINE r == Min(Unresolved)
  <2>1. r \in DOMAIN tx
    BY <1>0, <1>1, RowOfSender DEF Skip, Send, Confirm
  <2>2. \E status \in {"sent", "failed", "confirmed", "reverted"} :
            tx' = [tx EXCEPT ![r].status = status]
    <3> HIDE DEF r
    <3>1. CASE Skip
      BY <3>1 DEF Skip, r
    <3>2. CASE Send
      BY <3>2 DEF Send, r
    <3>3. CASE Confirm
      <4>1. tx' = [tx EXCEPT ![r].status = IF Succeeds(tx[r]) THEN "confirmed" ELSE "reverted"]
        BY <3>3 DEF Confirm, r
      <4> QED BY <4>1
    <3> QED BY <1>1, <3>1, <3>2, <3>3
  <2> HIDE DEF r
  <2> QED BY <2>1, <2>2 DEF TxStep
<1>2. CASE Service /\ ~(Skip \/ Send \/ Confirm)
  <2> USE DEF dbVars
  <2>1. ASSUME NEW i \in Special, CloseGetsRow(i) PROVE TxStep(QueuedRows)
    <3>1. i \in DOMAIN copy /\ copy[i] \in Transfer
      BY <1>0 DEF Special, Typed
    <3>2. i \in Nat /\ copy[i].deposit \in Deposits
      BY <1>0, <2>1, <3>1, TablesAreFinite DEF Transfer, CloseGetsRow, IsMarker
    <3>3. CloseOfDeposit(i, copy[i].deposit) \in QueuedRows
      BY <2>1, <3>2 DEF NewRows, QueuedRows, RowQueued
    <3> QED BY <2>1, <3>3 DEF CloseGetsRow, TxStep
  <2>2. ASSUME NEW i \in Special, NoReceiver(i) PROVE TxStep(QueuedRows)
    BY <2>2 DEF NoReceiver, TxStep
  <2>3. ASSUME NEW g \in groups, GatherGas(g) PROVE TxStep(QueuedRows)
    <3>1. EthTransfer(g) \in QueuedRows
      BY <1>0, <2>3 DEF NewRows, Typed, QueuedRows, RowQueued
    <3> QED BY <2>3, <3>1 DEF GatherGas, TxStep
  <2>4. CASE GatherBatch
    <3>1. order \in Order /\ Batch \subseteq order.left
      BY <1>0 DEF Typed, Batch
    <3>2. BatchIds \in SUBSET Nat /\ order.deposit \in Deposits \cup {NoDeposit}
      BY <3>1 DEF BatchIds, Order
    <3>3. BatchRow(BatchIds, order.deposit) \in QueuedRows
      BY <2>4, <3>2 DEF NewRows, QueuedRows, RowQueued
    <3> QED BY <2>4, <3>3 DEF GatherBatch, TxStep
  <2>5. CASE ProcessAllowance
    <3>1. Erc20Approve \in QueuedRows
      <4>1. PaysNobody(Erc20Approve) /\ UNCHANGED transfer
        BY <2>5 DEF ProcessAllowance, PaysNobody, Erc20Approve, Row
      <4> QED BY <4>1 DEF NewRows, QueuedRows, RowQueued
    <3>2. Queue(Erc20Approve) \/ UNCHANGED tx
      BY <2>5 DEF ProcessAllowance
    <3> QED BY <3>1, <3>2 DEF TxStep
  <2>6. CASE GatherPre \/ BatchFails \/ GatherEnds
    BY <2>6 DEF GatherPre, BatchFails, GatherEnds, TxStep
  <2>7. CASE \E d \in Deposits \cup {NoDeposit} : PickOrder(d)
    BY <2>7 DEF PickOrder, TxStep
  <2> QED BY <1>2, <2>1, <2>2, <2>3, <2>4, <2>5, <2>6, <2>7 DEF Service
<1>3. CASE Users
  <2>1. todo.deposits \subseteq Deposits
    BY <1>0 DEF Typed, Workload
  <2>2. ASSUME NEW d \in Deposits, CloseDeposit(d) \/ MakeDeposit(d) \/ TerminateDeposit(d)
        PROVE  TxStep(QueuedRows)
    <3>1. CASE CloseDeposit(d)
      BY <3>1 DEF CloseDeposit, TxStep
    <3>2. CASE MakeDeposit(d)
      <4>1. PICK amount \in LockAmounts, fee \in Fees, validTo \in 0..MaxTime :
                Queue(CreateDeposit(d, amount, fee, validTo))
        BY <3>2 DEF MakeDeposit
      <4>2. PaysNobody(CreateDeposit(d, amount, fee, validTo)) /\ UNCHANGED transfer
        BY <3>2 DEF MakeDeposit, PaysNobody, CreateDeposit, Row
      <4>3. CreateDeposit(d, amount, fee, validTo) \in QueuedRows
        BY <4>2 DEF NewRows, QueuedRows, RowQueued
      <4> QED BY <4>1, <4>3 DEF TxStep
    <3>3. CASE TerminateDeposit(d)
      <4>1. PaysNobody(TerminateOfDeposit(d)) /\ UNCHANGED transfer
        BY <3>3 DEF TerminateDeposit, PaysNobody, TerminateOfDeposit, Row
      <4>2. TerminateOfDeposit(d) \in QueuedRows
        BY <4>1 DEF NewRows, QueuedRows, RowQueued
      <4> QED BY <3>3, <4>2 DEF TerminateDeposit, TxStep
    <3> QED BY <2>2, <3>1, <3>2, <3>3
  <2>3. CASE NewTransfer \/ CliTransfer \/ CliPaymentId \/ Refused
    BY <2>3 DEF NewTransfer, CliTransfer, CliPaymentId, Refused, TxStep, dbVars
  <2> QED BY <1>3, <2>1, <2>2, <2>3 DEF Users
<1>4. CASE Others
  BY <1>4 DEF Others, TxStep, dbVars
<1>5. CASE Start \/ Finish \/ Crash
  BY <1>5 DEF Start, Finish, Crash, TxStep, dbVars
<1> QED BY <1>1, <1>2, <1>3, <1>4, <1>5 DEF Next

\* What the sender and the others do with the contract.
LEMMA LockCalls ==
    ASSUME GatheringAssumption, LockAssumption, TypeInv, Next
    PROVE  /\ lock' \in LockState /\ now' \in 0..MaxTime
           /\ CallTo(lock, lock')
<1>0. Typed /\ RowPaysItsTransfers /\ lock \in LockState /\ now \in 0..MaxTime /\ Me \in Accounts
      /\ DepositRows
  BY DEF TypeInv, GatheringInv, ChainTyped, GatheringAssumption
<1>1. CASE UNCHANGED lockVars
  BY <1>0, <1>1, NothingIsLost DEF lockVars
<1>2. CASE Confirm
  <2> DEFINE r == Min(Unresolved)
             row == tx[r]
             payments == PaymentsOf(row)
             d == row.deposit
  <2>1. r \in DOMAIN tx
    BY <1>0, <1>2, RowOfSender DEF Confirm
  <2>2. row \in TxRow /\ NamesDeposit(row)
    BY <1>0, <2>1 DEF Typed, DepositRows
  <2>3. IsPayment(payments)
    BY <1>0, <2>1, PaymentsTyped
  <2>4. now' = now /\ lock' = IF Succeeds(row) THEN LockAfter(row) ELSE lock
    BY <1>2 DEF Confirm
  <2> HIDE DEF row, payments, d
  <2>5. ASSUME Succeeds(row) PROVE CallTo(lock, LockAfter(row))
    <3>1. CASE row.method \in {"LOCK.single", "LOCK.multi"}
      <4>1. d \in Deposits
        BY <2>2, <3>1 DEF NamesDeposit, LockMethods, d
      <4> DEFINE mid == PaidOut(lock, d, payments)
      <4>2. CanPay(lock, Me, d, payments)
        BY <2>5, <3>1 DEF Succeeds, CanPayAndClose, d, payments
      <4>3. /\ mid \in LockState /\ Missing(mid) <= Missing(lock)
            /\ mid.deposits[d].fee = lock.deposits[d].fee
        BY <1>0, <2>3, <4>1, <4>2, PayCall
      <4>4. CASE row.finish
        <5>1. CanClose(mid, Me, d) /\ LockAfter(row) = Closed(mid, d)
          BY <2>5, <3>1, <4>4 DEF Succeeds, CanPayAndClose, LockAfter, PaidAndClosed, d, payments
        <5> DEFINE t == Closed(mid, d)
        <5> HIDE DEF mid, t
        <5>2. /\ t \in LockState /\ t.deposits[d].amount = 0 /\ t.deposits[d].fee = 0
              /\ Missing(t) <= Missing(mid) + mid.deposits[d].fee
          BY <1>0, <4>1, <4>3, <5>1, CloseLoses DEF t
        <5>3. /\ lock.deposits[d].fee \in Nat /\ Missing(lock) \in Int
              /\ Missing(mid) \in Int /\ Missing(t) \in Int
          BY <1>0, <4>1, <4>3, <5>2, MissingIsInt DEF LockState, Deposit
        <5>4. Missing(t) <= Missing(lock) + lock.deposits[d].fee
          BY <4>3, <5>2, <5>3
        <5>5. CASE lock.deposits[d].fee > 0
          BY <4>1, <5>1, <5>2, <5>4, <5>5 DEF CallTo, FeeIsLost, t
        <5>6. CASE lock.deposits[d].fee = 0
          BY <5>1, <5>2, <5>3, <5>4, <5>6 DEF CallTo, t
        <5> QED BY <5>3, <5>5, <5>6
      <4>5. CASE ~row.finish
        <5>1. LockAfter(row) = mid
          BY <3>1, <4>5 DEF LockAfter, d, payments
        <5> QED BY <4>3, <5>1 DEF CallTo
      <4> QED BY <4>4, <4>5
    <3>2. CASE row.method = "LOCK.close"
      <4>1. d \in Deposits /\ CanClose(lock, Me, d) /\ LockAfter(row) = Closed(lock, d)
        BY <2>2, <2>5, <3>2 DEF NamesDeposit, LockMethods, Succeeds, LockAfter, d
      <4> QED BY <1>0, <4>1, CloseCall
    <3>3. CASE row.method = "LOCK.create"
      <4>1. /\ d \in Deposits /\ CanCreate(lock, Me, d, SpenderOf[d], row.amount, row.fee)
            /\ LockAfter(row) =
                Created(lock, d, SpenderOf[d], row.amount, row.fee, row.validTo)
        BY <2>2, <2>5, <3>3 DEF NamesDeposit, LockMethods, Succeeds, LockAfter, d
      <4>2. /\ row.amount \in Nat /\ row.fee \in Nat /\ row.validTo \in 0..MaxTime
            /\ SpenderOf[d] \in Accounts
        BY <2>2, <4>1 DEF TxRow, NamesDeposit, LockAssumption
      <4> QED BY <1>0, <4>1, <4>2, CreateCall
    <3>4. CASE row.method = "LOCK.terminate"
      <4>1. d \in Deposits /\ CanTerminate(lock, Me, d) /\ LockAfter(row) = Terminated(lock, d)
        BY <2>2, <2>5, <3>4 DEF NamesDeposit, LockMethods, Succeeds, LockAfter, d
      <4> QED BY <1>0, <4>1, TerminateCall
    <3>5. CASE row.method \notin LockMethods
      <4>1. LockAfter(row) = lock
        BY <3>5 DEF LockAfter, LockMethods
      <4> QED BY <1>0, <4>1, NothingIsLost
    <3> QED BY <3>1, <3>2, <3>3, <3>4, <3>5 DEF LockMethods
  <2>6. CallTo(lock, lock)
    BY <1>0, NothingIsLost
  <2> QED BY <1>0, <2>4, <2>5, <2>6 DEF CallTo
<1>3. ASSUME NEW d \in Deposits, OthersCreate(d) \/ OthersExtend(d) \/ OthersTerminate(d)
      PROVE  /\ lock' \in LockState /\ now' \in 0..MaxTime
             /\ CallTo(lock, lock')
  <2>1. CASE OthersCreate(d)
    <3>1. PICK amount \in LockAmounts, fee \in Fees, validTo \in 0..MaxTime :
            /\ CanCreate(lock, FunderOf[d], d, SpenderOf[d], amount, fee)
            /\ lock' = Created(lock, d, SpenderOf[d], amount, fee, validTo)
            /\ now' = now
      BY <2>1 DEF OthersCreate
    <3>2. amount \in Nat /\ fee \in Nat /\ SpenderOf[d] \in Accounts
      BY DEF LockAssumption
    <3>3. CallTo(lock, lock')
      BY <1>0, <3>1, <3>2, CreateCall
    <3> QED BY <1>0, <3>1, <3>3 DEF CallTo
  <2>2. CASE OthersExtend(d)
    <3>1. PICK amount \in LockAmounts, fee \in Fees, validTo \in 0..MaxTime :
            /\ CanExtend(lock, FunderOf[d], d, amount, fee, validTo)
            /\ lock' = Extended(lock, d, amount, fee, validTo)
            /\ now' = now
      BY <2>2 DEF OthersExtend
    <3>2. amount \in Nat /\ fee \in Nat
      BY DEF LockAssumption
    <3>3. CallTo(lock, lock')
      BY <1>0, <3>1, <3>2, ExtendCall
    <3> QED BY <1>0, <3>1, <3>3 DEF CallTo
  <2>3. CASE OthersTerminate(d)
    <3>1. CallTo(lock, lock') /\ now' = now
      BY <1>0, <2>3, TerminateCall DEF OthersTerminate
    <3> QED BY <1>0, <3>1 DEF CallTo
  <2> QED BY <1>3, <2>1, <2>2, <2>3
<1>4. CASE Tick
  <2>1. now' \in 0..MaxTime
    BY <1>0, <1>4 DEF Tick, LockAssumption
  <2> QED BY <1>0, <1>4, <2>1, NothingIsLost DEF Tick
<1>5. CASE Others
  <2>1. todo.deposits \subseteq Deposits
    BY <1>0 DEF Typed, Workload
  <2> QED BY <1>3, <1>4, <1>5, <2>1 DEF Others
<1>6. CASE Service \/ Skip
  <2>1. Confirm \/ UNCHANGED lockVars
    BY <1>6 DEF Service, Skip, Send, GatherPre, CloseGetsRow, NoReceiver, GatherGas,
         PickOrder, GatherBatch, BatchFails, GatherEnds, ProcessAllowance
  <2> QED BY <1>1, <1>2, <2>1
<1>7. CASE Users
  BY <1>1, <1>7 DEF Users, NewTransfer, CliTransfer, CliPaymentId, Refused, CloseDeposit,
       MakeDeposit, TerminateDeposit
<1>8. CASE Start \/ Finish \/ Crash
  BY <1>1, <1>8 DEF Start, Finish, Crash
<1> QED BY <1>5, <1>6, <1>7, <1>8 DEF Next

LEMMA ServiceState ==
    ASSUME GatheringAssumption, ChainTyped, Next
    PROVE  approved' \in 0..MaximumAllowance /\ pc' \in {"down", "process", "gather", "allowance"}
<1>1. approved' \in {approved, MaximumAllowance}
  <2>1. CASE Confirm
    BY <2>1 DEF Confirm
  <2>2. CASE UNCHANGED approved
    BY <2>2
  <2>3. Confirm \/ UNCHANGED approved
    BY DEF Next, Service, Users, Others, Skip, Send, GatherPre, CloseGetsRow, NoReceiver,
        GatherGas, PickOrder, GatherBatch, BatchFails, GatherEnds, ProcessAllowance, NewTransfer,
        CliTransfer, CliPaymentId, Refused, CloseDeposit, MakeDeposit, TerminateDeposit, Start,
        Finish, Crash
  <2> QED BY <2>1, <2>2, <2>3
<1>2. pc' \in {pc, "down", "process", "gather", "allowance"}
  BY DEF Next, Service, Users, Others, Skip, Send, Confirm, GatherPre, CloseGetsRow,
      NoReceiver, GatherGas, PickOrder, GatherBatch, BatchFails, GatherEnds, ProcessAllowance,
      NewTransfer, CliTransfer, CliPaymentId, Refused, CloseDeposit, MakeDeposit,
      TerminateDeposit, Start, Finish, Crash
<1>3. MaximumAllowance \in 0..MaximumAllowance
  BY DEF MaximumAllowance
<1> QED BY <1>1, <1>2, <1>3 DEF ChainTyped

LEMMA TypeInit ==
    ASSUME GatheringAssumption, LockAssumption, Init
    PROVE  TypeInv
<1>1. lock \in LockState
  <2>1. NoDepositYet \in Deposit
    BY DEF NoDepositYet, Deposit, LockAssumption
  <2>2. InitialGlm \in Nat
    BY DEF LockAssumption
  <2> QED BY <2>1, <2>2 DEF Init, LockInit, LockState
<1>2. ChainTyped
  BY <1>1 DEF ChainTyped, Init, LockInit, GatheringAssumption, LockAssumption
<1>3. DepositRows
  BY DEF DepositRows, Init
<1> QED BY <1>2, <1>3, InitHolds DEF TypeInv

LEMMA TypeStep ==
    ASSUME GatheringAssumption, LockAssumption, ~CliWhenUp, TypeInv, [Next]_vars
    PROVE  TypeInv'
<1>1. GatheringInv'
  BY StepHolds DEF TypeInv
<1>2. CASE Next
  <2>1. lock' \in LockState /\ now' \in 0..MaxTime
    BY <1>2, LockCalls
  <2>2. ChainTyped'
    BY <1>2, <2>1, ServiceState DEF TypeInv, ChainTyped
  <2>3. /\ TxStep(QueuedRows) /\ QueuedRows \subseteq TxRow
        /\ \A row \in QueuedRows : NamesDeposit(row)
    BY <1>2, TxSteps, NewRowsNameDeposit DEF TypeInv, QueuedRows
  <2>4. DepositRows'
    BY <2>3, DepositRowsKept DEF TypeInv, GatheringInv
  <2> QED BY <1>1, <2>2, <2>4 DEF TypeInv
<1>3. CASE UNCHANGED vars
  BY <1>1, <1>3 DEF TypeInv, ChainTyped, DepositRows, NamesDeposit, vars, lockVars, dbVars
<1> QED BY <1>2, <1>3

\* With commands given while the service is down, the tables keep their
\* types, the links and groups of a gathering name rows that exist, and the
\* deposits stay numbers, for all accounts, deposits, fees and workloads: no
\* call of the contract takes more than a balance or a deposit has.
THEOREM GatheringTypeCorrect ==
    ASSUME GatheringAssumption, LockAssumption, ~CliWhenUp
    PROVE  Spec => []TypeOK
<1>1. Init => TypeInv
  BY TypeInit
<1>2. TypeInv /\ [Next]_vars => TypeInv'
  BY TypeStep
<1>3. TypeInv => TypeOK
  <2> SUFFICES ASSUME TypeInv PROVE TypeOK
    OBVIOUS
  <2>1. transfer \in Seq(Transfer) /\ tx \in Seq(TxRow)
    BY DEF TypeInv, GatheringInv, Typed
  <2>2. \A i \in DOMAIN transfer : transfer[i].tx \in DOMAIN tx \cup {NoId}
    BY DEF TypeInv, GatheringInv, Links
  <2>3. \A r \in DOMAIN tx : tx[r] \in TxRow /\ tx[r].of \subseteq DOMAIN transfer
    BY <2>1 DEF TypeInv, GatheringInv, RowPaysItsTransfers, TransfersOf
  <2>4. (UNION groups) \cup order.all \subseteq DOMAIN copy
    <3>1. \A g \in groups : g \subseteq DOMAIN copy
      BY DEF TypeInv, GatheringInv, GroupsWait, Groups
    <3>2. order.all \subseteq DOMAIN copy
      BY DEF TypeInv, GatheringInv, GroupsWait
    <3> QED BY <3>1, <3>2
  <2>5. lock.deposits \in [Deposits -> Deposit]
    BY DEF TypeInv, ChainTyped, LockState
  <2> QED BY <2>1, <2>2, <2>3, <2>4, <2>5 DEF TypeOK, TypeInv, ChainTyped, TxRow
<1> QED BY <1>1, <1>2, <1>3, PTL DEF Spec

\* Whoever creates, extends, pays out of, closes or terminates deposits, with
\* whatever fees and in whatever order, the contract loses nothing but the fees
\* of the deposits that are closed: without a close of a deposit with a fee it
\* always has what it owes.
THEOREM ContractLosesOnlyFees ==
    ASSUME GatheringAssumption, LockAssumption, ~CliWhenUp
    PROVE  Spec => OnlyFeesAreLost
<1> DEFINE Loss == Missing(lock') <= Missing(lock) \/ FeeIsLost(lock, lock')
<1>1. Init => TypeInv
  BY TypeInit
<1>2. TypeInv /\ [Next]_vars => TypeInv'
  BY TypeStep
<1>3. TypeInv /\ [Next]_vars => [Loss]_vars
  <2> SUFFICES ASSUME TypeInv, Next PROVE Loss
    OBVIOUS
  <2> QED BY LockCalls DEF CallTo
<1> QED BY <1>1, <1>2, <1>3, PTL DEF Spec, OnlyFeesAreLost

----------------------------------------------------------------------------
(* What a step does to the rows of token_transfer and to their copies.     *)

\* The same payment is asked for.
SameRequest(old, new) ==
    /\ new.to = old.to /\ new.amount = old.amount
    /\ new.deposit = old.deposit /\ new.token = old.token

\* A row is written again: it keeps its request, its flag and its row of tx,
\* and it does not wait again.
Keeps(old, new) ==
    /\ SameRequest(old, new)
    /\ old.finish => new.finish
    /\ old.tx # NoId => new.tx = old.tx
    /\ new.tx = NoId /\ ~new.error => ~old.error

\* The copies, and the copy of a command, ask for what the table asks for.
CopiesFaithful ==
    /\ cli # NoId => cli.row = transfer[cli.id]
    /\ \A i \in DOMAIN copy :
        /\ SameRequest(transfer[i], copy[i])
        /\ copy[i].finish = transfer[i].finish

RowsKept ==
    /\ DOMAIN transfer \subseteq DOMAIN transfer'
    /\ \A i \in DOMAIN transfer : Keeps(transfer[i], transfer'[i])

CopyKept ==
    /\ DOMAIN copy' = DOMAIN copy
    /\ \A i \in DOMAIN copy : Keeps(copy[i], copy'[i]) /\ copy'[i].finish = copy[i].finish

CopyStep ==
    \/ copy' = <<>>
    \/ copy' = transfer /\ UNCHANGED transfer
    \/ CopyKept

\* A new row, and what holds when it is added.
AddedByUser(j) ==
    \E q \in Requests : transfer'[j] = NewRow(q) /\ ~DepositClosed(q.deposit)
AddedByClose(j) ==
    \E d \in Deposits :
        /\ transfer'[j] = CloseMarker(d) /\ ~DepositClosed(d)
        /\ \A i \in DOMAIN transfer : transfer[i].deposit = d => transfer[i].tx # NoId
RowsAdded ==
    /\ \A j \in DOMAIN transfer' \ DOMAIN transfer : AddedByUser(j) \/ AddedByClose(j)
    /\ \A i, j \in DOMAIN transfer' \ DOMAIN transfer : i = j

\* A flag is set by a close only, while nothing is copied.
FlagsKept ==
    \A i \in DOMAIN transfer : transfer'[i].finish = transfer[i].finish \/ copy = <<>>

TablesStep == RowsKept /\ CopyStep /\ RowsAdded /\ FlagsKept

FaithfulInv == GatheringInv /\ CopiesFaithful

LEMMA RowKeepsItself == ASSUME NEW row PROVE Keeps(row, row)
BY DEF Keeps, SameRequest

\* Most steps leave the rows alone.
LEMMA QuietTables ==
    ASSUME CopiesFaithful, UNCHANGED <<transfer, cli>>, copy' = copy \/ copy' = <<>>
    PROVE  TablesStep /\ CopiesFaithful'
<1>1. RowsKept /\ RowsAdded /\ FlagsKept
  BY RowKeepsItself DEF RowsKept, RowsAdded, FlagsKept
<1>2. CopyStep
  BY RowKeepsItself DEF CopyStep, CopyKept
<1> QED BY <1>1, <1>2 DEF TablesStep, CopiesFaithful

\* Nothing is copied and no command is under way: rows change in the table.
LEMMA RowsOfTableChange ==
    ASSUME CopiesFaithful, cli = NoId, cli' = NoId, UNCHANGED copy,
           DOMAIN transfer' = DOMAIN transfer,
           \A i \in DOMAIN copy : i \in DOMAIN transfer,
           \A i \in DOMAIN transfer :
                Keeps(transfer[i], transfer'[i]) /\ transfer'[i].finish = transfer[i].finish
    PROVE  TablesStep /\ CopiesFaithful'
<1>1. RowsKept /\ RowsAdded /\ FlagsKept
  BY DEF RowsKept, RowsAdded, FlagsKept
<1>2. CopyStep
  BY RowKeepsItself DEF CopyStep, CopyKept
<1>3. CopiesFaithful'
  BY DEF CopiesFaithful, Keeps, SameRequest
<1> QED BY <1>1, <1>2, <1>3 DEF TablesStep

LEMMA TablesOfInsert ==
    ASSUME GatheringAssumption, FaithfulInv, Insert, UNCHANGED copy,
           \/ cli = NoId /\ cli' = NoId
           \/ cli' = [id |-> Len(transfer'), row |-> NewRow(Head(todo.requests))],
           Untouched, UNCHANGED tx
    PROVE  TablesStep /\ CopiesFaithful'
<1> DEFINE q == Head(todo.requests)
           n == Len(transfer) + 1
<1>1. transfer \in Seq(Transfer) /\ q \in Requests /\ ~DepositClosed(q.deposit)
  BY DEF Insert, FaithfulInv, GatheringInv, Typed, Workload
<1>2. NewRow(q) \in Transfer
  BY <1>1, NewRowTyped
<1>3. /\ DOMAIN transfer' = DOMAIN transfer \cup {n}
      /\ n \notin DOMAIN transfer /\ transfer'[n] = NewRow(q)
      /\ \A i \in DOMAIN transfer : transfer'[i] = transfer[i]
  BY <1>1, <1>2, AppendIndices DEF Insert
<1>4. Len(transfer') = n
  BY <1>1, <1>2 DEF Insert
<1> HIDE DEF q, n
<1>5. RowsKept /\ RowsAdded /\ FlagsKept
  BY <1>1, <1>3, RowKeepsItself DEF RowsKept, RowsAdded, AddedByUser, FlagsKept
<1>6. CopyStep
  BY RowKeepsItself DEF CopyStep, CopyKept
<1>7. cli' # NoId => cli'.row = transfer'[cli'.id]
  BY <1>3, <1>4 DEF q
<1>8. CopiesFaithful'
  BY <1>3, <1>7 DEF CopiesFaithful, FaithfulInv, GatheringInv, CopiesAgree
<1> QED BY <1>5, <1>6, <1>8 DEF TablesStep

LEMMA TablesOfPaymentId ==
    ASSUME FaithfulInv, CliPaymentId PROVE TablesStep /\ CopiesFaithful'
<1>1. /\ cli # NoId /\ cli.row = transfer[cli.id] /\ cli.id \in DOMAIN transfer
      /\ transfer' = [transfer EXCEPT ![cli.id] = cli.row]
      /\ cli' = NoId /\ UNCHANGED copy
  BY DEF CliPaymentId, FaithfulInv, CopiesFaithful, GatheringInv, OneAtATime, workVars
<1>2. transfer' = transfer
  BY <1>1 DEF FaithfulInv, GatheringInv, Typed
<1>3. RowsKept /\ RowsAdded /\ FlagsKept
  BY <1>2, RowKeepsItself DEF RowsKept, RowsAdded, FlagsKept
<1>4. CopyStep
  BY <1>1, RowKeepsItself DEF CopyStep, CopyKept
<1>5. CopiesFaithful'
  BY <1>1, <1>2 DEF FaithfulInv, CopiesFaithful
<1> QED BY <1>3, <1>4, <1>5 DEF TablesStep

LEMMA TablesOfClose ==
    ASSUME GatheringAssumption, FaithfulInv, ~CliWhenUp, NEW d \in Deposits, CloseDeposit(d)
    PROVE  TablesStep /\ CopiesFaithful'
<1> DEFINE waiting == {i \in DOMAIN transfer :
                            transfer[i].deposit = d /\ transfer[i].tx = NoId}
<1>1. /\ cli = NoId /\ cli' = NoId /\ ~up /\ copy' = copy /\ ~DepositClosed(d)
  BY DEF CloseDeposit, CliMayRun, workVars
<1>2. copy = <<>>
  BY <1>1 DEF FaithfulInv, GatheringInv, OneAtATime, NothingKept
<1>3. transfer \in Seq(Transfer) /\ \A i \in DOMAIN transfer : transfer[i] \in Transfer
  BY DEF FaithfulInv, GatheringInv, Typed
<1>4. CopyStep /\ CopiesFaithful' /\ FlagsKept
  BY <1>1, <1>2 DEF CopyStep, CopiesFaithful, FlagsKept
<1>5. CASE \E i : transfer' = [transfer EXCEPT ![i].finish = TRUE]
  <2>1. PICK i : transfer' = [transfer EXCEPT ![i].finish = TRUE]
    BY <1>5
  <2>2. DOMAIN transfer' = DOMAIN transfer
    BY <2>1
  <2>3. ASSUME NEW j \in DOMAIN transfer PROVE Keeps(transfer[j], transfer'[j])
    <3>1. transfer[j] \in Transfer
      BY <1>3
    <3>2. transfer'[j] = transfer[j] \/ transfer'[j] = [transfer[j] EXCEPT !.finish = TRUE]
      BY <2>1
    <3> QED BY <3>1, <3>2 DEF Keeps, SameRequest, Transfer
  <2>4. RowsKept /\ RowsAdded
    BY <2>2, <2>3 DEF RowsKept, RowsAdded
  <2> QED BY <1>4, <2>4 DEF TablesStep
<1>6. CASE waiting = {} /\ transfer' = Append(transfer, CloseMarker(d))
  <2>1. CloseMarker(d) \in Transfer
    BY DEF CloseMarker, NewRow, Transfer
  <2>2. /\ DOMAIN transfer' = DOMAIN transfer \cup {Len(transfer) + 1}
        /\ transfer'[Len(transfer) + 1] = CloseMarker(d)
        /\ \A i \in DOMAIN transfer : transfer'[i] = transfer[i]
    BY <1>3, <1>6, <2>1, AppendIndices
  <2>3. \A i \in DOMAIN transfer : transfer[i].deposit = d => transfer[i].tx # NoId
    BY <1>6
  <2>4. RowsKept /\ RowsAdded
    BY <1>1, <2>2, <2>3, RowKeepsItself DEF RowsKept, RowsAdded, AddedByClose
  <2> QED BY <1>4, <2>4 DEF TablesStep
<1> QED BY <1>5, <1>6 DEF CloseDeposit

LEMMA TablesOfSender ==
    ASSUME GatheringAssumption, FaithfulInv, Skip \/ Send \/ Confirm
    PROVE  TablesStep /\ CopiesFaithful'
<1>1. up /\ cli' = cli /\ copy' = copy
  BY DEF Skip, Send, Confirm, Sending, workVars
<1>2. cli = NoId
  BY <1>1 DEF FaithfulInv, GatheringInv, OneAtATime
<1>3. \A i \in DOMAIN transfer : transfer[i] \in Transfer
  BY DEF FaithfulInv, GatheringInv, Typed
<1>4. CASE Send
  BY <1>1, <1>4, QuietTables DEF Send, FaithfulInv
<1>5. CASE Skip \/ Confirm
  <2> DEFINE r == Min(Unresolved)
  <2>1. r \in DOMAIN tx
    BY <1>5, RowOfSender DEF FaithfulInv, GatheringInv, Skip, Confirm
  <2>2. r # NoId
    BY <2>1 DEF FaithfulInv, GatheringInv, Typed, GatheringAssumption
  <2>3. /\ DOMAIN transfer' = DOMAIN transfer
        /\ \A i \in DOMAIN transfer :
            \/ transfer'[i] = transfer[i]
            \/ /\ transfer[i].tx = r
               /\ \/ transfer'[i] = [transfer[i] EXCEPT !.error = TRUE]
                  \/ transfer'[i] = [transfer[i] EXCEPT !.paid = TRUE]
    <3> HIDE DEF r
    <3>1. CASE Skip
      BY <3>1 DEF Skip, TransfersOf, r
    <3>2. CASE Confirm
      BY <3>2 DEF Confirm, TransfersOf, r
    <3> QED BY <1>5, <3>1, <3>2
  <2> HIDE DEF r
  <2>4. ASSUME NEW i \in DOMAIN transfer
        PROVE  Keeps(transfer[i], transfer'[i]) /\ transfer'[i].finish = transfer[i].finish
    <3>1. transfer[i] \in Transfer
      BY <1>3
    <3> QED BY <2>2, <2>3, <3>1 DEF Keeps, SameRequest, Transfer
  <2> QED BY <1>1, <1>2, <2>3, <2>4, RowsOfTableChange DEF FaithfulInv, GatheringInv, CopiesAgree
<1> QED BY <1>4, <1>5

\* Rows and copies are written together.
LEMMA RowsAndCopiesChange ==
    ASSUME FaithfulInv, cli = NoId, cli' = NoId,
           DOMAIN transfer' = DOMAIN transfer, DOMAIN copy' = DOMAIN copy,
           NEW ids \in SUBSET DOMAIN copy,
           \A i \in DOMAIN transfer : i \notin ids => transfer'[i] = transfer[i],
           \A i \in DOMAIN copy : i \notin ids => copy'[i] = copy[i],
           \A i \in ids : /\ SameRequest(copy[i], transfer'[i]) /\ SameRequest(copy[i], copy'[i])
                          /\ transfer'[i].finish = copy[i].finish
                          /\ copy'[i].finish = copy[i].finish
                          /\ Keeps(transfer[i], transfer'[i]) /\ Keeps(copy[i], copy'[i])
    PROVE  TablesStep /\ CopiesFaithful' /\ CopyKept
<1>1. \A i \in ids : SameRequest(transfer'[i], copy'[i])
  BY DEF SameRequest
<1>2. \A i \in DOMAIN transfer : Keeps(transfer[i], transfer'[i])
  BY RowKeepsItself
<1>3. \A i \in DOMAIN copy : Keeps(copy[i], copy'[i]) /\ copy'[i].finish = copy[i].finish
  BY RowKeepsItself
<1>4. \A i \in DOMAIN copy : i \in DOMAIN transfer
  BY DEF FaithfulInv, GatheringInv, CopiesAgree
<1>5. \A i \in DOMAIN transfer : transfer'[i].finish = transfer[i].finish
  BY DEF FaithfulInv, CopiesFaithful
<1>6. RowsKept /\ CopyKept /\ CopyStep /\ RowsAdded /\ FlagsKept
  BY <1>2, <1>3, <1>5 DEF RowsKept, CopyStep, CopyKept, RowsAdded, FlagsKept
<1>7. CopiesFaithful'
  BY <1>1, <1>4 DEF FaithfulInv, CopiesFaithful
<1> QED BY <1>6, <1>7 DEF TablesStep

LEMMA TablesOfWrite ==
    ASSUME GatheringAssumption, FaithfulInv, pc = "gather", UNCHANGED cli,
           NEW ids \in SUBSET DOMAIN copy, \A i \in ids : copy[i].tx = NoId,
           WriteCopies(ids, Len(tx) + 1)
    PROVE  /\ TablesStep /\ CopiesFaithful' /\ CopyKept
           /\ \A i \in ids : transfer'[i].tx = Len(tx) + 1 /\ copy'[i].tx = Len(tx) + 1
           /\ \A i \in DOMAIN transfer : i \notin ids => transfer'[i] = transfer[i]
           /\ \A i \in DOMAIN copy : i \notin ids => copy'[i] = copy[i]
           /\ DOMAIN copy' = DOMAIN copy /\ DOMAIN transfer' = DOMAIN transfer
<1> DEFINE r == Len(tx) + 1
<1>1. cli = NoId
  BY DEF FaithfulInv, GatheringInv, OneAtATime
<1>2. r # NoId
  BY DEF FaithfulInv, GatheringInv, Typed, GatheringAssumption
<1>3. \A i \in DOMAIN copy : copy[i] \in Transfer
  BY DEF FaithfulInv, GatheringInv, Typed
<1>4. \A i \in ids : i \in DOMAIN transfer /\ transfer[i].tx = NoId
                     /\ SameRequest(transfer[i], copy[i]) /\ copy[i].finish = transfer[i].finish
  BY DEF FaithfulInv, GatheringInv, CopiesAgree, CopiesFaithful
<1> HIDE DEF r
<1>5. /\ copy' = [i \in DOMAIN copy |->
                    IF i \in ids THEN [copy[i] EXCEPT !.tx = r] ELSE copy[i]]
      /\ transfer' = [i \in DOMAIN transfer |-> IF i \in ids THEN copy'[i] ELSE transfer[i]]
  BY DEF WriteCopies, r
<1>6. DOMAIN copy' = DOMAIN copy /\ DOMAIN transfer' = DOMAIN transfer
  BY <1>5
<1>7. ASSUME NEW i \in ids
      PROVE  /\ copy'[i].tx = r /\ transfer'[i] = copy'[i]
             /\ SameRequest(copy[i], copy'[i]) /\ copy'[i].finish = copy[i].finish
  <2>1. copy[i] \in Transfer /\ copy'[i] = [copy[i] EXCEPT !.tx = r] /\ transfer'[i] = copy'[i]
    BY <1>3, <1>4, <1>5
  <2> QED BY <2>1 DEF SameRequest, Transfer
<1>8. /\ \A i \in DOMAIN transfer : i \notin ids => transfer'[i] = transfer[i]
      /\ \A i \in DOMAIN copy : i \notin ids => copy'[i] = copy[i]
  BY <1>5
<1>9. ASSUME NEW i \in ids
      PROVE  Keeps(transfer[i], transfer'[i]) /\ Keeps(copy[i], copy'[i])
  BY <1>2, <1>4, <1>7 DEF Keeps, SameRequest
<1>10. TablesStep /\ CopiesFaithful' /\ CopyKept
  <2>1. \A i \in ids : SameRequest(copy[i], transfer'[i]) /\ transfer'[i].finish = copy[i].finish
    BY <1>7
  <2> QED BY <1>1, <1>6, <1>7, <1>8, <1>9, <2>1, RowsAndCopiesChange
<1> QED BY <1>6, <1>7, <1>8, <1>10 DEF r

LEMMA TablesOfNoReceiver ==
    ASSUME GatheringAssumption, FaithfulInv, NEW i \in Special, NoReceiver(i)
    PROVE  /\ TablesStep /\ CopiesFaithful' /\ CopyKept
           /\ DOMAIN transfer' = DOMAIN transfer /\ DOMAIN copy' = DOMAIN copy
           /\ transfer'[i].error /\ copy'[i].error
           /\ \A j \in DOMAIN transfer : j # i => transfer'[j] = transfer[j]
           /\ \A j \in DOMAIN copy : j # i => copy'[j] = copy[j]
<1>1. /\ copy' = [copy EXCEPT ![i].error = TRUE] /\ transfer' = [transfer EXCEPT ![i] = copy'[i]]
      /\ cli' = cli /\ pc = "gather" /\ i \in DOMAIN copy
  BY DEF NoReceiver, Special
<1>2. cli = NoId
  BY <1>1 DEF FaithfulInv, GatheringInv, OneAtATime
<1>3. copy[i] \in Transfer
  BY <1>1 DEF FaithfulInv, GatheringInv, Typed
<1>4. /\ i \in DOMAIN transfer /\ transfer[i].tx = copy[i].tx
      /\ SameRequest(transfer[i], copy[i]) /\ copy[i].finish = transfer[i].finish
  BY <1>1 DEF FaithfulInv, GatheringInv, CopiesAgree, CopiesFaithful
<1>5. /\ DOMAIN copy' = DOMAIN copy /\ DOMAIN transfer' = DOMAIN transfer
      /\ \A j \in DOMAIN transfer : j # i => transfer'[j] = transfer[j]
      /\ \A j \in DOMAIN copy : j # i => copy'[j] = copy[j]
      /\ transfer'[i] = copy'[i] /\ copy'[i] = [copy[i] EXCEPT !.error = TRUE]
  BY <1>1, <1>4
<1>6. /\ copy'[i].error /\ copy'[i].tx = copy[i].tx /\ copy'[i].finish = copy[i].finish
      /\ SameRequest(copy[i], copy'[i])
  BY <1>3, <1>5 DEF SameRequest, Transfer
<1>7. Keeps(copy[i], copy'[i]) /\ Keeps(transfer[i], transfer'[i])
  BY <1>4, <1>5, <1>6 DEF Keeps, SameRequest
<1>8. TablesStep /\ CopiesFaithful' /\ CopyKept
  <2> DEFINE ids == {i}
  <2>1. ids \in SUBSET DOMAIN copy
    BY <1>1
  <2>2. /\ \A j \in DOMAIN transfer : j \notin ids => transfer'[j] = transfer[j]
        /\ \A j \in DOMAIN copy : j \notin ids => copy'[j] = copy[j]
    BY <1>5
  <2>3. \A j \in ids : /\ SameRequest(copy[j], transfer'[j]) /\ SameRequest(copy[j], copy'[j])
                       /\ transfer'[j].finish = copy[j].finish
                       /\ copy'[j].finish = copy[j].finish
                       /\ Keeps(transfer[j], transfer'[j]) /\ Keeps(copy[j], copy'[j])
    BY <1>5, <1>6, <1>7
  <2> HIDE DEF ids
  <2> QED BY <1>1, <1>2, <1>5, <2>1, <2>2, <2>3, RowsAndCopiesChange
<1> QED BY <1>5, <1>6, <1>8

LEMMA TablesOfBatchFails ==
    ASSUME GatheringAssumption, FaithfulInv, BatchFails
    PROVE  /\ TablesStep /\ CopiesFaithful'
           /\ DOMAIN transfer' = DOMAIN transfer /\ UNCHANGED copy
           /\ \A i \in order.all : transfer'[i].error
           /\ \A i \in DOMAIN transfer : i \notin order.all => transfer'[i] = transfer[i]
<1>1. /\ transfer' = [i \in DOMAIN transfer |->
            IF i \in order.all THEN [copy[i] EXCEPT !.error = TRUE] ELSE transfer[i]]
      /\ copy' = copy /\ cli' = cli /\ pc = "gather"
  BY DEF BatchFails
<1>2. cli = NoId
  BY <1>1 DEF FaithfulInv, GatheringInv, OneAtATime
<1>3. \A i \in order.all :
        /\ i \in DOMAIN copy /\ copy[i] \in Transfer /\ i \in DOMAIN transfer
        /\ transfer[i].tx = copy[i].tx
        /\ SameRequest(transfer[i], copy[i]) /\ copy[i].finish = transfer[i].finish
  BY DEF FaithfulInv, GatheringInv, GroupsWait, Typed, CopiesAgree, CopiesFaithful
<1>4. /\ DOMAIN transfer' = DOMAIN transfer
      /\ \A i \in DOMAIN transfer : i \notin order.all => transfer'[i] = transfer[i]
  BY <1>1
<1>5. ASSUME NEW i \in order.all
      PROVE  /\ transfer'[i].error /\ transfer'[i].tx = transfer[i].tx
             /\ SameRequest(copy[i], transfer'[i]) /\ transfer'[i].finish = copy[i].finish
             /\ SameRequest(copy[i], copy'[i]) /\ copy'[i].finish = copy[i].finish
             /\ Keeps(copy[i], copy'[i])
  <2>1. transfer'[i] = [copy[i] EXCEPT !.error = TRUE] /\ copy[i] \in Transfer
    BY <1>1, <1>3
  <2> QED BY <1>1, <1>3, <2>1, RowKeepsItself DEF SameRequest, Transfer
<1>6. ASSUME NEW i \in order.all PROVE Keeps(transfer[i], transfer'[i])
  BY <1>3, <1>5 DEF Keeps, SameRequest
<1>7. order.all \in SUBSET DOMAIN copy
  BY <1>3
<1>8. TablesStep /\ CopiesFaithful'
  <2>1. DOMAIN copy' = DOMAIN copy /\ \A i \in DOMAIN copy : copy'[i] = copy[i]
    BY <1>1
  <2> QED BY <1>1, <1>2, <1>4, <1>5, <1>6, <1>7, <2>1, RowsAndCopiesChange
<1> QED BY <1>1, <1>4, <1>5, <1>8

LEMMA TablesOfPre ==
    ASSUME FaithfulInv, GatherPre PROVE TablesStep /\ CopiesFaithful'
<1>1. copy' = transfer /\ UNCHANGED <<transfer, cli>>
  BY DEF GatherPre, dbVars
<1>2. RowsKept /\ RowsAdded /\ FlagsKept
  BY <1>1, RowKeepsItself DEF RowsKept, RowsAdded, FlagsKept
<1>3. CopiesFaithful'
  BY <1>1 DEF FaithfulInv, CopiesFaithful, SameRequest
<1> QED BY <1>1, <1>2, <1>3 DEF TablesStep, CopyStep

\* The three actions that queue a row for transfers, each with what it pays.
PaysWith(ids, row) ==
    /\ pc = "gather" /\ UNCHANGED cli
    /\ ids \in SUBSET DOMAIN copy /\ \A i \in ids : copy[i].tx = NoId
    /\ row.of = ids /\ Queue(row) /\ WriteCopies(ids, Len(tx) + 1)

LEMMA CloseIsPaid ==
    ASSUME GatheringAssumption, NEW i \in Special, CloseGetsRow(i)
    PROVE  PaysWith({i}, CloseOfDeposit(i, copy[i].deposit))
BY DEF CloseGetsRow, Special, PaysWith, CloseOfDeposit, Row

LEMMA GasIsPaid ==
    ASSUME GatheringInv, NEW g \in groups, GatherGas(g)
    PROVE  PaysWith(g, EthTransfer(g))
<1>1. \A i \in g : i \in DOMAIN copy /\ copy[i].tx = NoId
  BY DEF GatheringInv, GroupsWait, Groups
<1> QED BY <1>1 DEF GatherGas, PaysWith, EthTransfer, Row

LEMMA BatchIsPaid ==
    ASSUME GatheringInv, GatherBatch
    PROVE  PaysWith(BatchIds, BatchRow(BatchIds, order.deposit))
<1>1. \A i \in BatchIds : i \in DOMAIN copy /\ copy[i].tx = NoId
  BY DEF GatheringInv, GroupsWait, Groups, BatchIds, Batch
<1>2. BatchRow(BatchIds, order.deposit).of = BatchIds
  BY DEF BatchRow, Erc20Transfer, DepositTransfer, MultiTransfer, DepositMultiTransfer, Row
<1> QED BY <1>1, <1>2 DEF GatherBatch, PaysWith

LEMMA TablesOfRow ==
    ASSUME GatheringAssumption, FaithfulInv, NEW ids, NEW row, PaysWith(ids, row)
    PROVE  TablesStep /\ CopiesFaithful' /\ CopyKept
BY TablesOfWrite DEF PaysWith

LEMMA TablesSteps ==
    ASSUME GatheringAssumption, LockAssumption, ~CliWhenUp, FaithfulInv, Next
    PROVE  TablesStep /\ CopiesFaithful'
<1>0. GatheringInv /\ CopiesFaithful
  BY DEF FaithfulInv
<1>1. CASE Service \/ Skip
  <2>1. CASE Skip \/ Send \/ Confirm
    BY <2>1, TablesOfSender
  <2>2. CASE GatherPre
    BY <2>2, TablesOfPre
  <2>3. CASE \E i \in Special : CloseGetsRow(i) \/ NoReceiver(i)
    BY <1>0, <2>3, CloseIsPaid, TablesOfRow, TablesOfNoReceiver
  <2>4. CASE \E g \in groups : GatherGas(g)
    BY <1>0, <2>4, GasIsPaid, TablesOfRow
  <2>5. CASE \E d \in Deposits \cup {NoDeposit} : PickOrder(d)
    BY <1>0, <2>5, QuietTables DEF PickOrder, dbVars
  <2>6. CASE GatherBatch
    BY <1>0, <2>6, BatchIsPaid, TablesOfRow
  <2>7. CASE BatchFails
    BY <2>7, TablesOfBatchFails
  <2>8. CASE GatherEnds \/ ProcessAllowance
    BY <1>0, <2>8, QuietTables DEF GatherEnds, ProcessAllowance, dbVars, workVars
  <2> QED BY <1>1, <2>1, <2>2, <2>3, <2>4, <2>5, <2>6, <2>7, <2>8 DEF Service
<1>2. CASE Users
  <2>1. todo.deposits \subseteq Deposits
    BY <1>0 DEF GatheringInv, Typed, Workload
  <2>2. CASE NewTransfer
    <3>1. cli = NoId /\ cli' = NoId
      BY <1>0, <2>2 DEF NewTransfer, GatheringInv, OneAtATime
    <3> QED BY <2>2, <3>1, TablesOfInsert DEF NewTransfer, Untouched, workVars
  <2>3. CASE CliTransfer
    BY <2>3, TablesOfInsert DEF CliTransfer, Untouched, workVars
  <2>4. CASE CliPaymentId
    BY <2>4, TablesOfPaymentId
  <2>5. CASE Refused
    BY <1>0, <2>5, QuietTables DEF Refused, dbVars, workVars
  <2>6. ASSUME NEW d \in todo.deposits, CloseDeposit(d) \/ MakeDeposit(d) \/ TerminateDeposit(d)
        PROVE  TablesStep /\ CopiesFaithful'
    <3>1. CASE CloseDeposit(d)
      BY <2>1, <3>1, TablesOfClose
    <3>2. CASE MakeDeposit(d) \/ TerminateDeposit(d)
      BY <1>0, <3>2, QuietTables DEF MakeDeposit, TerminateDeposit, workVars
    <3> QED BY <2>6, <3>1, <3>2
  <2> QED BY <1>2, <2>2, <2>3, <2>4, <2>5, <2>6 DEF Users
<1>3. CASE Others
  BY <1>0, <1>3, QuietTables DEF Others, dbVars, workVars
<1>4. CASE Start \/ Finish \/ Crash
  BY <1>0, <1>4, QuietTables DEF Start, Finish, Crash, dbVars, workVars
<1> QED BY <1>1, <1>2, <1>3, <1>4 DEF Next

----------------------------------------------------------------------------
(* The groups of a gathering.                                              *)

\* A group is not empty, has one receiver, token and deposit, and shares them
\* with no other group; those of an order are tokens of its deposit.
GroupsHaveKeys ==
    /\ \A g \in Groups : g # {}
    /\ \A g, h \in Groups : \A i \in g, j \in h : g = h <=> Key(copy[i]) = Key(copy[j])
    /\ \A g \in order.left : \A i \in g : copy[i].token /\ copy[i].deposit = order.deposit
    /\ \A i \in order.all : i \in DOMAIN copy /\ copy[i].deposit = order.deposit
    /\ UNION order.left \subseteq order.all

GroupedInv == FaithfulInv /\ GroupsHaveKeys

\* Groups that are left keep their keys.
LEMMA KeysKept ==
    ASSUME FaithfulInv, GroupsHaveKeys, CopyKept,
           groups' \subseteq groups,
           \/ order' = order
           \/ order' = NoOrder
           \/ order' = [order EXCEPT !.left = @ \ Batch]
    PROVE  GroupsHaveKeys'
<1>1. order \in Order
  BY DEF FaithfulInv, GatheringInv, Typed
<1>2. /\ order'.left \subseteq order.left
      /\ order'.left # {} => order'.deposit = order.deposit
      /\ order'.all \subseteq order.all
      /\ order'.all # {} => order'.deposit = order.deposit
      /\ UNION order'.left \subseteq order'.all
  BY <1>1 DEF GroupsHaveKeys, Order, NoOrder
<1>3. \A g \in Groups : \A i \in g : i \in DOMAIN copy
  BY DEF FaithfulInv, GatheringInv, GroupsWait
<1>4. \A i \in DOMAIN copy :
        /\ copy'[i].to = copy[i].to /\ copy'[i].token = copy[i].token
        /\ copy'[i].deposit = copy[i].deposit /\ Key(copy'[i]) = Key(copy[i])
  BY DEF CopyKept, Keeps, SameRequest, Key
<1>5. Groups' \subseteq Groups /\ order.left \subseteq Groups
  BY <1>2 DEF Groups
<1>6. /\ \A g \in Groups' : g # {}
      /\ \A g, h \in Groups' : \A i \in g, j \in h : g = h <=> Key(copy'[i]) = Key(copy'[j])
  BY <1>3, <1>4, <1>5 DEF GroupsHaveKeys
<1>7. \A g \in order'.left : \A i \in g : copy'[i].token /\ copy'[i].deposit = order'.deposit
  BY <1>2, <1>3, <1>4, <1>5 DEF GroupsHaveKeys
<1>8. \A i \in order'.all : i \in DOMAIN copy' /\ copy'[i].deposit = order'.deposit
  BY <1>2, <1>4 DEF GroupsHaveKeys, CopyKept
<1> QED BY <1>2, <1>6, <1>7, <1>8 DEF GroupsHaveKeys

\* The groups shrink, are forgotten, are made, or become an order.
GroupsShrink ==
    /\ CopyKept
    /\ groups' \subseteq groups
    /\ \/ order' = order
       \/ order' = NoOrder
       \/ order' = [order EXCEPT !.left = @ \ Batch]
NoGroups == copy' = <<>> /\ groups' = {} /\ order' = NoOrder

LEMMA GroupMoves ==
    ASSUME GatheringAssumption, FaithfulInv, Next
    PROVE  \/ GroupsShrink
           \/ NoGroups
           \/ GatherPre
           \/ \E d \in Deposits \cup {NoDeposit} :
                PickOrder(d) /\ order' # order /\ UNCHANGED <<transfer, copy>>
<1>0. GatheringInv
  BY DEF FaithfulInv
<1>1. CASE UNCHANGED <<copy, groups, order>>
  BY <1>1, RowKeepsItself DEF GroupsShrink, CopyKept
<1>2. ASSUME NEW i \in Special, CloseGetsRow(i) PROVE GroupsShrink
  <2>1. CopyKept
    BY <1>2, CloseIsPaid, TablesOfRow
  <2> QED BY <1>2, <2>1 DEF CloseGetsRow, GroupsShrink
<1>3. ASSUME NEW i \in Special, NoReceiver(i) PROVE GroupsShrink
  BY <1>3, TablesOfNoReceiver DEF NoReceiver, GroupsShrink
<1>4. ASSUME NEW g \in groups, GatherGas(g) PROVE GroupsShrink
  <2>1. CopyKept
    BY <1>0, <1>4, GasIsPaid, TablesOfRow
  <2> QED BY <1>4, <2>1 DEF GatherGas, GroupsShrink
<1>5. CASE GatherBatch
  <2>1. CopyKept
    BY <1>0, <1>5, BatchIsPaid, TablesOfRow
  <2> QED BY <1>5, <2>1 DEF GatherBatch, GroupsShrink
<1>6. CASE BatchFails
  BY <1>6, RowKeepsItself DEF BatchFails, GroupsShrink, CopyKept
<1>7. ASSUME NEW d \in Deposits \cup {NoDeposit}, PickOrder(d)
      PROVE  NoGroups \/ (PickOrder(d) /\ order' # order /\ UNCHANGED <<transfer, copy>>)
  <2>1. order = NoOrder /\ UNCHANGED transfer
    BY <1>7 DEF PickOrder, dbVars
  <2>2. CASE groups' = {} /\ copy' = <<>> /\ order' = order
    <3>1. order' = NoOrder
      BY <2>1, <2>2
    <3> QED BY <2>2, <3>1 DEF NoGroups
  <2>3. CASE /\ order' = [left |-> {g \in groups : DepositOf(g) = d},
                          all |-> UNION {g \in groups : DepositOf(g) = d}, deposit |-> d]
             /\ UNCHANGED copy
    <3>1. order'.left # {}
      BY <1>7, <2>3 DEF PickOrder
    <3> QED BY <1>7, <2>1, <2>3, <3>1 DEF NoOrder
  <2> QED BY <1>7, <2>2, <2>3 DEF PickOrder
<1>8. CASE GatherEnds \/ Crash
  BY <1>8 DEF GatherEnds, Crash, NoGroups
<1>9. CASE Skip \/ Send \/ Confirm \/ ProcessAllowance \/ Users \/ Others \/ Start \/ Finish
  <2>1. UNCHANGED <<copy, groups, order>>
    BY <1>9 DEF Skip, Send, Confirm, ProcessAllowance, Users, Others, Start, Finish,
         NewTransfer, CliTransfer, CliPaymentId, Refused, CloseDeposit, MakeDeposit,
         TerminateDeposit, workVars
  <2> QED BY <1>1, <2>1
<1> QED BY <1>2, <1>3, <1>4, <1>5, <1>6, <1>7, <1>8, <1>9 DEF Next, Service

\* A query groups the transfers by their keys.
LEMMA KeysOfPre ==
    ASSUME FaithfulInv, GatherPre PROVE GroupsHaveKeys'
<1> DEFINE ids == {i \in Pending : transfer[i].to # NoAccount}
<1>1. copy' = transfer /\ groups' = Grouped(ids) /\ order' = NoOrder
  BY DEF GatherPre, FaithfulInv, GatheringInv, NothingKept
<1>2. Groups' = Grouped(ids)
  BY <1>1 DEF Groups, NoOrder
<1>3. /\ \A g \in Grouped(ids) : g # {}
      /\ \A g, h \in Grouped(ids) : \A i \in g, j \in h :
            g = h <=> Key(transfer[i]) = Key(transfer[j])
  <2> HIDE DEF ids
  <2> QED BY Zenon DEF Grouped
<1> HIDE DEF ids
<1>4. \A g, h \in Groups' : \A i \in g, j \in h : g = h <=> Key(copy'[i]) = Key(copy'[j])
  BY <1>1, <1>2, <1>3
<1> QED BY <1>1, <1>2, <1>3, <1>4 DEF GroupsHaveKeys, NoOrder

\* The first id of a group is in it.
LEMMA FirstOfGroup ==
    ASSUME FaithfulInv, GroupsHaveKeys, NEW g \in Groups
    PROVE  Min(g) \in g
<1>1. g # {} /\ g \subseteq DOMAIN copy
  BY DEF GroupsHaveKeys, FaithfulInv, GatheringInv, GroupsWait
<1>2. g \in SUBSET Nat
  BY <1>1, TablesAreFinite DEF FaithfulInv, GatheringInv
<1> QED BY <1>1, <1>2, SmallestNumber

LEMMA KeysOfPick ==
    ASSUME FaithfulInv, GroupsHaveKeys, NEW d \in Deposits \cup {NoDeposit},
           PickOrder(d), order' # order, UNCHANGED copy
    PROVE  GroupsHaveKeys'
<1> DEFINE ours == {g \in groups : DepositOf(g) = d}
<1>1. /\ groups' = groups \ ours
      /\ order' = [left |-> ours, all |-> UNION ours, deposit |-> d]
      /\ \A g \in groups : ~InGas(g)
  BY DEF PickOrder
<1>2. order'.left = ours /\ order'.all = UNION ours /\ order'.deposit = d
  BY <1>1
<1>3. Groups' \subseteq Groups
  BY <1>1, <1>2 DEF Groups
<1>4. ASSUME NEW g \in ours, NEW i \in g
      PROVE  i \in DOMAIN copy /\ copy[i].token /\ copy[i].deposit = d
  <2>1. g \in Groups /\ Min(g) \in g
    BY FirstOfGroup DEF Groups
  <2>2. PICK k \in g : copy[k].token
    BY <1>1 DEF InGas
  <2>3. Key(copy[i]) = Key(copy[Min(g)]) /\ Key(copy[i]) = Key(copy[k])
    BY <2>1 DEF GroupsHaveKeys
  <2>4. copy[i].deposit = d /\ copy[i].token = copy[k].token
    BY <2>3 DEF Key, DepositOf
  <2>5. i \in DOMAIN copy
    BY <2>1 DEF FaithfulInv, GatheringInv, GroupsWait
  <2> QED BY <2>2, <2>4, <2>5
<1>5. \A i \in order'.all : i \in DOMAIN copy' /\ copy'[i].deposit = order'.deposit
  BY <1>2, <1>4
<1>6. \A g \in order'.left : \A i \in g : copy'[i].token /\ copy'[i].deposit = order'.deposit
  BY <1>2, <1>4
<1>7. UNION order'.left \subseteq order'.all
  BY <1>2
<1> HIDE DEF ours
<1>8. /\ \A g \in Groups' : g # {}
      /\ \A g, h \in Groups' : \A i \in g, j \in h : g = h <=> Key(copy'[i]) = Key(copy'[j])
  BY <1>3 DEF GroupsHaveKeys
<1> QED BY <1>5, <1>6, <1>7, <1>8 DEF GroupsHaveKeys

LEMMA GroupedInit ==
    ASSUME GatheringAssumption, Init PROVE GroupedInv
<1>1. GatheringInv
  BY InitHolds
<1>2. CopiesFaithful /\ GroupsHaveKeys
  BY DEF Init, CopiesFaithful, GroupsHaveKeys, Groups, NoOrder
<1> QED BY <1>1, <1>2 DEF GroupedInv, FaithfulInv

LEMMA GroupedStep ==
    ASSUME GatheringAssumption, LockAssumption, ~CliWhenUp, GroupedInv, [Next]_vars
    PROVE  GroupedInv'
<1>0. FaithfulInv /\ GatheringInv /\ GroupsHaveKeys
  BY DEF GroupedInv, FaithfulInv
<1>1. GatheringInv'
  BY <1>0, StepHolds
<1>2. CASE Next
  <2>1. CopiesFaithful'
    BY <1>0, <1>2, TablesSteps
  <2>2. ASSUME GroupsShrink PROVE GroupsHaveKeys'
    BY <1>0, <2>2, KeysKept DEF GroupsShrink
  <2>3. ASSUME NoGroups PROVE GroupsHaveKeys'
    BY <2>3 DEF NoGroups, GroupsHaveKeys, Groups, NoOrder
  <2>4. GroupsHaveKeys'
    BY <1>0, <1>2, <2>2, <2>3, GroupMoves, KeysOfPre, KeysOfPick
  <2> QED BY <1>1, <2>1, <2>4 DEF GroupedInv, FaithfulInv
<1>3. CASE UNCHANGED vars
  <2>1. CopiesFaithful' /\ GroupsHaveKeys'
    BY <1>0, <1>3 DEF vars, dbVars, workVars, GroupsHaveKeys, Groups, FaithfulInv, CopiesFaithful
  <2> QED BY <1>1, <2>1 DEF GroupedInv, FaithfulInv
<1> QED BY <1>2, <1>3

----------------------------------------------------------------------------
(* What a packed call pays.                                                *)

\* The check before a batch is packed lets an amount of exactly MaxPacked
\* through, which twelve bytes do not hold.
NoGroupIsFull == \A g \in order.left : Amount(g) # MaxPacked

RowIsPackable(row) ==
    row.method \in {"MULTI", "LOCK.multi"} =>
        \A a \in DOMAIN SumsOf(row.of) : SumsOf(row.of)[a] < MaxPacked
RowsArePackable == \A r \in DOMAIN tx : RowIsPackable(tx[r])

PackedInv == GroupedInv /\ RowsArePackable

LEMMA SumsKept ==
    ASSUME RowsKept, NEW ids \in SUBSET DOMAIN transfer
    PROVE  /\ SumsOf(ids)' = SumsOf(ids)
           /\ ids \in SUBSET DOMAIN transfer'
<1>1. \A i \in DOMAIN transfer :
        /\ i \in DOMAIN transfer'
        /\ transfer'[i].to = transfer[i].to /\ transfer'[i].amount = transfer[i].amount
  BY DEF RowsKept, Keeps, SameRequest
<1>2. ASSUME NEW S \in SUBSET ids PROVE Amount(S)' = Amount(S)
  <2>1. [i \in S |-> transfer'[i].amount] = [i \in S |-> transfer[i].amount]
    BY <1>1
  <2> QED BY <2>1 DEF Amount
<1>3. {transfer'[i].to : i \in ids} = {transfer[i].to : i \in ids}
  BY <1>1
<1>4. \A a : {i \in ids : transfer'[i].to = a} = {i \in ids : transfer[i].to = a}
  BY <1>1
<1>5. ASSUME NEW a PROVE Amount({i \in ids : transfer[i].to = a})'
                         = Amount({i \in ids : transfer[i].to = a})
  <2> DEFINE S == {i \in ids : transfer[i].to = a}
  <2>1. PICK T \in SUBSET ids : T = S
    OBVIOUS
  <2>2. Amount(T)' = Amount(T)
    BY <1>2
  <2>3. S' = T
    BY <1>4, <2>1
  <2> QED BY <2>1, <2>2, <2>3
<1> QED BY <1>1, <1>3, <1>5 DEF SumsOf

\* The transfers of a batch with one receiver are a group of the order.
LEMMA BatchIsPackable ==
    ASSUME GatheringAssumption, GroupedInv, GatherBatch, NoGroupIsFull, Cardinality(Batch) # 1,
           NEW a \in DOMAIN SumsOf(BatchIds)
    PROVE  SumsOf(BatchIds)[a] < MaxPacked
<1>0. Typed /\ GatheringInv /\ GroupsHaveKeys /\ CopiesFaithful
  BY DEF GroupedInv, FaithfulInv, GatheringInv
<1>1. Batch \subseteq order.left /\ order.left \subseteq Groups
  BY DEF Batch, Groups
<1>2. \A g \in Groups : \A i \in g : i \in DOMAIN copy /\ i \in DOMAIN transfer
  BY <1>0 DEF GatheringInv, GroupsWait, CopiesAgree
<1>3. IsFiniteSet(Batch) /\ Cardinality(Batch) \in Nat
  <2>1. Batch \subseteq SUBSET DOMAIN copy
    BY <1>1, <1>2
  <2> QED BY <1>0, <2>1, TablesAreFinite, FS_SUBSET, FS_Subset, FS_CardinalityType
<1>4. PICK i \in BatchIds : transfer[i].to = a
  BY DEF SumsOf
<1>5. PICK g \in Batch : i \in g
  BY DEF BatchIds
<1>6. Cardinality(Batch) > 1
  <2>1. Cardinality(Batch) # 0
    BY <1>3, <1>5, FS_EmptySet
  <2> QED BY <1>3, <2>1
<1>7. Amount(g) < MaxPacked
  <2>1. ~(Amount(g) > MaxPacked)
    BY <1>5, <1>6 DEF GatherBatch, Unpackable
  <2>2. Amount(g) # MaxPacked
    BY <1>1, <1>5 DEF NoGroupIsFull
  <2>3. Amount(g) \in Nat
    <3>1. g \in SUBSET DOMAIN transfer
      BY <1>1, <1>2, <1>5
    <3> QED BY <1>0, <3>1, AmountIsNat
  <2> QED BY <2>1, <2>2, <2>3 DEF GatheringAssumption
<1>8. \A j \in BatchIds : /\ j \in DOMAIN copy /\ copy[j].to = transfer[j].to
                          /\ copy[j].token = TRUE /\ copy[j].deposit = order.deposit
  <2> TAKE j \in BatchIds
  <2>1. PICK h \in Batch : j \in h
    BY DEF BatchIds
  <2>2. copy[j].token /\ copy[j].deposit = order.deposit /\ j \in DOMAIN copy
    BY <1>0, <1>1, <1>2, <2>1 DEF GroupsHaveKeys
  <2>3. copy[j].token \in BOOLEAN
    BY <1>0, <2>2 DEF Typed, Transfer
  <2>4. copy[j].to = transfer[j].to
    BY <1>0, <2>2 DEF CopiesFaithful, SameRequest
  <2> QED BY <2>2, <2>3, <2>4
<1>9. \A j \in BatchIds : transfer[j].to = a <=> j \in g
  <2> TAKE j \in BatchIds
  <2>1. PICK h \in Batch : j \in h
    BY DEF BatchIds
  <2>2. transfer[j].to = a <=> Key(copy[j]) = Key(copy[i])
    BY <1>4, <1>8 DEF Key
  <2>3. Key(copy[j]) = Key(copy[i]) <=> h = g
    BY <1>0, <1>1, <1>5, <2>1 DEF GroupsHaveKeys
  <2>4. j \in g => h = g
    <3>1. g \in Groups /\ h \in Groups
      BY <1>1, <1>5, <2>1
    <3> QED BY <1>0, <2>1, <3>1 DEF GatheringInv, GroupsWait
  <2> QED BY <2>1, <2>2, <2>3, <2>4
<1>10. {j \in BatchIds : transfer[j].to = a} = g
  BY <1>5, <1>9 DEF BatchIds
<1>11. SumsOf(BatchIds)[a] = Amount(g)
  <2>1. SumsOf(BatchIds) = [b \in DOMAIN SumsOf(BatchIds) |->
                                Amount({j \in BatchIds : transfer[j].to = b})]
    BY DEF SumsOf
  <2> QED BY <1>10, <2>1
<1> QED BY <1>7, <1>11

\* A row of tx keeps what it calls; the last one may be new.
LEMMA RowsStay ==
    ASSUME Typed, NEW new, new \subseteq TxRow, TxStep(new)
    PROVE  /\ \A r \in DOMAIN tx :
                /\ r \in DOMAIN tx'
                /\ tx'[r].of = tx[r].of /\ tx'[r].method = tx[r].method
                /\ tx'[r].deposit = tx[r].deposit /\ tx'[r].finish = tx[r].finish
           /\ \A r \in DOMAIN tx' \ DOMAIN tx : tx'[r] \in new /\ r = Len(tx) + 1
<1>1. CASE UNCHANGED tx
  BY <1>1
<1>2. ASSUME NEW r \in DOMAIN tx, NEW status, tx' = [tx EXCEPT ![r].status = status]
      PROVE  /\ DOMAIN tx' = DOMAIN tx
             /\ \A q \in DOMAIN tx :
                    /\ tx'[q].of = tx[q].of /\ tx'[q].method = tx[q].method
                    /\ tx'[q].deposit = tx[q].deposit /\ tx'[q].finish = tx[q].finish
  BY <1>2 DEF Typed, TxRow
<1>3. ASSUME NEW row \in new, Queue(row)
      PROVE  /\ DOMAIN tx' = DOMAIN tx \cup {Len(tx) + 1}
             /\ tx'[Len(tx) + 1] = row /\ \A q \in DOMAIN tx : tx'[q] = tx[q]
  BY <1>3, AppendIndices DEF Typed, Queue
<1> QED BY <1>1, <1>2, <1>3 DEF TxStep

\* What the rows of a step are, with the rows of the table kept.
LEMMA RowsOfStep ==
    ASSUME GatheringAssumption, LockAssumption, GatheringInv, Next
    PROVE  /\ \A r \in DOMAIN tx :
                /\ r \in DOMAIN tx'
                /\ tx'[r].of = tx[r].of /\ tx'[r].method = tx[r].method
                /\ tx'[r].deposit = tx[r].deposit /\ tx'[r].finish = tx[r].finish
           /\ \A r \in DOMAIN tx' \ DOMAIN tx :
                tx'[r] \in TxRow /\ RowQueued(tx'[r]) /\ r = Len(tx) + 1
<1>1. QueuedRows \subseteq TxRow
  BY NewRowsNameDeposit DEF QueuedRows
<1>2. TxStep(QueuedRows) /\ Typed
  BY TxSteps DEF GatheringInv
<1>3. \A row \in QueuedRows : RowQueued(row)
  BY DEF QueuedRows
<1> HIDE DEF QueuedRows
<1> QED BY <1>1, <1>2, <1>3, RowsStay

LEMMA PackableKept ==
    ASSUME GatheringAssumption, LockAssumption, ~CliWhenUp, PackedInv, NoGroupIsFull, Next
    PROVE  RowsArePackable'
<1>0. FaithfulInv /\ GatheringInv /\ GroupedInv /\ RowPaysItsTransfers
  BY DEF PackedInv, GroupedInv, FaithfulInv, GatheringInv
<1>1. RowsKept
  BY <1>0, TablesSteps DEF TablesStep
<1>2. ASSUME NEW r \in DOMAIN tx' PROVE RowIsPackable(tx[r])'
  <2>1. CASE r \in DOMAIN tx
    <3> DEFINE ids == tx[r].of
    <3>1. ids \in SUBSET DOMAIN transfer
      BY <1>0, <2>1 DEF RowPaysItsTransfers, TransfersOf
    <3>2. tx'[r].of = ids /\ tx'[r].method = tx[r].method
      BY <1>0, <2>1, RowsOfStep
    <3>3. tx[r].method \in {"MULTI", "LOCK.multi"} =>
                \A a \in DOMAIN SumsOf(ids) : SumsOf(ids)[a] < MaxPacked
      BY <2>1 DEF PackedInv, RowsArePackable, RowIsPackable
    <3> HIDE DEF ids
    <3>4. PICK set \in SUBSET DOMAIN transfer : set = ids
      BY <3>1
    <3>5. SumsOf(set)' = SumsOf(set)
      BY <1>1, SumsKept
    <3>6. SumsOf(tx[r].of)' = SumsOf(set)'
      BY <3>2, <3>4 DEF SumsOf, Amount
    <3> QED BY <3>2, <3>3, <3>4, <3>5, <3>6 DEF RowIsPackable
  <2>2. CASE r \notin DOMAIN tx
    <3>1. RowQueued(tx'[r])
      BY <1>0, <2>2, RowsOfStep
    <3>2. CASE tx'[r].method \notin {"MULTI", "LOCK.multi"}
      BY <3>2 DEF RowIsPackable
    <3>3. CASE tx'[r].method \in {"MULTI", "LOCK.multi"}
      <4>1. GatherBatch /\ tx'[r] = BatchRow(BatchIds, order.deposit)
        BY <3>1, <3>3 DEF RowQueued, PaysNobody, CloseOfDeposit, EthTransfer, Row
      <4>2. Cardinality(Batch) # 1
        BY <3>3, <4>1 DEF BatchRow, Erc20Transfer, DepositTransfer, Row
      <4>3. BatchIds \in SUBSET DOMAIN transfer /\ tx'[r].of = BatchIds
        <5>1. \A i \in BatchIds : i \in DOMAIN copy
          BY <1>0, <4>1, BatchIsPaid DEF PaysWith
        <5>2. tx'[r].of = BatchIds
          BY <1>0, <4>1, BatchIsPaid DEF PaysWith
        <5> QED BY <1>0, <5>1, <5>2 DEF GatheringInv, CopiesAgree
      <4>4. PICK set \in SUBSET DOMAIN transfer : set = BatchIds
        BY <4>3
      <4>5. \A a \in DOMAIN SumsOf(set) : SumsOf(set)[a] < MaxPacked
        BY <1>0, <4>1, <4>2, <4>4, BatchIsPackable
      <4>6. SumsOf(set)' = SumsOf(set)
        BY <1>1, SumsKept
      <4>7. SumsOf(tx[r].of)' = SumsOf(set)'
        BY <4>3, <4>4 DEF SumsOf, Amount
      <4> QED BY <4>5, <4>6, <4>7 DEF RowIsPackable
    <3> QED BY <3>2, <3>3
  <2> QED BY <2>1, <2>2
<1> QED BY <1>2 DEF RowsArePackable

LEMMA PackedStep ==
    ASSUME GatheringAssumption, LockAssumption, ~CliWhenUp, PackedInv, NoGroupIsFull, [Next]_vars
    PROVE  PackedInv'
<1>1. GroupedInv'
  BY GroupedStep DEF PackedInv
<1>2. CASE Next
  BY <1>1, <1>2, PackableKept DEF PackedInv
<1>3. CASE UNCHANGED vars
  <2>1. transfer' = transfer /\ tx' = tx
    BY <1>3 DEF vars, dbVars
  <2>2. ASSUME NEW row PROVE SumsOf(row.of)' = SumsOf(row.of)
    BY <2>1 DEF SumsOf, Amount
  <2>3. ASSUME NEW row PROVE RowIsPackable(row)' <=> RowIsPackable(row)
    BY <2>2 DEF RowIsPackable
  <2>4. RowsArePackable'
    BY <2>1, <2>3 DEF PackedInv, RowsArePackable
  <2> QED BY <1>1, <2>4 DEF PackedInv
<1> QED BY <1>2, <1>3

\* Below its bound a number is packed as it is.
LEMMA PackedAsIs ==
    ASSUME GatheringAssumption, Typed, RowPaysItsTransfers, RowsArePackable, NEW r \in DOMAIN tx
    PROVE  PaymentsOf(tx[r]) = SumsOf(tx[r].of)
<1> DEFINE sums == SumsOf(tx[r].of)
<1>1. sums \in [DOMAIN sums -> Nat]
  <2>1. tx[r].of \in SUBSET DOMAIN transfer
    BY DEF RowPaysItsTransfers, TransfersOf
  <2> QED BY <2>1, SumsTyped
<1>2. CASE tx[r].method \in {"MULTI", "LOCK.multi"}
  <2>1. \A a \in DOMAIN sums : sums[a] < MaxPacked
    BY <1>2 DEF RowsArePackable, RowIsPackable
  <2>2. PaymentsOf(tx[r]) = [a \in DOMAIN sums |-> sums[a] % MaxPacked]
    BY <1>2 DEF PaymentsOf
  <2> HIDE DEF sums
  <2>3. \A n \in Nat : n < MaxPacked => n % MaxPacked = n
    BY DEF GatheringAssumption
  <2>4. [a \in DOMAIN sums |-> sums[a] % MaxPacked] = sums
    BY <1>1, <2>1, <2>3
  <2> QED BY <2>2, <2>4 DEF sums
<1>3. CASE tx[r].method \notin {"MULTI", "LOCK.multi"}
  BY <1>3 DEF PaymentsOf
<1> QED BY <1>2, <1>3

\* The contracts get the amounts of the transfers, whichever call packs them:
\* the sums per receiver that a row was made of are still those of the table,
\* and the packed ones are below the bound, unless a group has exactly the
\* amount that the check of a batch lets through and its packing does not hold.
THEOREM PaymentsArePackedExactly ==
    ASSUME GatheringAssumption, LockAssumption, ~CliWhenUp
    PROVE  Spec /\ []NoGroupIsFull => []PackedIsExact
<1>1. Init => PackedInv
  <2> SUFFICES ASSUME Init PROVE PackedInv
    OBVIOUS
  <2>1. DOMAIN tx = {}
    BY DEF Init
  <2> QED BY <2>1, GroupedInit DEF PackedInv, RowsArePackable
<1>2. PackedInv /\ NoGroupIsFull /\ [Next]_vars => PackedInv'
  BY PackedStep
<1>3. PackedInv => PackedIsExact
  BY PackedAsIs DEF PackedInv, GroupedInv, FaithfulInv, GatheringInv, PackedIsExact
<1> QED BY <1>1, <1>2, <1>3, PTL DEF Spec

----------------------------------------------------------------------------
(* A close that has been accepted.                                         *)

\* A transfer out of a deposit has a receiver and pays tokens.  (A transfer of
\* gas ignores its deposit, and one without a receiver is refused.)
DepositRequests ==
    \A q \in Requests : q.deposit # NoDeposit => q.to # NoAccount /\ q.token

DepositsAsk ==
    \A i \in DOMAIN transfer : transfer[i].deposit # NoDeposit =>
        /\ transfer[i].token
        /\ transfer[i].to = NoAccount => transfer[i].amount = 0 /\ transfer[i].finish

\* A batch that cannot be packed is refused, with the close it may carry.
DepositsArePackable == order.deposit # NoDeposit => ~Unpackable

\* No transfer of a deposit gets an error while it waits.
NoneIsRefused ==
    \A i \in DOMAIN transfer :
        transfer[i].deposit # NoDeposit /\ transfer[i].tx = NoId => ~transfer[i].error

AskInv == GroupedInv /\ DepositsAsk
KeptInv == AskInv /\ NoneIsRefused /\ closing \subseteq Deposits /\ CloseIsKept

LEMMA DepositsAskKept ==
    ASSUME GatheringAssumption, DepositRequests, DepositsAsk, TablesStep PROVE DepositsAsk'
<1>1. ASSUME NEW i \in DOMAIN transfer', transfer'[i].deposit # NoDeposit
      PROVE  /\ transfer'[i].token
             /\ transfer'[i].to = NoAccount => transfer'[i].amount = 0 /\ transfer'[i].finish
  <2>1. CASE i \in DOMAIN transfer
    <3>1. Keeps(transfer[i], transfer'[i])
      BY <2>1 DEF TablesStep, RowsKept
    <3> QED BY <1>1, <2>1, <3>1 DEF Keeps, SameRequest, DepositsAsk
  <2>2. CASE i \notin DOMAIN transfer
    <3>1. AddedByUser(i) \/ AddedByClose(i)
      BY <2>2 DEF TablesStep, RowsAdded
    <3>2. CASE AddedByUser(i)
      <4>1. PICK q \in Requests : transfer'[i] = NewRow(q)
        BY <3>2 DEF AddedByUser
      <4> QED BY <1>1, <4>1 DEF NewRow, DepositRequests
    <3>3. CASE AddedByClose(i)
      BY <3>3 DEF AddedByClose, CloseMarker, NewRow
    <3> QED BY <3>1, <3>2, <3>3
  <2> QED BY <2>1, <2>2
<1> QED BY <1>1 DEF DepositsAsk

\* Only two steps give an error to a transfer that waits.
LEMMA ErrorsOfStep ==
    ASSUME GatheringAssumption, ~CliWhenUp, FaithfulInv, Next,
           NEW i \in DOMAIN transfer, transfer'[i].tx = NoId, transfer'[i].error,
           ~transfer[i].error
    PROVE  \/ BatchFails /\ i \in order.all
           \/ i \in Special /\ NoReceiver(i)
<1>0. transfer[i] \in Transfer /\ transfer \in Seq(Transfer) /\ GatheringInv
  BY DEF FaithfulInv, GatheringInv, Typed
<1>1. CASE UNCHANGED transfer
  BY <1>1
<1>2. CASE Skip \/ Confirm
  <2> DEFINE r == Min(Unresolved)
  <2>1. r \in DOMAIN tx
    BY <1>0, <1>2, RowOfSender DEF GatheringInv, Skip, Confirm
  <2>2. r # NoId
    BY <1>0, <2>1 DEF GatheringInv, Typed, GatheringAssumption
  <2>3. \/ transfer'[i] = transfer[i]
        \/ transfer[i].tx = r /\ transfer'[i] = [transfer[i] EXCEPT !.error = TRUE]
        \/ transfer'[i] = [transfer[i] EXCEPT !.paid = TRUE]
    <3> HIDE DEF r
    <3>1. CASE Skip
      BY <3>1 DEF Skip, TransfersOf, r
    <3>2. CASE Confirm
      BY <3>2 DEF Confirm, TransfersOf, r
    <3> QED BY <1>2, <3>1, <3>2
  <2> HIDE DEF r
  <2> QED BY <1>0, <2>2, <2>3 DEF Transfer
<1>3. ASSUME NEW ids, NEW row, PaysWith(ids, row) PROVE FALSE
  <2>1. Len(tx) + 1 # NoId
    BY <1>0 DEF GatheringInv, Typed, GatheringAssumption
  <2>2. CASE i \in ids
    BY <1>3, <2>1, <2>2, TablesOfWrite DEF PaysWith
  <2>3. CASE i \notin ids
    BY <1>3, <2>3, TablesOfWrite DEF PaysWith
  <2> QED BY <2>2, <2>3
<1>4. ASSUME NEW j \in Special, CloseGetsRow(j) PROVE FALSE
  BY <1>3, <1>4, CloseIsPaid
<1>5. ASSUME NEW g \in groups, GatherGas(g) PROVE FALSE
  BY <1>0, <1>3, <1>5, GasIsPaid
<1>6. CASE GatherBatch
  BY <1>0, <1>3, <1>6, BatchIsPaid
<1>7. ASSUME NEW j \in Special, NoReceiver(j) PROVE i = j
  BY <1>7, TablesOfNoReceiver
<1>8. CASE BatchFails
  BY <1>8, TablesOfBatchFails
<1>9. CASE NewTransfer \/ CliTransfer
  <2>1. PICK row : transfer' = Append(transfer, row)
    BY <1>9 DEF NewTransfer, CliTransfer, Insert
  <2> QED BY <1>0, <2>1
<1>10. CASE CliPaymentId
  <2>1. /\ cli # NoId /\ cli.row = transfer[cli.id]
        /\ transfer' = [transfer EXCEPT ![cli.id] = cli.row]
    BY <1>10 DEF CliPaymentId, FaithfulInv, CopiesFaithful
  <2> QED BY <1>0, <2>1
<1>11. ASSUME NEW d \in todo.deposits, CloseDeposit(d) PROVE FALSE
  <2>1. CASE \E j : transfer' = [transfer EXCEPT ![j].finish = TRUE]
    BY <1>0, <2>1 DEF Transfer
  <2>2. CASE transfer' = Append(transfer, CloseMarker(d))
    BY <1>0, <2>2
  <2> QED BY <1>11, <2>1, <2>2 DEF CloseDeposit
<1>12. CASE \/ GatherPre \/ Send \/ GatherEnds \/ ProcessAllowance
            \/ Others \/ Start \/ Finish \/ Crash
            \/ (\E d \in Deposits \cup {NoDeposit} : PickOrder(d)) \/ Refused
            \/ (\E d \in todo.deposits : MakeDeposit(d) \/ TerminateDeposit(d))
  <2>1. UNCHANGED transfer
    BY <1>12 DEF GatherPre, Send, GatherEnds, ProcessAllowance, Others, Start, Finish, Crash,
         PickOrder, Refused, MakeDeposit, TerminateDeposit, dbVars
  <2> QED BY <1>1, <2>1
<1> QED BY <1>2, <1>4, <1>5, <1>6, <1>7, <1>8, <1>9, <1>10, <1>11, <1>12 DEF Next, Service, Users

LEMMA RefusalsKept ==
    ASSUME GatheringAssumption, LockAssumption, ~CliWhenUp, DepositRequests,
           AskInv, NoneIsRefused, DepositsArePackable, Next
    PROVE  NoneIsRefused'
<1>0. FaithfulInv /\ GatheringInv /\ GroupsHaveKeys /\ CopiesFaithful /\ DepositsAsk
  BY DEF AskInv, GroupedInv, FaithfulInv
<1>1. TablesStep
  BY <1>0, TablesSteps
<1>2. ASSUME NEW i \in DOMAIN transfer', transfer'[i].deposit # NoDeposit,
             transfer'[i].tx = NoId, transfer'[i].error
      PROVE  FALSE
  <2>1. CASE i \in DOMAIN transfer
    <3>1. Keeps(transfer[i], transfer'[i])
      BY <1>1, <2>1 DEF TablesStep, RowsKept
    <3>2. transfer[i].deposit # NoDeposit /\ transfer[i].tx = NoId
      BY <1>2, <3>1 DEF Keeps, SameRequest
    <3>3. ~transfer[i].error
      BY <2>1, <3>2 DEF NoneIsRefused
    <3>4. CASE BatchFails /\ i \in order.all
      <4>1. i \in DOMAIN copy /\ copy[i].deposit = order.deposit
        BY <1>0, <3>4 DEF GroupsHaveKeys
      <4>2. copy[i].deposit = transfer[i].deposit
        BY <1>0, <4>1 DEF CopiesFaithful, SameRequest
      <4> QED BY <3>2, <3>4, <4>1, <4>2 DEF BatchFails, DepositsArePackable
    <3>5. CASE i \in Special /\ NoReceiver(i)
      <4>1. i \in DOMAIN copy /\ copy[i].to = NoAccount /\ ~IsMarker(copy[i])
        BY <3>5 DEF Special, NoReceiver
      <4>2. /\ copy[i].to = transfer[i].to /\ copy[i].amount = transfer[i].amount
            /\ copy[i].deposit = transfer[i].deposit /\ copy[i].finish = transfer[i].finish
        BY <1>0, <4>1 DEF CopiesFaithful, SameRequest
      <4> QED BY <1>0, <2>1, <3>2, <4>1, <4>2 DEF DepositsAsk, IsMarker
    <3> QED BY <1>0, <1>2, <2>1, <3>3, <3>4, <3>5, ErrorsOfStep
  <2>2. CASE i \notin DOMAIN transfer
    <3>1. AddedByUser(i) \/ AddedByClose(i)
      BY <1>1, <2>2 DEF TablesStep, RowsAdded
    <3>2. CASE AddedByUser(i)
      <4>1. PICK q \in Requests : transfer'[i] = NewRow(q)
        BY <3>2 DEF AddedByUser
      <4> QED BY <1>2, <4>1 DEF NewRow
    <3>3. CASE AddedByClose(i)
      BY <1>2, <3>3 DEF AddedByClose, CloseMarker, NewRow
    <3> QED BY <3>1, <3>2, <3>3
  <2> QED BY <2>1, <2>2
<1> QED BY <1>2 DEF NoneIsRefused

\* A transfer that gets a row is paid by it.
LEMMA PaidByNewRow ==
    ASSUME GatheringAssumption, LockAssumption, ~CliWhenUp, GatheringInv, Next,
           NEW i \in DOMAIN transfer, i \in DOMAIN transfer',
           transfer[i].tx = NoId, transfer'[i].tx # NoId
    PROVE  LET r == transfer'[i].tx
           IN  r \in DOMAIN tx' \ DOMAIN tx /\ i \in tx'[r].of /\ RowQueued(tx'[r])
<1> DEFINE r == transfer'[i].tx
<1>1. GatheringInv'
  BY StepHolds
<1>2. r \in DOMAIN tx' /\ i \in tx'[r].of
  BY <1>1 DEF GatheringInv, Links, RowPaysItsTransfers, TransfersOf
<1>3. r \notin DOMAIN tx
  <2> SUFFICES ASSUME r \in DOMAIN tx PROVE FALSE
    OBVIOUS
  <2>1. tx'[r].of = tx[r].of
    BY RowsOfStep
  <2>2. transfer[i].tx = r
    BY <1>2, <2>1 DEF GatheringInv, RowPaysItsTransfers, TransfersOf
  <2>3. r # NoId
    BY DEF GatheringInv, Typed, GatheringAssumption
  <2> QED BY <2>2, <2>3
<1> QED BY <1>2, <1>3, RowsOfStep

\* A row that pays a transfer which closes a deposit closes it.
LEMMA CloseInRow ==
    ASSUME AskInv, NEW row, RowQueued(row), NEW i \in row.of, i \in DOMAIN transfer,
           transfer[i].deposit # NoDeposit, transfer[i].finish
    PROVE  row.finish
<1>0. GatheringInv /\ GroupsHaveKeys /\ CopiesFaithful /\ DepositsAsk
  BY DEF AskInv, GroupedInv, FaithfulInv
<1>1. ASSUME i \in DOMAIN copy
      PROVE  /\ copy[i].token = transfer[i].token /\ copy[i].deposit = transfer[i].deposit
             /\ copy[i].finish = transfer[i].finish
  BY <1>0, <1>1 DEF CopiesFaithful, SameRequest
<1>2. CASE PaysNobody(row)
  BY <1>2 DEF PaysNobody
<1>3. CASE \E j \in Special : row = CloseOfDeposit(j, copy[j].deposit)
  BY <1>3 DEF CloseOfDeposit, Row
<1>4. ASSUME NEW g \in groups, GatherGas(g), row = EthTransfer(g) PROVE FALSE
  <2>1. i \in g
    BY <1>4 DEF EthTransfer, Row
  <2>2. i \in DOMAIN copy
    BY <1>0, <2>1 DEF GatheringInv, GroupsWait, Groups
  <2> QED BY <1>0, <1>1, <1>4, <2>1, <2>2 DEF GatherGas, InGas, DepositsAsk
<1>5. CASE GatherBatch /\ row = BatchRow(BatchIds, order.deposit)
  <2>1. row.of = BatchIds
    BY <1>0, <1>5, BatchIsPaid DEF PaysWith
  <2>2. i \in DOMAIN copy /\ copy[i].deposit = order.deposit
    BY <1>0, <2>1 DEF BatchIds, Batch, GroupsHaveKeys
  <2>3. order.deposit # NoDeposit /\ copy[i].finish
    BY <1>1, <2>2
  <2>4. ClosesDeposit(BatchIds)
    BY <2>1, <2>3 DEF ClosesDeposit
  <2> QED BY <1>5, <2>3, <2>4 DEF BatchRow, DepositTransfer, DepositMultiTransfer, Row
<1> QED BY <1>2, <1>3, <1>4, <1>5 DEF RowQueued

LEMMA ClosingStep ==
    ASSUME GatheringInv, Next
    PROVE  \/ UNCHANGED closing
           \/ \E d \in Deposits : CloseDeposit(d) /\ closing' = closing \cup {d}
<1>1. todo.deposits \subseteq Deposits
  BY DEF GatheringInv, Typed, Workload
<1>2. CASE \E d \in todo.deposits : CloseDeposit(d)
  BY <1>1, <1>2 DEF CloseDeposit
<1>3. CASE ~\E d \in todo.deposits : CloseDeposit(d)
  BY <1>3 DEF Next, Service, Users, Others, Skip, Send, Confirm, GatherPre, CloseGetsRow,
      NoReceiver, GatherGas, PickOrder, GatherBatch, BatchFails, GatherEnds, ProcessAllowance,
      NewTransfer, CliTransfer, CliPaymentId, Refused, MakeDeposit, TerminateDeposit, Start,
      Finish, Crash
<1> QED BY <1>2, <1>3

\* A command to close leaves a transfer that waits with the flag.
LEMMA CloseLeavesFlag ==
    ASSUME GatheringAssumption, Typed, NEW d \in Deposits, CloseDeposit(d)
    PROVE  \E i \in DOMAIN transfer' :
                transfer'[i].deposit = d /\ transfer'[i].finish /\ transfer'[i].tx = NoId
<1> DEFINE waiting == {i \in DOMAIN transfer :
                            transfer[i].deposit = d /\ transfer[i].tx = NoId}
<1>1. transfer \in Seq(Transfer)
  BY DEF Typed
<1>2. CASE waiting # {} /\ transfer' = [transfer EXCEPT ![Max(waiting)].finish = TRUE]
  <2>1. IsFiniteSet(waiting) /\ waiting \subseteq Nat
    BY TablesAreFinite, FS_Subset
  <2>2. Max(waiting) \in waiting
    BY <1>2, <2>1, LargestNumber
  <2>3. PICK i \in waiting : i = Max(waiting)
    BY <2>2
  <2>4. transfer[i] \in Transfer /\ transfer'[i] = [transfer[i] EXCEPT !.finish = TRUE]
    BY <1>1, <1>2, <2>3
  <2>5. transfer'[i].deposit = d /\ transfer'[i].finish /\ transfer'[i].tx = NoId
    BY <2>3, <2>4 DEF Transfer
  <2>6. i \in DOMAIN transfer'
    BY <1>2, <2>3
  <2> QED BY <2>5, <2>6
<1>3. CASE transfer' = Append(transfer, CloseMarker(d))
  <2>1. CloseMarker(d) \in Transfer
    BY DEF CloseMarker, NewRow, Transfer, GatheringAssumption
  <2>2. Len(transfer) + 1 \in DOMAIN transfer' /\ transfer'[Len(transfer) + 1] = CloseMarker(d)
    BY <1>1, <1>3, <2>1, AppendIndices
  <2> QED BY <2>2 DEF CloseMarker, NewRow
<1> QED BY <1>2, <1>3 DEF CloseDeposit

LEMMA CloseKept ==
    ASSUME GatheringAssumption, LockAssumption, ~CliWhenUp, DepositRequests,
           KeptInv, DepositsArePackable, Next
    PROVE  CloseIsKept' /\ closing' \subseteq Deposits /\ NoneIsRefused' /\ DepositsAsk'
<1>0. /\ AskInv /\ NoneIsRefused /\ CloseIsKept /\ closing \subseteq Deposits
      /\ FaithfulInv /\ GatheringInv /\ DepositsAsk /\ Typed
  BY DEF KeptInv, AskInv, GroupedInv, FaithfulInv, GatheringInv
<1>1. TablesStep
  BY <1>0, TablesSteps
<1>2. NoneIsRefused' /\ DepositsAsk'
  BY <1>0, <1>1, RefusalsKept, DepositsAskKept
<1>3. closing' \subseteq Deposits /\ NoDeposit \notin Deposits
  BY <1>0, ClosingStep DEF GatheringAssumption
<1>4. ASSUME NEW d \in closing'
      PROVE  \E i \in DOMAIN transfer' :
                /\ transfer'[i].deposit = d
                /\ \/ i \in Pending' /\ transfer'[i].finish
                   \/ transfer'[i].tx # NoId /\ tx'[transfer'[i].tx].finish
  <2>1. CASE d \in closing
    <3>1. PICK i \in DOMAIN transfer :
            /\ transfer[i].deposit = d
            /\ \/ i \in Pending /\ transfer[i].finish
               \/ transfer[i].tx # NoId /\ tx[transfer[i].tx].finish
      BY <1>0, <2>1 DEF CloseIsKept
    <3>2. i \in DOMAIN transfer' /\ Keeps(transfer[i], transfer'[i])
      BY <1>1 DEF TablesStep, RowsKept
    <3>3. transfer'[i].deposit = d
      BY <3>1, <3>2 DEF Keeps, SameRequest
    <3>4. CASE transfer[i].tx # NoId /\ tx[transfer[i].tx].finish
      <4> DEFINE r == transfer[i].tx
      <4>1. r \in DOMAIN tx
        BY <1>0, <3>4 DEF GatheringInv, Links
      <4>2. tx'[r].finish
        BY <1>0, <3>4, <4>1, RowsOfStep
      <4>3. transfer'[i].tx = r /\ r # NoId
        BY <3>2, <3>4 DEF Keeps
      <4> QED BY <3>2, <3>3, <4>2, <4>3
    <3>5. CASE i \in Pending /\ transfer[i].finish
      <4>1. transfer[i].tx = NoId /\ transfer'[i].finish
        BY <3>2, <3>5 DEF Pending, Keeps
      <4>2. CASE transfer'[i].tx = NoId
        <5>1. ~transfer'[i].error
          BY <1>2, <1>3, <3>2, <3>3, <4>2 DEF NoneIsRefused
        <5>2. i \in Pending'
          BY <3>2, <4>2, <5>1 DEF Pending
        <5> QED BY <3>2, <3>3, <4>1, <5>2
      <4>3. CASE transfer'[i].tx # NoId
        <5> DEFINE r == transfer'[i].tx
        <5>1. i \in tx'[r].of /\ RowQueued(tx'[r])
          BY <1>0, <3>2, <4>1, <4>3, PaidByNewRow
        <5>2. transfer[i].deposit # NoDeposit
          BY <1>0, <1>3, <2>1, <3>1
        <5>3. tx'[r].finish
          BY <1>0, <3>5, <5>1, <5>2, CloseInRow
        <5> QED BY <3>2, <3>3, <4>3, <5>3
      <4> QED BY <4>2, <4>3
    <3> QED BY <3>1, <3>4, <3>5
  <2>2. CASE d \notin closing
    <3>1. d \in Deposits /\ CloseDeposit(d)
      BY <1>0, <2>2, ClosingStep
    <3>2. PICK i \in DOMAIN transfer' :
            transfer'[i].deposit = d /\ transfer'[i].finish /\ transfer'[i].tx = NoId
      BY <1>0, <3>1, CloseLeavesFlag
    <3>3. ~transfer'[i].error
      BY <1>2, <1>3, <3>1, <3>2 DEF NoneIsRefused
    <3>4. i \in Pending'
      BY <3>2, <3>3 DEF Pending
    <3> QED BY <3>2, <3>4
  <2> QED BY <2>1, <2>2
<1>5. CloseIsKept'
  BY <1>4 DEF CloseIsKept
<1> QED BY <1>2, <1>3, <1>5

LEMMA KeptStep ==
    ASSUME GatheringAssumption, LockAssumption, ~CliWhenUp, DepositRequests,
           KeptInv, DepositsArePackable, [Next]_vars
    PROVE  KeptInv'
<1>1. GroupedInv'
  BY GroupedStep DEF KeptInv, AskInv
<1>2. CASE Next
  BY <1>1, <1>2, CloseKept DEF KeptInv, AskInv
<1>3. CASE UNCHANGED vars
  BY <1>1, <1>3 DEF KeptInv, AskInv, DepositsAsk, NoneIsRefused, CloseIsKept, Pending, vars, dbVars
<1> QED BY <1>2, <1>3

\* An accepted close is not forgotten, neither by later transfers, nor by the
\* batches, the sender and the crashes: a transfer that waits, or a row that
\* pays one, still closes the deposit.  It takes transfers out of deposits
\* that ask for tokens and have a receiver, and amounts that can be packed.
THEOREM AcceptedCloseIsKept ==
    ASSUME GatheringAssumption, LockAssumption, ~CliWhenUp, DepositRequests
    PROVE  Spec /\ []DepositsArePackable => []CloseIsKept
<1>1. Init => KeptInv
  <2> SUFFICES ASSUME Init PROVE KeptInv
    OBVIOUS
  <2>1. DOMAIN transfer = {} /\ closing = {}
    BY DEF Init
  <2> QED BY <2>1, GroupedInit DEF KeptInv, AskInv, DepositsAsk, NoneIsRefused, CloseIsKept
<1>2. KeptInv /\ DepositsArePackable /\ [Next]_vars => KeptInv'
  BY KeptStep
<1>3. KeptInv => CloseIsKept
  BY DEF KeptInv
<1> QED BY <1>1, <1>2, <1>3, PTL DEF Spec

----------------------------------------------------------------------------
(* The order of the rows of a deposit.                                     *)

\* What the gathering has still to give a row.
Waiting == (UNION Groups) \cup Special

\* Nothing of a deposit waits any more, nor can it be added.
Final(d) ==
    /\ DepositClosed(d)
    /\ \A i \in Pending : transfer[i].deposit # d
    /\ \A i \in Waiting : copy[i].deposit # d

RowsAreFinal ==
    \A r \in DOMAIN tx :
        tx[r].finish => tx[r].deposit \in Deposits /\ Final(tx[r].deposit)

\* A transfer that only closes a deposit waits alone.
MarkersAreAlone ==
    \A i, j \in DOMAIN transfer :
        /\ transfer[i].to = NoAccount /\ transfer[i].deposit # NoDeposit
        /\ transfer[j].deposit = transfer[i].deposit /\ transfer[j].tx = NoId
        => i = j

\* What the gathering has read it has still to pay, unless it was paid, ...
PendingIsRead == \A i \in DOMAIN copy : i \in Pending => i \in Waiting

\* ... and with a transfer that closes a deposit it has read all of them.
ClosersAreRead ==
    \A i \in DOMAIN copy, j \in DOMAIN transfer :
        copy[i].deposit # NoDeposit /\ copy[i].finish /\ transfer[j].deposit = copy[i].deposit
        => j \in DOMAIN copy

\* An order has all groups of its deposit.
OrderIsAlone ==
    order # NoOrder =>
        Special = {} /\ \A g \in groups : \A i \in g : copy[i].deposit # order.deposit

\* The groups of a deposit fit into a batch.
DepositsFitBatch == order.deposit # NoDeposit => Batch = order.left

LastInv ==
    /\ AskInv
    /\ MarkersAreAlone /\ PendingIsRead /\ ClosersAreRead /\ OrderIsAlone
    /\ RowsAreFinal /\ CloseIsLast

LEMMA MarkersKept ==
    ASSUME DepositRequests, DepositsAsk, MarkersAreAlone, TablesStep PROVE MarkersAreAlone'
<1> SUFFICES ASSUME NEW i \in DOMAIN transfer', NEW j \in DOMAIN transfer',
                    transfer'[i].to = NoAccount, transfer'[i].deposit # NoDeposit,
                    transfer'[j].deposit = transfer'[i].deposit, transfer'[j].tx = NoId,
                    i # j
             PROVE  FALSE
  BY DEF MarkersAreAlone
<1>1. RowsKept /\ RowsAdded
  BY DEF TablesStep
<1>2. \A k \in DOMAIN transfer : Keeps(transfer[k], transfer'[k])
  BY <1>1 DEF RowsKept
<1>3. CASE i \in DOMAIN transfer /\ j \in DOMAIN transfer
  <2>1. /\ transfer[i].to = NoAccount /\ transfer[i].deposit # NoDeposit
        /\ transfer[j].deposit = transfer[i].deposit /\ transfer[j].tx = NoId
    BY <1>2, <1>3 DEF Keeps, SameRequest
  <2> QED BY <1>3, <2>1 DEF MarkersAreAlone
<1>4. CASE i \in DOMAIN transfer /\ j \notin DOMAIN transfer
  <2>1. transfer[i].to = NoAccount /\ transfer[i].deposit = transfer'[i].deposit
    BY <1>2, <1>4 DEF Keeps, SameRequest
  <2>2. transfer[i].finish
    BY <1>4, <2>1 DEF DepositsAsk
  <2>3. DepositClosed(transfer'[j].deposit)
    BY <1>4, <2>1, <2>2 DEF DepositClosed
  <2>4. AddedByUser(j) \/ AddedByClose(j)
    BY <1>1, <1>4 DEF RowsAdded
  <2>5. ~AddedByUser(j)
    BY <2>3 DEF AddedByUser, NewRow
  <2>6. ~AddedByClose(j)
    BY <2>3 DEF AddedByClose, CloseMarker, NewRow
  <2> QED BY <2>4, <2>5, <2>6
<1>5. CASE i \notin DOMAIN transfer /\ j \in DOMAIN transfer
  <2>1. AddedByUser(i) \/ AddedByClose(i)
    BY <1>1, <1>5 DEF RowsAdded
  <2>2. CASE AddedByUser(i)
    BY <2>2 DEF AddedByUser, NewRow, DepositRequests
  <2>3. CASE AddedByClose(i)
    <3>1. transfer[j].deposit = transfer'[i].deposit /\ transfer[j].tx = NoId
      BY <1>2, <1>5 DEF Keeps, SameRequest
    <3> QED BY <1>5, <2>3, <3>1 DEF AddedByClose, CloseMarker, NewRow
  <2> QED BY <2>1, <2>2, <2>3
<1>6. CASE i \notin DOMAIN transfer /\ j \notin DOMAIN transfer
  BY <1>1, <1>6 DEF RowsAdded
<1> QED BY <1>3, <1>4, <1>5, <1>6

\* Whatever is added, its deposit was not closed.
LEMMA AddedIsOpen ==
    ASSUME TablesStep, NEW j \in DOMAIN transfer', j \notin DOMAIN transfer
    PROVE  ~DepositClosed(transfer'[j].deposit)
<1>1. AddedByUser(j) \/ AddedByClose(j)
  BY DEF TablesStep, RowsAdded
<1>2. CASE AddedByUser(j)
  BY <1>2 DEF AddedByUser, NewRow
<1>3. CASE AddedByClose(j)
  BY <1>3 DEF AddedByClose, CloseMarker, NewRow
<1> QED BY <1>1, <1>2, <1>3

LEMMA ClosersKept ==
    ASSUME FaithfulInv, ClosersAreRead, TablesStep PROVE ClosersAreRead'
<1> SUFFICES ASSUME NEW i \in DOMAIN copy', NEW j \in DOMAIN transfer',
                    copy'[i].deposit # NoDeposit, copy'[i].finish,
                    transfer'[j].deposit = copy'[i].deposit
             PROVE  j \in DOMAIN copy'
  BY DEF ClosersAreRead
<1>1. CASE copy' = <<>>
  BY <1>1
<1>2. CASE copy' = transfer /\ UNCHANGED transfer
  BY <1>2
<1>3. CASE CopyKept
  <2>1. i \in DOMAIN copy /\ copy[i].deposit = copy'[i].deposit /\ copy[i].finish
    BY <1>3 DEF CopyKept, Keeps, SameRequest
  <2>2. i \in DOMAIN transfer /\ transfer[i].deposit = copy[i].deposit /\ transfer[i].finish
    BY <2>1 DEF FaithfulInv, GatheringInv, CopiesAgree, CopiesFaithful, SameRequest
  <2>3. DepositClosed(transfer'[j].deposit)
    BY <2>1, <2>2 DEF DepositClosed
  <2>4. j \in DOMAIN transfer
    BY <2>3, AddedIsOpen
  <2>5. transfer[j].deposit = transfer'[j].deposit
    BY <2>4 DEF TablesStep, RowsKept, Keeps, SameRequest
  <2> QED BY <1>3, <2>1, <2>4, <2>5 DEF ClosersAreRead, CopyKept
<1> QED BY <1>1, <1>2, <1>3 DEF TablesStep, CopyStep

\* What waits gets less, with the steps that make groups and orders apart.
LEMMA SpecialShrinks == ASSUME CopyKept PROVE Special' \subseteq Special
BY DEF Special, CopyKept, Keeps, SameRequest

LEMMA WaitingShrinks ==
    ASSUME FaithfulInv, GroupsShrink
    PROVE  /\ Waiting' \subseteq Waiting
           /\ \A i \in Waiting' : i \in DOMAIN copy /\ copy'[i].deposit = copy[i].deposit
<1>1. order \in Order
  BY DEF FaithfulInv, GatheringInv, Typed
<1>2. order'.left \subseteq order.left /\ groups' \subseteq groups
  BY <1>1 DEF GroupsShrink, Order, NoOrder
<1>3. Waiting' \subseteq Waiting
  BY <1>2, SpecialShrinks DEF Waiting, Groups, GroupsShrink
<1>4. \A i \in Waiting : i \in DOMAIN copy
  BY DEF Waiting, Special, FaithfulInv, GatheringInv, GroupsWait
<1> QED BY <1>3, <1>4 DEF GroupsShrink, CopyKept, Keeps, SameRequest

LEMMA WaitingOfNone == ASSUME NoGroups PROVE Waiting' = {}
BY DEF NoGroups, Waiting, Groups, Special, NoOrder

LEMMA WaitingOfPre ==
    ASSUME FaithfulInv, GatherPre PROVE Waiting' = Pending /\ UNCHANGED transfer /\ copy' = transfer
<1> DEFINE ids == {i \in Pending : transfer[i].to # NoAccount}
<1>1. copy' = transfer /\ groups' = Grouped(ids) /\ order' = NoOrder /\ UNCHANGED transfer
  BY DEF GatherPre, FaithfulInv, GatheringInv, NothingKept, dbVars
<1>2. UNION Grouped(ids) = ids
  <2>1. \A g \in Grouped(ids) : g \subseteq ids
    BY DEF Grouped
  <2>2. ASSUME NEW i \in ids PROVE \E g \in Grouped(ids) : i \in g
    <3> DEFINE g == {j \in ids : Key(transfer[j]) = Key(transfer[i])}
    <3>1. i \in g
      OBVIOUS
    <3> HIDE DEF ids
    <3>2. g \in Grouped(ids)
      BY DEF Grouped
    <3> QED BY <3>1, <3>2
  <2> QED BY <2>1, <2>2
<1>3. Groups' = Grouped(ids)
  BY <1>1 DEF Groups, NoOrder
<1>4. Special' = {i \in Pending : transfer[i].to = NoAccount}
  BY <1>1 DEF Special, Pending
<1>5. Waiting' = ids \cup Special'
  BY <1>2, <1>3 DEF Waiting
<1> QED BY <1>1, <1>4, <1>5

LEMMA WaitingOfPick ==
    ASSUME NEW d, PickOrder(d), order' # order, UNCHANGED copy PROVE Waiting' = Waiting
<1> DEFINE ours == {g \in groups : DepositOf(g) = d}
<1>1. order = NoOrder /\ groups' = groups \ ours /\ order'.left = ours
  BY DEF PickOrder
<1>2. Groups = groups /\ Groups' = groups
  BY <1>1 DEF Groups, NoOrder
<1>3. Special' = Special
  BY DEF Special
<1> QED BY <1>2, <1>3 DEF Waiting

LEMMA FinalKept ==
    ASSUME GatheringAssumption, LockAssumption, ~CliWhenUp, FaithfulInv, Next,
           NEW d \in Deposits, Final(d)
    PROVE  Final(d)'
<1>0. TablesStep
  BY TablesSteps
<1>1. \A i \in DOMAIN transfer : i \in DOMAIN transfer' /\ Keeps(transfer[i], transfer'[i])
  BY <1>0 DEF TablesStep, RowsKept
<1>2. DepositClosed(d) /\ DepositClosed(d)'
  BY <1>1 DEF Final, DepositClosed, Keeps, SameRequest
<1>3. ASSUME NEW i \in Pending' PROVE transfer'[i].deposit # d
  <2>1. i \in DOMAIN transfer' /\ transfer'[i].tx = NoId /\ ~transfer'[i].error
    BY DEF Pending
  <2>2. CASE i \in DOMAIN transfer
    <3>1. i \in Pending /\ transfer'[i].deposit = transfer[i].deposit
      BY <1>1, <2>1, <2>2 DEF Keeps, SameRequest, Pending
    <3> QED BY <3>1 DEF Final
  <2>3. CASE i \notin DOMAIN transfer
    BY <1>0, <1>2, <2>1, <2>3, AddedIsOpen
  <2> QED BY <2>2, <2>3
<1>4. ASSUME NEW i \in Waiting' PROVE copy'[i].deposit # d
  <2>1. CASE GroupsShrink
    BY <2>1, WaitingShrinks DEF Final
  <2>2. CASE NoGroups
    BY <2>2, WaitingOfNone
  <2>3. CASE GatherPre
    BY <2>3, WaitingOfPre DEF Final
  <2>4. CASE \E e \in Deposits \cup {NoDeposit} :
                PickOrder(e) /\ order' # order /\ UNCHANGED <<transfer, copy>>
    BY <2>4, WaitingOfPick DEF Final
  <2> QED BY <2>1, <2>2, <2>3, <2>4, GroupMoves
<1> QED BY <1>2, <1>3, <1>4 DEF Final

LEMMA AloneKept ==
    ASSUME GatheringAssumption, GroupedInv, OrderIsAlone, Next PROVE OrderIsAlone'
<1>0. FaithfulInv /\ GatheringInv /\ GroupsHaveKeys /\ order \in Order
  BY DEF GroupedInv, FaithfulInv, GatheringInv, Typed
<1>1. ASSUME GroupsShrink PROVE OrderIsAlone'
  <2>1. order' # NoOrder => order # NoOrder /\ order'.deposit = order.deposit
    <3>1. CASE order' = [order EXCEPT !.left = @ \ Batch]
      <4>1. ASSUME order = NoOrder PROVE order' = NoOrder
        <5>1. order.left \ Batch = {}
          BY <4>1 DEF NoOrder
        <5>2. order' = [order EXCEPT !.left = {}]
          BY <3>1, <5>1
        <5> QED BY <4>1, <5>2 DEF NoOrder
      <4> QED BY <1>0, <3>1, <4>1 DEF Order
    <3> QED BY <1>1, <3>1 DEF GroupsShrink
  <2>2. Special' \subseteq Special /\ groups' \subseteq groups
    BY <1>1, SpecialShrinks DEF GroupsShrink
  <2>3. \A g \in groups : \A i \in g : i \in DOMAIN copy
    BY <1>0 DEF GatheringInv, GroupsWait, Groups
  <2>4. \A i \in DOMAIN copy : copy'[i].deposit = copy[i].deposit
    BY <1>1 DEF GroupsShrink, CopyKept, Keeps, SameRequest
  <2> QED BY <2>1, <2>2, <2>3, <2>4 DEF OrderIsAlone
<1>2. ASSUME NoGroups PROVE OrderIsAlone'
  BY <1>2 DEF NoGroups, OrderIsAlone
<1>3. ASSUME GatherPre PROVE OrderIsAlone'
  BY <1>0, <1>3 DEF GatherPre, GatheringInv, NothingKept, OrderIsAlone
<1>4. ASSUME NEW d \in Deposits \cup {NoDeposit}, PickOrder(d), order' # order, UNCHANGED copy
      PROVE  OrderIsAlone'
  <2> DEFINE ours == {g \in groups : DepositOf(g) = d}
  <2>1. groups' = groups \ ours /\ order'.deposit = d /\ Special = {}
    BY <1>4 DEF PickOrder
  <2>2. Special' = {}
    BY <1>4, <2>1 DEF Special
  <2>3. ASSUME NEW g \in groups', NEW i \in g PROVE copy'[i].deposit # d
    <3>1. g \in Groups /\ g \in groups /\ DepositOf(g) # d
      BY <2>1 DEF Groups
    <3>2. Min(g) \in g
      BY <1>0, <3>1, FirstOfGroup
    <3>3. Key(copy[i]) = Key(copy[Min(g)])
      BY <1>0, <3>1, <3>2 DEF GroupsHaveKeys
    <3> QED BY <1>4, <3>1, <3>3 DEF Key, DepositOf
  <2> QED BY <2>1, <2>2, <2>3 DEF OrderIsAlone
<1> QED BY <1>0, <1>1, <1>2, <1>3, <1>4, GroupMoves

\* A transfer waits no longer because it has got a row or an error.
LEMMA WaitingEnds ==
    ASSUME GatheringAssumption, GroupedInv, Next, GroupsShrink,
           NEW i \in Waiting, i \notin Waiting', i \in DOMAIN transfer
    PROVE  transfer'[i].tx # NoId \/ transfer'[i].error
<1>0. FaithfulInv /\ GatheringInv /\ GroupsHaveKeys
  BY DEF GroupedInv, FaithfulInv
<1>1. CASE UNCHANGED <<copy, groups, order>>
  BY <1>1 DEF Waiting, Groups, Special
<1>2. i \in DOMAIN copy
  BY <1>0 DEF Waiting, Special, GatheringInv, GroupsWait
<1>3. ASSUME NEW ids, NEW row, PaysWith(ids, row),
             \A g \in Groups : g \in Groups' \/ g \subseteq ids
      PROVE  transfer'[i].tx # NoId
  <2>1. /\ \A j \in ids : transfer'[j].tx = Len(tx) + 1
        /\ \A j \in DOMAIN copy : j \notin ids => copy'[j] = copy[j]
        /\ DOMAIN copy' = DOMAIN copy
    BY <1>0, <1>3, TablesOfWrite DEF PaysWith
  <2>2. i \in ids
    BY <1>2, <1>3, <2>1 DEF Waiting, Special
  <2>3. Len(tx) + 1 # NoId
    BY <1>0 DEF GatheringInv, Typed, GatheringAssumption
  <2> QED BY <2>1, <2>2, <2>3
<1>4. ASSUME NEW j \in Special, CloseGetsRow(j) PROVE transfer'[i].tx # NoId
  <2>1. Groups' = Groups
    BY <1>4 DEF CloseGetsRow, Groups
  <2> QED BY <1>3, <1>4, <2>1, CloseIsPaid
<1>5. ASSUME NEW g \in groups, GatherGas(g) PROVE transfer'[i].tx # NoId
  <2>1. \A h \in Groups : h \in Groups' \/ h \subseteq g
    BY <1>5 DEF GatherGas, Groups
  <2> QED BY <1>0, <1>3, <1>5, <2>1, GasIsPaid
<1>6. ASSUME GatherBatch PROVE transfer'[i].tx # NoId
  <2>1. order \in Order
    BY <1>0 DEF GatheringInv, Typed
  <2>2. order'.left = order.left \ Batch /\ groups' = groups
    BY <1>6, <2>1 DEF GatherBatch, Order, NoOrder
  <2>3. \A h \in Groups : h \in Groups' \/ h \subseteq BatchIds
    BY <2>2 DEF Groups, BatchIds
  <2> QED BY <1>0, <1>3, <1>6, <2>3, BatchIsPaid
<1>7. ASSUME NEW j \in Special, NoReceiver(j) PROVE transfer'[i].error
  <2>1. Groups' = Groups
    BY <1>7 DEF NoReceiver, Groups
  <2>2. /\ transfer'[j].error /\ DOMAIN copy' = DOMAIN copy
        /\ \A k \in DOMAIN copy : k # j => copy'[k] = copy[k]
    BY <1>0, <1>7, TablesOfNoReceiver
  <2>3. i = j
    BY <1>2, <2>1, <2>2 DEF Waiting, Special
  <2> QED BY <2>2, <2>3
<1>8. ASSUME BatchFails PROVE transfer'[i].error
  <2>1. groups' = groups /\ UNCHANGED copy
    BY <1>8 DEF BatchFails
  <2>2. i \in UNION order.left
    BY <2>1 DEF Waiting, Groups, Special
  <2>3. i \in order.all
    BY <1>0, <2>2 DEF GroupsHaveKeys
  <2> QED BY <1>0, <1>8, <2>3, TablesOfBatchFails
<1>9. copy # <<>> /\ copy' # <<>> /\ pc = "gather"
  BY <1>0, <1>2 DEF GroupsShrink, CopyKept, GatheringInv, NothingKept
<1>10. ~GatherPre /\ ~GatherEnds /\ ~Crash
  BY <1>9 DEF GatherPre, GatherEnds, Crash
<1>11. ASSUME NEW d \in Deposits \cup {NoDeposit}, PickOrder(d) PROVE FALSE
  <2>1. /\ order = NoOrder /\ UNCHANGED copy
        /\ order' = [left |-> {g \in groups : DepositOf(g) = d},
                     all |-> UNION {g \in groups : DepositOf(g) = d}, deposit |-> d]
        /\ {g \in groups : DepositOf(g) = d} # {}
    BY <1>9, <1>11 DEF PickOrder
  <2>2. order' # order
    BY <2>1 DEF NoOrder
  <2> QED BY <1>11, <2>1, <2>2, WaitingOfPick
<1>12. CASE Skip \/ Send \/ Confirm \/ ProcessAllowance \/ Users \/ Others \/ Start \/ Finish
  <2>1. UNCHANGED <<copy, groups, order>>
    BY <1>12 DEF Skip, Send, Confirm, ProcessAllowance, Users, Others, Start, Finish,
         NewTransfer, CliTransfer, CliPaymentId, Refused, CloseDeposit, MakeDeposit,
         TerminateDeposit, workVars
  <2> QED BY <1>1, <2>1
<1> QED BY <1>4, <1>5, <1>6, <1>7, <1>8, <1>10, <1>11, <1>12 DEF Next, Service

LEMMA PendingKept ==
    ASSUME GatheringAssumption, LockAssumption, ~CliWhenUp, GroupedInv, PendingIsRead, Next
    PROVE  PendingIsRead'
<1>0. FaithfulInv /\ GatheringInv
  BY DEF GroupedInv, FaithfulInv
<1> SUFFICES ASSUME NEW i \in DOMAIN copy', i \in Pending', i \notin Waiting' PROVE FALSE
  BY DEF PendingIsRead
<1>1. i \in DOMAIN transfer' /\ transfer'[i].tx = NoId /\ ~transfer'[i].error
  BY DEF Pending
<1>2. CASE GroupsShrink
  <2>1. i \in DOMAIN copy
    BY <1>2 DEF GroupsShrink, CopyKept
  <2>2. i \in DOMAIN transfer
    BY <1>0, <2>1 DEF GatheringInv, CopiesAgree
  <2>3. Keeps(transfer[i], transfer'[i])
    BY <1>0, <2>2, TablesSteps DEF TablesStep, RowsKept
  <2>4. i \in Pending
    BY <1>1, <2>2, <2>3 DEF Keeps, Pending
  <2>5. i \in Waiting
    BY <2>1, <2>4 DEF PendingIsRead
  <2> QED BY <1>1, <1>2, <2>2, <2>5, WaitingEnds
<1>3. CASE NoGroups
  BY <1>3 DEF NoGroups
<1>4. CASE GatherPre
  BY <1>0, <1>4, WaitingOfPre DEF Pending
<1>5. ASSUME NEW d \in Deposits \cup {NoDeposit}, PickOrder(d), order' # order,
             UNCHANGED <<transfer, copy>>
      PROVE  FALSE
  <2>1. i \in Pending
    BY <1>1, <1>5 DEF Pending
  <2> QED BY <1>5, <2>1, WaitingOfPick DEF PendingIsRead
<1> QED BY <1>0, <1>2, <1>3, <1>4, <1>5, GroupMoves

\* A transfer that waits for the gathering waits in the table, and asks there
\* for the same.
LEMMA WaitingInTable ==
    ASSUME FaithfulInv, NEW i \in Waiting
    PROVE  /\ i \in DOMAIN copy /\ i \in DOMAIN transfer
           /\ copy[i].tx = NoId /\ transfer[i].tx = NoId
           /\ SameRequest(transfer[i], copy[i]) /\ copy[i].finish = transfer[i].finish
<1>1. i \in DOMAIN copy /\ copy[i].tx = NoId
  BY DEF Waiting, Special, FaithfulInv, GatheringInv, GroupsWait
<1> QED BY <1>1 DEF FaithfulInv, GatheringInv, CopiesAgree, CopiesFaithful

\* The deposit that a new row pays out of had transfers waiting.
LEMMA RowHasWaited ==
    ASSUME GatheringAssumption, AskInv, NEW row, RowQueued(row), row.of # {}
    PROVE  row.deposit = NoDeposit \/ \E i \in Waiting : copy[i].deposit = row.deposit
<1>0. GatheringInv /\ GroupsHaveKeys
  BY DEF AskInv, GroupedInv, FaithfulInv
<1>1. CASE PaysNobody(row)
  BY <1>1 DEF PaysNobody
<1>2. ASSUME NEW i \in Special, row = CloseOfDeposit(i, copy[i].deposit)
      PROVE  \E k \in Waiting : copy[k].deposit = row.deposit
  BY <1>2 DEF Waiting, CloseOfDeposit, Row
<1>3. ASSUME NEW g \in groups, row = EthTransfer(g) PROVE row.deposit = NoDeposit
  BY <1>3 DEF EthTransfer, Row
<1>4. CASE GatherBatch /\ row = BatchRow(BatchIds, order.deposit)
  <2>1. row.of = BatchIds
    BY <1>0, <1>4, BatchIsPaid DEF PaysWith
  <2>2. PICK i \in BatchIds : TRUE
    BY <2>1
  <2>3. i \in Waiting /\ copy[i].deposit = order.deposit
    BY <1>0, <2>2 DEF BatchIds, Batch, Waiting, Groups, GroupsHaveKeys
  <2>4. row.deposit = order.deposit
    BY <1>4 DEF BatchRow, Erc20Transfer, MultiTransfer, DepositTransfer, DepositMultiTransfer, Row
  <2> QED BY <2>3, <2>4
<1> QED BY <1>1, <1>2, <1>3, <1>4 DEF RowQueued

\* A new row that closes a deposit leaves nothing of it to wait.
LEMMA NewRowIsFinal ==
    ASSUME GatheringAssumption, LockAssumption, ~CliWhenUp, LastInv, DepositsFitBatch, Next,
           NEW row, RowQueued(row), row.finish
    PROVE  row.deposit \in Deposits /\ Final(row.deposit)'
<1>0. /\ FaithfulInv /\ GatheringInv /\ GroupedInv /\ GroupsHaveKeys
      /\ MarkersAreAlone /\ PendingIsRead /\ ClosersAreRead /\ OrderIsAlone
  BY DEF LastInv, AskInv, GroupedInv, FaithfulInv
<1>1. TablesStep
  BY <1>0, TablesSteps
<1>2. \A k \in DOMAIN transfer : k \in DOMAIN transfer' /\ Keeps(transfer[k], transfer'[k])
  BY <1>1 DEF TablesStep, RowsKept
<1>3. Len(tx) + 1 # NoId
  BY <1>0 DEF GatheringInv, Typed, GatheringAssumption
<1>4. ASSUME NEW d \in Deposits, NEW ids, PaysWith(ids, row), DepositClosed(d), GroupsShrink,
             \A k \in DOMAIN transfer :
                transfer[k].deposit = d /\ k \in Pending => k \in ids,
             \A k \in Waiting' : copy[k].deposit = d => k \in ids
      PROVE  Final(d)'
  <2>1. \A k \in ids : transfer'[k].tx # NoId /\ copy'[k].tx # NoId
    BY <1>0, <1>3, <1>4, TablesOfWrite DEF PaysWith
  <2>2. DepositClosed(d)'
    BY <1>2, <1>4 DEF DepositClosed, Keeps, SameRequest
  <2>3. ASSUME NEW k \in Pending', transfer'[k].deposit = d PROVE FALSE
    <3>1. k \in DOMAIN transfer' /\ transfer'[k].tx = NoId /\ ~transfer'[k].error
      BY DEF Pending
    <3>2. k \in DOMAIN transfer
      BY <1>1, <1>4, <2>3, <3>1, AddedIsOpen
    <3>3. transfer[k].deposit = d /\ k \in Pending
      BY <1>2, <2>3, <3>1, <3>2 DEF Keeps, SameRequest, Pending
    <3> QED BY <1>4, <2>1, <3>1, <3>2, <3>3
  <2>4. ASSUME NEW k \in Waiting', copy'[k].deposit = d PROVE FALSE
    <3>1. k \in Waiting /\ copy[k].deposit = d
      BY <1>0, <1>4, <2>4, WaitingShrinks
    <3>2. k \in ids
      BY <1>4, <2>4, <3>1
    <3>3. FaithfulInv'
      <4>1. GroupedInv'
        BY <1>0, GroupedStep
      <4> QED BY <4>1 DEF GroupedInv
    <3>4. copy'[k].tx = NoId
      BY <2>4, <3>3 DEF Waiting, Special, FaithfulInv, GatheringInv, GroupsWait
    <3> QED BY <2>1, <3>2, <3>4
  <2> QED BY <2>2, <2>3, <2>4 DEF Final
<1>5. ASSUME NEW i \in Special, CloseGetsRow(i), row = CloseOfDeposit(i, copy[i].deposit)
      PROVE  row.deposit \in Deposits /\ Final(row.deposit)'
  <2> DEFINE d == row.deposit
             ids == {i}
  <2>1. i \in Waiting /\ IsMarker(copy[i]) /\ d = copy[i].deposit
    BY <1>5 DEF Waiting, CloseGetsRow, CloseOfDeposit, Row
  <2>2. /\ transfer[i].deposit = d /\ transfer[i].finish /\ transfer[i].to = NoAccount
        /\ i \in DOMAIN transfer /\ d # NoDeposit /\ i \in DOMAIN copy
    BY <1>0, <2>1, WaitingInTable DEF IsMarker, SameRequest
  <2>3. d \in Deposits
    <3>1. transfer[i] \in Transfer
      BY <1>0, <2>2 DEF GatheringInv, Typed
    <3> QED BY <2>2, <3>1 DEF Transfer
  <2>4. DepositClosed(d)
    BY <2>2 DEF DepositClosed
  <2>5. \A k \in DOMAIN transfer : transfer[k].deposit = d /\ k \in Pending => k \in ids
    BY <1>0, <2>2 DEF MarkersAreAlone, Pending
  <2>6. GroupsShrink
    <3>1. CopyKept
      BY <1>0, <1>5, CloseIsPaid, TablesOfRow
    <3> QED BY <1>5, <3>1 DEF CloseGetsRow, GroupsShrink
  <2>7. \A k \in Waiting' : copy[k].deposit = d => k \in ids
    <3> TAKE k \in Waiting'
    <3>1. k \in Waiting
      BY <1>0, <2>6, WaitingShrinks
    <3>2. k \in DOMAIN transfer /\ transfer[k].tx = NoId /\ transfer[k].deposit = copy[k].deposit
      BY <1>0, <3>1, WaitingInTable DEF SameRequest
    <3> QED BY <1>0, <2>2, <3>2 DEF MarkersAreAlone
  <2>8. PaysWith(ids, row)
    BY <1>5, CloseIsPaid
  <2> HIDE DEF d, ids
  <2>9. Final(d)'
    BY <1>4, <2>3, <2>4, <2>5, <2>6, <2>7, <2>8
  <2> QED BY <2>3, <2>9 DEF d
<1>6. ASSUME GatherBatch, row = BatchRow(BatchIds, order.deposit)
      PROVE  row.deposit \in Deposits /\ Final(row.deposit)'
  <2> DEFINE d == row.deposit
  <2>1. row.of = BatchIds /\ PaysWith(BatchIds, row)
    BY <1>0, <1>6, BatchIsPaid DEF PaysWith
  <2>2. d = order.deposit /\ d # NoDeposit /\ ClosesDeposit(BatchIds)
    BY <1>6 DEF BatchRow, Erc20Transfer, MultiTransfer, DepositTransfer, DepositMultiTransfer, Row
  <2>3. d \in Deposits
    BY <1>0, <2>2 DEF GatheringInv, Typed, Order
  <2>4. Batch = order.left /\ order # NoOrder
    BY <1>6, <2>2 DEF DepositsFitBatch, GatherBatch
  <2>5. PICK i \in BatchIds : copy[i].finish
    BY <2>2 DEF ClosesDeposit
  <2>6. i \in Waiting /\ copy[i].deposit = d
    BY <1>0, <2>2, <2>5 DEF BatchIds, Batch, Waiting, Groups, GroupsHaveKeys
  <2>7. /\ i \in DOMAIN copy /\ i \in DOMAIN transfer
        /\ transfer[i].deposit = d /\ transfer[i].finish
    BY <1>0, <2>5, <2>6, WaitingInTable DEF SameRequest
  <2>8. DepositClosed(d)
    BY <2>7 DEF DepositClosed
  <2>9. \A k \in Waiting : copy[k].deposit = d => k \in BatchIds
    BY <1>0, <2>2, <2>4 DEF OrderIsAlone, Waiting, Groups, BatchIds
  <2>10. ASSUME NEW k \in DOMAIN transfer, transfer[k].deposit = d, k \in Pending
         PROVE  k \in BatchIds
    <3>1. k \in DOMAIN copy
      BY <1>0, <2>2, <2>5, <2>6, <2>7, <2>10 DEF ClosersAreRead
    <3>2. k \in Waiting
      BY <1>0, <2>10, <3>1 DEF PendingIsRead
    <3>3. copy[k].deposit = d
      BY <1>0, <2>10, <3>2, WaitingInTable DEF SameRequest
    <3> QED BY <2>9, <3>2, <3>3
  <2>11. GroupsShrink
    <3>1. CopyKept
      BY <1>0, <2>1, TablesOfRow
    <3> QED BY <1>6, <3>1 DEF GatherBatch, GroupsShrink
  <2>12. \A k \in Waiting' : copy[k].deposit = d => k \in BatchIds
    BY <1>0, <2>9, <2>11, WaitingShrinks
  <2> HIDE DEF d
  <2>13. PICK ids : ids = BatchIds
    OBVIOUS
  <2>14. Final(d)'
    BY <1>4, <2>1, <2>3, <2>8, <2>10, <2>11, <2>12, <2>13
  <2> QED BY <2>3, <2>14 DEF d
<1>7. ~PaysNobody(row) /\ \A g : row # EthTransfer(g)
  BY DEF PaysNobody, EthTransfer, Row
<1> QED BY <1>5, <1>6, <1>7 DEF RowQueued

LEMMA LastKept ==
    ASSUME GatheringAssumption, LockAssumption, ~CliWhenUp, DepositRequests,
           LastInv, DepositsFitBatch, Next
    PROVE  RowsAreFinal' /\ CloseIsLast'
<1>0. /\ AskInv /\ FaithfulInv /\ GatheringInv /\ RowsAreFinal /\ CloseIsLast
      /\ tx \in Seq(TxRow) /\ NoDeposit \notin Deposits
  BY DEF LastInv, AskInv, GroupedInv, FaithfulInv, GatheringInv, Typed, GatheringAssumption
<1>1. ASSUME NEW r \in DOMAIN tx' PROVE r \in DOMAIN tx \/ RowQueued(tx'[r])
  BY <1>0, <1>1, RowsOfStep
<1>2. \A r \in DOMAIN tx :
        tx'[r].of = tx[r].of /\ tx'[r].deposit = tx[r].deposit /\ tx'[r].finish = tx[r].finish
  BY <1>0, RowsOfStep
<1>3. ASSUME NEW r \in DOMAIN tx', tx'[r].finish
      PROVE  tx'[r].deposit \in Deposits /\ Final(tx[r].deposit)'
  <2>1. PICK row : row = tx'[r]
    OBVIOUS
  <2>2. CASE r \in DOMAIN tx
    <3>1. row.deposit \in Deposits /\ Final(row.deposit)
      BY <1>0, <1>2, <1>3, <2>1, <2>2 DEF RowsAreFinal
    <3>2. Final(row.deposit)'
      BY <1>0, <3>1, FinalKept
    <3> QED BY <2>1, <3>1, <3>2
  <2>3. CASE RowQueued(tx'[r])
    <3>1. RowQueued(row) /\ row.finish
      BY <1>3, <2>1, <2>3
    <3>2. row.deposit \in Deposits /\ Final(row.deposit)'
      BY <3>1, NewRowIsFinal
    <3> QED BY <2>1, <3>2
  <2> QED BY <1>1, <2>2, <2>3
<1>4. ASSUME NEW r \in DOMAIN tx', NEW s \in DOMAIN tx', r < s, tx'[r].finish, tx'[s].of # {}
      PROVE  tx'[s].deposit # tx'[r].deposit
  <2>1. \A n \in DOMAIN tx' \ DOMAIN tx : n = Len(tx) + 1
    BY <1>0, RowsOfStep
  <2>2. r \in DOMAIN tx
    BY <1>0, <1>4, <2>1
  <2>3. tx[r].finish /\ tx[r].deposit = tx'[r].deposit
    BY <1>2, <1>4, <2>2
  <2>4. CASE s \in DOMAIN tx
    BY <1>0, <1>2, <1>4, <2>2, <2>3, <2>4 DEF CloseIsLast
  <2>5. CASE RowQueued(tx'[s])
    <3>1. tx'[s].deposit = NoDeposit \/ \E i \in Waiting : copy[i].deposit = tx'[s].deposit
      <4>1. PICK row : row = tx'[s]
        OBVIOUS
      <4>2. RowQueued(row) /\ row.of # {}
        BY <1>4, <2>5, <4>1
      <4> QED BY <1>0, <4>1, <4>2, RowHasWaited
    <3>2. tx[r].deposit \in Deposits /\ \A i \in Waiting : copy[i].deposit # tx[r].deposit
      BY <1>0, <2>2, <2>3 DEF RowsAreFinal, Final
    <3> QED BY <1>0, <2>3, <3>1, <3>2
  <2> QED BY <1>1, <2>4, <2>5
<1>5. CloseIsLast'
  BY <1>4 DEF CloseIsLast
<1>6. RowsAreFinal'
  BY <1>3 DEF RowsAreFinal
<1> QED BY <1>5, <1>6

LEMMA LastStep ==
    ASSUME GatheringAssumption, LockAssumption, ~CliWhenUp, DepositRequests,
           LastInv, DepositsFitBatch, [Next]_vars
    PROVE  LastInv'
<1>0. GroupedInv /\ FaithfulInv /\ DepositsAsk
  BY DEF LastInv, AskInv, GroupedInv
<1>1. GroupedInv'
  BY <1>0, GroupedStep
<1>2. CASE Next
  <2>1. TablesStep
    BY <1>0, <1>2, TablesSteps
  <2>2. DepositsAsk' /\ MarkersAreAlone' /\ ClosersAreRead'
    BY <1>0, <2>1, DepositsAskKept, MarkersKept, ClosersKept DEF LastInv
  <2>3. PendingIsRead' /\ OrderIsAlone'
    BY <1>0, <1>2, PendingKept, AloneKept DEF LastInv
  <2>4. RowsAreFinal' /\ CloseIsLast'
    BY <1>2, LastKept
  <2> QED BY <1>1, <2>2, <2>3, <2>4 DEF LastInv, AskInv
<1>3. CASE UNCHANGED vars
  <2>1. UNCHANGED <<transfer, tx, copy, groups, order>>
    BY <1>3 DEF vars, dbVars, workVars
  <2>2. Waiting' = Waiting /\ Pending' = Pending /\ Special' = Special
    BY <2>1 DEF Waiting, Groups, Special, Pending
  <2>3. DepositsAsk' /\ MarkersAreAlone' /\ PendingIsRead' /\ ClosersAreRead' /\ OrderIsAlone'
    BY <2>1, <2>2 DEF LastInv, AskInv, DepositsAsk, MarkersAreAlone, PendingIsRead,
         ClosersAreRead, OrderIsAlone
  <2>4. RowsAreFinal' /\ CloseIsLast'
    BY <2>1, <2>2 DEF LastInv, RowsAreFinal, Final, DepositClosed, CloseIsLast
  <2> QED BY <1>1, <2>3, <2>4 DEF LastInv, AskInv
<1> QED BY <1>2, <1>3

\* The row that closes a deposit is the last one that pays out of it, so that
\* its refund is not lost to a payment that comes later: nothing can be added
\* to a deposit that is closed, and a gathering that closes it has read all
\* that waits.  It takes transfers out of deposits that ask for tokens and
\* have a receiver, and a deposit's receivers that fit into one batch.
THEOREM CloseComesLast ==
    ASSUME GatheringAssumption, LockAssumption, ~CliWhenUp, DepositRequests
    PROVE  Spec /\ []DepositsFitBatch => []CloseIsLast
<1>1. Init => LastInv
  <2> SUFFICES ASSUME Init PROVE LastInv
    OBVIOUS
  <2>1. DOMAIN transfer = {} /\ DOMAIN tx = {} /\ DOMAIN copy = {} /\ order = NoOrder
    BY DEF Init
  <2> QED BY <2>1, GroupedInit DEF LastInv, AskInv, DepositsAsk, MarkersAreAlone,
              PendingIsRead, ClosersAreRead, OrderIsAlone, RowsAreFinal, CloseIsLast
<1>2. LastInv /\ DepositsFitBatch /\ [Next]_vars => LastInv'
  BY LastStep
<1>3. LastInv => CloseIsLast
  BY DEF LastInv
<1> QED BY <1>1, <1>2, <1>3, PTL DEF Spec
=============================================================================
