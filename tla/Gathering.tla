----------------------------- MODULE Gathering -----------------------------
(***************************************************************************)
(* From token transfers to rows of the table tx: the gathering of an       *)
(* account that pays its receivers directly, with the multi transfer       *)
(* contract or out of deposits of LockPayment, the commands that work on   *)
(* the same tables from another process, and the contract.                 *)
(*                                                                         *)
(* What the sender does with a row is PaymentSender's subject: here it     *)
(* takes the rows one by one.  A row whose call would revert is not sent:  *)
(* the sender stays at this row until its call succeeds or a user skips    *)
(* it.  The state of the contract may change between sending and mining.   *)
(* A gathering works on copies of the transfers it has read, and writes    *)
(* whole rows back.                                                        *)
(***************************************************************************)
EXTENDS LockPayment, Sequences

CONSTANTS
    Me,             \* the account of the service
    NoDeposit,      \* a transfer that is not paid out of a deposit
    NoId,           \* SQL NULL
    Requests,       \* transfers that users may ask for
    Workloads,      \* [requests, deposits]: the requests that users make, in this
                    \* order, and the deposits that are used beside them
    MaxPerBatch,    \* multi_contract_max_at_once
    MaxPacked,      \* 2^96: the amounts of a packed call are below it
    Allowances,     \* allowance of the multi contract at the start
    CliWhenUp,      \* commands are given while the service runs, too
    MaxTransfers,   \* bound: rows of the table token_transfer
    MaxTx,          \* bound: rows of the table tx that commands may add to,
                    \* or users skip
    MaxCrashes      \* bound: crashes of the service

\* minimum_allowance; an approval asks for the largest number.
MinimumAllowance == 1
MaximumAllowance == 2

ASSUME GatheringAssumption ==
    /\ Me \in Accounts \ {Lock}
    /\ NoDeposit \notin Deposits
    /\ NoId \notin Nat
    /\ Requests \subseteq [to : Accounts \cup {NoAccount}, amount : Nat,
                           deposit : Deposits \cup {NoDeposit}, token : BOOLEAN]
    /\ Workloads \subseteq [requests : Seq(Requests), deposits : SUBSET Deposits]
    /\ MaxPerBatch \in Nat \ {0}
    /\ MaxPacked \in Nat \ {0}
    /\ Allowances \subseteq 0..MaximumAllowance
    /\ CliWhenUp \in BOOLEAN
    /\ MaxTransfers \in Nat /\ MaxTx \in Nat /\ MaxCrashes \in Nat

VARIABLES
    transfer,   \* table token_transfer, a sequence of rows by id
    tx,         \* table tx, a sequence of rows by id
    allowance,  \* table allowance, the rows of the multi contract by id
    approved,   \* allowance of the multi contract in the chain
    up,         \* the service runs
    pc,         \* what the service does
    copy,       \* the rows of token_transfer that the gathering has read
    groups,     \* ids of the transfers to one receiver, not yet in an order
    order,      \* the order under way: groups that are left, its ids, its deposit
    cli,        \* a command between its two writes: the id and its copy
    todo,       \* the workload, without the requests already made
    closing,    \* deposits whose close has been accepted (history)
    crashes     \* number of crashes

dbVars == <<transfer, tx, allowance>>
workVars == <<copy, groups, order>>
vars == <<lockVars, dbVars, approved, up, pc, workVars, cli, todo, closing, crashes>>

----------------------------------------------------------------------------
(* The tables.                                                             *)

Transfer == [to : Accounts \cup {NoAccount}, amount : Nat,
             deposit : Deposits \cup {NoDeposit}, token : BOOLEAN,
             finish : BOOLEAN, tx : Nat \cup {NoId},
             error : BOOLEAN, paid : BOOLEAN]

NewRow(request) ==
    [to |-> request.to, amount |-> request.amount, deposit |-> request.deposit,
     token |-> request.token, finish |-> FALSE, tx |-> NoId,
     error |-> FALSE, paid |-> FALSE]

\* The transfer that stands for the closing of a deposit.
CloseMarker(d) ==
    [NewRow([to |-> NoAccount, amount |-> 0, deposit |-> d, token |-> TRUE])
        EXCEPT !.finish = TRUE]

\* A row of tx calls a method; of is the set of the transfers it pays.
Methods == {"transfer", "ERC20.transfer", "MULTI", "ERC20.approve",
            "LOCK.single", "LOCK.multi", "LOCK.close",
            "LOCK.create", "LOCK.terminate"}

Row(method, of, deposit, finish) ==
    [method |-> method, of |-> of, deposit |-> deposit, finish |-> finish,
     amount |-> 0, fee |-> 0, validTo |-> 0, status |-> "queued"]

\* What the rows call: the payment of the transfers ids, ...
EthTransfer(ids) == Row("transfer", ids, NoDeposit, FALSE)
Erc20Transfer(ids) == Row("ERC20.transfer", ids, NoDeposit, FALSE)
MultiTransfer(ids) == Row("MULTI", ids, NoDeposit, FALSE)
DepositTransfer(ids, d, finish) == Row("LOCK.single", ids, d, finish)
DepositMultiTransfer(ids, d, finish) == Row("LOCK.multi", ids, d, finish)

\* ... an approval, or the life of a deposit.
Erc20Approve == Row("ERC20.approve", {}, NoDeposit, FALSE)
CreateDeposit(d, amount, fee, validTo) ==
    [Row("LOCK.create", {}, d, FALSE) EXCEPT
        !.amount = amount, !.fee = fee, !.validTo = validTo]
CloseOfDeposit(i, d) == Row("LOCK.close", {i}, d, TRUE)
TerminateOfDeposit(d) == Row("LOCK.terminate", {}, d, FALSE)

\* Mutant of Pending: transfers that have a row already are gathered again.
NotFailed == {i \in DOMAIN transfer : ~transfer[i].error}

Pending == {i \in DOMAIN transfer : transfer[i].tx = NoId /\ ~transfer[i].error}
Unresolved == {r \in DOMAIN tx : tx[r].status \in {"queued", "sent"}}

\* What a row pays to every receiver.
Amount(ids) == Total([i \in ids |-> transfer[i].amount])
SumsOf(ids) ==
    [a \in {transfer[i].to : i \in ids} |->
        Amount({i \in ids : transfer[i].to = a})]

\* Twelve bytes of a packed payment hold its amount.
PaymentsOf(row) ==
    IF row.method \in {"MULTI", "LOCK.multi"}
    THEN [a \in DOMAIN SumsOf(row.of) |-> SumsOf(row.of)[a] % MaxPacked]
    ELSE SumsOf(row.of)

----------------------------------------------------------------------------
NoOrder == [left |-> {}, all |-> {}, deposit |-> NoDeposit]

Init ==
    /\ LockInit
    /\ transfer = <<>>
    /\ tx = <<>>
    /\ allowance = <<>>
    /\ approved \in Allowances
    /\ up = FALSE
    /\ pc = "down"
    /\ copy = <<>>
    /\ groups = {}
    /\ order = NoOrder
    /\ cli = NoId
    /\ todo \in Workloads
    /\ closing = {}
    /\ crashes = 0

CliMayRun == cli = NoId /\ (CliWhenUp \/ ~up)

----------------------------------------------------------------------------
(* Users.                                                                  *)

\* Mutant of DepositClosed: a close that has got its row is forgotten.
CloseWaits(d) ==
    \E i \in DOMAIN transfer :
        transfer[i].deposit = d /\ transfer[i].finish /\ transfer[i].tx = NoId

DepositClosed(d) == \E i \in DOMAIN transfer : transfer[i].deposit = d /\ transfer[i].finish

\* The check of the deposit and the insert are one database transaction.
Insert ==
    /\ todo.requests # <<>>
    /\ ~DepositClosed(Head(todo.requests).deposit)
    /\ Len(transfer) < MaxTransfers
    /\ transfer' = Append(transfer, NewRow(Head(todo.requests)))
    /\ todo' = [todo EXCEPT !.requests = Tail(@)]

NewTransfer ==
    /\ up
    /\ Insert
    /\ UNCHANGED <<lockVars, tx, allowance, approved, up, pc, workVars, cli,
                   closing, crashes>>

Refused ==
    /\ todo.requests # <<>>
    /\ DepositClosed(Head(todo.requests).deposit)
    /\ todo' = [todo EXCEPT !.requests = Tail(@)]
    /\ UNCHANGED <<lockVars, dbVars, approved, up, pc, workVars, cli, closing,
                   crashes>>

\* The command writes the row once more, with the payment id it derives
\* from the id of the row.
CliTransfer ==
    /\ CliMayRun
    /\ Insert
    /\ cli' = [id |-> Len(transfer'), row |-> NewRow(Head(todo.requests))]
    /\ UNCHANGED <<lockVars, tx, allowance, approved, up, pc, workVars,
                   closing, crashes>>

CliPaymentId ==
    /\ cli # NoId
    /\ transfer' = [transfer EXCEPT ![cli.id] = cli.row]
    /\ cli' = NoId
    /\ UNCHANGED <<lockVars, tx, allowance, approved, up, pc, workVars,
                   todo, closing, crashes>>

\* What is read of a deposit from the contract: not its date.
DepositDetails(d) ==
    [funder |-> FunderOf[d], spender |-> lock.deposits[d].spender,
     amount |-> lock.deposits[d].amount]

TokenBalance(a) == lock.glm[a]

\* The last transfer of the deposit that has no row yet closes it; if there
\* is none, an empty transfer is added.
CloseDeposit(d) ==
    LET waiting == {i \in DOMAIN transfer :
                        transfer[i].deposit = d /\ transfer[i].tx = NoId}
    IN  /\ CliMayRun
        /\ DepositDetails(d).amount > 0
        /\ DepositDetails(d).spender = Me
        /\ ~DepositClosed(d)
        /\ \/ /\ waiting # {}
              /\ transfer' = [transfer EXCEPT ![Max(waiting)].finish = TRUE]
           \/ /\ waiting = {}
              /\ Len(transfer) < MaxTransfers
              /\ transfer' = Append(transfer, CloseMarker(d))
        /\ closing' = closing \cup {d}
        /\ UNCHANGED <<lockVars, tx, allowance, approved, up, pc, workVars,
                       cli, todo, crashes>>

Queue(row) == tx' = Append(tx, row)

\* The filter for a pending row names a method that no row has.  An option
\* of the command leaves the check of the balance out.
MakeDeposit(d) ==
    /\ CliMayRun
    /\ Len(tx) < MaxTx
    /\ FunderOf[d] = Me
    /\ \E amount \in LockAmounts, fee \in Fees, validTo \in 0..MaxTime,
          skipBalanceCheck \in BOOLEAN :
        /\ skipBalanceCheck \/ TokenBalance(Me) >= amount + fee
        /\ Queue(CreateDeposit(d, amount, fee, validTo))
    /\ UNCHANGED <<lockVars, transfer, allowance, approved, up, pc, workVars,
                   cli, todo, closing, crashes>>

\* Only the contract looks at the date of the deposit.
TerminateDeposit(d) ==
    /\ CliMayRun
    /\ Len(tx) < MaxTx
    /\ DepositDetails(d).funder = Me
    /\ DepositDetails(d).amount > 0
    /\ Queue(TerminateOfDeposit(d))
    /\ UNCHANGED <<lockVars, transfer, allowance, approved, up, pc, workVars,
                   cli, todo, closing, crashes>>

----------------------------------------------------------------------------
(* The sender: a row is checked against the state of the chain, sent and   *)
(* mined.  The status of the receipt is not looked at.                     *)

Succeeds(row) ==
    LET d == row.deposit
        payments == PaymentsOf(row)
    IN  CASE row.method = "MULTI" ->
                /\ approved >= MinimumAllowance
                /\ Total(payments) = Amount(row.of)
          [] row.method \in {"LOCK.single", "LOCK.multi"} ->
                IF row.finish THEN CanPayAndClose(lock, Me, d, payments)
                ELSE CanPay(lock, Me, d, payments)
          [] row.method = "LOCK.close" -> CanClose(lock, Me, d)
          [] row.method = "LOCK.create" ->
                CanCreate(lock, Me, d, SpenderOf[d], row.amount, row.fee)
          [] row.method = "LOCK.terminate" -> CanTerminate(lock, Me, d)
          [] OTHER -> TRUE

LockAfter(row) ==
    LET d == row.deposit
        payments == PaymentsOf(row)
    IN  CASE row.method \in {"LOCK.single", "LOCK.multi"} ->
                IF row.finish THEN PaidAndClosed(lock, d, payments)
                ELSE PaidOut(lock, d, payments)
          [] row.method = "LOCK.close" -> Closed(lock, d)
          [] row.method = "LOCK.create" ->
                Created(lock, d, SpenderOf[d], row.amount, row.fee, row.validTo)
          [] row.method = "LOCK.terminate" -> Terminated(lock, d)
          [] OTHER -> lock

\* Only these methods report the outcome of a row to its transfers.
Reported(row) == row.method \in {"transfer", "ERC20.transfer", "MULTI"}

TransfersOf(r) == {i \in DOMAIN transfer : transfer[i].tx = r}

Sending == up /\ pc = "process" /\ Unresolved # {}

\* The check of a row that would revert is an error: the loop sleeps, reads
\* the same row again and checks it again, and nothing changes.
Blocked ==
    /\ Unresolved # {}
    /\ tx[Min(Unresolved)].status = "queued"
    /\ ~Succeeds(tx[Min(Unresolved)])

\* A user skips the row at which the sender is.
Skip ==
    /\ Sending
    /\ LET r == Min(Unresolved)
       IN  /\ r <= MaxTx
           /\ tx[r].status = "queued"
           /\ tx' = [tx EXCEPT ![r].status = "failed"]
           /\ transfer' = [i \in DOMAIN transfer |->
                IF Reported(tx[r]) /\ i \in TransfersOf(r)
                THEN [transfer[i] EXCEPT !.error = TRUE] ELSE transfer[i]]
    /\ UNCHANGED <<lockVars, allowance, approved, up, pc, workVars, cli,
                   todo, closing, crashes>>

Send ==
    /\ Sending
    /\ LET r == Min(Unresolved)
       IN  /\ tx[r].status = "queued"
           /\ Succeeds(tx[r])
           /\ tx' = [tx EXCEPT ![r].status = "sent"]
    /\ UNCHANGED <<lockVars, transfer, allowance, approved, up, pc, workVars,
                   cli, todo, closing, crashes>>

\* Without a transfer to report to, the outcome of a payment is not saved.
Confirm ==
    /\ Sending
    /\ LET r == Min(Unresolved)
           mined == Succeeds(tx[r])
       IN  /\ tx[r].status = "sent"
           /\ Reported(tx[r]) => TransfersOf(r) # {}
           /\ lock' = IF mined THEN LockAfter(tx[r]) ELSE lock
           /\ approved' = IF mined /\ tx[r].method = "ERC20.approve"
                          THEN MaximumAllowance ELSE approved
           /\ tx' = [tx EXCEPT ![r].status = IF mined THEN "confirmed" ELSE "reverted"]
           /\ transfer' = [i \in DOMAIN transfer |->
                IF Reported(tx[r]) /\ i \in TransfersOf(r)
                THEN [transfer[i] EXCEPT !.paid = TRUE] ELSE transfer[i]]
    /\ UNCHANGED <<now, allowance, up, pc, workVars, cli, todo, closing, crashes>>

----------------------------------------------------------------------------
(* gather_transactions_pre: one query, then the transfers that close a     *)
(* deposit get a row of their own, others without a receiver an error, and *)
(* the rest is grouped by receiver, token and deposit.                     *)

Key(row) == <<row.to, row.token, row.deposit>>

\* Mutant of IsMarker: the null address is an invalid receiver, always.
NeverMarker(row) == FALSE

IsMarker(row) == row.deposit # NoDeposit /\ row.finish /\ row.to = NoAccount /\ row.amount = 0

Grouped(ids) ==
    {{i \in ids : Key(transfer[i]) = k} : k \in {Key(transfer[i]) : i \in ids}}

\* The query, and the transfers that are left to the batches.
GatherPre ==
    /\ up /\ pc = "process" /\ Unresolved = {} /\ Pending # {}
    /\ copy' = transfer
    /\ groups' = Grouped({i \in Pending : transfer[i].to # NoAccount})
    /\ pc' = "gather"
    /\ UNCHANGED <<lockVars, dbVars, approved, up, order, cli, todo, closing, crashes>>

\* Mutant of WriteCopies: the id is taken from the wrong table.
WriteCopiesWithTransferId(ids, r) ==
    /\ copy' = [i \in DOMAIN copy |->
                IF i \in ids THEN [copy[i] EXCEPT !.tx = Len(transfer)] ELSE copy[i]]
    /\ transfer' = [i \in DOMAIN transfer |->
                    IF i \in ids THEN copy'[i] ELSE transfer[i]]

\* The rows as the gathering knows them, with the id of the row that pays
\* them, replace what the table has.
WriteCopies(ids, r) ==
    /\ copy' = [i \in DOMAIN copy |->
                IF i \in ids THEN [copy[i] EXCEPT !.tx = r] ELSE copy[i]]
    /\ transfer' = [i \in DOMAIN transfer |->
                    IF i \in ids THEN copy'[i] ELSE transfer[i]]

\* What was read and has no receiver.
Special == {i \in DOMAIN copy :
                copy[i].to = NoAccount /\ copy[i].tx = NoId /\ ~copy[i].error}
NextSpecial(i) == i \in Special /\ \A j \in Special : i <= j

\* Each of these is a commit of its own.
CloseGetsRow(i) ==
    /\ pc = "gather" /\ NextSpecial(i) /\ IsMarker(copy[i])
    /\ Queue(CloseOfDeposit(i, copy[i].deposit))
    /\ WriteCopies({i}, Len(tx) + 1)
    /\ UNCHANGED <<lockVars, allowance, approved, up, pc, groups, order, cli,
                   todo, closing, crashes>>

NoReceiver(i) ==
    /\ pc = "gather" /\ NextSpecial(i) /\ ~IsMarker(copy[i])
    /\ copy' = [copy EXCEPT ![i].error = TRUE]
    /\ transfer' = [transfer EXCEPT ![i] = copy'[i]]
    /\ UNCHANGED <<lockVars, tx, allowance, approved, up, pc, groups, order, cli,
                   todo, closing, crashes>>

InGas(g) == \A i \in g : ~copy[i].token

\* gather_transactions_batch: transfers of gas, in the order of their ids.
GatherGas(g) ==
    /\ pc = "gather" /\ Special = {}
    /\ InGas(g) /\ \A h \in groups : InGas(h) => Min(g) <= Min(h)
    /\ Queue(EthTransfer(g))
    /\ WriteCopies(g, Len(tx) + 1)
    /\ groups' = groups \ {g}
    /\ UNCHANGED <<lockVars, allowance, approved, up, pc, order, cli, todo, closing, crashes>>

\* The rows have the same owner, token and spender: the query gets the first.
FindAllowance == IF allowance = <<>> THEN NoId ELSE allowance[1]

\* Mutant of AllowanceMet: more is asked for than an approval gives.
AllowanceExceeded ==
    /\ FindAllowance # NoId
    /\ FindAllowance.confirmed
    /\ FindAllowance.amount > MaximumAllowance

AllowanceMet ==
    /\ FindAllowance # NoId
    /\ FindAllowance.confirmed
    /\ FindAllowance.amount >= MinimumAllowance

DepositOf(g) == copy[Min(g)].deposit

\* gather_transactions_batch_multi begins: the groups of one deposit, or of
\* none, by their first ids.  Without an allowance the gathering ends.
PickOrder(d) ==
    LET ours == {g \in groups : DepositOf(g) = d}
    IN  /\ pc = "gather" /\ Special = {} /\ order = NoOrder
        /\ ours # {} /\ \A g \in groups : ~InGas(g)
        /\ \/ /\ d = NoDeposit => AllowanceMet
              /\ groups' = groups \ ours
              /\ order' = [left |-> ours, all |-> UNION ours, deposit |-> d]
              /\ UNCHANGED <<pc, copy>>
           \/ /\ d = NoDeposit /\ ~AllowanceMet
              /\ groups' = {}
              /\ pc' = "allowance"
              /\ copy' = <<>>
              /\ UNCHANGED order
        /\ UNCHANGED <<lockVars, dbVars, approved, up, cli, todo, closing, crashes>>

\* The next MaxPerBatch groups by their first ids.
Batch == {g \in order.left :
            Cardinality({h \in order.left : Min(h) < Min(g)}) < MaxPerBatch}
BatchIds == UNION Batch

\* Mutant of Unpackable: the transfers are checked, not their sums.
TransferUnpackable ==
    Cardinality(Batch) > 1 /\ \E i \in BatchIds : copy[i].amount > MaxPacked

\* A payment of more than 2^96 cannot be packed.
Unpackable ==
    Cardinality(Batch) > 1 /\ \E g \in Batch : Amount(g) > MaxPacked

\* Mutant of ClosesDeposit: the flag of the first transfer decides.
FirstCloses(ids) == copy[Min(ids)].finish

ClosesDeposit(ids) == \E i \in ids : copy[i].finish

\* With use_transfer_for_single_payment.
BatchRow(ids, d) ==
    IF Cardinality(Batch) = 1
    THEN IF d = NoDeposit THEN Erc20Transfer(ids)
         ELSE DepositTransfer(ids, d, ClosesDeposit(ids))
    ELSE IF d = NoDeposit THEN MultiTransfer(ids)
         ELSE DepositMultiTransfer(ids, d, ClosesDeposit(ids))

\* A commit: the row, and the transfers it pays.
GatherBatch ==
    /\ pc = "gather" /\ order # NoOrder /\ ~Unpackable
    /\ Queue(BatchRow(BatchIds, order.deposit))
    /\ WriteCopies(BatchIds, Len(tx) + 1)
    /\ order' = IF Batch = order.left THEN NoOrder ELSE [order EXCEPT !.left = @ \ Batch]
    /\ UNCHANGED <<lockVars, allowance, approved, up, pc, groups, cli, todo, closing, crashes>>

\* An error ends the order: all of its transfers are marked, those that an
\* earlier batch has given a row as well.
BatchFails ==
    /\ pc = "gather" /\ order # NoOrder /\ Unpackable
    /\ transfer' = [i \in DOMAIN transfer |->
            IF i \in order.all THEN [copy[i] EXCEPT !.error = TRUE] ELSE transfer[i]]
    /\ order' = NoOrder
    /\ UNCHANGED <<lockVars, tx, allowance, approved, up, pc, copy, groups, cli,
                   todo, closing, crashes>>

GatherEnds ==
    /\ pc = "gather" /\ Special = {} /\ groups = {} /\ order = NoOrder
    /\ pc' = "process"
    /\ copy' = <<>>
    /\ UNCHANGED <<lockVars, dbVars, approved, up, groups, order, cli, todo, closing, crashes>>

----------------------------------------------------------------------------
(* process_allowance: the allowance in the chain is looked up unless the   *)
(* table has a confirmed one, and an approval is queued if it is too small.*)

AllowanceInChain == approved

WithFirstConfirmed == [allowance EXCEPT ![1].confirmed = TRUE]

NewAllowance(amount, confirmed) == [amount |-> amount, confirmed |-> confirmed]

ProcessAllowance ==
    LET known == FindAllowance # NoId /\ FindAllowance.confirmed
        found == IF known THEN FindAllowance.amount ELSE AllowanceInChain
        table == IF known \/ found <= MinimumAllowance THEN allowance
                 ELSE IF FindAllowance = NoId THEN <<NewAllowance(found, TRUE)>>
                 ELSE WithFirstConfirmed
    IN  /\ pc = "allowance"
        /\ pc' = "process"
        /\ IF found < MinimumAllowance
           THEN /\ Queue(Erc20Approve)
                /\ allowance' = Append(table, NewAllowance(MaximumAllowance, FALSE))
           ELSE allowance' = table /\ UNCHANGED tx
        /\ UNCHANGED <<lockVars, transfer, approved, up, workVars, cli, todo, closing, crashes>>

----------------------------------------------------------------------------
(* The service.                                                            *)

Start ==
    /\ ~up
    /\ CliWhenUp \/ cli = NoId
    /\ up' = TRUE
    /\ pc' = "process"
    /\ UNCHANGED <<lockVars, dbVars, approved, workVars, cli, todo, closing, crashes>>

\* finish_when_done: a service without work ends.
Finish ==
    /\ up /\ pc = "process" /\ Unresolved = {} /\ Pending = {}
    /\ up' = FALSE
    /\ pc' = "down"
    /\ UNCHANGED <<lockVars, dbVars, approved, workVars, cli, todo, closing, crashes>>

Crash ==
    /\ up
    /\ crashes < MaxCrashes
    /\ crashes' = crashes + 1
    /\ up' = FALSE
    /\ pc' = "down"
    /\ copy' = <<>>
    /\ groups' = {}
    /\ order' = NoOrder
    /\ UNCHANGED <<lockVars, dbVars, approved, cli, todo, closing>>

Service ==
    \/ Send \/ Confirm
    \/ GatherPre
    \/ \E i \in Special : CloseGetsRow(i) \/ NoReceiver(i)
    \/ \E g \in groups : GatherGas(g)
    \/ \E d \in Deposits \cup {NoDeposit} : PickOrder(d)
    \/ GatherBatch \/ BatchFails \/ GatherEnds
    \/ ProcessAllowance

Users ==
    \/ NewTransfer \/ CliTransfer \/ CliPaymentId \/ Refused
    \/ \E d \in todo.deposits : CloseDeposit(d) \/ MakeDeposit(d) \/ TerminateDeposit(d)

\* The funders of the other accounts, and time.
Others ==
    /\ \/ \E d \in todo.deposits :
            /\ FunderOf[d] # Me
            /\ OthersCreate(d) \/ OthersExtend(d) \/ OthersTerminate(d)
       \/ Tick
    /\ UNCHANGED <<dbVars, approved, up, pc, workVars, cli, todo, closing, crashes>>

Next == Service \/ Users \/ Skip \/ Others \/ Start \/ Finish \/ Crash

Spec == Init /\ [][Next]_vars

\* The service goes on and is started again after a crash.
FairSpec == Spec /\ WF_vars(Service) /\ WF_vars(Start) /\ WF_vars(CliPaymentId)

----------------------------------------------------------------------------
(* Properties.                                                             *)

\* The tables keep their types and a gathering works on rows that exist.
TypeOK ==
    /\ transfer \in Seq(Transfer)
    /\ \A i \in DOMAIN transfer : transfer[i].tx \in DOMAIN tx \cup {NoId}
    /\ \A r \in DOMAIN tx :
        /\ tx[r].method \in Methods
        /\ tx[r].of \subseteq DOMAIN transfer
        /\ tx[r].status \in {"queued", "sent", "failed", "confirmed", "reverted"}
    /\ approved \in 0..MaximumAllowance
    /\ (UNION groups) \cup order.all \subseteq DOMAIN copy
    /\ pc \in {"down", "process", "gather", "allowance"}
    /\ lock.deposits \in [Deposits -> Deposit]

\* The call of a row pays the transfers that the table links to it, all of
\* them and no other: no transfer is paid by two rows, and none is linked to
\* a row that leaves it out.
RowPaysItsTransfers == \A r \in DOMAIN tx : tx[r].of = TransfersOf(r)

\* The contract gets the amounts of the transfers, whatever call packs them.
PackedIsExact == \A r \in DOMAIN tx : PaymentsOf(tx[r]) = SumsOf(tx[r].of)

\* Once a close has been accepted, a transfer that waits or a row of the
\* sender closes the deposit.
CloseIsKept ==
    \A d \in closing : \E i \in DOMAIN transfer :
        /\ transfer[i].deposit = d
        /\ \/ i \in Pending /\ transfer[i].finish
           \/ transfer[i].tx # NoId /\ tx[transfer[i].tx].finish

\* No row pays out of a deposit after the row that closes it.
CloseIsLast ==
    \A r, s \in DOMAIN tx :
        r < s /\ tx[r].finish /\ tx[s].of # {} => tx[s].deposit # tx[r].deposit

\* Every transfer gets a row or an error, unless the sender comes again and
\* again to a row whose call would revert: then nothing is gathered any more.
NoneWaitsForever == []<>(Pending = {} \/ Blocked)

\* An accepted close is carried out, unless the sender is blocked again and
\* again: a row that closes the deposit is mined, or a user has skipped it.
CloseIsCarriedOut ==
    \A d \in Deposits :
        \/ []<>Blocked
        \/ d \in closing ~>
            \E r \in DOMAIN tx : tx[r].finish /\ tx[r].deposit = d /\ r \notin Unresolved

\* The contract loses money only to the spenders of deposits with a fee: what
\* it owes beyond what it holds grows only when such a deposit is closed, by
\* the fee, which the funder gets back and the spender gets once more.
OnlyFeesAreLost == [][Missing(lock') <= Missing(lock) \/ FeeIsLost(lock, lock')]_vars

=============================================================================
