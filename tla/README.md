# TLA+ models of erc20_payment_lib

The library takes requests to transfer ERC-20 tokens, gathers them into Ethereum
transactions, sends these through a pool of RPC endpoints and follows them until they are
confirmed.  It keeps its state in SQLite, so that it can stop and start again at any point.
This directory models the way of a payment from the request to the report, checks it with TLC
and proves the central properties with TLAPS.

Paths below are relative to the repository; `lib/` is `crates/erc20_payment_lib/src/`,
`common/` is `crates/erc20_payment_lib_common/src/`, `pool/` is
`crates/erc20_rpc_pool/src/rpc_pool/`.

## 1. Inventory

| Component | Code | State | Operations |
|---|---|---|---|
| sender task, one per account | `lib/sender/service.rs`, `process.rs` | the row it works on (`web3_tx_dao`), the receipt search (`current_tx`) | `service_loop`, `process_transactions`, `process_transaction`, `update_token_transfer_result` |
| table `tx` | `common/db/ops/tx_ops.rs` | one row per transaction stub, `processing`, `orig_tx_id`, nonce, signed data, dates | insert, update, delete, queue order, lineage |
| table `token_transfer` | `common/db/ops/token_transfer_ops.rs` | one row per payment: `tx_id`, `fee_paid`, `error`, deposit columns | insert (with deposit check), remap, cleanup, update |
| gathering | `lib/sender/batching.rs` | copies of the pending transfers, grouped | `gather_transactions_pre / batch / batch_multi / post` |
| allowance check | `lib/sender/allowance.rs`, `common/db/ops/allowance_ops.rs` | table `allowance` | `process_allowance` |
| gathering schedule | `lib/sender/service.rs` 394-469 | `last_gather_time`, `next_gather_time`, `Notify` | sleep, wake, clear |
| transactions | `lib/transaction.rs` | none | create, check, sign, send, find receipt |
| runtime | `lib/runtime.rs` | `SharedState`, `StatusTracker`, event channel | transfer, mint, deposits, cleanup, verification |
| deposits | `lib/runtime.rs` 1119-1402, `yatestnet/contracts/contracts/LockPayment.sol` | `deposit_id`, `deposit_finish`; the contract's `deposits` | make, close, terminate |
| RPC pool | `pool/` | endpoints with scores, penalties and verification results | call with retries, verify, resolve, clean up |
| chain scanner | `lib/service.rs`, `src/actions/scan_chain.rs` | `scan_info`, `chain_tx`, `chain_transfer` | confirm, scan, import |
| signers, setup, web API, CLI | `lib/signer/`, `lib/setup.rs`, `lib/server/`, `src/` | none, or `SharedState` | sign, configure, query, skip, cleanup |

**How they interact.** A caller (library, CLI or web API) inserts rows into `token_transfer`
and wakes the sender tasks through one shared `Notify`.  The task of an account first
processes all rows of `tx` with `processing > 0` one at a time; when there are none left it
gathers the pending transfers into new rows and starts again.  It talks to the chain through
the RPC pool, to the user through `SharedState.current_tx_info` (a skip is a flag that the
task looks at when it takes a row) and to the runtime through a channel of driver events.
The CLI's `cleanup` and the tasks share the database and nothing else.

**What makes it hard.** The task holds a copy of its row across awaits and writes all columns
back; what belongs together is written in several commits; the process can die between any
two of them; a signed transaction, once sent, cannot be called back; RPC answers fail, get
lost or lag behind; the same key may be used elsewhere; blocks are dropped; stuck
transactions are replaced by others with the same nonce, and a replacement by another
replacement.

**What makes each component correct.**

- sender: a transfer is paid at most once; paid is reported only when it cannot be undone;
  failed is reported only when it cannot be paid any more; every transfer ends; rows never
  compete for a nonce; a row that was sent is not forgotten.
- gathering: the row of a transfer pays exactly what the table links to it, whatever chunk or
  call it goes with; every pending transfer gets a row or an error.
- schedule: no transfer waits longer than the interval, deadlines wake the account, a
  service that finishes leaves nothing half done.
- allowance: tokens are not sent through the multi contract without an allowance, and a
  missing allowance leads to an approval and not to a loop.
- deposits: no transfer joins a closed deposit; a deposit that was asked to close is closed;
  the contract loses no more than the fees it pays twice.
- RPC pool: a call ends and never touches an endpoint that has left the arena; no endpoint is
  listed twice; after an outage the pool is used again.
- status: the user learns every change; issues stay until their chain shows that they are over.

The hazards, each at its line and with the properties that cover it, are in `PROJECT.json`.

## 2. Plan

The order is by what a mistake costs.

1. **The sender on its tables and the chain**: `EthAccount`, `PaymentSender`, the promise
   `Payments`; type correctness and `NoDoublePayment` proved.  Done.
2. **Gathering and deposits**: `Gathering` with the allowance, the deposit commands and crashes,
   on top of `LockPayment`, the contract.  Done.
3. **RPC pool**: `RpcPool` (choice, retries, verification, resolver); `NeverPanics` and
   `OneEndpointPerUrl` proved.  Done.
4. **Status and schedule**: `StatusTracker`, and `ServiceLoop`, the tasks of all chains of an
   account composed with it; both proved.  Done.
5. **The sender proved**: the lineages of replaced rows, what is reported, the refinement of
   `Payments`, who finishes a transfer, and what a failed transfer means.  Done.
6. **Times and amounts proved**: the times and waiters of `ServiceLoop`; the types, packed amounts
   and closes of `Gathering`; what the contract can lose, with the lemmas on finite sums.  Done.
7. **Open**: `NoDoublePayment` with automatic-recover on synced nodes, which `sender_recover`
   checks.

## 3. Modules

| Module | Models |
|---|---|
| `EthAccount` | External: one account of the chain as the sender sees it through `eth_getTransactionCount`, `eth_sendRawTransaction` and `eth_getTransactionReceipt`. `chain` is the sequence of the account's transactions, `final` how many are below `confirmation_blocks`, `pool` everything the network ever got. Mining takes any transaction with the next nonce, others may use the key, the newest unconfirmed transaction may be dropped. |
| `PaymentSender` | The sender task of one account, the tables `tx` and `token_transfer`, the user's skip, the CLI's cleanup, crashes and restarts. |
| `Payments` | What is promised for each transfer: its tokens move at most once, it is reported as paid only when they moved for good, and what was reported is not taken back. |
| `LockPayment` | The contract `LockPayment.sol`: for each function, when no `require` fails (`Can...`) and the state after it; other funders and the time of blocks. |
| `Gathering` | Extends `LockPayment`. From transfers to rows: grouping, orders, chunks, the full-row writes from copies, the allowance, the commands that make, close and terminate deposits or add transfers from another process, crashes. |
| `RpcPool` | The endpoints of a chain: calls with their retries, the resolver of external sources, the verifier, forced checks. |
| `StatusTracker` | The way of an event from a task over a channel of one element to the tracker and over the user's channel to the user; the list of issues. |
| `ServiceLoop` | Extends `StatusTracker`. The tasks of one account, one for each chain: processing, gathering, sleep and wake-up, deadlines, mint, finish. |
| `MCPaymentSender`, `MCGathering`, `MCRpcPool`, `MCServiceLoop` | Constants for TLC. |
| `PaymentSenderProofs`, `PaymentReportProofs`, `PaymentOutcomeProofs` | Theorems about `PaymentSender`, each module on top of the one before (section 6). |
| `GatheringProofs`, `RpcPoolProofs`, `StatusTrackerProofs`, `ServiceLoopProofs` | Theorems about the other models. |
| `FiniteTotals` | Lemmas about finite sets: induction, sums, the largest and smallest element. |

The three models of the service look at the same rows from three sides.  `PaymentSender` has a
row's life in detail and a gathering that is one step for a batch; `Gathering` has the gathering
in detail and few steps for a row (it is sent, confirmed, skipped, or blocked); in `ServiceLoop`
a job waits, has a row or is done, and what counts is when.

### PaymentSender

**State.** `tx[i]` is the row with id `i` (`live` is false before the insert and after the
delete; `nextId` is the AUTOINCREMENT counter, so ids are not used again).  Dates are reduced to
whether they are set: `started` is `first_processed`, `stuck` is `first_stuck_date`, `broadcast`
is `broadcast_date`, `confirmed` is `confirm_date`.  `signed` is "yes" while `signed_raw_data` is
set and "cleared" after the confirmation.  Fees are levels.  `transfer[t].st` folds `fee_paid`
and `error`: "paid", "failed" or "marked" (below).  `pc`, `curId`, `cur`, `probe` and `res` are
the task: where it is, the row it holds, its copy, the row whose receipt is looked for, the
result it returns.

A transfer is "marked" when it has an `error` and no `fee_paid`.  That is what a failed gathering
leaves (`batching.rs` 587-597): it marks all transfers of the order, also those that an earlier
chunk has given a row.  The row stays in the queue, and its transfers are reported as paid, or
failed, when it is finished.  So a mark is no result: in `Payments` either result may follow it
(`ReportPaid`, `ReportFailed`), or the removal of the row (`Reopen`); a transfer without a row
that is marked is never taken up again.

**Actions.** One action is the code from one await on the database or the RPC pool to the next.
In the order of `process_transaction`: `Pick` (take a row or go gathering), `GetNonce`, `Start`
(`first_processed`), `CheckOk`/`CheckWaits` (`check_transaction`), `Sign`, `Send`, `Sent`
(broadcast date), `Poll` (nonce used?), the receipt search (`ReceiptConfirmed`,
`ReceiptTooFresh`, `ReceiptOfOriginal`, `StuckNoticed`, `GiveUp`), the nonce not used yet
(`Replace`, `Resend`, `StillPending`), then `update_token_transfer_result` (`FinishConfirmed`,
`FinishFailed`, `FinishUnknown`, `FinishUnsaved`).  `StepFails` is an error of an RPC call or of
the signer, `GatherBatch`, `GatherFails` and `GatherEnds` are the gathering of transfers, with
`CrashAmongMarks` between the marks of a failed one, each of which is a commit.  That an order
cannot be packed is no fault and has no bound.  `NewTransfer`, `Skip`, `Crash`, `Restart` and
`CleanupUnsent` come from outside.  A fee changes only at a restart, because it is configuration.

**Nondeterminism for what the model has no clock for.** Timeouts (the replacement timeout,
`mark_as_unrecoverable_after_seconds`, the resend timeout) may have passed or not at each poll.
A fault is an RPC answer that fails, is lost, or comes from a node that lags behind; it
costs one of `MaxFaults`.  Errors of the database are left out: a commit takes place or the
process ends.

### LockPayment and Gathering

**State.** `lock` is the mapping `deposits` with the balances of the token, `now` the time of the
latest block.  `transfer` and `tx` are the tables, sequences by id; a row of `tx` is the method it
calls and the transfers its call data pays (`of`), which `token_transfer.tx_id` (field `tx`) should
mirror.  `allowance` is the table, `approved` the allowance in the chain.  `copy` is what
`gather_transactions_pre` has read; `groups` are transfers of one receiver, token and deposit that
have no order yet, `order` the groups that the chunks of the present order have still to take.
`cli` is a command between its insert and its second write.  `closing` remembers which closes were
accepted.  A deposit has an amount, a fee and a date, as the command and the other funders choose
them.

**Actions.** `GatherPre` (the query), `CloseGetsRow` and `NoReceiver` (transfers without a
receiver), `GatherGas`, `PickOrder`, `GatherBatch` and `BatchFails` (one chunk: a commit),
`GatherEnds`, `ProcessAllowance`; `Send`, `Confirm` and `Skip` are the sender and its user;
`NewTransfer`, `CliTransfer` and `CliPaymentId`, `CloseDeposit`, `MakeDeposit`,
`TerminateDeposit` the users; `Start`, `Finish`, `Crash` the process.  A gathering writes whole
rows: what others have written since `GatherPre` is lost (`WriteCopies`).  The call of a mined
row is evaluated against the contract again at `Confirm`, since others may have changed it since
the check.

**A row whose call would revert** stays where it is: `check_transaction` returns an error
(`transaction.rs` 510-515), `process_transactions` passes it up, and `service_loop` sleeps and
reads the same row again.  `Blocked` says that the head of the queue is such a row.  While it is,
nothing is gathered; the contract may change so that the call succeeds, or a user skips the row,
which is then marked as failed.  Skipping is limited to the first `MaxTx` rows: a user who skips
every approval makes a new one necessary each time.  Skips of sent rows are `PaymentSender`'s
subject.

**Commands run while the service is down** (`CliWhenUp = FALSE`), as the repository's own test of
deposits does (`.github/workflows/deposit.yml`, which also creates deposits with a fee and closes
them).  Nothing in the code keeps a command from running beside the service: what happens then is in
section 5.

### RpcPool

**State.** `endpoints` is the arena; an index keeps its meaning while something holds it
(generations), so `Free` places are those nobody holds.  `resolver` and `verifier` are the runs
under way; `check` the endpoints whose verification is not answered; `call[c]` a call of
`eth_generic_call`: `list` the chosen endpoints that are left, `copy` the ones it waits for,
`loop` the failures so far.  `removed` counts intervals since `removed_date`.

**Time.** `IntervalBegins` is the only clock.  An interval (`check_external_sources_interval`,
300 s by default) is longer than a run of the resolver or the verifier and than a call takes to
work through one list (5 attempts of at most 10 s and 6.8 s of pauses); the grace period is as
long.  The property `NeverPanics` rests on this.

**Left out.** Scores, penalties and statistics: any order of the allowed endpoints is possible.
Counters that no decision reads (`endpoint_consecutive_errors`, see section 5).  DNS and JSON
sources do the same to the pool and are one source.  All calls to a chain have the retries of
`eth_generic_call` and are one kind of call.

**The write of a verification.**  `verify_impl.rs` reads an endpoint under one lock (121-125) and
writes it under another (156-158).  There is no await in between, but other threads may run:
`VerifyCopies` and `VerifyWrites` are the two halves, with any number of runs of the resolver
between them, and `VerifyAnswered` is both at once.  The verifications of a run are joined in one
task (`verifier.rs` 107), so that there is one copy at a time.  The split is modelled for
endpoints of the source while a run of the resolver is under way: nothing else that may come in
between changes what is copied, but the scores.

### StatusTracker and ServiceLoop

**State.** `raw` is the channel of the driver (one element), `status` the list of issues,
`sending` what the tracker has still to send for the last event, `inbox` the user's channel,
`told` the last status the user got, `asking` a `get_status` that waits for the lock.  `job` is a
transfer or a mint: new, waiting, queued, done.  `loop[c]` is the task of a chain: `at` where it
is, `last` ticks since `last_gather_time`, `since` ticks since it read `current_time`, `left`
what is left of its sleep.  `found` is what the gathering under way has read.  `gatherTime` is
`external_gather_time`, one for all chains, and one value (`Passed`) for every time in the past;
`permit` and `waiters` are the `Notify`.

**Steps of a task.** `FindsTransfers` is the query, `Gathered`, `PostFails` and
`AllowanceMissing` the ends of the posting and the exit, which go by what was found; a transfer
may be inserted in between.  A task that is going to sleep reads the times (`ReadsTimes`) and
then waits for a notification (`FallsAsleep`): between the two another thread may set a deadline,
whose notification is kept as a permit when nobody waits.

**Time** is counted in ticks.  What happens between two sleeps takes none, except that processing a
row lasts as long as it likes.  Events are delivered within a tick, unless a task waits in
processing.

## 4. Runs

| Run | Configuration | Checks | Shows |
|---|---|---|---|
| `sender_safe` | 2 transfers, 3 rows, growing fees, skips, failing gatherings, 1 restart, 1 fault, 1 external transaction, 1 reorganisation | `TypeOK`, `NoDoublePayment`, `PaidIsFinal`, `OneInFlight`, `KeepsPromise` | the safety of the sender, and that it implements `Payments` |
| `sender_recover` | automatic-recover on, cleanup while down, synced nodes, no reorganisation | `NoDoublePayment`, `SignedRowsLeaveResolved`, `KeepsPromise` | rows that leave the table are settled |
| `sender_orderly` | 4 rows, 2 gas limits, growing fees, 2 external transactions, failing gatherings, no crash, skip or fault | `FailedIsNotPaid`, `NoOrphan`, `GatherFindsAllProcessed`, `ConfirmedHashStays` | a payment given up ("Receipt not found"), or marked and left without a row, is not made later; no transfer loses the row that finishes it |
| `sender_live` | fairness, 2 transfers, 4 rows, one level of replacement | `EveryTransferEnds`, `ReceiptSearchEnds` | every transfer ends |
| `sender_live_crash` | fairness, 1 transfer, 2 restarts, fault, external transaction, reorganisation, no replacement | `EveryTransferEnds` | it ends through crashes and faults |
| `gathering` | fairness, five workloads, 2 deposits, with and without a fee, chunks of 2, 1 crash | `TypeOK`, `RowPaysItsTransfers`, `PackedIsExact`, `CloseIsKept`, `CloseIsLast`, `OnlyFeesAreLost`, `NoneWaitsForever`, `CloseIsCarriedOut` | each row pays its transfers exactly; closes survive; nothing waits for ever but behind a row that reverts; the contract loses no more than fees |
| `rpc_pool` | fairness, a caller, a configured endpoint that fails and comes back, a listed one, 4 places, 1 forced check | `TypeOK`, `NeverPanics`, `OneEndpointPerUrl`, `CallEnds`, `RecoversAfterOutage`, `GoneIsDropped` | calls end; the pool keeps up with sources and outages |
| `service_loop` | fairness, 2 chains, 2 transfers, a mint, six scenarios | `TypeOK`, `UserKnowsStatus`, `IntervalIsKept`, `AccountIsWoken`, `ExitsWhenDone`, `IssuesStay`, `EveryJobEnds`, `Finishes`, `AskIsAnswered` | the shared times and channels delay nothing beyond the interval and lose nothing |

The other runs (`receipt_search_ends`, `gather_finds_all_processed`, `cleanup_when_up`,
`close_is_last`) show that a property the code, a comment or the documentation states does not
hold (section 5).

Deadlock is checked except in `gathering` and `close_is_last`, where the service may finish with
nothing left for anybody to do.

**Bounds of the sender's runs.** `MaxTx` (rows ever inserted) is 3 or 4: a row, a replacement of
it and a replacement of the replacement or a row of another batch.  `MaxFee` 2 allows one
replacement of a row, 3 two.  The fee grows at a restart, or in eco mode, where a row may start
below the configured fee.  Two transfers are enough for a batch, for two batches and for one
transfer in each; the transfers are symmetric.  One reorganisation and one fault reach every
branch that needs them, two restarts (`sender_live_crash`) a crash during the recovery of a
crash.

**Bounds of `gathering`.** The workloads are: three transfers out of a deposit to two receivers
(a group of two and one of one); direct, multi and deposit transfers together; two transfers to
one receiver that fit a packed payment alone and not together (`MaxPacked` is 4 instead of 2^96),
with a second receiver and an invalid one; gas and a deposit of the account's own; and two
deposits without transfers, so that the close of one with a fee is paid from the other.  An order
has at most two receivers, so chunks of 2 hold any order and chunks of 1 (`close_is_last`) split
it.  `InitialGlm = 4`, `LockAmounts = {3}` and `Fees` 0 and 1 allow one deposit of each funder
that can be paid out to its end, and overdrawn, and a deposit beside it out of which a fee can be
paid a second time; `make_deposit` may leave out the check of the balance.  Allowances are none
or enough; an allowance of exactly the minimum is excluded (section 5).  `MaxTime = 1` is before
and after the date of a deposit.  One crash falls between any two commits.

**Bounds of `rpc_pool`.** The configured endpoint (`fixed`) fails and comes back, the listed one
comes and goes with its source: one node to lose and one to recover with, which is what the
properties need.  `fixed` goes down while it is allowed and comes back when it was verified and
refused, again and again.  Four places hold both endpoints and two removed ones that wait for the
end of their grace period.  `LoopCount = 1` instead of 4 is the first value with a repeated
call.  The forced check makes a second run of the resolver or verifier beside one under way; a
forced and a regular run of the resolver may both fall between a copy and its write.  A run
verifies every endpoint: `verify_interval_secs` (60 in the configuration) is shorter than the
interval between runs (300), and a forced run verifies in any case.

**Bounds of `service_loop`.** An interval of 2 ticks and reports of 1 give several sleeps within an
interval; deadlines are now, in one tick, or none.  The scenarios are two transfers on two
chains; a mint beside a transfer; rows that meet issues; a question to the tracker; a missing
allowance and a fault; and a service that finishes when it is done.  One element of room in the
user's channel makes every sender wait.

**Fairness of the sender** (`PaymentSender!FairSpec`).  The task runs whenever it can (tokio
schedules it, and no step waits for a lock): `WF(Process)`.  A service that is down is started
again.  Blocks are produced and bury earlier ones.  `SF(GiveUp)` stands for the clock: a row
whose receipt is missed again and again exceeds `mark_as_unrecoverable_after_seconds` at one of
the misses.  Faults, crashes, reorganisations and external transactions are not fair and bounded.

**Fairness of the others.** `Gathering`: the service goes on, is started again, and a command
completes its second write.  `RpcPool`: each caller, the resolver, the verifier and the clock go
on; a source that is asked again and again answers at some time (`SF`, a failure is not
permanent), and not always within the moment, free of awaits, between a copy of the verifier and
its write (`NoneCopied`).  Nodes, sources and forced checks are not fair.  `ServiceLoop`: each
task (of one chain, so that no task relies on another), the second half of `transfer`, time, the
tracker, and a user who empties the channel and waits for `get_status`.  Asking for a job is
never fair.

**Why `sender_live` has no fault, reorganisation or external transaction.** With a replaced row
each of them can make every receipt of the lineage be missed once, and the receipt search
then hangs (finding `receipt_search_ends`).  `sender_live_crash` has them, and no
replacement.

## 5. Findings

Each of these is a run that TLC finds violated.

- `receipt_search_ends`: the receipt search follows `web3_tx_dao.orig_tx_id` instead of
  `current_tx.orig_tx_id`.  With two replacements, or one and a missed receipt, the loop never
  ends and the account's sender stops.
- `gather_finds_all_processed`: a crash between the two commits of the confirmation of a row that
  had been replaced leaves transfers that nothing will finish.
- `cleanup_when_up`: `cleanup --remove-unsent-tx`, documented as safe, next to a running service
  can lead to a second payment.
- `close_is_last`: whether a call closes the deposit is decided for each chunk, so that a chunk
  closes it before the next one pays out of it.

Others show by a change of constants.

- `sender_orderly`: with `MaxRestarts = 1` the same crash, on a row that was not replaced, makes
  the next run check and sign the confirmed row again (`ConfirmedHashStays`); with `AllowSkip`
  the skip of a replacement leaves transfers that nothing will finish
  (`GatherFindsAllProcessed`); with `CleanupWhenDown` and a restart the removal of an unsigned
  replacement does the same (`NoOrphan`).
- `gathering`: with `CliWhenUp = TRUE` the second write of the command's transfer (`src/main.rs`
  516) erases the row it has got, and it gets another (`RowPaysItsTransfers`); a gathering writes
  back the transfer that `close_deposit` has marked (`CloseIsKept`).  With an allowance of 1, the
  minimum, `process_allowance` and the gathering ask for each other for ever
  (`NoneWaitsForever`).  Without `Blocked` in `NoneWaitsForever` TLC shows the transfers that
  wait for ever behind a row that reverts.
- `rpc_pool`: without `forced.resolve = 0` in `OneEndpointPerUrl` TLC finds a url twice.  The
  verifier has copied an endpoint, one run of the resolver removes it, a second one, of which one
  is forced, finds the url listed again and adds a new endpoint (`pool.rs` 254-260), and the
  write of the verifier brings the old one back.
- `service_loop`: with `OneTask = TRUE` a `get_status` in the task that empties the event channel
  waits for ever (`AskIsAnswered`).

What no property contradicts, but a reader should know: rows of `LockPayment` calls never report
to their transfers (`service.rs` 331-344), so these stay unpaid; `closeDeposit` pays the fee to
the funder and to the spender (`LockPayment.sol` 127-129, whose comment says "claiming fee and
returning rest of funds"; `OnlyFeesAreLost` is what is left), so that the close of the only
deposit of the contract reverts when it has a fee, and blocks the queue; a failed gathering marks
transfers that are paid all the same (`batching.rs` 587-597); an error of a commit there would
leave the id of a row that does not exist (369); a transaction that pays too much out of a
deposit and closes it fails, and the deposit cannot be closed again; `make_deposit` looks for
pending rows by a method that no row has (`runtime.rs` 1361); the validity check of a termination
never refuses (`eth.rs` 151).  The first gathering of any chain clears `external_gather_time` of
all, and a gathering that fails has cleared it too, so that deadlines pass up to the interval.  A
transfer inserted between the last query of a task and its exit (`finish_when_done`) waits for
the next start.  `is_finished` of the verifier is never reset; `max_number_of_consecutive_errors`
is documented and its effect commented out (`pool.rs` 595); "All endpoints failed" is reported
only by the call that started the resolver itself.  The missing amount of an issue is the balance
minus the need (`runtime.rs` 256), and an issue of a chain is cleared by the transfer of any
account.

## 6. Proofs

`PaymentSenderProofs`, for every set of transfers and every value of the bounds:

- `TypeCorrect`: `Spec => []TypeOK`.  `TypeOK` is not inductive: that what is sent is a signed
  transaction needs that the task has a nonce in its copy from `Start` on.  `TaskOK` says what
  the task holds in each step.
- `PaidAtMostOnce`: with `AutomaticRecover` off and `CleanupWhenUp` off,
  `Spec => []NoDoublePayment`.  Both assumptions are necessary: with `CleanupWhenUp`, TLC finds a
  second payment (`cleanup_when_up`); with automatic-recover a lagging node is enough (the
  setting is off by default).

The argument of the second: a chain includes one transaction per nonce, so it is enough
that two transactions of the network that pay the same transfer have the same nonce
(`PoolInv`).  To keep it while rows are sent it must hold between rows and the network
(`RowPoolInv`) and between rows (`RowsInv`), for every row that is in the table, in the queue
or not.  The steps that could break it are those that make a transfer available again:
gathering and cleanup.  `PendingInv` says that nothing pays a transfer that has no row, and
that nothing but its row pays a transfer whose row is unsigned.  What the task sends comes from
its copy, so `CurInv` relates the copy to the row: a nonce is in the copy alone only while the
row is unsigned, and what is sent is saved.  `TablesKept` is the step lemma for all actions that
keep rows and references; replacement, gathering and cleanup have proofs of their own.  The
assumptions used are `FeeAssumption` and `GasAssumption`.

`PaymentReportProofs`, with the same two assumptions:

- `OneRowInFlight`: `OneInFlight`.  A row that was started is the first of the queue (`FirstInv`).
  New rows have a larger id, and a replacement is put in the queue as its original leaves it, so
  what must be known is the graph of replacements (`LineageInv`): a row has at most one replacement,
  a replaced row is sent and out of the queue, it has the nonce and the transfers of the row that
  replaced it, and the task never works on a replaced row.
- `PaidStaysPaid`: `PaidIsFinal`.  A receipt that is deep enough belongs to a row of the lineage
  the task follows, and all rows of a lineage pay the same, so what is confirmed pays what a
  final transaction has paid (`ConfirmedInv`).  The row of a transfer with a result is never taken
  up again (`EndedInv`).
- `SignedRowsAreKept`: `SignedRowsLeaveResolved`, from the same invariant: signed rows leave the
  table when a row of their lineage is confirmed, and never by a cleanup.
- `SenderKeepsPromise`: `Spec => KeepsPromise`, the refinement of `Payments`.  The mapping counts
  the payments of a transfer in the chain, `CountsInv` turns the counts into 0 and 1, and each
  action becomes a step of the promise or a stutter; a gathering that fails is a `Mark`, whatever
  rows its order has got before, and also when it is interrupted.  It also assumes that skips and
  cleanups are not combined: a skip marks the transfers of an unsigned row as failed, and the
  cleanup of that row makes them pending again, which takes a reported result back.

`PaymentOutcomeProofs`:

- `NobodyIsForgotten`, `AllProcessedBeforeGathering`: `NoOrphan` and `GatherFindsAllProcessed`.  The
  transfers of a row refer to the root of its lineage (`FamilyInv`), so that the member of
  the lineage that nobody replaced finds them when it is finished.  The hypotheses are no
  automatic-recover, no skip, no cleanup while the service runs, and no restart: a crash between the
  two commits of a confirmation, and the skip of a replacement, each leave an orphan (section 5).
- `MinedHashIsKept`: `ConfirmedHashStays`.  A confirmed row is in the queue only while the task
  finishes it (`AtRestInv`).  A crash at that point makes the next run sign it again, hence no
  restart; skips are allowed.
- `FailedIsSafeToRepeat`: `FailedIsNotPaid`.  What the network holds is a row of the table, as
  signed last, or has the nonce of a confirmed one (`SignedInv`); the receipt search starts when
  the nonce is used (`UsedInv`); so when no row of the lineage has a receipt, some other
  transaction took the nonce and the transfer is `Lost` for good.  A marked transfer without a
  row has none that could pay it.  A missed receipt or a dropped block refutes the conclusion,
  hence no faults and no reorganisation; crashes, cleanups while down and orders that cannot be
  packed are allowed.

`FiniteTotals`: the sums, minima and maxima of the models are folds over finite sets.  The
induction principles of the library take an operator, but induction over finite sets can also be
stated for a set of sets (`SubsetInduction`), and all lemmas here rest on it: that a total is a
number and what it becomes when one addend changes (`TotalChange`), and that finite sets of
numbers have a largest and a smallest element.

`GatheringProofs`, for every workload, contract, chunk size and number of crashes, with
`CliWhenUp` off throughout:

- `RowsAreExact`: `RowPaysItsTransfers`.  A gathering writes from
  copies, so the invariant must say that the copies know the rows of their transfers
  (`CopiesAgree`), that the groups without a row, of the order under way or of later ones, share no
  transfer and have none with a row (`GroupsWait`), and that a command between its two writes
  holds a transfer without a row while no service runs (`OneAtATime`).  `LinksWritten` is the
  lemma for the steps that queue a row and link transfers to it, `LinksKept` for all that do not.
  The assumption is necessary: with `CliWhenUp` the property fails (section 5).
- `GatheringTypeCorrect`: `TypeOK`.  That no balance or deposit drops below zero is in it, so
  each function of the contract has a lemma on its effect on the deposit, on the contract's
  balance and on the rest (`Effect`), under its `Can...`.  A row that calls the contract names a
  deposit (`DepositRows`).
- `ContractLosesOnlyFees`: `OnlyFeesAreLost`, from the same effects and `TotalChange`: a function
  adds to the sum of the deposits what it takes from a funder, or pays what it takes off, but for
  a close, which pays the fee twice.  Fees are arbitrary; with none, the contract always has what
  it owes.
- `PaymentsArePackedExactly`: `PackedIsExact`.  The amounts of a group are read from copies, and
  what identifies a request never changes in the table (`TablesStep`, the step of both tables
  that all actions share), so the sums are still true when the row is sent; groups have one
  receiver each (`GroupsHaveKeys`), so the sums per receiver are those of the groups.  The
  hypothesis `[]NoGroupIsFull` excludes a group of exactly 2^96: the check in `multi.rs` 14 is
  `>`, so that the amount is let through, and its twelve low bytes are zero.
- `AcceptedCloseIsKept`: `CloseIsKept`.  Every transfer that waits, is in a group, or is in a row
  keeps its mark to close; what could lose it is an error in place of a row.  The hypotheses say
  when none occurs: transfers out of a deposit have a receiver and pay tokens (`DepositRequests`;
  the other kinds are refused, or sent as gas without regard to the deposit), and the amounts of
  a chunk can be packed (`[]DepositsArePackable`).
- `CloseComesLast`: `CloseIsLast`.  When a row closes a deposit, nothing that pays out of it
  waits outside that row: no transfer is added to a closed deposit, the gathering that finds the
  mark has read all that waits (`PendingIsRead`, `ClosersAreRead`), and the order holds all
  groups of its deposit (`OrderIsAlone`); from then on it stays so (`RowsAreFinal`).  It takes an
  order of one chunk (`[]DepositsFitBatch`): with several, the property fails (`close_is_last`).

The three temporal hypotheses hold in every state of run `gathering`, and `DepositRequests` of its
requests.

`StatusTrackerProofs` and `ServiceLoopProofs`, for every set of chains, jobs, issues and
scenarios and every capacity of the user's channel:

- `TrackerInvariant`, `UserKnows`: `StatusSpec => []UserKnowsStatus`, where tasks may send any
  event at any time.  That the user knows the status when nothing is on its way is not inductive:
  in between, the status is ahead of the user.  `Known` is what the user is going to know from
  what is in `inbox` already, and the invariant says that it is the status unless a
  `StatusChanged` is owed (`NewsPending`).
- `UsesTracker`: `Spec => StatusSpec`.  Every action of `ServiceLoop` is a step of the tracker or
  leaves its variables alone, so that the tracker's theorems hold in the composition
  (`UserKnowsAll`).
- `IssuesRemain`: `IssuesStay`.  The status changes only when the tracker takes an event, so it
  is enough to look at what each kind of event removes: an issue of its own kind and chain, or
  all of its chain when a transfer is finished.
- `LoopTypeCorrect`, `AccountWakesInTime`: `TypeOK` and `AccountIsWoken`.  What a task has left
  of its sleep is never more than the report interval or the time to its own gathering
  (`InTime`).  While there is an `external_gather_time`, some task is awake, or sleeps no longer
  than to that time, or there is a permit, so that whoever falls asleep next looks at the times
  again (`WakeInv`): a deadline that becomes earlier is followed by a notification, and a task
  that wakes up, is awake.  The waiters of the `Notify` are the sleeping tasks, each once, and a
  permit is kept only when nobody waits (`WaitersInv`).
- `NoTransferIsLate`: `IntervalIsKept`.  A transfer waits no longer than since the last gathering
  of its task, which took all that waited when it read them (`SinceGathering`, `SinceQuery`), and
  a task that sleeps wakes up within the interval after that (`InTime`).
- `ExitsOnlyWhenDone`: a task that exits leaves no unfinished row of a transfer.  What is needed
  is that a task gathers, or has exited, only without such rows (`QueueInv`): they come from its
  own gathering alone.  The rows of a mint come from outside, which is why the property is about
  transfers.

`RpcPoolProofs`, for every set of callers, urls and places, and for whatever nodes and sources do:

- `TypeCorrect`: `Spec => []TypeOK`; what it needs besides types is that a call that waits for an
  answer has a list whose head it asked (`AsksHead`).
- `UrlsAreDistinct`: `Spec => []OneEndpointPerUrl`, for pools where no run of the resolver was
  forced.  An endpoint claims its url when it is listed, or when the verifier holds a copy that
  will list it again (`Claimed`).  Runs of the resolver start once in an interval (`OneRun`), and
  the verifier is done before the next begins (`CopiesAreCurrent`), so an endpoint that claims
  its url without being listed was removed by the only run of the interval, and no answer follows
  that could add a second one (`ClaimsAreApart`).  A forced run is the second one; then the
  property fails (section 5).
- `NoCallPanics`: with a grace period of at least one interval, `Spec => []NeverPanics`.  The
  invariant is `ListsAreKept`: an endpoint in the list that a call works through is in the arena,
  and if it has been removed, then since the last interval began, or in the one before when the
  call is late.  With `Grace = 0` an endpoint is cleaned up under a call.  That a call works
  through a list within an interval (`IntervalBegins`) is assumed: timeouts and pauses of a list
  are seconds, the interval is minutes.  The bound `Room` (places suffice) is an assumption of
  the model; the arena of the code grows.

**Only model-checked.** Every invariant and every action property of the runs, and the
refinement, is stated by a theorem, within the hypotheses above.  Left to TLC are the liveness
properties (`EveryTransferEnds`, `ReceiptSearchEnds`, `CallEnds`, `RecoversAfterOutage`,
`GoneIsDropped`, `NoneWaitsForever`, `CloseIsCarriedOut`, `EveryJobEnds`, `Finishes`,
`AskIsAnswered`), which rest on fairness and `ENABLED`, out of the prover's reach; and what
`sender_recover` checks with automatic-recover on, for which the invariants here do not hold.

## 7. Not modelled

- Call data and the receivers of a row in `PaymentSender`: a row pays a set of transfers
  (`Gathering` has amounts and methods).  Fees are levels; their computation in eco mode is
  arithmetic on values that are not kept.
- `FailedIsNotPaid` is checked without reorganisations: the code gives up without waiting until
  the transaction that used the nonce is final.
- `generate_tx_only`, `skip_service_loop`, `balance_check_loop` and `abort_tasks`: variants
  of a run for tests and reports.
- The chain scanner (`service.rs`, `scan_chain.rs`): sequential imports into tables that the payment
  path does not read.
- Queries of the runtime and the web API, reports, parsing of configuration, the HTTP clients,
  keys and cryptography, the vendored token and the tools of the integration tests.  They are
  input and output; `PROJECT.json` lists each.
