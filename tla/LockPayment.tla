---------------------------- MODULE LockPayment ----------------------------
(***************************************************************************)
(* The contract LockPayment.sol.  A funder locks GLM for a spender under   *)
(* an id that encodes the funder; the spender pays receivers out of it,    *)
(* and closes it; the funder gets it back after a date.                    *)
(*                                                                         *)
(* A call of the contract is all or nothing.  It is a pair of operators:   *)
(* Can...(s, ...) says that no require of the function fails in the state  *)
(* s, the other one is the state after the call.  A state is a record of   *)
(* the mapping deposits and of the balances of the GLM contract.           *)
(***************************************************************************)
EXTENDS Integers, FiniteSets, FiniteSetsExt, Functions

CONSTANTS
    Accounts,     \* addresses, without the null address
    NoAccount,    \* the null address
    Lock,         \* the address of the contract
    Deposits,     \* ids of deposits
    FunderOf,     \* the funder that an id encodes; the contract calls no one but GLM
    SpenderOf,    \* whom the funder of a deposit creates it for
    InitialGlm,   \* GLM of every account at the start
    LockAmounts,  \* amounts that a deposit may be created with
    Fees,         \* fees that a deposit may be created with
    MaxTime       \* bound: block timestamps end here

ASSUME LockAssumption ==
    /\ NoAccount \notin Accounts
    /\ Lock \in Accounts
    /\ IsFiniteSet(Deposits)
    /\ FunderOf \in [Deposits -> Accounts \ {Lock}]
    /\ SpenderOf \in [Deposits -> Accounts]
    /\ InitialGlm \in Nat
    /\ LockAmounts \subseteq Nat
    /\ Fees \subseteq Nat
    /\ MaxTime \in Nat

VARIABLES
    lock,   \* [deposits |-> the mapping deposits, glm |-> balances of GLM]
    now     \* timestamp of the latest block

lockVars == <<lock, now>>

Deposit == [spender : Accounts \cup {NoAccount}, amount : Nat,
            fee : Nat, validTo : 0..MaxTime]

NoDepositYet == [spender |-> NoAccount, amount |-> 0, fee |-> 0, validTo |-> 0]

LockInit ==
    /\ lock = [deposits |-> [d \in Deposits |-> NoDepositYet],
               glm |-> [a \in Accounts |-> IF a = Lock THEN 0 ELSE InitialGlm]]
    /\ now = 0

Total(payments) == FoldFunction(LAMBDA x, y : x + y, 0, payments)

Moved(s, from, to, n) ==
    [[s EXCEPT !.glm[from] = @ - n] EXCEPT !.glm[to] = @ + n]

----------------------------------------------------------------------------
(* The functions of the contract.                                          *)

CanCreate(s, caller, d, spender, amount, fee) ==
    /\ caller = FunderOf[d]
    /\ s.deposits[d].amount = 0
    /\ amount > 0
    /\ spender \notin {NoAccount, caller}
    /\ s.glm[caller] >= amount + fee

Created(s, d, spender, amount, fee, validTo) ==
    [Moved(s, FunderOf[d], Lock, amount + fee) EXCEPT
        !.deposits[d] = [spender |-> spender, amount |-> amount,
                         fee |-> fee, validTo |-> validTo]]

CanExtend(s, caller, d, amount, fee, validTo) ==
    /\ caller = FunderOf[d]
    /\ s.glm[caller] >= amount + fee
    /\ s.deposits[d].validTo <= validTo

Extended(s, d, amount, fee, validTo) ==
    LET dep == s.deposits[d]
    IN  [Moved(s, FunderOf[d], Lock, amount + fee) EXCEPT
            !.deposits[d] = [spender |-> dep.spender, amount |-> dep.amount + amount,
                             fee |-> dep.fee + fee, validTo |-> validTo]]

\* The funder gets amount and fee, the spender the fee once more.
CanClose(s, caller, d) ==
    /\ caller = s.deposits[d].spender
    /\ s.glm[Lock] >= s.deposits[d].amount + 2 * s.deposits[d].fee

\* Mutant of Closed: the amount is not set to zero.
ClosedOnce(s, d) ==
    LET dep == s.deposits[d]
    IN  Moved(Moved(s, Lock, FunderOf[d], dep.amount + dep.fee), Lock, dep.spender, dep.fee)

Closed(s, d) ==
    LET dep == s.deposits[d]
    IN  [Moved(Moved(s, Lock, FunderOf[d], dep.amount + dep.fee),
               Lock, dep.spender, dep.fee) EXCEPT
            !.deposits[d] = [dep EXCEPT !.amount = 0, !.fee = 0]]

CanTerminate(s, caller, d) ==
    /\ caller = FunderOf[d]
    /\ s.deposits[d].validTo < now
    /\ s.glm[Lock] >= s.deposits[d].amount + s.deposits[d].fee

Terminated(s, d) ==
    LET dep == s.deposits[d]
    IN  [Moved(s, Lock, FunderOf[d], dep.amount + dep.fee) EXCEPT
            !.deposits[d] = [dep EXCEPT !.amount = 0, !.fee = 0]]

\* payments is a function from receivers to amounts.
CanPay(s, caller, d, payments) ==
    /\ caller = s.deposits[d].spender
    /\ caller \notin DOMAIN payments
    /\ s.glm[Lock] >= Total(payments)
    /\ s.deposits[d].amount >= Total(payments)

PaidOut(s, d, payments) ==
    [[s EXCEPT !.deposits[d].amount = @ - Total(payments)] EXCEPT
        !.glm = [a \in Accounts |->
            @[a] - (IF a = Lock THEN Total(payments) ELSE 0)
                 + (IF a \in DOMAIN payments THEN payments[a] ELSE 0)]]

\* depositTransferAndClose: the same transaction closes the deposit.
CanPayAndClose(s, caller, d, payments) ==
    CanPay(s, caller, d, payments) /\ CanClose(PaidOut(s, d, payments), caller, d)

PaidAndClosed(s, d, payments) == Closed(PaidOut(s, d, payments), d)

----------------------------------------------------------------------------
(* What the other users of the contract do.                                *)

OthersCreate(d) ==
    \E amount \in LockAmounts, fee \in Fees, validTo \in 0..MaxTime :
        /\ CanCreate(lock, FunderOf[d], d, SpenderOf[d], amount, fee)
        /\ lock' = Created(lock, d, SpenderOf[d], amount, fee, validTo)
        /\ UNCHANGED now

OthersExtend(d) ==
    \E amount \in LockAmounts, fee \in Fees, validTo \in 0..MaxTime :
        /\ CanExtend(lock, FunderOf[d], d, amount, fee, validTo)
        /\ lock' = Extended(lock, d, amount, fee, validTo)
        /\ UNCHANGED now

OthersTerminate(d) ==
    /\ CanTerminate(lock, FunderOf[d], d)
    /\ lock' = Terminated(lock, d)
    /\ UNCHANGED now

Tick ==
    /\ now < MaxTime
    /\ now' = now + 1
    /\ UNCHANGED lock

----------------------------------------------------------------------------
(* What the contract owes to the deposits, and what it lacks of it: while  *)
(* it lacks nothing, no transfer out of a deposit fails because of another *)
(* deposit.                                                                *)
Held(s) == Total([d \in Deposits |-> s.deposits[d].amount + s.deposits[d].fee])
Missing(s) == Held(s) - s.glm[Lock]

\* From s to t a deposit with a fee is closed, and the fee is missing.
FeeIsLost(s, t) ==
    \E d \in Deposits :
        /\ s.deposits[d].fee > 0
        /\ t.deposits[d].amount = 0 /\ t.deposits[d].fee = 0
        /\ Missing(t) <= Missing(s) + s.deposits[d].fee

=============================================================================
