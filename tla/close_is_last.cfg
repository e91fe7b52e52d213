CONSTANTS
    me = me
    funder = funder
    contract = contract
    alice = alice
    bob = bob
    d1 = d1
    d2 = d2
    Accounts <- MCAccounts
    NoAccount = NoAccount
    Lock = contract
    Deposits = {d1, d2}
    FunderOf <- MCFunderOf
    SpenderOf <- MCSpenderOf
    InitialGlm = 4
    LockAmounts = {3}
    Fees = {0, 1}
    MaxTime = 1
    Me = me
    NoDeposit = NoDeposit
    NoId = NoId
    Requests <- MCRequests
    Workloads <- MCWorkloads
    MaxPerBatch = 1
    MaxPacked = 4
    Allowances = {0, 2}
    CliWhenUp = FALSE
    MaxTransfers = 4
    MaxTx = 2
    MaxCrashes = 1
SPECIFICATION Spec
INVARIANTS CloseIsLast
CHECK_DEADLOCK FALSE
