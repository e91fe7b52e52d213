SPECIFICATION Spec
CONSTANTS
  t1 = t1
  t2 = t2
  Transfers <- TwoTransfers
  GasLimits <- OneGasLimit
  MaxFee = 2
  MaxExternal = 1
  MaxReorg = 0
  MaxTx = 3
  MaxRestarts = 1
  MaxFaults = 0
  AutomaticRecover = TRUE
  EcoMode = FALSE
  AllowSkip = FALSE
  CleanupWhenDown = TRUE
  CleanupWhenUp = FALSE
SYMMETRY Symmetry
INVARIANTS NoDoublePayment
PROPERTIES SignedRowsLeaveResolved KeepsPromise
