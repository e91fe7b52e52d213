SPECIFICATION Spec
CONSTANTS
  t1 = t1
  t2 = t2
  Transfers <- OneTransfer
  GasLimits <- OneGasLimit
  MaxFee = 1
  MaxExternal = 0
  MaxReorg = 0
  MaxTx = 2
  MaxRestarts = 0
  MaxFaults = 0
  AutomaticRecover = FALSE
  EcoMode = FALSE
  AllowSkip = FALSE
  CleanupWhenDown = FALSE
  CleanupWhenUp = TRUE
INVARIANTS NoDoublePayment
