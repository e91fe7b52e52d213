SPECIFICATION Spec
CONSTANTS
  t1 = t1
  t2 = t2
  Transfers <- TwoTransfers
  GasLimits <- OneGasLimit
  MaxFee = 2
  MaxExternal = 1
  MaxReorg = 1
  MaxTx = 3
  MaxRestarts = 1
  MaxFaults = 1
  AutomaticRecover = FALSE
  EcoMode = TRUE
  AllowSkip = TRUE
  CleanupWhenDown = FALSE
  CleanupWhenUp = FALSE
SYMMETRY Symmetry
INVARIANTS TypeOK NoDoublePayment PaidIsFinal OneInFlight
PROPERTIES KeepsPromise
