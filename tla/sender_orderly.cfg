SPECIFICATION Spec
CONSTANTS
  t1 = t1
  t2 = t2
  Transfers <- TwoTransfers
  GasLimits <- TwoGasLimits
  MaxFee = 2
  MaxExternal = 2
  MaxReorg = 0
  MaxTx = 4
  MaxRestarts = 0
  MaxFaults = 0
  AutomaticRecover = FALSE
  EcoMode = TRUE
  AllowSkip = FALSE
  CleanupWhenDown = FALSE
  CleanupWhenUp = FALSE
SYMMETRY Symmetry
INVARIANTS FailedIsNotPaid NoOrphan GatherFindsAllProcessed
PROPERTIES ConfirmedHashStays
