SPECIFICATION FairSpec
CONSTANTS
  t1 = t1
  t2 = t2
  Transfers <- TwoTransfers
  GasLimits <- OneGasLimit
  MaxFee = 2
  MaxExternal = 0
  MaxReorg = 0
  MaxTx = 4
  MaxRestarts = 0
  MaxFaults = 0
  AutomaticRecover = FALSE
  EcoMode = TRUE
  AllowSkip = FALSE
  CleanupWhenDown = FALSE
  CleanupWhenUp = FALSE
PROPERTIES EveryTransferEnds ReceiptSearchEnds
