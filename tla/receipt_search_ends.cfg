SPECIFICATION FairSpec
CONSTANTS
  t1 = t1
  t2 = t2
  Transfers <- OneTransfer
  GasLimits <- OneGasLimit
  MaxFee = 3
  MaxExternal = 0
  MaxReorg = 0
  MaxTx = 3
  MaxRestarts = 2
  MaxFaults = 0
  AutomaticRecover = FALSE
  EcoMode = FALSE
  AllowSkip = FALSE
  CleanupWhenDown = FALSE
  CleanupWhenUp = FALSE
PROPERTIES ReceiptSearchEnds
