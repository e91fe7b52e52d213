SPECIFICATION FairSpec
CONSTANTS
  t1 = t1
  t2 = t2
  Transfers <- OneTransfer
  GasLimits <- OneGasLimit
  MaxFee = 1
  MaxExternal = 1
  MaxReorg = 1
  MaxTx = 3
  MaxRestarts = 2
  MaxFaults = 1
  AutomaticRecover = FALSE
  EcoMode = FALSE
  AllowSkip = FALSE
  CleanupWhenDown = FALSE
  CleanupWhenUp = FALSE
PROPERTIES EveryTransferEnds
