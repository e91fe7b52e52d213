SPECIFICATION FairSpec
CONSTANTS
  a = a
  fixed = fixed
  listed = listed
  Callers = {a}
  NoUrl = "none"
  StaticUrls = {fixed}
  DnsUrls = {listed}
  SkipValidation = {}
  NodeStates <- MCNodeStates
  LoopCount = 1
  Grace = 1
  Slots = {1, 2, 3, 4}
  MaxForced = 1
INVARIANTS TypeOK NeverPanics OneEndpointPerUrl
PROPERTIES CallEnds RecoversAfterOutage GoneIsDropped
