SPECIFICATION FairSpec
CONSTANT
  Environments <- OnlyLiveHost
PROPERTIES
  CallsReturn
  TransfersEnd
