SPECIFICATION HostSpec
CONSTANT
  Environments <- Hosts
INVARIANTS
  BytesInOrder
  ReportsFit
  NothingFatal
  FlagsMatchHardware
