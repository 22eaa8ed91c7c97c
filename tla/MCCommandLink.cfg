SPECIFICATION FairSpec
CONSTANTS
  ByteMax = 4
  CmdConnect = 0
  CmdDisconnect = 1
  CmdQuiet = {3}
  CmdError = 3
  CmdLimit = 4
  Telemetry <- MCTelemetry
  TelemetryLen = 1
  TelemetryByte = {0}
  Period = 2
  HostFrames <- MCHostFrames
  TxRoom = 2
  RxRoom = 3
  ReadCount = 2
  Junk <- MCJunk
  MaxFrames = 2
  MaxBoots = 2
  MaxAstray = 1
INVARIANTS StreamsFramed StopsOnlyWhenBroken ConnectionAgrees
PROPERTIES ImplementsSession WriteReturns RecvReturns
CHECK_DEADLOCK FALSE
