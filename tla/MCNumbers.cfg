SPECIFICATION PartsSpec
CONSTANTS
  Samples = 3
  Width = 3
  MaxCuts = 1
  Gyro <- MCGyro
  Accel <- MCAccel
  Junk <- MCJunk
  Programs <- MCPrograms
  CharSigned = FALSE
  Bits <- MCBits
  ConvBufSize = 7
  Absent <- MCAbsent
INVARIANTS OffsetIsMean RestIsZero EstimateClean MapleAtRest MatchesPrintf InsideTheFormat
CHECK_DEADLOCK FALSE
