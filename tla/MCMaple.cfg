SPECIFICATION FairSpec
CONSTANTS
  Stamps = 2
  Frames <- MCFrames
  BufLen = 3
  MaxSent = 2
INVARIANTS TelemetryOfOneTick EstimatorWhole FramesKept
PROPERTIES CommandsHandled
