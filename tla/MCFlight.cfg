SPECIFICATION FairFlightSpec
CONSTANTS
  PwmMax = 7
  ThrottleMin = 2
  ThrottleMax = 5
  PidOut <- MCPidOut
  Samples = 2
  Float <- MCFloat
  Zero = "zero"
  Junk = "junk"
  Command <- MCCommand
  KeyStep = 6
  Gain <- MCFloat
  MotorArgs <- MCMotorArgs
  ShortTunes <- MCShortTunes
  MaxFrames = 2
  ShortBeside = FALSE
INVARIANTS StoppedIsStill ArmedIsSafe CalibratedOnce GainsOfOneTune ThrottleAgrees ArmedIsTuned
PROPERTIES DisarmedDrivesNothing DisarmStops
