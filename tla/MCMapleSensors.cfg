SPECIFICATION Spec
CONSTANTS
  Samples = 2
  Width = 3
  Gyro <- MCGyro
  Accel <- MCAccel
  Junk <- MCJunk
INVARIANT GyroIsZeroed
