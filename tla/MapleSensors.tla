---------------------------- MODULE MapleSensors ----------------------------
(***************************************************************************)
(* The sensors of the earlier flight firmware (maple/sensors.c): the gyro  *)
(* and then the accelerometer are calibrated in sensors_init, and read in  *)
(* every tick afterwards; one axis of each, the y axis.                    *)
(*                                                                         *)
(* The calibration ignores failed reads: y keeps what it held.  An offset  *)
(* is kept as a sum and what it has been divided by, a corrected reading   *)
(* in units of 1/Samples.  (Maple begins where sensors_init has returned.) *)
(***************************************************************************)
EXTENDS Integers, Sequences

CONSTANTS
  Samples,       \* SENSORS_GYRO_SAMPLES, SENSORS_ACCEL_SAMPLES
  Gyro, Accel,   \* readings, as the registers give them
  Junk,          \* what the unwritten y may hold
  Width          \* bits of a reading (16)

VARIABLES
  phase,      \* gyro, accel, fly
  y,          \* the local of calibrate_gyro and calibrate_accel: << >> or its value
  gyroOffset, accelOffset,   \* of sensors.c
  data,       \* struct sensor_data: per sensor, the last value written
  gyros, accels,   \* what the calibration added (history)
  now,        \* the readings data stands for (history)
  failed      \* a read of the calibration has failed (history)
vars == <<phase, y, gyroOffset, accelOffset, data, gyros, accels, now, failed>>

\* (int16_t) of a value.
Int16(n) == ((n + 2 ^ (Width - 1)) % (2 ^ Width)) - 2 ^ (Width - 1)

Fresh == [sum |-> 0, by |-> 1]
Less(v, offset) == Samples * v - offset.sum * (Samples \div offset.by)

\* Mutations (X_...): bugs this code could have.
X_AccelFlight(a) == -a

\* One round of a calibration loop, and the division behind the last one.
Added(offset, v, n) ==
  [sum |-> offset.sum + v, by |-> IF n + 1 < Samples THEN 1 ELSE Samples]

\* get_gyro_data turns the gyro's y axis, into an int16_t; get_accel_data leaves its own.
GyroData(g) == Int16(-g)
AccelData(a) == a

\* sensors_get_data turns the gyro once more, into a float, before it takes the offset off.
GyroFlight(g) == -g
AccelFlight(a) == a
-----------------------------------------------------------------------------
\* sensors_init has set the devices up.
Init ==
  /\ phase = "gyro" /\ y = << >>
  /\ gyroOffset = Fresh /\ accelOffset = Fresh
  /\ data = [gyro |-> 0, accel |-> 0] /\ now = [gyro |-> << >>, accel |-> << >>]
  /\ gyros = << >> /\ accels = << >> /\ failed = FALSE

\* What a read leaves in y: a reading or, if it fails, what was there.
Get(readings) ==
  \/ (\E r \in readings : y' = <<r>>) /\ UNCHANGED failed
  \/ y # << >> /\ UNCHANGED y /\ failed' = TRUE
  \/ y = << >> /\ (\E j \in Junk : y' = <<j>>) /\ failed' = TRUE

\* calibrate_gyro, one round; the last one divides, and y is gone.
CalibrateGyro ==
  /\ phase = "gyro" /\ Len(gyros) < Samples
  /\ Get({GyroData(g) : g \in Gyro})
  /\ gyroOffset' = Added(gyroOffset, y'[1], Len(gyros))
  /\ gyros' = Append(gyros, y'[1])
  /\ UNCHANGED <<phase, accelOffset, data, accels, now>>
GyroDone ==
  /\ phase = "gyro" /\ Len(gyros) = Samples
  /\ phase' = "accel" /\ y' = << >>
  /\ UNCHANGED <<gyroOffset, accelOffset, data, gyros, accels, now, failed>>

\* calibrate_accel, one round.
CalibrateAccel ==
  /\ phase = "accel" /\ Len(accels) < Samples
  /\ Get({AccelData(a) : a \in Accel})
  /\ accelOffset' = Added(accelOffset, y'[1], Len(accels))
  /\ accels' = Append(accels, y'[1])
  /\ UNCHANGED <<phase, gyroOffset, data, gyros, now>>
AccelDone ==
  /\ phase = "accel" /\ Len(accels) = Samples
  /\ phase' = "fly" /\ y' = << >>
  /\ UNCHANGED <<gyroOffset, accelOffset, data, gyros, accels, now, failed>>

\* sensors_get_data of a tick; a failed read returns, with the members behind it as
\* they were (a failed gyro read changes nothing at all).
Tick ==
  /\ phase = "fly"
  /\ \E g \in Gyro, a \in Accel, ok \in BOOLEAN :
       /\ data' = [gyro |-> Less(GyroFlight(GyroData(g)), gyroOffset),
                   accel |-> IF ok THEN Less(AccelFlight(AccelData(a)), accelOffset)
                             ELSE data.accel]
       /\ now' = [gyro |-> <<GyroData(g)>>,
                  accel |-> IF ok THEN <<AccelData(a)>> ELSE now.accel]
  /\ UNCHANGED <<phase, y, gyroOffset, accelOffset, gyros, accels, failed>>

Next == CalibrateGyro \/ GyroDone \/ CalibrateAccel \/ AccelDone \/ Tick

Spec == Init /\ [][Next]_vars
-----------------------------------------------------------------------------
SameAll(s, v) == v # << >> /\ \A i \in DOMAIN s : s[i] = v[1]

\* A copter that stands as it did during the calibration, with reads failing or not:
\* the accelerometer shows 0 on this axis; the calibration and sensors_get_data take its
\* sign alike.
AtRest == SameAll(accels, now.accel) => data.accel = 0

\* The same of the gyro: the offset is what the comment on calibrate_gyro (sensors.c:130)
\* calls it, the "zero for gyro".  The code calibrates with one sign and flies with the
\* other, and shows twice the bias.
GyroIsZeroed == ~failed /\ SameAll(gyros, now.gyro) => data.gyro = 0
=============================================================================
