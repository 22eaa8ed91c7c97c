------------------------------- MODULE Sensors -------------------------------
(***************************************************************************)
(* The sensor path of the flight firmware (panda/m3/sensors.c, angle.c and *)
(* what control_update feeds from the one to the other): one axis of the   *)
(* gyro and of the accelerometer, tick by tick, with a STOP and a START    *)
(* of the same image at any point.                                         *)
(*                                                                         *)
(* A read may fail.  Nothing but a log line comes of it: the caller goes   *)
(* on with what its variable held.  An offset is kept as a sum and what it *)
(* has been divided by, a corrected reading in units of 1/Samples.         *)
(***************************************************************************)
EXTENDS Integers, Sequences

CONSTANTS
  Samples,       \* SENSORS_CALIBRATE_SAMPLES
  Gyro, Accel,   \* raw readings of each sensor
  Junk,          \* what an unwritten variable may hold
  Width,         \* bits of a reading (16)
  MaxCuts        \* bound: restarts inside a sample or a division

Reading == -(2 ^ (Width - 1)) .. 2 ^ (Width - 1) - 1
ASSUME SensorsAssumption ==
  /\ Samples \in Nat \ {0} /\ Width \in Nat \ {0} /\ MaxCuts \in Nat
  /\ Gyro \cup Accel \cup Junk \subseteq Reading

VARIABLES
  step,          \* of the tick: calibrate (with gyro, accel, count, divide, halved
                 \* inside sensors_calibrate), get, update, command
  calibrating,   \* static of control.c
  calibrate, gyroOffset, accelOffset,   \* statics of sensors.c
  held,          \* x of sensors_calibrate: << >> or what a read left in it
  sd,            \* sensor_data of this tick: the members written so far
  q,             \* the estimate: level, estimated, or tainted by unwritten memory
  failed,        \* sensors a read of the calibration has failed for (history)
  cuts,          \* restarts inside a sample or a division (history)
  missed,        \* a read has failed in a tick since the last angle_init (history)
  gyros, accels, \* readings the calibration got (history)
  now            \* the gyro reading of this tick (history)

calibration == <<calibrating, calibrate, gyroOffset, accelOffset, failed, gyros, accels>>
vars == <<step, calibration, held, cuts, sd, q, missed, now>>

\* (int16_t) of a value.
Int16(n) == ((n + 2 ^ (Width - 1)) % (2 ^ Width)) - 2 ^ (Width - 1)

\* get_gyro_data, get_accel_data: the sensors' x axis points backwards.
Turned(raw) == Int16(-raw)

Fresh == [sum |-> 0, by |-> 1]
Add(offset, x) == [offset EXCEPT !.sum = @ + x]

\* Mutations (X_...): bugs this code could have.
X_Mean(offset) == [offset EXCEPT !.by = Samples - 1]
X_Less(x, offset) == Samples * x + offset.sum * (Samples \div offset.by)
X_Written(g, a) == <<Samples * g - gyroOffset.sum * (Samples \div gyroOffset.by)>>

Mean(offset) == [offset EXCEPT !.by = @ * Samples]

\* A reading less an offset.
Less(x, offset) == Samples * x - offset.sum * (Samples \div offset.by)

\* What sensors_get_data writes when both reads work.
Written(g, a) == <<Less(g, gyroOffset), Less(a, accelOffset)>>

Sum(s) ==
  LET total[i \in 0 .. Len(s)] == IF i = 0 THEN 0 ELSE total[i - 1] + s[i]
  IN total[Len(s)]
-----------------------------------------------------------------------------
\* The image as the linker made it, behind control_init.
Init ==
  /\ step = "calibrate" /\ calibrating = TRUE /\ calibrate = 0
  /\ gyroOffset = Fresh /\ accelOffset = Fresh
  /\ held = << >> /\ sd = << >> /\ q = "level" /\ now = << >>
  /\ failed = {} /\ cuts = 0 /\ missed = FALSE
  /\ gyros = << >> /\ accels = << >>

\* A restart here leaves sums that the next samples go on with, or a division undone.
\* (While calibrate is 0, the next sample begins with clear sums.)
Cutting ==
  \/ step \in {"accel", "count"} /\ calibrate > 0
  \/ step \in {"divide", "halved"}

\* STOP and START without a new image, anywhere: control_init calls angle_init; the
\* statics stay, the locals are gone.
Restart ==
  /\ Cutting => cuts < MaxCuts
  /\ cuts' = IF Cutting THEN cuts + 1 ELSE cuts
  /\ step' = "calibrate" /\ held' = << >> /\ sd' = << >> /\ now' = << >>
  /\ q' = "level" /\ missed' = FALSE
  /\ UNCHANGED calibration

\* if (calibrating) calibrating = sensors_calibrate(), up to its first read.
Calibrate ==
  /\ step = "calibrate"
  /\ \/ calibrating /\ calibrate < Samples /\ step' = "gyro" /\ UNCHANGED calibrating
     \/ ~(calibrating /\ calibrate < Samples) /\ step' = "get" /\ calibrating' = FALSE
  /\ UNCHANGED <<calibrate, gyroOffset, accelOffset, failed, gyros, accels,
                 held, cuts, sd, q, missed, now>>

\* The first sample clears both sums; then the gyro's x, or, if the read fails, what
\* the stack held, is added to the gyro's sum.
SampleGyro ==
  LET start(offset) == IF calibrate = 0 THEN Fresh ELSE offset
      of(history) == IF calibrate = 0 THEN << >> ELSE history
      fails == IF calibrate = 0 THEN {} ELSE failed
  IN /\ step = "gyro" /\ step' = "accel"
     /\ \/ \E g \in Gyro : /\ held' = <<Turned(g)>>
                           /\ gyros' = Append(of(gyros), Turned(g))
                           /\ failed' = fails
        \/ /\ \E j \in Junk : held' = <<j>>
           /\ gyros' = of(gyros) /\ failed' = fails \cup {"gyro"}
     /\ gyroOffset' = Add(start(gyroOffset), held'[1])
     /\ accelOffset' = start(accelOffset) /\ accels' = of(accels)
     /\ UNCHANGED <<calibrating, calibrate, cuts, sd, q, missed, now>>

\* The accelerometer's x, or, if the read fails, the x of the gyro.
SampleAccel ==
  /\ step = "accel" /\ step' = "count"
  /\ \/ \E a \in Accel : /\ held' = <<Turned(a)>>
                         /\ accels' = Append(accels, Turned(a))
                         /\ UNCHANGED failed
     \/ failed' = failed \cup {"accel"} /\ UNCHANGED <<held, accels>>
  /\ accelOffset' = Add(accelOffset, held'[1])
  /\ UNCHANGED <<calibrating, calibrate, gyroOffset, gyros, cuts, sd, q, missed, now>>

\* calibrate++, whether the reads worked or not; the local is gone.
Count ==
  /\ step = "count" /\ calibrate' = calibrate + 1 /\ held' = << >>
  /\ step' = IF calibrate' >= Samples THEN "divide" ELSE "get"
  /\ UNCHANGED <<calibrating, gyroOffset, accelOffset, failed, gyros, accels,
                 cuts, sd, q, missed, now>>

\* The last sample divides the gyro's sum, ...
DivideGyro ==
  /\ step = "divide" /\ step' = "halved"
  /\ gyroOffset' = Mean(gyroOffset)
  /\ UNCHANGED <<calibrating, calibrate, accelOffset, failed, gyros, accels,
                 held, cuts, sd, q, missed, now>>

\* ... then the accelerometer's, and returns 0.
DivideAccel ==
  /\ step = "halved" /\ step' = "get"
  /\ accelOffset' = Mean(accelOffset) /\ calibrating' = FALSE
  /\ UNCHANGED <<calibrate, gyroOffset, failed, gyros, accels, held, cuts, sd, q, missed, now>>

\* sensors_get_data, whose result control_update ignores: the first failed read returns.
\* (The magnetometer is never asked.)
Get ==
  /\ step = "get" /\ step' = "update"
  /\ \/ /\ \E g \in Gyro, a \in Accel :
             /\ now' = <<Turned(g)>>
             /\ sd' = Written(Turned(g), Turned(a))
        /\ UNCHANGED missed
     \/ /\ \E g \in Gyro : now' = <<Turned(g)>> /\ sd' = <<Less(Turned(g), gyroOffset)>>
        /\ missed' = TRUE
     \/ now' = << >> /\ sd' = << >> /\ missed' = TRUE
  /\ UNCHANGED <<calibration, held, cuts, q>>

\* angle_update: a new quaternion from the old one and both members of sd.
Update ==
  /\ step = "update" /\ step' = "command"
  /\ q' = IF Len(sd) = 2 /\ q # "tainted" THEN "estimated" ELSE "tainted"
  /\ UNCHANGED <<calibration, held, cuts, sd, missed, now>>

\* command_process: the 'u' command calls angle_init, in flight or not; then the
\* tick's locals are gone.
Command ==
  /\ step = "command" /\ step' = "calibrate"
  /\ sd' = << >> /\ now' = << >>
  /\ \/ q' = "level" /\ missed' = FALSE
     \/ UNCHANGED <<q, missed>>
  /\ UNCHANGED <<calibration, held, cuts>>

Next ==
  \/ Restart
  \/ Calibrate \/ SampleGyro \/ SampleAccel \/ Count \/ DivideGyro \/ DivideAccel
  \/ Get \/ Update \/ Command

Spec == Init /\ [][Next]_vars
-----------------------------------------------------------------------------
\* The calibration never counts past Samples, an offset is divided at most once, and
\* every variable keeps its type.
TypeOK ==
  /\ step \in {"calibrate", "gyro", "accel", "count", "divide", "halved",
              "get", "update", "command"}
  /\ calibrating \in BOOLEAN /\ calibrate \in 0 .. Samples
  /\ {gyroOffset, accelOffset} \subseteq [sum : Int, by : {1, Samples}]
  /\ held \in Seq(Int) /\ Len(held) <= 1
  /\ sd \in Seq(Int) /\ Len(sd) <= 2
  /\ failed \subseteq {"gyro", "accel"} /\ cuts \in 0 .. MaxCuts
  /\ q \in {"level", "estimated", "tainted"}

\* When the calibration is over and the reads of a sensor all worked, that sensor's
\* offset is made of its own readings alone, Samples of them and at most one more for
\* each restart that cut a sample.  With no such restart, it is their mean: divided by
\* the number of readings, once.  (A read that failed has added a stranger's value.)
OffsetIsMean ==
  ~calibrating =>
    /\ "gyro" \notin failed =>
         /\ gyroOffset.sum = Sum(gyros) /\ Len(gyros) \in Samples .. Samples + cuts
    /\ "accel" \notin failed =>
         /\ accelOffset.sum = Sum(accels) /\ Len(accels) \in Samples .. Samples + cuts
    /\ cuts = 0 => gyroOffset.by = Samples /\ accelOffset.by = Samples

\* A copter that turns as it did during the whole calibration, which no failed gyro read
\* and no restart cut, is at rest for the estimator; the signs of the calibration and of
\* the flight agree, for the most negative reading too.
RestIsZero ==
  ~calibrating /\ "gyro" \notin failed /\ cuts = 0 /\ Len(sd) > 0 =>
    ((\A i \in DOMAIN gyros : gyros[i] = now[1]) => sd[1] = 0)

\* Unless a read failed since the last angle_init, no unwritten memory is in the estimate.
EstimateClean == q = "tainted" => missed
=============================================================================
