------------------------------- MODULE Control -------------------------------
(***************************************************************************)
(* The control tick of the flight firmware (panda/m3/control.c with the    *)
(* set_motor handler of main.c, the PWM duty values of pwm.c and the       *)
(* calibration of sensors.c), across restarts of the Cortex-M3.            *)
(*                                                                         *)
(* One systick interrupt calibrates, computes the motor values, writes     *)
(* them motor by motor if armed, then handles at most one command.  The    *)
(* STOP ioctl of the other processor can hit it anywhere, so a tick is     *)
(* cut into steps wherever a stop leaves a difference that survives.       *)
(*                                                                         *)
(* The attitude estimate and the PID sums are abstracted to the values     *)
(* their outputs may take; the payload of a command is cut into            *)
(* float-sized slots of cmd_buf, because a handler may read past it.       *)
(***************************************************************************)
EXTENDS Integers, Sequences

CONSTANTS
  PwmMax,                    \* UINT16_MAX
  ThrottleMin, ThrottleMax,  \* THROTTLE_MIN, THROTTLE_MAX
  PidOut,                    \* what (int)pid_update may return
  Samples,                   \* SENSORS_CALIBRATE_SAMPLES
  Float, Zero, Junk,         \* payload floats, 0.0f, and bytes of another command
  Command                    \* the commands that may arrive, as records

ASSUME ThrottleAssumption ==
  /\ ThrottleMin \in Nat /\ ThrottleMax \in Nat /\ PwmMax \in Nat
  /\ 0 < ThrottleMin /\ ThrottleMin <= ThrottleMax /\ ThrottleMax <= PwmMax
ASSUME PidAssumption == PidOut \subseteq Int
ASSUME SamplesAssumption == Samples \in Nat \ {0}

Motor == 1 .. 4
Slot == 1 .. 9     \* the floats of a tune command: p, i, d of pitch, roll, yaw
Duty == 0 .. PwmMax
Value == Float \cup {Zero, Junk}

\* What a handler is given: `floats' is the payload as slots (a slot the payload
\* fills in part is Junk), `whole' that its length is the one the handler expects.
CommandType ==
  [cmd : {"o", "t", "a", "s", "m", "c", "d", "u"}, whole : BOOLEAN,
   floats : UNION {[1 .. n -> Value] : n \in 0 .. 9}, motor : Nat, val : Duty]
ASSUME CommandAssumption == Command \subseteq CommandType
ASSUME WholeAssumption ==
  \A c \in Command : c.cmd = "t" /\ c.whole => c.floats \in [Slot -> Value]

VARIABLES
  running,      \* CPU1 of the M3 is out of reset and main has enabled systick
  step,         \* where the tick is: rest, sampled, divide, estimate, drive,
                \* command or disarm
  motor,        \* the motor the drive and disarm steps write next
  want,         \* motor1..motor4 of control_update
  armed, throttle, calibrating,    \* statics of control.c
  calibrate,    \* static of sensors.c: samples taken
  cmdBuf,       \* static cmd_buf of command.c behind the command byte, as slots
  gains,        \* Kp, Ki, Kd of pid_pitch, pid_roll, pid_yaw
  pwm,          \* the duty value pwm_set last gave each motor's timer
  summed,       \* samples in the sums gyro_offset and accel_offset (history)
  divided,      \* how often these were divided (history)
  cut,          \* sensors_calibrate was stopped half-way (history)
  mixed,        \* the last tune frame handled had not the right length (history)
  stopped       \* disarmed by command, nobody armed or set a motor since (history)

tick == <<step, motor, want>>
calibration == <<calibrating, calibrate, summed, divided, cut>>
flight == <<armed, throttle, gains, mixed, stopped>>
vars == <<running, tick, calibration, flight, cmdBuf, pwm>>
-----------------------------------------------------------------------------
\* The mutations (X_...) are bugs this code could have; each property is shown to
\* notice one of them.  The specification does not use them.
X_SafeNoMax(val) == IF val < ThrottleMin THEN 0 ELSE IF val > PwmMax THEN PwmMax ELSE val
X_Overlay(floats) ==
  [s \in Slot |-> IF s < Len(floats) THEN floats[s] ELSE cmdBuf[s]]

\* set_motor_safe: too slow is off, too fast is ThrottleMax.
Safe(val) == IF val < ThrottleMin THEN 0
             ELSE IF val > ThrottleMax THEN ThrottleMax ELSE val

\* The mixer, with yaw_out = 0: roll moves motors 1 and 3, pitch 2 and 4.
Mix(thr, pitch, roll) ==
  [m \in Motor |-> CASE m = 1 -> thr + roll [] m = 2 -> thr - pitch
                     [] m = 3 -> thr - roll [] m = 4 -> thr + pitch]

\* The parser stores the payload over what earlier commands left in cmd_buf.
Overlay(floats) ==
  [s \in Slot |-> IF s <= Len(floats) THEN floats[s] ELSE cmdBuf[s]]
-----------------------------------------------------------------------------
\* The image as the linker made it.  The PWM timers have not been programmed.
Init ==
  /\ running = FALSE
  /\ step = "rest" /\ motor = 1 /\ want = [m \in Motor |-> 0]
  /\ pwm = [m \in Motor |-> 0]
  /\ armed = FALSE /\ throttle = 0 /\ stopped = FALSE
  /\ calibrating = TRUE /\ calibrate = 0
  /\ summed = 0 /\ divided = 0 /\ cut = FALSE
  /\ cmdBuf = [s \in Slot |-> Zero] /\ gains = [s \in Slot |-> Zero]
  /\ mixed = FALSE

\* No tick in progress: its local variables are gone.
Return == step' = "rest" /\ motor' = 1 /\ want' = [m \in Motor |-> 0]

\* Writing an image restores every static: .bss is part of the image (link.ld).
Load ==
  /\ ~running
  /\ armed' = FALSE /\ throttle' = 0 /\ stopped' = FALSE
  /\ calibrating' = TRUE /\ calibrate' = 0
  /\ summed' = 0 /\ divided' = 0 /\ cut' = FALSE
  /\ cmdBuf' = [s \in Slot |-> Zero] /\ gains' = [s \in Slot |-> Zero]
  /\ mixed' = FALSE
  /\ UNCHANGED <<running, tick, pwm>>

\* reset_handler calls main, which runs the init functions and nothing else clears
\* the statics: pwm_init leaves each timer at UINT16_MAX, pid_init zeroes the gains.
Start ==
  /\ ~running
  /\ running' = TRUE
  /\ pwm' = [m \in Motor |-> PwmMax]
  /\ gains' = [s \in Slot |-> Zero] /\ mixed' = FALSE
  /\ stopped' = FALSE
  /\ UNCHANGED <<tick, calibration, armed, throttle, cmdBuf>>

\* The STOP ioctl puts the CPU back in reset, wherever its tick is.
Stop ==
  /\ running
  /\ running' = FALSE
  /\ Return
  /\ cut' = (cut \/ step = "divide" \/ (step = "sampled" /\ calibrate > 0))
  /\ UNCHANGED <<calibrating, calibrate, summed, divided, flight, cmdBuf, pwm>>
-----------------------------------------------------------------------------
\* The tick begins: if (calibrating) calibrating = sensors_calibrate(), up to the
\* second sum.  The first sample of all clears the sums.  (Once the calibration has
\* been cut in half, its history is not followed any further.)
Sample ==
  /\ running /\ step = "rest"
  /\ IF calibrating /\ calibrate < Samples
     THEN /\ step' = "sampled"
          /\ summed' = IF cut THEN summed
                       ELSE IF calibrate = 0 THEN 1 ELSE summed + 1
          /\ UNCHANGED calibrating
     ELSE /\ step' = "estimate"
          /\ calibrating' = FALSE
          /\ UNCHANGED summed
  /\ UNCHANGED <<running, motor, want, calibrate, divided, cut, flight, cmdBuf, pwm>>

\* Mutation: one sample too few before the division.
X_Count ==
  /\ running /\ step = "sampled"
  /\ calibrate' = calibrate + 1
  /\ step' = IF calibrate + 2 >= Samples THEN "divide" ELSE "estimate"
  /\ UNCHANGED <<running, motor, want, calibrating, summed, divided, cut, flight,
                 cmdBuf, pwm>>

\* calibrate++, and the test whether that was the last sample.
Count ==
  /\ running /\ step = "sampled"
  /\ calibrate' = calibrate + 1
  /\ step' = IF calibrate + 1 >= Samples THEN "divide" ELSE "estimate"
  /\ UNCHANGED <<running, motor, want, calibrating, summed, divided, cut, flight,
                 cmdBuf, pwm>>

\* The sums become means; sensors_calibrate returns 0.
Divide ==
  /\ running /\ step = "divide"
  /\ divided' = divided + 1
  /\ calibrating' = FALSE
  /\ step' = "estimate"
  /\ UNCHANGED <<running, motor, want, calibrate, summed, cut, flight, cmdBuf, pwm>>

\* Mutation: armed is not asked.
X_Estimate ==
  /\ running /\ step = "estimate"
  /\ \E pitch \in PidOut, roll \in PidOut : want' = Mix(throttle, pitch, roll)
  /\ step' = "drive"
  /\ UNCHANGED <<running, motor, calibration, flight, cmdBuf, pwm>>

\* The sensors are read, the PIDs updated and mixed; if (armed) ...
Estimate ==
  /\ running /\ step = "estimate"
  /\ \E pitch \in PidOut, roll \in PidOut : want' = Mix(throttle, pitch, roll)
  /\ step' = IF armed THEN "drive" ELSE "command"
  /\ UNCHANGED <<running, motor, calibration, flight, cmdBuf, pwm>>

\* ... set_motor_safe for motors 1 to 4, in this order.
Drive ==
  /\ running /\ step = "drive"
  /\ pwm' = [pwm EXCEPT ![motor] = Safe(want[motor])]
  /\ IF motor = 4 THEN motor' = 1 /\ step' = "command"
                  ELSE motor' = motor + 1 /\ UNCHANGED step
  /\ UNCHANGED <<running, want, calibration, flight, cmdBuf>>
-----------------------------------------------------------------------------
\* command_process finds no whole frame, or one whose handler changes nothing
\* modelled here (c and d answer, u is the estimator's).
Quiet ==
  /\ Return
  /\ UNCHANGED <<flight, pwm>>

X_Control_cmd(c) ==   \* mutation: the length is not checked
  /\ c.cmd = "o" /\ Return
  /\ throttle' = c.val
  /\ UNCHANGED <<armed, gains, mixed, stopped, pwm>>

\* control_cmd
Control_cmd(c) ==
  /\ c.cmd = "o" /\ Return
  /\ throttle' = IF c.whole THEN c.val ELSE throttle
  /\ UNCHANGED <<armed, gains, mixed, stopped, pwm>>

\* tune_cmd: a wrong length is reported, and the nine floats are read all the same.
Tune_cmd(c) ==
  /\ c.cmd = "t" /\ Return
  /\ gains' = Overlay(c.floats) /\ mixed' = ~c.whole
  /\ UNCHANGED <<armed, throttle, stopped, pwm>>

\* arm_cmd
Arm_cmd(c) ==
  /\ c.cmd = "a" /\ Return
  /\ armed' = TRUE /\ stopped' = FALSE
  /\ UNCHANGED <<throttle, gains, mixed, pwm>>

X_Disarm_cmd(c) ==   \* mutation: the motors are left to the next tick
  /\ c.cmd = "s" /\ Return
  /\ armed' = FALSE
  /\ UNCHANGED <<throttle, gains, mixed, stopped, pwm>>

\* disarm_cmd begins: armed = 0.
Disarm_cmd(c) ==
  /\ c.cmd = "s"
  /\ armed' = FALSE
  /\ step' = "disarm"
  /\ UNCHANGED <<motor, want, throttle, gains, mixed, stopped, pwm>>

\* set_motor: neither bounded nor conditional on armed.
Set_motor(c) ==
  /\ c.cmd = "m" /\ Return
  /\ IF c.whole /\ c.motor \in Motor
     THEN pwm' = [pwm EXCEPT ![c.motor] = c.val] /\ stopped' = FALSE
     ELSE UNCHANGED <<pwm, stopped>>
  /\ UNCHANGED <<armed, throttle, gains, mixed>>

\* command_process stores the payload in cmd_buf and calls the handler.
Receive(c) ==
  /\ cmdBuf' = Overlay(c.floats)
  /\ \/ c.cmd \in {"c", "d", "u"} /\ Quiet
     \/ Control_cmd(c) \/ Tune_cmd(c) \/ Arm_cmd(c)
     \/ Disarm_cmd(c) \/ Set_motor(c)

Handle ==
  /\ running /\ step = "command"
  /\ \/ Quiet /\ UNCHANGED cmdBuf
     \/ \E c \in Command : Receive(c)
  /\ UNCHANGED <<running, calibration>>

\* Mutation: the fourth motor is forgotten.
X_SwitchOff ==
  /\ running /\ step = "disarm"
  /\ pwm' = [pwm EXCEPT ![motor] = Safe(0)]
  /\ IF motor = 3 THEN Return /\ stopped' = TRUE
                  ELSE motor' = motor + 1 /\ UNCHANGED <<step, want, stopped>>
  /\ UNCHANGED <<running, calibration, armed, throttle, gains, mixed, cmdBuf>>

\* disarm_cmd goes on: set_motor_safe(0) for motors 1 to 4.
SwitchOff ==
  /\ running /\ step = "disarm"
  /\ pwm' = [pwm EXCEPT ![motor] = Safe(0)]
  /\ IF motor = 4 THEN Return /\ stopped' = TRUE
                  ELSE motor' = motor + 1 /\ UNCHANGED <<step, want, stopped>>
  /\ UNCHANGED <<running, calibration, armed, throttle, gains, mixed, cmdBuf>>

Tick == Sample \/ Count \/ Divide \/ Estimate \/ Drive \/ Handle \/ SwitchOff
Next == Load \/ Start \/ Stop \/ Tick

Spec == Init /\ [][Next]_vars
-----------------------------------------------------------------------------
\* Every duty value stays in the 16 bits of pwm_set, the calibration never counts past
\* Samples, and every variable keeps its type.
TypeOK ==
  /\ running \in BOOLEAN /\ armed \in BOOLEAN /\ stopped \in BOOLEAN
  /\ calibrating \in BOOLEAN /\ cut \in BOOLEAN /\ mixed \in BOOLEAN
  /\ step \in {"rest", "sampled", "divide", "estimate", "drive", "command", "disarm"}
  /\ motor \in Motor /\ want \in [Motor -> Int]
  /\ throttle \in Duty /\ pwm \in [Motor -> Duty]
  /\ calibrate \in 0 .. Samples /\ summed \in Nat /\ divided \in Nat
  /\ cmdBuf \in [Slot -> Value] /\ gains \in [Slot -> Value]

\* Once disarm_cmd has run, all four motors stay off until somebody arms, sets a
\* motor by hand or restarts the M3, whatever the attitude and the throttle do and
\* whatever the tick was doing.
StoppedIsStill == stopped => ~armed /\ \A m \in Motor : pwm[m] = 0

\* What set_motor_safe lets through.
SafeDuty == {0} \cup (ThrottleMin .. ThrottleMax)

\* When an armed tick comes to the command, every motor is in the safe range,
\* whatever the mixer computed and whatever set_motor or the boot wrote before.
ArmedIsSafe == step = "command" /\ armed => \A m \in Motor : pwm[m] \in SafeDuty

\* While disarmed no step of a tick but the set_motor command gives a motor anything
\* but 0: in particular the arm command spins no motor in its own tick, and the
\* throttle of an earlier flight none at all.
DisarmedDrivesNothing ==
  [][running /\ ~armed /\ step # "command" =>
       \A m \in Motor : pwm'[m] \in {0, pwm[m]}]_vars

\* When the calibration counts as done, the offsets are the sums of exactly Samples
\* samples divided once, however often the M3 was stopped and started without a new
\* image in the meantime, unless a stop cut sensors_calibrate itself in half.
CalibratedOnce ==
  ~cut => divided <= 1 /\ (~calibrating => summed = Samples /\ divided = 1)

\* Slot s of a frame that may have arrived.
Carried(s, val) == \E c \in Command : s <= Len(c.floats) /\ val = c.floats[s]

\* The gains in use are those of one tune command (or none yet), whatever other commands
\* left in cmd_buf.  The exception is a tune command of another length: control.c:69
\* prints that it is invalid and uses it all the same, and the gains it does not carry are
\* what earlier commands had at these places.  The next whole one ends it.
GainsOfOneTune ==
  IF mixed THEN \A s \in Slot : gains[s] = Zero \/ Carried(s, gains[s])
  ELSE \/ gains = [s \in Slot |-> Zero]
       \/ \E c \in Command : c.cmd = "t" /\ c.whole /\ gains = c.floats
=============================================================================
