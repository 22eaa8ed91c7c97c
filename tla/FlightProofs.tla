---------------------------- MODULE FlightProofs -----------------------------
(***************************************************************************)
(* Proofs for all throttle ranges, PID outputs, gains, keys and ring       *)
(* lengths, wherever the M3 is stopped. First about Control: what its tick *)
(* guarantees under every set of commands. Then about Flight: a flight is  *)
(* a behaviour of Control, so all of that holds in it; and the two         *)
(* programs' views agree.                                                  *)
(***************************************************************************)
EXTENDS Flight, SequenceTheorems, TLAPS

\* What the motors hold while four of them are written one after the other.
StepInv ==
  /\ step = "drive" => armed /\ \A m \in Motor : m < motor => pwm[m] \in SafeDuty
  /\ step = "disarm" => ~armed /\ \A m \in Motor : m < motor => pwm[m] = 0
  /\ step \notin {"drive", "disarm"} => motor = 1

\* How far the calibration is, in terms of the count that survives a restart.
CalibrationInv ==
  /\ step = "sampled" => calibrating /\ calibrate < Samples
  /\ step = "divide" => calibrating /\ calibrate = Samples
  /\ ~cut => /\ divided = IF calibrate = Samples /\ step # "divide" THEN 1 ELSE 0
             /\ step = "sampled" => summed = calibrate + 1
             /\ step # "sampled" /\ calibrate > 0 => summed = calibrate
             /\ ~calibrating => calibrate = Samples

IInv == TypeOK /\ StoppedIsStill /\ ArmedIsSafe /\ StepInv /\ CalibrationInv
-----------------------------------------------------------------------------
\* set_motor_safe always answers 0 or a value of the safe range.
LEMMA SafeInRange ==
  ASSUME NEW v \in Int
  PROVE  Safe(v) \in SafeDuty /\ Safe(v) \in Duty
BY ThrottleAssumption DEF Safe, SafeDuty, Duty

\* The mixer's sums are integers.
LEMMA MixType ==
  ASSUME NEW t \in Duty, NEW p \in PidOut, NEW r \in PidOut
  PROVE  Mix(t, p, r) \in [Motor -> Int]
<1>1. t \in Int /\ p \in Int /\ r \in Int
  BY ThrottleAssumption, PidAssumption DEF Duty
<1>2. \A m \in Motor : Mix(t, p, r)[m] \in Int
  BY <1>1 DEF Mix, Motor
<1> QED
  BY <1>2 DEF Mix

\* Whatever the payload, cmd_buf keeps holding floats or fragments.
LEMMA OverlayType ==
  ASSUME TypeOK, NEW c \in Command
  PROVE  Overlay(c.floats) \in [Slot -> Value]
<1>1. PICK n \in 0 .. 9 : c.floats \in [1 .. n -> Value]
  BY CommandAssumption DEF CommandType
<1>2. ASSUME NEW s \in Slot
      PROVE  (IF s <= Len(c.floats) THEN c.floats[s] ELSE cmdBuf[s]) \in Value
  <2>1. Len(c.floats) = n
    BY <1>1
  <2> QED
    BY <1>1, <2>1 DEF TypeOK, Slot
<1> QED
  BY <1>2 DEF Overlay

\* What both a linked image and a loaded one hold.
LEMMA FreshStatics ==
  /\ 0 \in Duty /\ PwmMax \in Duty /\ 0 \in 0 .. Samples /\ 0 # Samples
  /\ 1 \in Motor /\ [s \in Slot |-> Zero] \in [Slot -> Value]
  /\ \A d \in Duty : [m \in Motor |-> d] \in [Motor -> Duty]
  /\ [m \in Motor |-> 0] \in [Motor -> Int]
BY ThrottleAssumption, SamplesAssumption DEF Duty, Value, Motor

\* A finished tick leaves its locals in their types.
LEMMA ReturnType ==
  ASSUME Return
  PROVE  step' = "rest" /\ motor' = 1 /\ motor' \in Motor /\ want' \in [Motor -> Int]
BY FreshStatics DEF Return
-----------------------------------------------------------------------------
\* The linked image is in the invariant.
LEMMA InitInv == Init => IInv
<1> SUFFICES ASSUME Init PROVE IInv
  OBVIOUS
<1> QED
  BY FreshStatics DEF Init, IInv, TypeOK, StoppedIsStill, ArmedIsSafe, StepInv,
                      CalibrationInv

\* A new image puts every static back, while no tick is under way.
LEMMA LoadInv == ASSUME IInv, Load, step = "rest" PROVE IInv'
BY FreshStatics DEF Load, tick, IInv, TypeOK, StoppedIsStill, ArmedIsSafe, StepInv,
                    CalibrationInv

\* Boot keeps the statics it does not set, and pid_init zeroes the gains.
LEMMA StartInv == ASSUME IInv, Start, step = "rest" PROVE IInv'
BY FreshStatics DEF Start, tick, calibration, IInv, TypeOK, StoppedIsStill, ArmedIsSafe,
                    StepInv, CalibrationInv

\* A stop ends the tick wherever it is; what survives is still in the invariant.
LEMMA StopInv == ASSUME IInv, Stop PROVE IInv'
<1> USE DEF Stop, flight, IInv
<1>1. TypeOK' /\ StoppedIsStill' /\ ArmedIsSafe' /\ StepInv'
  BY ReturnType DEF TypeOK, StoppedIsStill, ArmedIsSafe, StepInv
<1>2. CalibrationInv'
  BY ReturnType DEF TypeOK, CalibrationInv
<1> QED
  BY <1>1, <1>2

\* The sums of sensors_calibrate grow only while a sample is missing.
LEMMA SampleInv == ASSUME IInv, Sample PROVE IInv'
<1> USE DEF Sample, flight, IInv
<1>1. TypeOK'
  <2>1. CASE calibrating /\ calibrate < Samples
    BY <2>1 DEF TypeOK
  <2>2. CASE ~(calibrating /\ calibrate < Samples)
    <3>1. calibrating' \in BOOLEAN
      BY <2>2 DEF TypeOK
    <3> QED
      BY <2>2, <3>1 DEF TypeOK
  <2> QED
    BY <2>1, <2>2
<1>2. StoppedIsStill' /\ ArmedIsSafe' /\ StepInv'
  BY DEF TypeOK, StoppedIsStill, ArmedIsSafe, StepInv
<1>3. CalibrationInv'
  BY SamplesAssumption DEF TypeOK, CalibrationInv
<1> QED
  BY <1>1, <1>2, <1>3

\* calibrate++ reaches Samples exactly when the division is due.
LEMMA CountInv == ASSUME IInv, Count PROVE IInv'
<1> USE DEF Count, flight, IInv
<1>1. TypeOK'
  BY SamplesAssumption DEF TypeOK, CalibrationInv
<1>2. StoppedIsStill' /\ ArmedIsSafe' /\ StepInv'
  BY DEF StoppedIsStill, ArmedIsSafe, StepInv
<1>3. CalibrationInv'
  BY SamplesAssumption DEF TypeOK, CalibrationInv
<1> QED
  BY <1>1, <1>2, <1>3

\* The offsets are divided once, and the calibration is over.
LEMMA DivideInv == ASSUME IInv, Divide PROVE IInv'
<1> USE DEF Divide, flight, IInv
<1>1. TypeOK'
  <2>1. calibrating' \in BOOLEAN
    BY DEF TypeOK
  <2> QED
    BY <2>1 DEF TypeOK
<1>2. StoppedIsStill' /\ ArmedIsSafe' /\ StepInv'
  BY DEF StoppedIsStill, ArmedIsSafe, StepInv
<1>3. CalibrationInv'
  BY DEF TypeOK, CalibrationInv
<1> QED
  BY <1>1, <1>2, <1>3

\* The mixer's values stay in the tick until set_motor_safe has seen them.
LEMMA EstimateInv == ASSUME IInv, Estimate PROVE IInv'
<1> USE DEF Estimate, calibration, flight, IInv
<1>1. TypeOK'
  BY MixType DEF TypeOK
<1>2. StoppedIsStill' /\ CalibrationInv'
  BY DEF StoppedIsStill, CalibrationInv
<1>3. StepInv' /\ ArmedIsSafe'
  BY DEF TypeOK, Motor, StepInv, ArmedIsSafe
<1> QED
  BY <1>1, <1>2, <1>3

\* The armed tick: the motors written so far are in the safe range.
LEMMA DriveInv == ASSUME IInv, Drive PROVE IInv'
<1> USE DEF Drive, calibration, flight, IInv
<1>1. Safe(want[motor]) \in SafeDuty /\ Safe(want[motor]) \in Duty
  BY SafeInRange DEF TypeOK
<1>2. TypeOK'
  BY <1>1 DEF TypeOK, Motor
<1>3. StoppedIsStill' /\ CalibrationInv'
  BY DEF StoppedIsStill, StepInv, CalibrationInv
<1>4. armed' /\ \A m \in Motor : m <= motor => pwm'[m] \in SafeDuty
  BY <1>1 DEF TypeOK, StepInv, Motor
<1>5. StepInv' /\ ArmedIsSafe'
  <2>1. CASE motor = 4
    BY <1>4, <2>1 DEF StepInv, ArmedIsSafe, Motor
  <2>2. CASE motor # 4
    BY <1>4, <2>2 DEF StepInv, ArmedIsSafe, Motor, TypeOK
  <2> QED
    BY <2>1, <2>2
<1> QED
  BY <1>2, <1>3, <1>5

\* The command handlers: none of them arms and leaves a motor on behind a disarm.
LEMMA HandleInv == ASSUME IInv, Handle PROVE IInv'
<1> USE DEF IInv
<1>1. /\ step = "command" /\ motor = 1
      /\ UNCHANGED <<running, calibrating, calibrate, summed, divided, cut>>
  BY DEF Handle, calibration, StepInv
<1>2. cmdBuf' \in [Slot -> Value]
  BY OverlayType DEF Handle, Receive, TypeOK
<1> DEFINE Rest == /\ step' \in {"rest", "disarm"} /\ motor' = 1
                   /\ want' \in [Motor -> Int]
                   /\ step' = "disarm" => ~armed'
                   /\ gains' \in [Slot -> Value] /\ throttle' \in Duty
                   /\ armed' \in BOOLEAN /\ stopped' \in BOOLEAN
                   /\ mixed' \in BOOLEAN
                   /\ pwm' \in [Motor -> Duty]
                   /\ stopped' => ~armed' /\ \A m \in Motor : pwm'[m] = 0
<1>3. ASSUME Quiet PROVE Rest
  BY <1>3, ReturnType DEF Quiet, flight, TypeOK, StoppedIsStill
<1>4. ASSUME NEW c \in Command,
             Control_cmd(c) \/ Tune_cmd(c) \/ Arm_cmd(c) \/ Disarm_cmd(c) \/ Set_motor(c)
      PROVE  Rest
  <2>1. c.val \in Duty
    BY CommandAssumption DEF CommandType
  <2>2. CASE Control_cmd(c)
    BY <2>1, <2>2, ReturnType DEF Control_cmd, TypeOK, StoppedIsStill
  <2>3. CASE Tune_cmd(c)
    <3>1. mixed' \in {TRUE, FALSE}
      BY <2>3 DEF Tune_cmd
    <3> QED
      BY <2>3, <3>1, ReturnType, OverlayType DEF Tune_cmd, TypeOK, StoppedIsStill
  <2>4. CASE Arm_cmd(c)
    BY <2>4, ReturnType DEF Arm_cmd, TypeOK, StoppedIsStill
  <2>5. CASE Disarm_cmd(c)
    BY <1>1, <2>5 DEF Disarm_cmd, TypeOK, StoppedIsStill
  <2>6. CASE Set_motor(c)
    BY <2>1, <2>6, ReturnType DEF Set_motor, TypeOK, StoppedIsStill
  <2> QED
    BY <1>4, <2>2, <2>3, <2>4, <2>5, <2>6
<1>5. Rest
  BY <1>3, <1>4 DEF Handle, Receive
<1>6. TypeOK'
  BY <1>1, <1>2, <1>5, FreshStatics DEF TypeOK
<1>7. StoppedIsStill' /\ ArmedIsSafe'
  BY <1>5 DEF StoppedIsStill, ArmedIsSafe
<1>8. StepInv'
  BY <1>5 DEF StepInv, Motor
<1>9. CalibrationInv'
  BY <1>1, <1>5 DEF CalibrationInv
<1> QED
  BY <1>6, <1>7, <1>8, <1>9

\* The rest of disarm_cmd: the motors written so far are off.
LEMMA SwitchOffInv == ASSUME IInv, SwitchOff PROVE IInv'
<1> USE DEF SwitchOff, calibration, IInv
<1>1. Safe(0) = 0 /\ 0 \in Duty
  BY ThrottleAssumption DEF Safe, Duty
<1>2. pwm' \in [Motor -> Duty] /\ ~armed' /\ \A m \in Motor : m <= motor => pwm'[m] = 0
  BY <1>1 DEF TypeOK, StepInv, Motor
<1>3. CASE motor = 4
  <2>1. step' = "rest" /\ motor' = 1 /\ motor' \in Motor /\ want' \in [Motor -> Int]
        /\ stopped' = TRUE
    BY <1>3, ReturnType
  <2>2. TypeOK' /\ StepInv'
    BY <1>2, <2>1 DEF TypeOK, StepInv
  <2>3. StoppedIsStill' /\ ArmedIsSafe'
    BY <1>2, <1>3, <2>1 DEF StoppedIsStill, ArmedIsSafe, Motor
  <2>4. CalibrationInv'
    BY <2>1 DEF CalibrationInv
  <2> QED
    BY <2>2, <2>3, <2>4
<1>4. CASE motor # 4
  <2>1. motor' = motor + 1 /\ UNCHANGED <<step, want, stopped>> /\ motor' \in Motor
    BY <1>4 DEF TypeOK, Motor
  <2>2. TypeOK'
    BY <1>2, <2>1 DEF TypeOK
  <2>3. StepInv'
    BY <1>2, <2>1 DEF StepInv, Motor, TypeOK
  <2>4. StoppedIsStill' /\ ArmedIsSafe'
    BY <1>1, <1>2, <2>1 DEF StoppedIsStill, ArmedIsSafe, TypeOK
  <2>5. CalibrationInv'
    BY <2>1 DEF CalibrationInv
  <2> QED
    BY <2>2, <2>3, <2>4, <2>5
<1> QED
  BY <1>3, <1>4
-----------------------------------------------------------------------------
\* The M3 in reset has no tick in progress.
Reset == ~running => step = "rest"

\* No step begins a tick in reset.
LEMMA ResetInv == ASSUME Reset, [Next]_vars PROVE Reset'
BY DEF Reset, Next, Tick, Load, Start, Stop, Sample, Count, Divide, Estimate, Drive,
       Handle, SwitchOff, Return, vars, tick

\* No step leaves the invariant.
LEMMA NextInv == ASSUME IInv, Reset, [Next]_vars PROVE IInv'
<1>1. CASE Load
  BY <1>1, LoadInv DEF Load, Reset
<1>2. CASE Start
  BY <1>2, StartInv DEF Start, Reset
<1>3. CASE Stop
  BY <1>3, StopInv
<1>4. CASE Tick
  BY <1>4, SampleInv, CountInv, DivideInv, EstimateInv, DriveInv, HandleInv,
     SwitchOffInv DEF Tick
<1>5. CASE UNCHANGED vars
  BY <1>5 DEF vars, tick, calibration, flight, IInv, TypeOK, StoppedIsStill, ArmedIsSafe,
              StepInv, CalibrationInv
<1> QED
  BY <1>1, <1>2, <1>3, <1>4, <1>5 DEF Next

\* The invariant holds in every state.
LEMMA Invariance == Spec => []IInv
<1>1. Init => IInv /\ Reset
  BY InitInv DEF Init, Reset
<1>2. IInv /\ Reset /\ [Next]_vars => IInv' /\ Reset'
  BY NextInv, ResetInv
<1> QED
  BY <1>1, <1>2, PTL DEF Spec

\* The values stay in their ranges: no duty value leaves 16 bits.
THEOREM TypeCorrect == Spec => []TypeOK
<1>1. IInv => TypeOK
  BY DEF IInv
<1> QED
  BY <1>1, Invariance, PTL

\* After a disarm command the motors are off until somebody arms, sets a motor by
\* hand or restarts the firmware.
THEOREM StaysStopped == Spec => []StoppedIsStill
<1>1. IInv => StoppedIsStill
  BY DEF IInv
<1> QED
  BY <1>1, Invariance, PTL

\* Whatever the mixer computes, an armed tick leaves every motor in the safe range.
THEOREM ArmedStaysSafe == Spec => []ArmedIsSafe
<1>1. IInv => ArmedIsSafe
  BY DEF IInv
<1> QED
  BY <1>1, Invariance, PTL

\* The offsets are the mean of Samples samples, across any restarts between ticks.
THEOREM CalibratesOnce == Spec => []CalibratedOnce
<1>1. IInv => CalibratedOnce
  BY SamplesAssumption DEF IInv, TypeOK, CalibrationInv, CalibratedOnce
<1> QED
  BY <1>1, Invariance, PTL

\* No step of a disarmed tick but a set_motor command drives a motor.
THEOREM DisarmedStaysStill == Spec => DisarmedDrivesNothing
<1>1. ASSUME IInv, [Next]_vars
      PROVE  [running /\ ~armed /\ step # "command" =>
                \A m \in Motor : pwm'[m] \in {0, pwm[m]}]_vars
  <2> SUFFICES ASSUME running, ~armed, step # "command"
               PROVE  pwm' = pwm \/ \A m \in Motor : pwm'[m] \in {0, pwm[m]}
    OBVIOUS
  <2>1. CASE SwitchOff
    <3>1. Safe(0) = 0
      BY ThrottleAssumption DEF Safe
    <3> QED
      BY <1>1, <2>1, <3>1 DEF SwitchOff, IInv, TypeOK
  <2>2. CASE Drive
    BY <1>1, <2>2 DEF Drive, IInv, StepInv
  <2>3. CASE Load \/ Start \/ Stop \/ Sample \/ Count \/ Divide \/ Estimate \/ Handle
    BY <2>3 DEF Load, Start, Stop, Sample, Count, Divide, Estimate, Handle
  <2> QED
    BY <1>1, <2>1, <2>2, <2>3 DEF Next, Tick, vars
<1> QED
  BY <1>1, Invariance, PTL DEF Spec, DisarmedDrivesNothing

\* What cmd_buf holds comes from frames that arrived since the image was loaded.
BufferInv == \A s \in Slot : cmdBuf[s] = Zero \/ Carried(s, cmdBuf[s])

GainsInv == BufferInv /\ GainsOfOneTune

\* A payload of nine floats covers all that tune_cmd reads.
LEMMA WholeOverlay ==
  ASSUME NEW floats \in [Slot -> Value] PROVE Overlay(floats) = floats
<1>1. Len(floats) = 9
  BY DEF Slot
<1> QED
  BY <1>1 DEF Overlay, Slot

\* A frame leaves what it does not cover.
LEMMA BufferStep ==
  ASSUME BufferInv, NEW c \in Command, NEW s \in Slot
  PROVE  Overlay(c.floats)[s] = Zero \/ Carried(s, Overlay(c.floats)[s])
<1>1. CASE s <= Len(c.floats)
  BY <1>1 DEF Overlay, Carried
<1>2. CASE ~(s <= Len(c.floats))
  <2>1. Overlay(c.floats)[s] = cmdBuf[s]
    BY <1>2 DEF Overlay
  <2> QED
    BY <2>1 DEF BufferInv
<1> QED
  BY <1>1, <1>2

\* For all commands that can arrive, short tune frames among them, the gains in use are
\* those of one tune command, although the handler reads its nine floats from a buffer that
\* keeps what earlier commands left there; only behind a tune command of another length,
\* which tune_cmd reports and uses, are they mixed with what earlier frames carried.
THEOREM GainsStayWhole == Spec => []GainsOfOneTune
<1>1. ASSUME GainsInv, NEW c \in Command, Tune_cmd(c) PROVE GainsOfOneTune'
  <2>1. c.cmd = "t" /\ gains' = Overlay(c.floats) /\ mixed' = ~c.whole
    BY <1>1 DEF Tune_cmd
  <2>2. CASE c.whole
    <3>1. c.floats \in [Slot -> Value]
      BY <2>1, <2>2, WholeAssumption
    <3>2. gains' = c.floats
      BY <2>1, <3>1, WholeOverlay
    <3>3. ~mixed'
      BY <2>1, <2>2
    <3> QED
      BY <2>1, <2>2, <3>2, <3>3 DEF GainsOfOneTune
  <2>3. CASE ~c.whole
    <3>1. ASSUME NEW s \in Slot PROVE gains'[s] = Zero \/ Carried(s, gains'[s])
      BY <1>1, <2>1, BufferStep DEF GainsInv
    <3>2. mixed'
      BY <2>1, <2>3
    <3> QED
      BY <3>1, <3>2 DEF GainsOfOneTune, Carried
  <2> QED
    BY <2>2, <2>3
<1>2. ASSUME GainsInv, [Next]_vars PROVE GainsInv'
  <2>1. ASSUME gains' = gains, mixed' = mixed PROVE GainsOfOneTune'
    BY <1>2, <2>1 DEF GainsInv, GainsOfOneTune, Carried
  <2>2. ASSUME cmdBuf' = cmdBuf PROVE BufferInv'
    BY <1>2, <2>2 DEF GainsInv, BufferInv, Carried
  <2>3. CASE Load
    <3>1. ~mixed' /\ gains' = [s \in Slot |-> Zero] /\ cmdBuf' = [s \in Slot |-> Zero]
      BY <2>3 DEF Load
    <3> QED
      BY <3>1 DEF GainsInv, BufferInv, GainsOfOneTune
  <2>4. CASE Start
    <3>1. ~mixed' /\ gains' = [s \in Slot |-> Zero] /\ cmdBuf' = cmdBuf
      BY <2>4 DEF Start
    <3> QED
      BY <2>2, <3>1 DEF GainsInv, GainsOfOneTune
  <2>5. CASE Handle
    <3>1. CASE Quiet /\ UNCHANGED cmdBuf
      BY <2>1, <2>2, <3>1 DEF Quiet, flight, GainsInv
    <3>2. ASSUME NEW c \in Command, Receive(c) PROVE GainsInv'
      <4>1. cmdBuf' = Overlay(c.floats)
        BY <3>2 DEF Receive
      <4>2. BufferInv'
        <5>1. \A s \in Slot : cmdBuf'[s] = Zero \/ Carried(s, cmdBuf'[s])
          BY <1>2, <4>1, BufferStep DEF GainsInv
        <5> QED
          BY <5>1 DEF BufferInv, Carried
      <4>3. (gains' = gains /\ mixed' = mixed) \/ Tune_cmd(c)
        BY <3>2 DEF Receive, Quiet, flight, Control_cmd, Arm_cmd, Disarm_cmd, Set_motor
      <4> QED
        BY <1>1, <1>2, <2>1, <4>2, <4>3 DEF GainsInv
    <3> QED
      BY <2>5, <3>1, <3>2 DEF Handle
  <2>6. CASE Stop \/ Sample \/ Count \/ Divide \/ Estimate \/ Drive \/ SwitchOff
             \/ UNCHANGED vars
    BY <2>1, <2>2, <2>6 DEF Stop, Sample, Count, Divide, Estimate, Drive, SwitchOff, flight,
                            vars, GainsInv
  <2> QED
    BY <1>2, <2>3, <2>4, <2>5, <2>6 DEF Next, Tick
<1>3. Init => GainsInv
  BY DEF Init, GainsInv, BufferInv, GainsOfOneTune
<1>4. GainsInv => GainsOfOneTune
  BY DEF GainsInv
<1> QED
  BY <1>2, <1>3, <1>4, PTL DEF Spec
-----------------------------------------------------------------------------
\* The frames that change the throttle, and those that set every gain.
Throttles(f) == f.cmd = "o" /\ f.whole
Tunes(f) == f.cmd = "t" /\ f.whole

TuneSent == \E i \in DOMAIN sent : Tunes(sent[i])

\* Only frames of the two programs are under way.
SentInv == sent \in Seq(Frames) /\ gain \in Gain /\ shown \in Duty

\* The strengthening of ThrottleAgrees: the last throttle under way is the one shown.
ThrottleInv ==
  spoken =>
    /\ (\A i \in DOMAIN sent : ~Throttles(sent[i])) => throttle = shown
    /\ \A i \in DOMAIN sent :
         Throttles(sent[i]) /\ (\A j \in DOMAIN sent : j > i => ~Throttles(sent[j]))
           => sent[i].val = shown

\* No frame but a whole tune frame reaches the ninth float of cmd_buf: from the first one
\* taken on, neither it nor the last gain is zero, whatever else arrives.
NinthInv == gains[9] # Zero => cmdBuf[9] # Zero

\* The strengthening of ArmedIsTuned: while the last gain is zero, a whole tune frame is
\* under way before any arm frame, and as soon as the program may send one.
TunedInv ==
  ~untuned /\ gains[9] = Zero =>
    /\ ~armed
    /\ running =>
         /\ \A j \in DOMAIN sent :
              sent[j].cmd = "a" => \E i \in DOMAIN sent : i < j /\ Tunes(sent[i])
         /\ program \in {"gains", "connect", "keys"} => TuneSent

FlightInv == SentInv /\ ThrottleInv /\ NinthInv /\ TunedInv
-----------------------------------------------------------------------------
\* What the frames the programs send are to their receiver.
LEMMA FrameFacts ==
  /\ \A g \in Gain : TuneFrame(g) \in Frames /\ TuneFrame(g).cmd = "t" /\ Tunes(TuneFrame(g))
  /\ \A g \in Gain : GainsFrame(g) \in Frames /\ GainsFrame(g).cmd = "u"
  /\ \A v \in Duty : /\ ControlFrame(v) \in Frames /\ ControlFrame(v).cmd = "o"
                     /\ ControlFrame(v).whole /\ ControlFrame(v).val = v
  /\ \A a \in MotorArgs : MotorFrame(a[1], a[2]) \in Frames /\ MotorFrame(a[1], a[2]).cmd = "m"
  /\ \A c \in {"a", "s", "c", "d", "o"} :
       BareFrame(c) \in Frames /\ BareFrame(c).cmd = c /\ ~Throttles(BareFrame(c))
  /\ \A p \in ShortTunes : /\ ShortTune(p) \in Frames /\ ShortTune(p).cmd = "t"
                           /\ ~Throttles(ShortTune(p))
BY DEF Frames, TuneFrame, GainsFrame, ControlFrame, MotorFrame, BareFrame, ShortTune, Frame,
       Throttles, Tunes

\* A whole tune frame has nine floats, none of them the zero of pid_init, ...
LEMMA TuneFrames ==
  ASSUME NEW f \in Frames, Tunes(f)
  PROVE  f.floats \in [Slot -> Value] /\ f.floats[9] # Zero
<1>1. PICK g \in Gain : f = TuneFrame(g)
  BY DEF Frames, TuneFrame, GainsFrame, ControlFrame, MotorFrame, BareFrame, ShortTune, Frame,
         Tunes
<1>2. f.whole /\ f.floats = [s \in Slot |-> g]
  BY <1>1 DEF TuneFrame, Frame
<1>3. f.floats \in [Slot -> Value]
  <2>1. f \in CommandType
    BY FrameAssumption, CommandAssumption
  <2>2. PICK n \in 0 .. 9 : f.floats \in [1 .. n -> Value]
    BY <2>1 DEF CommandType
  <2> QED
    BY <1>2, <2>2
<1>4. f.floats[9] = g /\ g # Zero
  BY <1>2, GainAssumption DEF Slot
<1> QED
  BY <1>3, <1>4

\* ... and every other frame is shorter.
LEMMA OtherFrames ==
  ASSUME NEW f \in Frames, ~Tunes(f)
  PROVE  Overlay(f.floats)[9] = cmdBuf[9]
<1>1. ~(9 <= Len(f.floats))
  <2>1. CASE \E p \in ShortTunes : f = ShortTune(p)
    <3>1. PICK p \in ShortTunes : f = ShortTune(p)
      BY <2>1
    <3>2. f.floats = p /\ Len(p) < 9
      BY <3>1, ShortAssumption DEF ShortTune, Frame
    <3>3. f \in CommandType
      BY FrameAssumption, CommandAssumption
    <3>4. PICK n \in 0 .. 9 : f.floats \in [1 .. n -> Value]
      BY <3>3 DEF CommandType
    <3>5. Len(p) = n
      BY <3>2, <3>4
    <3> QED
      BY <3>2, <3>5
  <2>2. CASE \E g \in Gain : f = GainsFrame(g)
    <3>1. PICK g \in Gain : f = GainsFrame(g)
      BY <2>2
    <3>2. Len(f.floats) = 2
      BY <3>1 DEF GainsFrame, Frame
    <3> QED
      BY <3>2
  <2>3. CASE \E v \in Duty : f = ControlFrame(v)
    <3>1. PICK v \in Duty : f = ControlFrame(v)
      BY <2>3
    <3>2. Len(f.floats) = 4
      BY <3>1 DEF ControlFrame, Frame
    <3> QED
      BY <3>2
  <2>4. CASE \E a \in MotorArgs : f = MotorFrame(a[1], a[2])
    <3>1. PICK a \in MotorArgs : f = MotorFrame(a[1], a[2])
      BY <2>4
    <3>2. Len(f.floats) = 1
      BY <3>1 DEF MotorFrame, Frame
    <3> QED
      BY <3>2
  <2>5. CASE \E c \in {"a", "s", "c", "d", "o"} : f = BareFrame(c)
    <3>1. PICK c \in {"a", "s", "c", "d", "o"} : f = BareFrame(c)
      BY <2>5
    <3>2. Len(f.floats) = 0
      BY <3>1 DEF BareFrame, Frame
    <3> QED
      BY <3>2
  <2>6. CASE \E g \in Gain : f = TuneFrame(g)
    BY <2>6, FrameFacts
  <2> QED
    BY <2>1, <2>2, <2>3, <2>4, <2>5, <2>6 DEF Frames
<1> QED
  BY <1>1 DEF Overlay, Slot

\* A frame is written: it comes last.
LEMMA Sending ==
  ASSUME SentInv, NEW f \in Frames, Send(f)
  PROVE  /\ sent' \in Seq(Frames) /\ DOMAIN sent' = 1 .. Len(sent) + 1
         /\ DOMAIN sent = 1 .. Len(sent) /\ Len(sent) \in Nat
         /\ \A i \in DOMAIN sent : sent'[i] = sent[i]
         /\ sent'[Len(sent) + 1] = f
<1>1. sent' = Append(sent, f) /\ sent \in Seq(Frames)
  BY DEF Send, SentInv
<1> QED
  BY <1>1, AppendProperties

\* A frame is taken: the first.
LEMMA Taking ==
  ASSUME SentInv, sent # << >>, sent' = Tail(sent)
  PROVE  /\ sent' \in Seq(Frames) /\ Head(sent) = sent[1] /\ sent[1] \in Frames
         /\ DOMAIN sent' = 1 .. Len(sent) - 1
         /\ DOMAIN sent = 1 .. Len(sent) /\ Len(sent) \in Nat \ {0}
         /\ \A i \in DOMAIN sent' : sent'[i] = sent[i + 1]
<1>1. sent \in Seq(Frames)
  BY DEF SentInv
<1> QED
  BY <1>1, HeadTailProperties
-----------------------------------------------------------------------------
Later == {"gains", "connect", "keys"}

\* What a step of the pilot's programs can do: nothing to the firmware, ...
PilotEnds ==   \* ... the ring or the throttle, if the program starts or ends, ...
  /\ program' \in {"tune", "none"}
  /\ UNCHANGED sent
  /\ ~spoken' \/ UNCHANGED <<shown, spoken>>
PilotSends(f) ==   \* ... or one more frame, arm only behind tune, ...
  /\ Send(f) /\ ~Throttles(f)
  /\ f.cmd = "a" => program \in Later
  /\ program' \in Later => program \in Later \/ Tunes(f)
  /\ ~spoken' \/ UNCHANGED <<shown, spoken>>
PilotThrottles(f) ==   \* ... or a frame with the throttle that is displayed.
  /\ Send(f) /\ Throttles(f) /\ f.val = shown' /\ f.cmd # "a"
  /\ UNCHANGED program

LEMMA PilotStep ==
  ASSUME SentInv, Pilot
  PROVE  /\ UNCHANGED <<vars, untuned>> /\ gain' \in Gain /\ shown' \in Duty
         /\ PilotEnds \/ \E f \in Frames : PilotSends(f) \/ PilotThrottles(f)
<1> USE DEF SentInv, PilotEnds, PilotSends, PilotThrottles, Later
<1>0. 0 \in Duty
  BY FreshStatics
<1>1. CASE Run \/ Kill
  BY <1>0, <1>1 DEF Run, Kill, End
<1>2. CASE SetUp
  <2>1. gain \in Gain /\ UNCHANGED <<vars, untuned, gain, shown, spoken>>
    BY <1>2 DEF SetUp
  <2>2. CASE program = "tune" /\ program' = "gains" /\ Send(TuneFrame(gain))
    BY <2>1, <2>2, FrameFacts DEF Throttles
  <2>3. CASE program = "gains" /\ program' = "connect" /\ Send(GainsFrame(gain))
    BY <2>1, <2>3, FrameFacts DEF Throttles
  <2>4. CASE program = "connect" /\ program' = "keys" /\ Send(BareFrame("c"))
    BY <2>1, <2>4, FrameFacts
  <2> QED
    BY <1>2, <2>2, <2>3, <2>4 DEF SetUp
<1>3. CASE Key
  <2>1. PICK c \in {"a", "s", "o"} : Send(BareFrame(c))
    BY <1>3 DEF Key
  <2> QED
    BY <1>3, <2>1, FrameFacts DEF Key
<1>4. CASE ThrottleKey
  <2>1. PICK v \in {shown - KeyStep, shown + KeyStep} :
          IF v \in Duty
          THEN shown' = v /\ Send(ControlFrame(v)) /\ UNCHANGED program
          ELSE End /\ UNCHANGED sent
    BY <1>4 DEF ThrottleKey
  <2>2. UNCHANGED <<vars, untuned, gain>>
    BY <1>4 DEF ThrottleKey
  <2>3. CASE v \in Duty
    BY <2>1, <2>2, <2>3, FrameFacts DEF Throttles
  <2>4. CASE v \notin Duty
    BY <1>0, <2>1, <2>2, <2>4 DEF End
  <2> QED
    BY <2>3, <2>4
<1>5. CASE Quit
  BY <1>0, <1>5, FrameFacts DEF Quit, End
<1>6. CASE SetMotor
  <2>1. PICK a \in MotorArgs : Send(MotorFrame(a[1], a[2]))
    BY <1>6 DEF SetMotor
  <2> QED
    BY <1>6, <2>1, FrameFacts DEF SetMotor, Throttles
<1>7. CASE Other
  <2>1. PICK p \in ShortTunes : Send(ShortTune(p))
    BY <1>7 DEF Other
  <2> QED
    BY <1>7, <2>1, FrameFacts DEF Other
<1> QED
  BY <1>1, <1>2, <1>3, <1>4, <1>5, <1>6, <1>7 DEF Pilot

\* What taking a frame does to the throttle, the gains and the arming.
Takes(f) ==
  /\ throttle' = IF Throttles(f) THEN f.val ELSE throttle
  /\ gains' = gains \/ (f.cmd = "t" /\ gains' = Overlay(f.floats))
  /\ f.cmd = "t" => gains' = Overlay(f.floats)
  /\ cmdBuf' = Overlay(f.floats)
  /\ armed' => armed \/ f.cmd = "a"

LEMMA HandleStep ==
  ASSUME SentInv, FlightHandle
  PROVE  /\ Handle /\ UNCHANGED <<running, program, gain, shown, spoken, untuned>>
         /\ \/ UNCHANGED <<sent, throttle, gains, armed, cmdBuf>>
            \/ sent # << >> /\ sent' = Tail(sent) /\ Takes(sent[1])
<1>1. UNCHANGED <<running, calibration, program, gain, shown, spoken, untuned>>
      /\ running /\ step = "command"
  BY DEF FlightHandle
<1>2. CASE sent = << >>
  BY <1>1, <1>2 DEF FlightHandle, Handle, Quiet, flight
<1>3. CASE sent # << >>
  <2>1. Receive(Head(sent)) /\ sent' = Tail(sent)
    BY <1>3 DEF FlightHandle
  <2>2. Head(sent) = sent[1] /\ sent[1] \in Command
    BY <1>3, <2>1, Taking, FrameAssumption
  <2>3. Handle
    BY <1>1, <2>1, <2>2 DEF Handle
  <2>4. Takes(sent[1])
    BY <2>1, <2>2 DEF Receive, Quiet, flight, Control_cmd, Tune_cmd, Arm_cmd, Disarm_cmd,
                      Set_motor, Takes, Throttles
  <2> QED
    BY <1>1, <1>3, <2>1, <2>3, <2>4
<1> QED
  BY <1>2, <1>3
-----------------------------------------------------------------------------
LEMMA InitFlightInv == FlightInit => FlightInv
BY FreshStatics DEF FlightInit, Init, FlightInv, SentInv, ThrottleInv, NinthInv, TunedInv, Slot

\* A new image or a boot takes both histories back.
LEMMA LoadFlightInv ==
  ASSUME FlightInv, FlightLoad \/ FlightStart \/ FlightStop
  PROVE  FlightInv'
<1>1. CASE FlightLoad
  BY <1>1 DEF FlightLoad, Load, FlightInv, SentInv, ThrottleInv, NinthInv, TunedInv, Slot
<1>2. CASE FlightStart
  <2>1. /\ sent' = << >> /\ ~spoken' /\ UNCHANGED <<program, gain, shown, armed>>
        /\ untuned' = (armed \/ program # "none")
    BY <1>2 DEF FlightStart, Start
  <2>2. SentInv'
    BY <2>1 DEF FlightInv, SentInv
  <2>3. ThrottleInv'
    BY <2>1 DEF ThrottleInv
  <2>4. TunedInv'
    <3> SUFFICES ASSUME ~untuned' PROVE TunedInv'
      BY DEF TunedInv
    <3>1. ~(armed \/ program # "none")
      BY <2>1, Zenon
    <3>2. ~armed' /\ program' = "none"
      BY <2>1, <3>1, Zenon
    <3>3. DOMAIN sent' = {}
      BY <2>1
    <3> QED
      BY <3>2, <3>3 DEF TunedInv
  <2>5. NinthInv'
    BY <1>2 DEF FlightStart, Start, NinthInv, Slot
  <2> QED
    BY <2>2, <2>3, <2>4, <2>5 DEF FlightInv
<1>3. CASE FlightStop
  BY <1>3 DEF FlightStop, Stop, flight, pilot, FlightInv, SentInv, ThrottleInv, NinthInv,
              TunedInv, TuneSent
<1> QED
  BY <1>1, <1>2, <1>3

LEMMA PilotFlightInv == ASSUME FlightInv, Pilot PROVE FlightInv'
<1>0. SentInv /\ ThrottleInv /\ NinthInv /\ TunedInv
  BY DEF FlightInv
<1>1. /\ UNCHANGED <<vars, untuned>> /\ gain' \in Gain /\ shown' \in Duty
      /\ PilotEnds \/ \E f \in Frames : PilotSends(f) \/ PilotThrottles(f)
  BY <1>0, PilotStep
<1>2. UNCHANGED <<running, throttle, gains, armed, cmdBuf, untuned>>
  BY <1>1 DEF vars, flight
<1>3. CASE PilotEnds
  BY <1>0, <1>1, <1>2, <1>3 DEF PilotEnds, FlightInv, SentInv, ThrottleInv,
                            NinthInv, TunedInv, TuneSent
<1>4. ASSUME NEW f \in Frames, PilotSends(f) \/ PilotThrottles(f) PROVE FlightInv'
  <2>1. /\ sent' \in Seq(Frames) /\ DOMAIN sent' = 1 .. Len(sent) + 1
        /\ DOMAIN sent = 1 .. Len(sent) /\ Len(sent) \in Nat
        /\ \A i \in DOMAIN sent : sent'[i] = sent[i]
        /\ sent'[Len(sent) + 1] = f
    BY <1>0, <1>4, Sending DEF PilotSends, PilotThrottles
  <2>2. SentInv'
    BY <1>1, <2>1 DEF SentInv
  <2>3. ThrottleInv'
    <3>1. CASE PilotSends(f)
      <4>1. ~Throttles(f)
        BY <3>1 DEF PilotSends
      <4> SUFFICES ASSUME spoken' PROVE ThrottleInv'
        BY DEF ThrottleInv
      <4>2. UNCHANGED <<shown, spoken>>
        BY <3>1 DEF PilotSends
      <4> QED
        BY <1>0, <1>2, <2>1, <4>1, <4>2 DEF ThrottleInv
    <3>2. CASE PilotThrottles(f)
      <4>1. Throttles(f) /\ f.val = shown'
        BY <3>2 DEF PilotThrottles
      <4> QED
        BY <2>1, <4>1 DEF ThrottleInv
    <3> QED
      BY <1>4, <3>1, <3>2
  <2>4. TunedInv'
    <3> SUFFICES ASSUME (~untuned /\ gains[9] = Zero)' PROVE TunedInv'
      BY DEF TunedInv
    <3>1. ~armed /\ ~untuned /\ gains[9] = Zero /\ ~armed'
      BY <1>0, <1>2 DEF TunedInv
    <3> SUFFICES ASSUME running
                 PROVE  /\ \A j \in DOMAIN sent' : sent'[j].cmd = "a" =>
                             \E i \in DOMAIN sent' : i < j /\ Tunes(sent'[i])
                        /\ program' \in Later => TuneSent'
      BY <1>2, <3>1 DEF TunedInv, Later
    <3>2. TuneSent => \E i \in DOMAIN sent : i < Len(sent) + 1 /\ Tunes(sent'[i])
      BY <2>1 DEF TuneSent
    <3>3. TuneSent => TuneSent'
      BY <2>1, <3>2 DEF TuneSent
    <3>4. /\ f.cmd = "a" => program \in Later
          /\ program' \in Later => program \in Later \/ Tunes(f)
      BY <1>4 DEF PilotSends, PilotThrottles
    <3>5. program \in Later => TuneSent
      BY <1>0, <3>1 DEF TunedInv, Later
    <3>6. Tunes(f) => TuneSent'
      BY <2>1 DEF TuneSent
    <3>7. ASSUME NEW j \in DOMAIN sent', sent'[j].cmd = "a"
          PROVE  \E i \in DOMAIN sent' : i < j /\ Tunes(sent'[i])
      <4>1. CASE j \in DOMAIN sent
        <5>1. PICK i \in DOMAIN sent : i < j /\ Tunes(sent[i])
          BY <1>0, <2>1, <3>1, <3>7, <4>1 DEF TunedInv
        <5> QED
          BY <2>1, <5>1
      <4>2. CASE j = Len(sent) + 1
        BY <2>1, <3>2, <3>4, <3>5, <3>7, <4>2
      <4> QED
        BY <2>1, <4>1, <4>2
    <3> QED
      BY <3>3, <3>4, <3>5, <3>6, <3>7
  <2>5. NinthInv'
    BY <1>0, <1>2 DEF NinthInv
  <2> QED
    BY <2>2, <2>3, <2>4, <2>5 DEF FlightInv
<1> QED
  BY <1>1, <1>3, <1>4

\* A tune frame that is taken ends the zeros; an arm frame cannot be the first before it.
LEMMA HandleFlightInv == ASSUME FlightInv, TypeOK, FlightHandle PROVE FlightInv'
<1>0. SentInv /\ ThrottleInv /\ NinthInv /\ TunedInv
  BY DEF FlightInv
<1>1. /\ UNCHANGED <<running, program, gain, shown, spoken, untuned>>
      /\ \/ UNCHANGED <<sent, throttle, gains, armed, cmdBuf>>
         \/ sent # << >> /\ sent' = Tail(sent) /\ Takes(sent[1])
  BY <1>0, HandleStep
<1>2. CASE UNCHANGED <<sent, throttle, gains, armed, cmdBuf>>
  BY <1>0, <1>1, <1>2 DEF FlightInv, SentInv, ThrottleInv, NinthInv, TunedInv, TuneSent
<1>3. CASE sent # << >> /\ sent' = Tail(sent) /\ Takes(sent[1])
  <2>1. /\ sent' \in Seq(Frames) /\ sent[1] \in Frames
        /\ DOMAIN sent' = 1 .. Len(sent) - 1
        /\ DOMAIN sent = 1 .. Len(sent) /\ Len(sent) \in Nat \ {0}
        /\ \A i \in DOMAIN sent' : sent'[i] = sent[i + 1]
    BY <1>0, <1>3, Taking
  <2>2. SentInv'
    BY <1>0, <1>1, <2>1 DEF SentInv
  <2>3. ThrottleInv'
    <3> SUFFICES ASSUME spoken, shown' = shown PROVE ThrottleInv'
      BY <1>1 DEF ThrottleInv
    <3>1. ASSUME NEW i \in DOMAIN sent', Throttles(sent'[i]),
                 \A j \in DOMAIN sent' : j > i => ~Throttles(sent'[j])
          PROVE  sent'[i].val = shown
      <4>1. i + 1 \in DOMAIN sent /\ Throttles(sent[i + 1])
        BY <2>1, <3>1
      <4>2. ASSUME NEW j \in DOMAIN sent, j > i + 1 PROVE ~Throttles(sent[j])
        <5>1. j - 1 \in DOMAIN sent' /\ j - 1 > i /\ (j - 1) + 1 = j
          BY <2>1, <3>1, <4>2
        <5> QED
          BY <2>1, <3>1, <5>1
      <4> QED
        BY <1>0, <2>1, <4>1, <4>2 DEF ThrottleInv
    <3>2. ASSUME \A i \in DOMAIN sent' : ~Throttles(sent'[i]) PROVE throttle' = shown
      <4>1. ASSUME NEW j \in DOMAIN sent, j > 1 PROVE ~Throttles(sent[j])
        <5>1. j - 1 \in DOMAIN sent' /\ (j - 1) + 1 = j
          BY <2>1, <4>1
        <5> QED
          BY <2>1, <3>2, <5>1
      <4>2. 1 \in DOMAIN sent
        BY <2>1
      <4>3. CASE Throttles(sent[1])
        BY <1>0, <1>3, <4>1, <4>2, <4>3 DEF ThrottleInv, Takes
      <4>4. CASE ~Throttles(sent[1])
        <5>1. \A j \in DOMAIN sent : ~Throttles(sent[j])
          BY <2>1, <4>1, <4>4
        <5> QED
          BY <1>0, <1>3, <4>4, <5>1 DEF ThrottleInv, Takes
      <4> QED
        BY <4>3, <4>4
    <3> QED
      BY <3>1, <3>2 DEF ThrottleInv
  <2>4. TunedInv'
    <3> SUFFICES ASSUME (~untuned /\ gains[9] = Zero)' PROVE TunedInv'
      BY DEF TunedInv
    <3>1. ~Tunes(sent[1]) /\ gains[9] = Zero
      <4>1. CASE Tunes(sent[1])
        <5>1. sent[1].floats \in [Slot -> Value] /\ sent[1].floats[9] # Zero
          BY <2>1, <4>1, TuneFrames
        <5>2. Overlay(sent[1].floats) = sent[1].floats
          BY <5>1, WholeOverlay
        <5> QED
          BY <1>3, <4>1, <5>1, <5>2 DEF Takes, Tunes
      <4>2. CASE ~Tunes(sent[1])
        <5>1. Overlay(sent[1].floats)[9] = cmdBuf[9]
          BY <2>1, <4>2, OtherFrames
        <5> QED
          BY <1>0, <1>3, <4>2, <5>1 DEF Takes, NinthInv
      <4> QED
        BY <4>1, <4>2
    <3>2. gains[9] = Zero /\ ~untuned /\ ~armed /\ running
      BY <1>0, <1>1, <3>1 DEF TunedInv, FlightHandle
    <3>3. sent[1].cmd # "a"
      BY <1>0, <2>1, <3>2 DEF TunedInv
    <3>4. ~armed'
      BY <1>3, <3>2, <3>3 DEF Takes
    <3>5. ASSUME NEW i \in DOMAIN sent, Tunes(sent[i])
          PROVE  i - 1 \in DOMAIN sent' /\ Tunes(sent'[i - 1])
      <4>1. i # 1 /\ i - 1 \in DOMAIN sent' /\ (i - 1) + 1 = i
        BY <2>1, <3>1, <3>5
      <4> QED
        BY <2>1, <3>5, <4>1
    <3>6. ASSUME NEW j \in DOMAIN sent', sent'[j].cmd = "a"
          PROVE  \E i \in DOMAIN sent' : i < j /\ Tunes(sent'[i])
      <4>1. j + 1 \in DOMAIN sent /\ sent[j + 1].cmd = "a"
        BY <2>1, <3>6
      <4>2. PICK i \in DOMAIN sent : i < j + 1 /\ Tunes(sent[i])
        BY <1>0, <3>2, <4>1 DEF TunedInv
      <4>3. i - 1 < j
        BY <2>1, <3>6, <4>2
      <4> QED
        BY <3>5, <4>2, <4>3
    <3>7. program' \in Later => TuneSent'
      BY <1>0, <1>1, <3>2, <3>5 DEF TunedInv, TuneSent, Later
    <3> QED
      BY <3>4, <3>6, <3>7 DEF TunedInv, Later
  <2>5. NinthInv'
    <3>1. CASE Tunes(sent[1])
      <4>1. sent[1].floats \in [Slot -> Value] /\ sent[1].floats[9] # Zero
        BY <2>1, <3>1, TuneFrames
      <4> QED
        BY <1>3, <4>1, WholeOverlay DEF Takes, NinthInv
    <3>2. CASE ~Tunes(sent[1])
      <4>1. Overlay(sent[1].floats)[9] = cmdBuf[9]
        BY <2>1, <3>2, OtherFrames
      <4> QED
        BY <1>0, <1>3, <4>1 DEF Takes, NinthInv
    <3> QED
      BY <3>1, <3>2
  <2> QED
    BY <2>2, <2>3, <2>4, <2>5 DEF FlightInv
<1> QED
  BY <1>1, <1>2, <1>3

LEMMA TickFlightInv == ASSUME FlightInv, TypeOK, FlightTick PROVE FlightInv'
<1>1. CASE FlightHandle
  BY <1>1, HandleFlightInv
<1>2. CASE (Sample \/ Count \/ Divide \/ Estimate \/ Drive \/ SwitchOff) /\ UNCHANGED pilot
  <2>1. UNCHANGED <<running, throttle, gains, armed, cmdBuf, pilot>>
    BY <1>2 DEF Sample, Count, Divide, Estimate, Drive, SwitchOff, flight
  <2> QED
    BY <2>1 DEF FlightInv, SentInv, ThrottleInv, NinthInv, TunedInv, TuneSent, pilot
<1> QED
  BY <1>1, <1>2 DEF FlightTick
-----------------------------------------------------------------------------
\* A step of a flight is one of Control, or leaves its variables alone.
LEMMA FlightStep == ASSUME FlightInv, [FlightNext]_fvars PROVE [Next]_vars
<1>0. SentInv
  BY DEF FlightInv
<1>1. CASE Pilot
  BY <1>0, <1>1, PilotStep
<1>2. CASE FlightLoad \/ FlightStart \/ FlightStop
  BY <1>2 DEF FlightLoad, FlightStart, FlightStop, Next
<1>3. CASE FlightTick
  BY <1>0, <1>3, HandleStep DEF FlightTick, Next, Tick
<1>4. CASE UNCHANGED fvars
  BY <1>4 DEF fvars
<1> QED
  BY <1>1, <1>2, <1>3, <1>4 DEF FlightNext

LEMMA FlightInvStep == ASSUME FlightInv, TypeOK, [FlightNext]_fvars PROVE FlightInv'
<1>1. CASE UNCHANGED fvars
  BY <1>1 DEF fvars, vars, flight, pilot, FlightInv, SentInv, ThrottleInv, NinthInv, TunedInv,
              TuneSent
<1> QED
  BY <1>1, PilotFlightInv, LoadFlightInv, TickFlightInv DEF FlightNext

\* A flight implements Control: the commands the programs send are commands Control
\* allows for, and their order is all that is added.  So the motors stay off once
\* disarmed, and in the safe range while armed, whatever the programs do.
THEOREM FlightImplementsControl == FlightSpec => Spec
<1>1. FlightInit => Init /\ IInv /\ Reset /\ FlightInv
  BY InitInv, InitFlightInv DEF FlightInit, Init, Reset
<1>2. ASSUME IInv, Reset, FlightInv, [FlightNext]_fvars
      PROVE  IInv' /\ Reset' /\ FlightInv' /\ [Next]_vars
  <2>1. [Next]_vars
    BY <1>2, FlightStep
  <2>2. FlightInv'
    BY <1>2, FlightInvStep DEF IInv
  <2> QED
    BY <1>2, <2>1, <2>2, NextInv, ResetInv
<1> QED
  BY <1>1, <1>2, PTL DEF FlightSpec, Spec

\* The invariant of a flight.
LEMMA FlightInvariant == FlightSpec => []FlightInv
<1>1. FlightInit => FlightInv
  BY InitFlightInv
<1>2. FlightInv /\ TypeOK /\ [FlightNext]_fvars => FlightInv'
  BY FlightInvStep
<1> QED
  BY <1>1, <1>2, FlightImplementsControl, TypeCorrect, PTL DEF FlightSpec

\* The display and the firmware agree on the throttle as soon as the ring is empty of
\* throttle frames, however long the ring and whatever is killed or restarted.
THEOREM ThrottlesAgree == FlightSpec => []ThrottleAgrees
<1>1. FlightInv => ThrottleAgrees
  BY DEF FlightInv, ThrottleInv, ThrottleAgrees, Throttles
<1> QED
  BY <1>1, FlightInvariant, PTL

\* The copter is not armed before it is tuned, for every key sequence and every gain.
THEOREM ArmedAreTuned == FlightSpec => []ArmedIsTuned
<1>1. FlightInv => ArmedIsTuned
  BY DEF FlightInv, TunedInv, ArmedIsTuned, Slot
<1> QED
  BY <1>1, FlightInvariant, PTL

\* What is shown above of any sequence of commands, for a flight with the pilot's
\* programs and the short tune frames of others.
THEOREM FlightIsSafe ==
  FlightSpec => [](StoppedIsStill /\ ArmedIsSafe /\ CalibratedOnce /\ GainsOfOneTune)
<1> QED
  BY GainsStayWhole, FlightImplementsControl, StaysStopped, ArmedStaysSafe, CalibratesOnce, PTL
=============================================================================
