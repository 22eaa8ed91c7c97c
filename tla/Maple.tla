-------------------------------- MODULE Maple --------------------------------
(***************************************************************************)
(* The earlier flight firmware (maple/, an STM32): quadcopter.c with the   *)
(* frame parser and the handlers of command.c, the gains of angle.c and    *)
(* the partial updates of sensors.c.                                       *)
(*                                                                         *)
(* Here the sensors and the estimator run in a timer interrupt and the     *)
(* main loop parses commands and sends telemetry; they share sd, angles    *)
(* and the estimator, which the main loop guards by masking interrupts.    *)
(* The interrupt is one step of the main loop's time.                      *)
(*                                                                         *)
(* A reading is the stamp of its tick, the angles are the sensor data they *)
(* were computed from, and the payload of a command counts one byte for a  *)
(* float.                                                                  *)
(***************************************************************************)
EXTENDS Integers, Sequences, SequencesExt

CONSTANTS
  Stamps,    \* number of stamps told apart
  Frames,    \* the frames the host may send: <<length, command>> \o payload
  BufLen,    \* sizeof(cmd_buf) (256; with floats as bytes, two of them behind a command)
  MaxSent    \* bound on the frames sent

ASSUME MapleAssumption ==
  /\ Stamps \in Nat \ {0} /\ MaxSent \in Nat
  /\ BufLen \in Nat /\ BufLen >= 3
  /\ Frames \subseteq Seq(Nat)
  /\ \A f \in Frames : Len(f) >= 2 /\ Len(f) = f[1] + 2 /\ f[1] < BufLen

Connect == 99       \* 'c'
Disconnect == 100   \* 'd'
Gains == 117        \* 'u'

VARIABLES
  pc,             \* of quadcopter_run: process, gains, copy, copying, send
  masked,         \* nvic_globalirq_disable
  sd, angles,     \* statics of quadcopter.c
  localSd, lAngles,          \* locals of quadcopter_run
  magCounter, clock,         \* mag_counter % 8; the stamp of the last tick
  gains, resetFor,           \* gyro_bias_gain, error_gain; those q was reset for
  connected,
  line, rx,       \* bytes on their way, and in the USART's receive buffer
  bufI, left, len, buf,      \* cmd_buf_i, cmd_buf_left, cmd_buf_len, cmd_buf
  sent, handled   \* frames sent, and what the handlers were given (history)

shared == <<sd, angles, magCounter, clock>>
locals == <<localSd, lAngles>>
estimator == <<gains, resetFor>>
parser == <<bufI, left, len, buf>>
vars == <<pc, masked, shared, locals, estimator, connected, line, rx, parser,
          sent, handled>>

Data == [gyro : 0 .. Stamps - 1, accel : 0 .. Stamps - 1, mag : 0 .. Stamps - 1]
None == [gyro |-> 0, accel |-> 0, mag |-> 0]

\* !(mag_counter & 4)
MagTurn == magCounter < 4

\* Mutations (X_...): bugs this code could have.
X_Mask == FALSE
X_Wanted(avail, rest) == IF avail < rest THEN avail ELSE rest - 1
X_Filled(data, at, n) == [i \in DOMAIN buf |-> IF i <= n THEN data[i] ELSE buf[i]]

\* What the critical sections set the mask to.
Mask == TRUE

\* The bytes command_process takes at once.
Wanted(avail, rest) == IF avail < rest THEN avail ELSE rest

\* cmd_buf with these bytes stored from cmd_buf_i on.
Filled(data, at, n) ==
  [i \in DOMAIN buf |-> IF i \in at + 1 .. at + n THEN data[i - at] ELSE buf[i]]

\* sensors_get_data: the first failed read returns and leaves the rest as it was.
Read(failed, now) ==
  [gyro |-> IF failed = "gyro" THEN sd.gyro ELSE now,
   accel |-> IF failed \in {"gyro", "accel"} THEN sd.accel ELSE now,
   mag |-> IF failed # "none" \/ ~MagTurn THEN sd.mag ELSE now]
-----------------------------------------------------------------------------
\* quadcopter_run up to its loop, after angle_init(1/400.0, 0, 0).
Init ==
  /\ pc = "process" /\ masked = FALSE
  /\ sd = None /\ angles = None /\ localSd = None /\ lAngles = None
  /\ magCounter = 0 /\ clock = 0
  /\ gains = <<0, 0>> /\ resetFor = <<0, 0>>
  /\ connected = FALSE
  /\ line = << >> /\ rx = << >>
  /\ bufI = -1 /\ left = 0 /\ len = 0 /\ buf = [i \in 1 .. BufLen |-> 0]
  /\ sent = << >> /\ handled = << >>

\* timer_intr.
Timer ==
  /\ ~masked
  /\ clock' = (clock + 1) % Stamps
  /\ \E failed \in {"none", "gyro", "accel", "mag"} :
       /\ failed = "mag" => MagTurn
       /\ sd' = Read(failed, clock')
  /\ angles' = sd'
  /\ magCounter' = (magCounter + 1) % 8
  /\ UNCHANGED <<pc, masked, locals, estimator, connected, line, rx, parser,
                 sent, handled>>

\* The host sends a frame; a byte arrives.
Send ==
  /\ Len(sent) < MaxSent
  /\ \E f \in Frames : sent' = Append(sent, f) /\ line' = line \o f
  /\ UNCHANGED <<pc, masked, shared, locals, estimator, connected, rx, parser, handled>>

Arrive ==
  /\ line # << >>
  /\ rx' = Append(rx, Head(line)) /\ line' = Tail(line)
  /\ UNCHANGED <<pc, masked, shared, locals, estimator, connected, parser, sent, handled>>
-----------------------------------------------------------------------------
\* The loop goes on behind command_process: telemetry if connected.
Go(on) == pc' = IF on THEN "copy" ELSE "process"

\* Nothing has arrived.
Idle ==
  /\ pc = "process" /\ rx = << >>
  /\ Go(connected)
  /\ UNCHANGED <<masked, shared, locals, estimator, connected, line, rx, parser,
                 sent, handled>>

\* The first byte of a frame is its length; the bytes there are go into cmd_buf; a
\* whole frame goes to its handler, which gets what cmd_buf holds.  Only three
\* handlers change anything modelled here.
Take ==
  /\ pc = "process" /\ rx # << >>
  /\ LET new == bufI = -1
         data == IF new THEN Tail(rx) ELSE rx
         size == IF new THEN Head(rx) ELSE len
         rest == IF new THEN size + 1 ELSE left
         at == IF new THEN 0 ELSE bufI
         n == Wanted(Len(data), rest)
         filled == Filled(data, at, n)
         cmd == filled[1]
         whole == rest = n
     IN /\ rx' = SubSeq(data, n + 1, Len(data))
        /\ buf' = filled /\ left' = rest - n /\ len' = size
        /\ IF whole
           THEN /\ bufI' = -1
                /\ handled' = Append(handled, <<size>> \o SubSeq(filled, 1, size + 1))
                /\ connected' = (cmd = Connect \/ (connected /\ cmd # Disconnect))
           ELSE bufI' = at + n /\ UNCHANGED <<handled, connected>>
        /\ IF whole /\ cmd = Gains
           THEN /\ pc' = "gains" /\ masked' = Mask
                /\ gains' = <<filled[2], filled[3]>>
           ELSE Go(connected') /\ UNCHANGED <<masked, gains>>
  /\ UNCHANGED <<shared, locals, resetFor, line, sent>>

\* angle_init goes on: the quaternion and the drift start over; irqs are on again.
Reset ==
  /\ pc = "gains"
  /\ resetFor' = gains
  /\ masked' = FALSE
  /\ Go(connected)
  /\ UNCHANGED <<shared, locals, gains, connected, line, rx, parser, sent, handled>>

\* The two copies, between irq_disable and irq_enable, ...
CopyData ==
  /\ pc = "copy" /\ pc' = "copying"
  /\ masked' = Mask
  /\ localSd' = sd
  /\ UNCHANGED <<shared, lAngles, estimator, connected, line, rx, parser, sent, handled>>

CopyAngles ==
  /\ pc = "copying" /\ pc' = "send"
  /\ lAngles' = angles
  /\ masked' = FALSE
  /\ UNCHANGED <<shared, localSd, estimator, connected, line, rx, parser, sent, handled>>

\* ... and the two messages.  The copies are dead afterwards.
Telemetry ==
  /\ pc = "send" /\ pc' = "process"
  /\ localSd' = None /\ lAngles' = None
  /\ UNCHANGED <<masked, shared, estimator, connected, line, rx, parser, sent, handled>>

Main == Idle \/ Take \/ Reset \/ CopyData \/ CopyAngles \/ Telemetry
Next == Timer \/ Send \/ Arrive \/ Main

Spec == Init /\ [][Next]_vars

\* The interrupts leave the loop time, and the line delivers.
FairSpec == Spec /\ WF_vars(Main) /\ WF_vars(Arrive)
-----------------------------------------------------------------------------
\* The stamps of a reading, the counter of the magnetometer and the index into cmd_buf
\* stay in range.
TypeOK ==
  /\ pc \in {"process", "gains", "copy", "copying", "send"}
  /\ masked \in BOOLEAN /\ connected \in BOOLEAN
  /\ {sd, angles, localSd, lAngles} \subseteq Data
  /\ magCounter \in 0 .. 7 /\ clock \in 0 .. Stamps - 1
  /\ bufI \in -1 .. BufLen /\ left \in Nat /\ len \in Nat

\* The angles of a telemetry pair '0', '1' are those of the sensor data sent with them,
\* although a tick may come between any two statements of the loop.
TelemetryOfOneTick == pc = "send" => lAngles = localSd

\* No tick runs the estimator with new gains on the old quaternion.
EstimatorWhole == ~masked => gains = resetFor

\* The handlers get the frames of the host, whole, in order and once, however the
\* bytes trickle in between two calls of command_process.
FramesKept == IsPrefix(handled, sent)

\* Every command is handled in the end, whatever telemetry is sent in between.
CommandsHandled == sent # << >> ~> handled = sent
=============================================================================
