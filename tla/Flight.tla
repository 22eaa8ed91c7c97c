------------------------------- MODULE Flight --------------------------------
(***************************************************************************)
(* A flight: the firmware of Control with the pilot's programs on the      *)
(* other processor, panda/user/quad_status.py and set_motor.py, and the    *)
(* frames of panda/user/copter.py that are on their way between the two.   *)
(*                                                                         *)
(* quad_status.py sends the gains of its command line, then a frame for    *)
(* each key; it may be killed and run again, and the M3 stopped, loaded    *)
(* and started, at any moment.  A frame is one element here: CommandLink   *)
(* is about their bytes.                                                   *)
(***************************************************************************)
EXTENDS Control

CONSTANTS
  KeyStep,     \* how far the keys [ and ] move the throttle (1000)
  Gain,        \* the gains that may be on the command line, all nine alike
  MotorArgs,   \* the arguments of set_motor.py: <<motor, val>>
  ShortTunes,  \* the payloads of tune frames that are too short
  MaxFrames,   \* bound: no program writes while this many frames are waiting
  ShortBeside  \* bound: whether short tune frames are sent while quad_status.py runs

VARIABLES
  program,     \* quad_status.py: none, tune, gains, connect (what it sends next), keys
  gain,        \* its command line
  shown,       \* its throttle, which it displays
  sent,        \* the frames in the ring that command_process has not taken yet
  spoken,      \* it has sent a throttle since both sides were started (history)
  untuned      \* the M3 was started armed, or under a running program (history)

pilot == <<program, gain, shown, sent, spoken, untuned>>
fvars == <<vars, pilot>>

Frame(cmd, whole, floats, m, val) ==
  [cmd |-> cmd, whole |-> whole, floats |-> floats, motor |-> m, val |-> val]
TuneFrame(g) == Frame("t", TRUE, [s \in Slot |-> g], 0, 0)
GainsFrame(g) == Frame("u", TRUE, <<g, g>>, 0, 0)
ControlFrame(val) == Frame("o", TRUE, <<Zero, Zero, Zero, Junk>>, 0, val)
MotorFrame(m, val) == Frame("m", TRUE, <<Junk>>, m, val)
BareFrame(cmd) == Frame(cmd, cmd # "o", << >>, 0, 0)
ShortTune(floats) == Frame("t", FALSE, floats, 0, 0)

\* All the frames these programs can send, and the short tune frames of others.
Frames ==
  {TuneFrame(g) : g \in Gain} \cup {GainsFrame(g) : g \in Gain}
    \cup {ControlFrame(val) : val \in Duty} \cup {MotorFrame(a[1], a[2]) : a \in MotorArgs}
    \cup {BareFrame(cmd) : cmd \in {"a", "s", "c", "d", "o"}}
    \cup {ShortTune(floats) : floats \in ShortTunes}

ASSUME KeyAssumption == KeyStep \in Nat \ {0}
ASSUME GainAssumption == Zero \notin Gain
ASSUME FrameAssumption == Command = Frames
ASSUME ShortAssumption == \A floats \in ShortTunes : Len(floats) < 9
-----------------------------------------------------------------------------
FlightInit ==
  /\ Init
  /\ program = "none" /\ gain \in Gain /\ shown = 0
  /\ sent = << >> /\ spoken = FALSE /\ untuned = FALSE

\* sendCommand: one write and one flush.
Send(frame) ==
  /\ Len(sent) < MaxFrames
  /\ sent' = Append(sent, frame)

\* The program ends, and its variables with it.
End ==
  /\ program' = "none" /\ shown' = 0 /\ spoken' = FALSE

\* quad_status.py is run: tune comes before curses, updateGains and sendConnect after.
X_Run ==   \* mutation: the keys are read first
  /\ program = "none" /\ program' = "keys"
  /\ gain' \in Gain
  /\ UNCHANGED <<vars, shown, sent, spoken, untuned>>
Run ==
  /\ program = "none" /\ program' = "tune"
  /\ gain' \in Gain
  /\ UNCHANGED <<vars, shown, sent, spoken, untuned>>
SetUp ==
  /\ \/ program = "tune" /\ program' = "gains" /\ Send(TuneFrame(gain))
     \/ program = "gains" /\ program' = "connect" /\ Send(GainsFrame(gain))
     \/ program = "connect" /\ program' = "keys" /\ Send(BareFrame("c"))
  /\ UNCHANGED <<vars, gain, shown, spoken, untuned>>

\* a arms, d disarms, o sends what no handler accepts (and so does p), ...
Key ==
  /\ program = "keys"
  /\ \E cmd \in {"a", "s", "o"} : Send(BareFrame(cmd))
  /\ UNCHANGED <<vars, program, gain, shown, spoken, untuned>>

\* ... [ and ] change the throttle and send it; struct.pack raises an error if it is
\* not one of 16 bits, which ends the program, ...
ThrottleKey ==
  /\ program = "keys"
  /\ \E val \in {shown - KeyStep, shown + KeyStep} :
       IF val \in Duty
       THEN /\ shown' = val /\ spoken' = TRUE
            /\ Send(ControlFrame(val)) /\ UNCHANGED program
       ELSE End /\ UNCHANGED sent
  /\ UNCHANGED <<vars, gain, untuned>>

\* ... and q disconnects and ends it.
Quit ==
  /\ program = "keys" /\ End
  /\ Send(BareFrame("d"))
  /\ UNCHANGED <<vars, gain, untuned>>

\* The program is killed.
Kill ==
  /\ program # "none" /\ End
  /\ UNCHANGED <<vars, gain, sent, untuned>>

\* set_motor.py, beside or without the other.
SetMotor ==
  /\ \E a \in MotorArgs : Send(MotorFrame(a[1], a[2]))
  /\ UNCHANGED <<vars, program, gain, shown, spoken, untuned>>

\* Another program on the device sends what tune_cmd calls invalid.
Other ==
  /\ ShortBeside \/ program = "none"
  /\ \E floats \in ShortTunes : Send(ShortTune(floats))
  /\ UNCHANGED <<vars, program, gain, shown, spoken, untuned>>

\* Whatever the programs do commutes with every step of a tick but command_process,
\* so they are given their turn before the tick and before that step.
Pilot ==
  /\ step \in {"rest", "command"}
  /\ Run \/ SetUp \/ Key \/ ThrottleKey \/ Quit \/ Kill \/ SetMotor \/ Other
-----------------------------------------------------------------------------
\* start_m3.py: a new image, and the boot, where command_init empties the ring.
FlightLoad ==
  /\ Load
  /\ spoken' = FALSE
  /\ UNCHANGED <<program, gain, shown, sent, untuned>>
FlightStart ==
  /\ Start
  /\ sent' = << >> /\ spoken' = FALSE
  /\ untuned' = (armed \/ program # "none")
  /\ UNCHANGED <<program, gain, shown>>
FlightStop == Stop /\ UNCHANGED pilot

\* command_process takes the frame that has waited longest, one in a tick.
FlightHandle ==
  /\ running /\ step = "command"
  /\ IF sent = << >> THEN Quiet /\ UNCHANGED <<cmdBuf, sent>>
                     ELSE Receive(Head(sent)) /\ sent' = Tail(sent)
  /\ UNCHANGED <<running, calibration, program, gain, shown, spoken, untuned>>

\* The other steps of a tick do not look at the ring.
FlightTick ==
  \/ FlightHandle
  \/ /\ Sample \/ Count \/ Divide \/ Estimate \/ Drive \/ SwitchOff
     /\ UNCHANGED pilot

FlightNext == Pilot \/ FlightLoad \/ FlightStart \/ FlightStop \/ FlightTick

\* The systick comes again and again as long as the M3 runs.
FlightSpec == FlightInit /\ [][FlightNext]_fvars
FairFlightSpec == FlightSpec /\ WF_fvars(FlightTick)
-----------------------------------------------------------------------------
\* Once the frames are through, the throttle in use is the one quad_status.py displays,
\* if it has sent one since it and the M3 were started; the o key, whose frame has no
\* throttle in it, changes nothing.
ThrottleAgrees ==
  spoken /\ (\A i \in DOMAIN sent : sent[i].cmd = "o" => ~sent[i].whole)
    => throttle = shown

\* The copter is never armed with the gains pid_init leaves, unless the M3 was started
\* armed or while the program that sends the gains was already running.
ArmedIsTuned == armed /\ ~untuned => gains # [s \in Slot |-> Zero]

\* The d key works: once its frame is in the ring all four motors are switched off, or
\* the M3 is stopped, whatever keys follow and whatever waits before it.
DisarmStops ==
  running /\ (\E i \in DOMAIN sent : sent[i].cmd = "s") ~> stopped \/ ~running
=============================================================================
