------------------------------- MODULE Numbers -------------------------------
(***************************************************************************)
(* The parts of the firmware that are sequential and about numbers, each   *)
(* on its own: Sensors (of panda/m3), MapleSensors (of the earlier         *)
(* firmware) and Printf (of both).  Which one is looked at is decided at   *)
(* the start; the others stay as they begin.                               *)
(***************************************************************************)
EXTENDS Sensors, Printf

VARIABLES
  part,       \* panda, maple or printf
  phase, y, mGyroOffset, mAccelOffset, data, mGyros, mAccels, mNow, mFailed
              \* of MapleSensors

maple == <<phase, y, mGyroOffset, mAccelOffset, data, mGyros, mAccels, mNow, mFailed>>

M == INSTANCE MapleSensors WITH
       gyroOffset <- mGyroOffset, accelOffset <- mAccelOffset,
       gyros <- mGyros, accels <- mAccels, now <- mNow, failed <- mFailed

\* The call of the states in which debug_printf is not looked at.
SomeCall == CHOOSE p \in Programs : TRUE

PartsInit ==
  /\ part \in {"panda", "maple", "printf"}
  /\ Init /\ M!Init /\ ScanInit
  /\ part # "printf" => call = SomeCall
PartsNext ==
  /\ \/ part = "panda" /\ Next /\ UNCHANGED <<maple, scanVars>>
     \/ part = "maple" /\ M!Next /\ UNCHANGED <<vars, scanVars>>
     \/ part = "printf" /\ Scan /\ UNCHANGED <<vars, maple>>
  /\ UNCHANGED part
PartsSpec == PartsInit /\ [][PartsNext]_<<part, vars, maple, scanVars>>

\* The property of the earlier firmware, M!AtRest, under a name of its own.
MapleAtRest == M!AtRest
=============================================================================
