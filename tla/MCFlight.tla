------------------------------ MODULE MCFlight -------------------------------
(***************************************************************************)
(* Flight for TLC.  Duty values are 0..7 with the safe range 2..5; one     *)
(* throttle key leads beyond the safe range and two out of 16 bits; a PID  *)
(* output pushes a motor past either end.                                  *)
(***************************************************************************)
EXTENDS Flight

MCFloat == {"f"}
MCPidOut == {-3}
MCMotorArgs == {<<1, 7>>}
MCShortTunes == {<<"f">>}
MCCommand == Frames
=============================================================================
