--------------------------- MODULE MCCommandLink ----------------------------
(***************************************************************************)
(* CommandLink for TLC.  Bytes are 0..4: commands 0 (connect), 1           *)
(* (disconnect), 2 (telemetry, unknown to the firmware), 3 (a command that *)
(* answers nothing); 4 is a byte past the command table.  The firmware     *)
(* answers an unknown command with 3.                                      *)
(***************************************************************************)
EXTENDS CommandLink

MCHostFrames == {<<0, 0>>, <<0, 1>>, <<1, 3, 4>>, <<0, 2>>}
MCTelemetry == <<2>>
MCJunk == {<< >>, <<2>>, <<0, 2>>, <<0, 2, 0>>}
=============================================================================
