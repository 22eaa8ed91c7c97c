--------------------------- MODULE MCMapleSensors ---------------------------
(***************************************************************************)
(* MapleSensors for TLC: readings of three bits.                           *)
(***************************************************************************)
EXTENDS MapleSensors

MCGyro == {-4, 0, 3}
MCAccel == {1, 2}
MCJunk == {-4, 3}
=============================================================================
