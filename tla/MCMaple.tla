------------------------------- MODULE MCMaple -------------------------------
(* Maple for TLC: connect, disconnect, gains, and a motor command. *)
EXTENDS Maple

MCFrames == {<<0, Connect>>, <<0, Disconnect>>, <<2, Gains, 1, 0>>, <<0, 112>>}
=============================================================================
