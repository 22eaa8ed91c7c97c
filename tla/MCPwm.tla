------------------------------- MODULE MCPwm --------------------------------
(***************************************************************************)
(* Pwm for TLC: a period of 7 units, pulses of 2 to 4, ticks two periods   *)
(* apart (in the code four), an interrupt at most one unit late.           *)
(***************************************************************************)
EXTENDS Pwm

\* The time a unit of MCPwm.cfg stands for leaves a gap behind every pulse.
ASSUME Word - Reload > 2 * Step + 2 * Latency
=============================================================================
