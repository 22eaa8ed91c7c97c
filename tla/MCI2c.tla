------------------------------- MODULE MCI2c --------------------------------
(***************************************************************************)
(* I2c for TLC: transfers shorter than the FIFO, which are those the       *)
(* sensors make, as long, and of several FIFOs.                            *)
(***************************************************************************)
EXTENDS I2c
=============================================================================
