------------------------------- MODULE MCKmod --------------------------------
(***************************************************************************)
(* Kmod for TLC: two processes; two ranges for the eight of START; a       *)
(* firmware region of two pieces, an image that fills it and one that does *)
(* not fit.                                                                *)
(***************************************************************************)
EXTENDS Kmod

MCRegions == <<"PROGRAM", "STACK">>
MCVersion == {"full", "long"}
MCSize == [v \in MCVersion |-> CASE v = "full" -> 2 [] v = "long" -> 3]
=============================================================================
