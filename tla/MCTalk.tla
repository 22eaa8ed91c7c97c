------------------------------- MODULE MCTalk -------------------------------
(***************************************************************************)
(* Talk for TLC: the values of constants.txt by their line; a client that  *)
(* tunes and makes a round beside one that only tunes (MCRounds), or one   *)
(* client alone that makes two rounds, so that a button held down is seen  *)
(* not to arm again (OneRounds).                                           *)
(***************************************************************************)
EXTENDS Talk, TLC

CONSTANTS c1, c2

MCConstants == [i \in 1 .. 11 |-> i]
MCRounds == c1 :> 1 @@ c2 :> 0
OneRounds == c1 :> 2
=============================================================================
