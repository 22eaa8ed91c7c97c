-------------------------------- MODULE Fifo --------------------------------
(***************************************************************************)
(* What one of the shared rings of the quadcopter promises to the two      *)
(* processors that use it: a bounded first-in first-out stream of bytes.   *)
(*                                                                         *)
(* `sent' is the stream of bytes the ring has accepted and `got' the       *)
(* stream it has delivered.  Put and Take move any number of bytes in one  *)
(* atomic step; RingBuf shows what the code does byte by byte.             *)
(***************************************************************************)
EXTENDS Naturals, Sequences

CONSTANTS
  Byte,       \* the values a byte can take
  Capacity    \* bytes accepted and not yet delivered, at most

VARIABLES sent, got

Init == sent = << >> /\ got = << >>

\* Bytes are appended behind those already accepted, if there is room for them.
Put == /\ sent' \in Seq(Byte)
       /\ Len(sent) <= Len(sent')
       /\ SubSeq(sent', 1, Len(sent)) = sent
       /\ Len(sent') - Len(got) <= Capacity
       /\ UNCHANGED got

\* The consumer receives the oldest undelivered bytes, in order.
Take == \E n \in 0 .. (Len(sent) - Len(got)) :
          /\ got' = SubSeq(sent, 1, Len(got) + n)
          /\ UNCHANGED sent

Next == Put \/ Take

Spec == Init /\ [][Next]_<<sent, got>>
=============================================================================
