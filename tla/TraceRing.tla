------------------------------ MODULE TraceRing ------------------------------
(***************************************************************************)
(* The trace ring: the firmware writes its debug output into it            *)
(* (panda/m3/debug.c), the kernel module reads it for the programs that    *)
(* read the firmware device (panda/kmod/firmware.c).                       *)
(*                                                                         *)
(* Each side calls ringbuf_init on the same memory with the size it thinks *)
(* right: debug_init passes the length of the region, firmware_init passes *)
(* that length less the eight bytes of the two positions.  The sides are   *)
(* two instances of RingBuf that share every variable and differ in Size.  *)
(***************************************************************************)
EXTENDS Integers, Sequences

CONSTANTS
  Byte, NoByte, MaxCall, MaxBytes,  \* as in RingBuf
  Header,          \* 2*sizeof(uint32_t)
  WriterInitSize,  \* what debug_init passes to ringbuf_init
  ReaderInitSize   \* what firmware_init passes to ringbuf_init

VARIABLES writePos, readPos, data, wBuf, wLeft, wBusy, rBuf, rLeft, rBusy, sent, got

vars == <<writePos, readPos, data, wBuf, wLeft, wBusy, rBuf, rLeft, rBusy, sent, got>>

\* ringbuf_init: rb->size is what is left of size behind the two positions.
DataSize(size) == size - Header

W == INSTANCE RingBuf WITH Size <- DataSize(WriterInitSize)
R == INSTANCE RingBuf WITH Size <- DataSize(ReaderInitSize)

\* Both sides zero the positions; the memory is as large as the larger view of it.
Init == W!Init

\* The kernel may read the same bytes again and again; the bound on that is MaxBytes.
Read == Len(got) <= MaxBytes /\ R!BeginRead

Next == \/ W!BeginWrite \/ W!StoreByte \/ W!EndWrite
        \/ Read \/ R!LoadByte \/ R!EndRead

Spec == Init /\ [][Next]_vars
-----------------------------------------------------------------------------
\* The program that reads the trace gets what debug_printf wrote, in order.
TraceInOrder ==
  /\ Len(got) <= Len(sent)
  /\ \A i \in 1 .. Len(got) : got[i] = sent[i]
=============================================================================
