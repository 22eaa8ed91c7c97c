------------------------------- MODULE RingBuf -------------------------------
(***************************************************************************)
(* The ring buffer of panda/common/ringbuf.c, used by one writer and one   *)
(* reader on two processors (Linux on the Cortex-A9, the flight firmware   *)
(* on the Cortex-M3) with no lock between them.                            *)
(*                                                                         *)
(* The two positions are the only synchronisation.  A call is split where  *)
(* the other processor can see a difference: it loads the positions, it    *)
(* moves each byte with memcpy (in an order memcpy does not promise), and  *)
(* it stores its own position.  Memory accesses of one processor are seen  *)
(* in program order: the A9 maps the ring with ioremap, the M3 does not    *)
(* reorder.                                                                *)
(***************************************************************************)
EXTENDS Naturals, Sequences

CONSTANTS
  Byte,      \* the values a byte can take
  NoByte,    \* what an element of the caller's buffer holds before a read
  Size,      \* rb->size: the data cells of the ring
  MaxCall,   \* bound: the largest count passed to a call
  MaxBytes   \* bound: bytes ever written

ASSUME SizeAssumption == Size \in Nat \ {0}
ASSUME CallAssumption == MaxCall \in Nat
ASSUME ByteAssumption == NoByte \notin Byte

VARIABLES
  writePos,  \* *rb->write_pos, stored only by the writer
  readPos,   \* *rb->read_pos, stored only by the reader
  data,      \* rb->data
  wBuf,      \* the writer's call: the bytes it will store, count after clipping
  wLeft,     \* offsets of wBuf that memcpy still has to move
  wBusy,     \* the writer is inside ringbuf_write
  rBuf,      \* the reader's call: the caller's buffer, count after clipping
  rLeft,     \* offsets of rBuf that memcpy still has to fill
  rBusy,     \* the reader is inside ringbuf_read
  sent, got  \* the stream accepted and the stream delivered so far

wVars == <<wBuf, wLeft, wBusy>>
rVars == <<rBuf, rLeft, rBusy>>
vars == <<writePos, readPos, data, wVars, rVars, sent, got>>

Cells == 0 .. Size - 1
Calls == UNION {[1 .. n -> Byte] : n \in 0 .. MaxCall}
-----------------------------------------------------------------------------
\* The mutations (X_...) are bugs this code could have; each property is shown to
\* notice one of them.  The specification does not use them.
X_AvailableRead(w, r) == IF w > r THEN w - r ELSE 0
X_AvailableWrite(w, r) ==
  IF r > w THEN r - w ELSE IF r < w THEN Size - (w - r) ELSE Size
X_Clip(count, avail) == count

\* ringbuf_available_read, on the two positions it loads.
AvailableRead(w, r) ==
  IF w > r THEN w - r ELSE IF w < r THEN Size - (r - w) ELSE 0

\* ringbuf_available_write: one cell stays free, so that full is not empty.
AvailableWrite(w, r) ==
  IF r > w THEN r - w - 1
  ELSE IF r < w THEN Size - (w - r) - 1
  ELSE Size - 1

\* if (count > avail) count = avail;
Clip(count, avail) == IF count > avail THEN avail ELSE count

\* The cell of the i-th byte of a call that starts at position p: the first
\* memcpy runs up to the end of the data, the second one starts over at cell 0.
CellOf(p, i) == IF i >= Size - p THEN i - (Size - p) ELSE p + i

\* The position stored at the end of a call.
Advance(p, count) ==
  IF p + count >= Size THEN count - (Size - p) ELSE p + count
-----------------------------------------------------------------------------
\* ringbuf_init leaves both positions 0 and does not touch the data.
Init ==
  /\ writePos = 0 /\ readPos = 0
  /\ data \in [Cells -> {NoByte}]
  /\ wBuf = << >> /\ wLeft = {} /\ wBusy = FALSE
  /\ rBuf = << >> /\ rLeft = {} /\ rBusy = FALSE
  /\ sent = << >> /\ got = << >>

\* ringbuf_write up to the memcpy: the positions are loaded, count is clipped.
BeginWrite ==
  /\ ~wBusy
  /\ \E buf \in Calls :
       LET count == Clip(Len(buf), AvailableWrite(writePos, readPos)) IN
       /\ Len(sent) + Len(buf) <= MaxBytes
       /\ wBuf' = SubSeq(buf, 1, count)
       /\ wLeft' = 0 .. count - 1
  /\ wBusy' = TRUE
  /\ UNCHANGED <<writePos, readPos, data, rVars, sent, got>>

\* One byte of the writer's memcpy.
StoreByte ==
  /\ wBusy
  /\ \E i \in wLeft :
       /\ data' = [data EXCEPT ![CellOf(writePos, i)] = wBuf[i + 1]]
       /\ wLeft' = wLeft \ {i}
  /\ UNCHANGED <<writePos, readPos, wBuf, wBusy, rVars, sent, got>>

\* *rb->write_pos = write_tmp; return count;
EndWrite ==
  /\ wBusy /\ wLeft = {}
  /\ writePos' = Advance(writePos, Len(wBuf))
  /\ sent' = sent \o wBuf
  /\ wBusy' = FALSE /\ wBuf' = << >>
  /\ UNCHANGED <<readPos, data, wLeft, rVars, got>>

\* ringbuf_read up to the memcpy.
BeginRead ==
  /\ ~rBusy
  /\ \E n \in 0 .. MaxCall :
       LET count == Clip(n, AvailableRead(writePos, readPos)) IN
       /\ rBuf' = [i \in 1 .. count |-> NoByte]
       /\ rLeft' = 0 .. count - 1
  /\ rBusy' = TRUE
  /\ UNCHANGED <<writePos, readPos, data, wVars, sent, got>>

\* One byte of the reader's memcpy.
LoadByte ==
  /\ rBusy
  /\ \E i \in rLeft :
       /\ rBuf' = [rBuf EXCEPT ![i + 1] = data[CellOf(readPos, i)]]
       /\ rLeft' = rLeft \ {i}
  /\ UNCHANGED <<writePos, readPos, data, rBusy, wVars, sent, got>>

\* *rb->read_pos = read_tmp; return count;
EndRead ==
  /\ rBusy /\ rLeft = {}
  /\ readPos' = Advance(readPos, Len(rBuf))
  /\ got' = got \o rBuf
  /\ rBusy' = FALSE /\ rBuf' = << >>
  /\ UNCHANGED <<writePos, data, rLeft, wVars, sent>>

Next == BeginWrite \/ StoreByte \/ EndWrite \/ BeginRead \/ LoadByte \/ EndRead

\* A call that has begun returns.  The consumer keeps polling: command_process runs
\* in every tick of the M3 and the Linux programs read in a loop, so a read that
\* finds bytes recurs.  Nothing makes the producer write.
Poll == BeginRead /\ rLeft' # {}
Fairness == /\ WF_vars(StoreByte \/ EndWrite)
            /\ WF_vars(LoadByte \/ EndRead)
            /\ SF_vars(Poll)

Spec == Init /\ [][Next]_vars
FairSpec == Spec /\ Fairness
-----------------------------------------------------------------------------
\* Both positions stay inside the ring across every wrap-around, and a call inside the
\* buffer of its caller.
TypeOK ==
  /\ writePos \in Cells /\ readPos \in Cells
  /\ data \in [Cells -> Byte \cup {NoByte}]
  /\ wBuf \in Seq(Byte) /\ wBusy \in BOOLEAN
  /\ wLeft \subseteq 0 .. Len(wBuf) - 1
  /\ rBuf \in Seq(Byte \cup {NoByte}) /\ rBusy \in BOOLEAN
  /\ rLeft \subseteq 0 .. Len(rBuf) - 1
  /\ sent \in Seq(Byte) /\ got \in Seq(Byte)

\* Cells the writer's memcpy may still store to, and cells that hold bytes the
\* reader has not released (its own memcpy loads from some of these).
Storing == {CellOf(writePos, i) : i \in wLeft}
Held == {CellOf(readPos, i) : i \in 0 .. AvailableRead(writePos, readPos) - 1}

\* With no lock, the two processors never access the same cell at the same time,
\* and the writer never stores over a byte that the reader has not released.
NoDataRace == Storing \cap Held = {}

\* What ringbuf_available_read answers is exactly the number of bytes accepted and
\* not yet delivered, whatever the wrap-around: full is never taken for empty.
CountsExact == AvailableRead(writePos, readPos) + Len(got) = Len(sent)

\* The reader receives the writer's bytes: each one once, in order, none made up.
InOrder == /\ Len(got) <= Len(sent)
           /\ \A i \in 1 .. Len(got) : got[i] = sent[i]

\* The ring implements the stream it promises, Size - 1 bytes deep.
F == INSTANCE Fifo WITH Capacity <- Size - 1
ImplementsFifo == F!Spec

\* Every accepted byte is delivered if the reader keeps polling.
Delivered == \A n \in 1 .. MaxBytes : Len(sent) >= n ~> Len(got) >= n
=============================================================================
