---------------------------- MODULE RingBufProofs ----------------------------
(***************************************************************************)
(* For every size of the ring, every length of the calls and every set of  *)
(* bytes, the lock-free ring of ringbuf.c is a first-in first-out stream.  *)
(*                                                                         *)
(* The argument: the cells between readPos and writePos hold the bytes     *)
(* accepted and not yet delivered, in order; the cells a writer's memcpy   *)
(* fills lie in the free part it measured, and that part can only have     *)
(* grown since, because the reader is the only one to move readPos.  The   *)
(* same holds for the reader.                                              *)
(***************************************************************************)
EXTENDS RingBuf, SequenceTheorems, TLAPS

Unread == AvailableRead(writePos, readPos)
Free == AvailableWrite(writePos, readPos)

\* The unread cells hold the undelivered part of the stream.
ContentInv ==
  \A i \in 0 .. Unread - 1 : data[CellOf(readPos, i)] = sent[Len(got) + i + 1]

\* A write in progress stays inside the free cells; what it moved is in its place.
WriterInv ==
  /\ ~wBusy => wBuf = << >>
  /\ Len(wBuf) <= Free
  /\ \A i \in 0 .. Len(wBuf) - 1 :
       i \notin wLeft => data[CellOf(writePos, i)] = wBuf[i + 1]

\* A read in progress stays inside the unread cells; what it moved is the stream.
ReaderInv ==
  /\ ~rBusy => rBuf = << >>
  /\ Len(rBuf) <= Unread
  /\ \A i \in 0 .. Len(rBuf) - 1 :
       i \notin rLeft => rBuf[i + 1] = sent[Len(got) + i + 1]

IInv == TypeOK /\ CountsExact /\ InOrder /\ ContentInv /\ WriterInv /\ ReaderInv
-----------------------------------------------------------------------------
\* Every position is either free or unread, but for the one cell kept empty.
LEMMA Partition ==
  ASSUME NEW w \in Cells, NEW r \in Cells
  PROVE  /\ AvailableRead(w, r) \in 0 .. Size - 1
         /\ AvailableWrite(w, r) \in 0 .. Size - 1
         /\ AvailableRead(w, r) + AvailableWrite(w, r) = Size - 1
BY SizeAssumption DEF Cells, AvailableRead, AvailableWrite

\* The cells of a call that starts in the ring are in the ring, each once.
LEMMA CellInRing ==
  ASSUME NEW p \in Cells, NEW i \in 0 .. Size - 1
  PROVE  CellOf(p, i) \in Cells
BY SizeAssumption DEF Cells, CellOf

\* Two offsets of one call never fall on the same cell.
LEMMA CellInjective ==
  ASSUME NEW p \in Cells, NEW i \in 0 .. Size - 1, NEW j \in 0 .. Size - 1,
         CellOf(p, i) = CellOf(p, j)
  PROVE  i = j
BY SizeAssumption DEF Cells, CellOf

\* A free cell is never an unread one.
LEMMA FreeNotUnread ==
  ASSUME NEW w \in Cells, NEW r \in Cells,
         NEW i \in 0 .. AvailableWrite(w, r) - 1,
         NEW j \in 0 .. AvailableRead(w, r) - 1
  PROVE  CellOf(w, i) # CellOf(r, j)
BY SizeAssumption DEF Cells, CellOf, AvailableRead, AvailableWrite

\* The free cells follow the unread ones.
LEMMA FreeAfterUnread ==
  ASSUME NEW w \in Cells, NEW r \in Cells, NEW i \in 0 .. AvailableWrite(w, r) - 1
  PROVE  CellOf(r, AvailableRead(w, r) + i) = CellOf(w, i)
BY SizeAssumption DEF Cells, CellOf, AvailableRead, AvailableWrite

\* Storing the write position moves c cells from free to unread.
LEMMA AdvanceWrite ==
  ASSUME NEW w \in Cells, NEW r \in Cells, NEW c \in 0 .. AvailableWrite(w, r)
  PROVE  /\ Advance(w, c) \in Cells
         /\ AvailableRead(Advance(w, c), r) = AvailableRead(w, r) + c
         /\ AvailableWrite(Advance(w, c), r) = AvailableWrite(w, r) - c
BY SizeAssumption DEF Cells, Advance, AvailableRead, AvailableWrite

\* Storing the read position moves c cells from unread to free.
LEMMA AdvanceRead ==
  ASSUME NEW w \in Cells, NEW r \in Cells, NEW c \in 0 .. AvailableRead(w, r)
  PROVE  /\ Advance(r, c) \in Cells
         /\ AvailableRead(w, Advance(r, c)) = AvailableRead(w, r) - c
         /\ AvailableWrite(w, Advance(r, c)) = AvailableWrite(w, r) + c
         /\ \A i \in 0 .. (AvailableRead(w, r) - c) - 1 :
              CellOf(Advance(r, c), i) = CellOf(r, c + i)
BY SizeAssumption DEF Cells, Advance, AvailableRead, AvailableWrite, CellOf
-----------------------------------------------------------------------------
\* What a call leaves of its count is between 0 and what was available.
LEMMA ClipBound ==
  ASSUME NEW count \in Nat, NEW avail \in Nat
  PROVE  Clip(count, avail) \in Nat /\ Clip(count, avail) <= avail
         /\ Clip(count, avail) <= count
BY DEF Clip

\* The ring starts empty.
LEMMA InitInv == Init => IInv
<1> SUFFICES ASSUME Init PROVE IInv
  OBVIOUS
<1>1. TypeOK
  <2>1. data \in [Cells -> Byte \cup {NoByte}]
    BY DEF Init
  <2>2. writePos \in Cells /\ readPos \in Cells
    BY SizeAssumption DEF Init, Cells
  <2> QED
    BY <2>1, <2>2, EmptySeq DEF Init, TypeOK
<1>2. Unread = 0 /\ Free = Size - 1
  BY DEF Init, Unread, Free, AvailableRead, AvailableWrite
<1>3. CountsExact /\ InOrder
  BY DEF Init, CountsExact, InOrder, AvailableRead
<1>4. ContentInv /\ WriterInv /\ ReaderInv
  BY <1>2, SizeAssumption DEF Init, ContentInv, WriterInv, ReaderInv
<1> QED
  BY <1>1, <1>3, <1>4 DEF IInv

\* A write begins: it measured the free cells and has moved nothing yet.
LEMMA BeginWriteInv == ASSUME IInv, BeginWrite PROVE IInv'
<1> USE DEF IInv
<1>1. PICK buf \in Calls :
        LET count == Clip(Len(buf), AvailableWrite(writePos, readPos)) IN
        wBuf' = SubSeq(buf, 1, count) /\ wLeft' = 0 .. count - 1
  BY DEF BeginWrite
<1> DEFINE count == Clip(Len(buf), Free)
<1>2. buf \in Seq(Byte) /\ Len(buf) \in Nat
  BY CallAssumption DEF Calls
<1>3. Free \in Nat
  BY Partition DEF TypeOK, Free
<1>4. count \in Nat /\ count <= Free /\ count <= Len(buf)
  BY <1>2, <1>3, ClipBound
<1>5. wBuf' \in Seq(Byte) /\ Len(wBuf') = count /\ wLeft' = 0 .. count - 1
  <2> HIDE DEF count
  <2>1. wBuf' = SubSeq(buf, 1, count) /\ wLeft' = 0 .. count - 1
    BY <1>1 DEF count, Free
  <2>2. SubSeq(buf, 1, count) \in Seq(Byte) /\ Len(SubSeq(buf, 1, count)) = count
    BY <1>2, <1>4
  <2> QED
    BY <2>1, <2>2
<1> HIDE DEF count
<1>6. UNCHANGED <<writePos, readPos, data, rBuf, rLeft, rBusy, sent, got>> /\ wBusy'
  BY DEF BeginWrite, rVars
<1>7. TypeOK'
  BY <1>5, <1>6 DEF TypeOK
<1>8. CountsExact' /\ InOrder' /\ ContentInv' /\ ReaderInv'
  BY <1>6 DEF CountsExact, InOrder, ContentInv, ReaderInv, Unread
<1>9. WriterInv'
  BY <1>4, <1>5, <1>6 DEF WriterInv, Free
<1> QED
  BY <1>7, <1>8, <1>9

\* A byte stored by the writer changes a free cell, so no unread one.
LEMMA StoreByteInv == ASSUME IInv, StoreByte PROVE IInv'
<1> USE DEF IInv
<1>1. PICK i \in wLeft :
        /\ data' = [data EXCEPT ![CellOf(writePos, i)] = wBuf[i + 1]]
        /\ wLeft' = wLeft \ {i}
  BY DEF StoreByte
<1>2. UNCHANGED <<writePos, readPos, wBuf, wBusy, rBuf, rLeft, rBusy, sent, got>>
  BY DEF StoreByte, rVars
<1>3. /\ i \in 0 .. Len(wBuf) - 1 /\ Len(wBuf) <= Free
      /\ Free \in 0 .. Size - 1 /\ Unread \in 0 .. Size - 1
      /\ Len(wBuf) \in Nat
  BY Partition DEF TypeOK, WriterInv, Free, Unread
<1>4. i \in 0 .. Free - 1 /\ i \in 0 .. Size - 1
  BY <1>3, SizeAssumption
<1>5. CellOf(writePos, i) \in Cells /\ wBuf[i + 1] \in Byte
  BY <1>3, <1>4, CellInRing DEF TypeOK
<1>6. TypeOK'
  BY <1>1, <1>2, <1>5 DEF TypeOK
<1>7. CountsExact' /\ InOrder' /\ ReaderInv'
  BY <1>2 DEF CountsExact, InOrder, ReaderInv, Unread
<1>8. ContentInv'
  <2> SUFFICES ASSUME NEW j \in 0 .. Unread - 1
               PROVE  data'[CellOf(readPos, j)] = sent[Len(got) + j + 1]
    BY <1>2 DEF ContentInv, Unread
  <2>1. CellOf(writePos, i) # CellOf(readPos, j)
    BY <1>4, FreeNotUnread DEF TypeOK, Free, Unread
  <2>2. CellOf(readPos, j) \in Cells
    BY <1>3, SizeAssumption, CellInRing DEF TypeOK
  <2> QED
    BY <1>1, <2>1, <2>2 DEF TypeOK, ContentInv
<1>9. WriterInv'
  <2> SUFFICES ASSUME NEW j \in 0 .. Len(wBuf) - 1, j \notin wLeft'
               PROVE  data'[CellOf(writePos, j)] = wBuf[j + 1]
    BY <1>2 DEF WriterInv, Free
  <2>1. j \in 0 .. Size - 1 /\ CellOf(writePos, j) \in Cells
    BY <1>3, SizeAssumption, CellInRing DEF TypeOK
  <2>2. CASE j = i
    BY <1>1, <2>1, <2>2 DEF TypeOK
  <2>3. CASE j # i
    <3>1. CellOf(writePos, j) # CellOf(writePos, i)
      BY <1>4, <2>1, <2>3, CellInjective DEF TypeOK
    <3>2. j \notin wLeft
      BY <1>1, <2>3
    <3> QED
      BY <1>1, <2>1, <3>1, <3>2 DEF TypeOK, WriterInv
  <2> QED
    BY <2>2, <2>3
<1> QED
  BY <1>6, <1>7, <1>8, <1>9

\* A write ends: the bytes it moved become the end of the unread part.
LEMMA EndWriteInv == ASSUME IInv, EndWrite PROVE IInv'
<1> USE DEF IInv
<1> DEFINE c == Len(wBuf)
<1>1. /\ writePos' = Advance(writePos, c) /\ sent' = sent \o wBuf
      /\ wBusy' = FALSE /\ wBuf' = << >> /\ wLeft = {} /\ wLeft' = {}
      /\ UNCHANGED <<readPos, data, rBuf, rLeft, rBusy, got>>
  BY DEF EndWrite, rVars
<1>2. c \in 0 .. Free /\ Free \in 0 .. Size - 1 /\ Unread \in 0 .. Size - 1
  BY Partition DEF TypeOK, WriterInv, Free, Unread
<1>3. writePos' \in Cells /\ Unread' = Unread + c /\ Free' = Free - c
  BY <1>1, <1>2, AdvanceWrite DEF TypeOK, Free, Unread
<1>4. /\ sent' \in Seq(Byte) /\ Len(sent') = Len(sent) + c
      /\ \A i \in 1 .. Len(sent) : sent'[i] = sent[i]
      /\ \A i \in 1 .. c : sent'[Len(sent) + i] = wBuf[i]
  BY <1>1, ConcatProperties DEF TypeOK
<1>5. TypeOK'
  <2>1. /\ writePos' \in Cells /\ wBuf' \in Seq(Byte) /\ wLeft' = {}
        /\ wBusy' \in BOOLEAN /\ sent' \in Seq(Byte)
    BY <1>1, <1>3, <1>4, EmptySeq
  <2> QED
    BY <1>1, <2>1 DEF TypeOK
<1>6. Len(got) + Unread = Len(sent) /\ Len(got) \in Nat /\ Len(sent) \in Nat
  BY <1>2 DEF CountsExact, Unread, TypeOK
<1>8. CountsExact'
  <2>1. AvailableRead(writePos', readPos') = Unread + c
    BY <1>3 DEF Unread
  <2>2. Len(got') = Len(got) /\ Len(sent') = Len(sent) + c
    BY <1>1, <1>4
  <2>3. AvailableRead(writePos', readPos') + Len(got') = Len(sent')
    BY <1>2, <1>6, <2>1, <2>2
  <2> QED
    BY <2>3 DEF CountsExact
<1>7. InOrder'
  BY <1>1, <1>4 DEF InOrder, TypeOK
<1>9. ContentInv'
  <2> SUFFICES ASSUME NEW i \in 0 .. (Unread + c) - 1
               PROVE  data[CellOf(readPos, i)] = sent'[Len(got) + i + 1]
    BY <1>1, <1>3 DEF ContentInv
  <2>1. CASE i < Unread
    <3>1. i \in 0 .. Unread - 1 /\ Len(got) + i + 1 \in 1 .. Len(sent)
      BY <1>2, <1>6, <2>1
    <3> QED
      BY <1>4, <3>1 DEF ContentInv
  <2>2. CASE i >= Unread
    <3>1. PICK k \in 0 .. c - 1 : i = Unread + k
      <4>1. i - Unread \in 0 .. c - 1 /\ i = Unread + (i - Unread)
        BY <1>2, <2>2
      <4> QED
        BY <4>1
    <3>2. data[CellOf(writePos, k)] = wBuf[k + 1]
      BY <1>1 DEF WriterInv
    <3>3. CellOf(readPos, i) = CellOf(writePos, k)
      BY <1>2, <3>1, FreeAfterUnread DEF TypeOK, Free, Unread
    <3>4. sent'[Len(sent) + (k + 1)] = wBuf[k + 1]
      BY <1>2, <1>4
    <3>5. Len(got) + i + 1 = Len(sent) + (k + 1)
      BY <1>2, <1>6, <3>1
    <3> QED
      BY <3>2, <3>3, <3>4, <3>5
  <2> QED
    BY <1>2, <2>1, <2>2
<1>10. WriterInv'
  BY <1>1, <1>2, <1>3 DEF WriterInv
<1>11. ReaderInv'
  <2>1. Len(rBuf) \in Nat /\ Len(rBuf) <= Unread
    BY DEF TypeOK, ReaderInv
  <2>2. Len(rBuf) <= Unread + c
    BY <1>2, <2>1
  <2>3. ASSUME NEW i \in 0 .. Len(rBuf) - 1
        PROVE  sent'[Len(got) + i + 1] = sent[Len(got) + i + 1]
    <3>1. Len(got) + i + 1 \in 1 .. Len(sent)
      BY <1>2, <1>6, <2>1
    <3> QED
      BY <1>4, <3>1
  <2>4. /\ ~rBusy' => rBuf' = << >>
        /\ Len(rBuf') <= Unread'
    BY <1>1, <1>3, <2>2 DEF ReaderInv
  <2>5. ASSUME NEW i \in 0 .. Len(rBuf') - 1, i \notin rLeft'
        PROVE  rBuf'[i + 1] = sent'[Len(got') + i + 1]
    <3>1. i \in 0 .. Len(rBuf) - 1 /\ rBuf[i + 1] = sent[Len(got) + i + 1]
      BY <1>1, <2>5 DEF ReaderInv
    <3> QED
      BY <1>1, <2>3, <3>1
  <2> QED
    BY <2>4, <2>5 DEF ReaderInv
<1> QED
  BY <1>5, <1>7, <1>8, <1>9, <1>10, <1>11

\* A read begins: it measured the unread cells and has moved nothing yet.
LEMMA BeginReadInv == ASSUME IInv, BeginRead PROVE IInv'
<1> USE DEF IInv
<1>1. PICK n \in 0 .. MaxCall :
        LET count == Clip(n, AvailableRead(writePos, readPos)) IN
        rBuf' = [i \in 1 .. count |-> NoByte] /\ rLeft' = 0 .. count - 1
  BY DEF BeginRead
<1> DEFINE count == Clip(n, Unread)
<1>2. Unread \in Nat
  BY Partition DEF TypeOK, Unread
<1>3. count \in Nat /\ count <= Unread
  BY <1>2, ClipBound, CallAssumption
<1>4. rBuf' = [i \in 1 .. count |-> NoByte] /\ rLeft' = 0 .. count - 1
  BY <1>1 DEF Unread
<1> HIDE DEF count
<1>5. rBuf' \in Seq(Byte \cup {NoByte}) /\ Len(rBuf') = count
  BY <1>3, <1>4
<1>6. /\ UNCHANGED <<writePos, readPos, data, wBuf, wLeft, wBusy, sent, got>>
      /\ rBusy' = TRUE
  BY DEF BeginRead, wVars
<1>7. TypeOK'
  BY <1>4, <1>5, <1>6 DEF TypeOK
<1>8. CountsExact' /\ InOrder' /\ ContentInv' /\ WriterInv'
  BY <1>6 DEF CountsExact, InOrder, ContentInv, WriterInv, Unread, Free
<1>9. ReaderInv'
  BY <1>3, <1>4, <1>5, <1>6 DEF ReaderInv, Unread
<1> QED
  BY <1>7, <1>8, <1>9

\* A byte loaded by the reader is the one the stream holds at that place.
LEMMA LoadByteInv == ASSUME IInv, LoadByte PROVE IInv'
<1> USE DEF IInv
<1>1. PICK i \in rLeft :
        /\ rBuf' = [rBuf EXCEPT ![i + 1] = data[CellOf(readPos, i)]]
        /\ rLeft' = rLeft \ {i}
  BY DEF LoadByte
<1>2. UNCHANGED <<writePos, readPos, data, rBusy, wBuf, wLeft, wBusy, sent, got>>
  BY DEF LoadByte, wVars
<1>3. /\ i \in 0 .. Len(rBuf) - 1 /\ Len(rBuf) <= Unread
      /\ Unread \in 0 .. Size - 1 /\ Len(rBuf) \in Nat
  BY Partition DEF TypeOK, ReaderInv, Unread
<1>4. i \in 0 .. Unread - 1 /\ i \in 0 .. Size - 1
  BY <1>3, SizeAssumption
<1>5. data[CellOf(readPos, i)] \in Byte \cup {NoByte}
  BY <1>4, CellInRing DEF TypeOK
<1>6. data[CellOf(readPos, i)] = sent[Len(got) + i + 1]
  BY <1>4 DEF ContentInv
<1>7. rBuf' \in Seq(Byte \cup {NoByte}) /\ Len(rBuf') = Len(rBuf)
  BY <1>1, <1>3, <1>5 DEF TypeOK
<1>8. TypeOK'
  BY <1>1, <1>2, <1>7 DEF TypeOK
<1>9. CountsExact' /\ InOrder' /\ ContentInv' /\ WriterInv'
  BY <1>2 DEF CountsExact, InOrder, ContentInv, WriterInv, Unread, Free
<1>10. ReaderInv'
  <2>1. ASSUME NEW j \in 0 .. Len(rBuf) - 1, j \notin rLeft'
        PROVE  rBuf'[j + 1] = sent[Len(got) + j + 1]
    <3>1. CASE j = i
      BY <1>1, <1>3, <1>6, <3>1 DEF TypeOK
    <3>2. CASE j # i
      BY <1>1, <1>3, <2>1, <3>2 DEF TypeOK, ReaderInv
    <3> QED
      BY <3>1, <3>2
  <2>2. ~rBusy => rBuf' = << >>
    BY <1>3 DEF LoadByte
  <2> QED
    BY <1>2, <1>3, <1>7, <2>1, <2>2 DEF ReaderInv, Unread
<1> QED
  BY <1>8, <1>9, <1>10

\* A read ends: the bytes it moved are delivered, and their cells become free.
LEMMA EndReadInv == ASSUME IInv, EndRead PROVE IInv'
<1> USE DEF IInv
<1> DEFINE c == Len(rBuf)
<1>1. /\ readPos' = Advance(readPos, c) /\ got' = got \o rBuf
      /\ rBusy' = FALSE /\ rBuf' = << >> /\ rLeft = {} /\ rLeft' = {}
      /\ UNCHANGED <<writePos, data, wBuf, wLeft, wBusy, sent>>
  BY DEF EndRead, wVars
<1>2. c \in 0 .. Unread /\ Free \in 0 .. Size - 1 /\ Unread \in 0 .. Size - 1
  BY Partition DEF TypeOK, ReaderInv, Free, Unread
<1>3. /\ readPos' \in Cells /\ Unread' = Unread - c /\ Free' = Free + c
      /\ \A i \in 0 .. (Unread - c) - 1 : CellOf(readPos', i) = CellOf(readPos, c + i)
  BY <1>1, <1>2, AdvanceRead DEF TypeOK, Free, Unread
<1>4. Len(got) + Unread = Len(sent) /\ Len(got) \in Nat /\ Len(sent) \in Nat
  BY <1>2 DEF CountsExact, Unread, TypeOK
<1>5. \A i \in 1 .. c : rBuf[i] = sent[Len(got) + i]
  <2> SUFFICES ASSUME NEW i \in 1 .. c PROVE rBuf[i] = sent[Len(got) + i]
    OBVIOUS
  <2>1. i - 1 \in 0 .. c - 1 /\ (i - 1) + 1 = i
    BY <1>2
  <2>2. rBuf[(i - 1) + 1] = sent[Len(got) + (i - 1) + 1]
    BY <1>1, <2>1 DEF ReaderInv
  <2>3. Len(got) + (i - 1) + 1 = Len(got) + i
    BY <1>2, <1>4
  <2> QED
    BY <2>1, <2>2, <2>3
<1>6. rBuf \in Seq(Byte)
  <2>1. \A i \in 1 .. c : rBuf[i] \in Byte
    BY <1>2, <1>4, <1>5 DEF TypeOK
  <2>2. rBuf \in [1 .. c -> Byte \cup {NoByte}]
    BY LenProperties DEF TypeOK
  <2>3. rBuf \in [1 .. c -> Byte]
    BY <2>1, <2>2
  <2> QED
    BY <1>2, <2>3, SeqDef
<1>7. /\ got' \in Seq(Byte) /\ Len(got') = Len(got) + c
      /\ \A i \in 1 .. Len(got) : got'[i] = got[i]
      /\ \A i \in 1 .. c : got'[Len(got) + i] = rBuf[i]
  BY <1>1, <1>6, ConcatProperties DEF TypeOK
<1>8. TypeOK'
  <2>1. /\ readPos' \in Cells /\ rBuf' \in Seq(Byte \cup {NoByte}) /\ rLeft' = {}
        /\ rBusy' \in BOOLEAN /\ got' \in Seq(Byte)
    BY <1>1, <1>3, <1>7, EmptySeq
  <2> QED
    BY <1>1, <2>1 DEF TypeOK
<1>9. CountsExact'
  <2>1. AvailableRead(writePos', readPos') = Unread - c
    BY <1>3 DEF Unread
  <2>2. Len(got') = Len(got) + c /\ Len(sent') = Len(sent)
    BY <1>1, <1>7
  <2>3. AvailableRead(writePos', readPos') + Len(got') = Len(sent')
    BY <1>2, <1>4, <2>1, <2>2
  <2> QED
    BY <2>3 DEF CountsExact
<1>10. InOrder'
  <2>1. Len(got') <= Len(sent)
    BY <1>2, <1>4, <1>7
  <2>2. ASSUME NEW i \in 1 .. Len(got') PROVE got'[i] = sent[i]
    <3>1. CASE i <= Len(got)
      BY <1>4, <1>7, <3>1 DEF InOrder
    <3>2. CASE i > Len(got)
      <4>1. i - Len(got) \in 1 .. c /\ Len(got) + (i - Len(got)) = i
        BY <1>2, <1>4, <1>7, <3>2
      <4> QED
        BY <1>5, <1>7, <4>1
    <3> QED
      BY <1>2, <1>4, <1>7, <3>1, <3>2
  <2> QED
    BY <1>1, <2>1, <2>2 DEF InOrder
<1>11. ContentInv'
  <2> SUFFICES ASSUME NEW i \in 0 .. (Unread - c) - 1
               PROVE  data[CellOf(readPos', i)] = sent[Len(got') + i + 1]
    BY <1>1, <1>3 DEF ContentInv
  <2>1. c + i \in 0 .. Unread - 1 /\ Len(got) + (c + i) + 1 = Len(got') + i + 1
    BY <1>2, <1>4, <1>7
  <2>2. data[CellOf(readPos, c + i)] = sent[Len(got) + (c + i) + 1]
    BY <2>1 DEF ContentInv
  <2> QED
    BY <1>3, <2>1, <2>2
<1>12. WriterInv'
  <2>1. Len(wBuf) <= Free + c
    BY <1>2 DEF WriterInv, TypeOK
  <2> QED
    BY <1>1, <1>3, <2>1 DEF WriterInv
<1>13. ReaderInv'
  BY <1>1, <1>2, <1>3 DEF ReaderInv
<1> QED
  BY <1>8, <1>9, <1>10, <1>11, <1>12, <1>13

\* The invariant is inductive.
LEMMA NextInv == ASSUME IInv, [Next]_vars PROVE IInv'
<1>1. CASE BeginWrite
  BY <1>1, BeginWriteInv
<1>2. CASE StoreByte
  BY <1>2, StoreByteInv
<1>3. CASE EndWrite
  BY <1>3, EndWriteInv
<1>4. CASE BeginRead
  BY <1>4, BeginReadInv
<1>5. CASE LoadByte
  BY <1>5, LoadByteInv
<1>6. CASE EndRead
  BY <1>6, EndReadInv
<1>7. CASE UNCHANGED vars
  BY <1>7 DEF IInv, TypeOK, CountsExact, InOrder, ContentInv, WriterInv, ReaderInv,
              Unread, Free, vars, wVars, rVars
<1> QED
  BY <1>1, <1>2, <1>3, <1>4, <1>5, <1>6, <1>7 DEF Next

\* The invariant holds in every state.
LEMMA Invariance == Spec => []IInv
<1> QED
  BY InitInv, NextInv, PTL DEF Spec
-----------------------------------------------------------------------------
\* The values stay in their ranges: no position ever leaves the ring.
THEOREM TypeCorrect == Spec => []TypeOK
<1>1. IInv => TypeOK
  BY DEF IInv
<1> QED
  BY <1>1, Invariance, PTL

\* The writer's memcpy never touches a byte the reader has not released, for
\* every size of the ring and every interleaving of the two memcpys.
THEOREM RaceFreedom == Spec => []NoDataRace
<1>1. ASSUME IInv PROVE NoDataRace
  <2> USE <1>1 DEF IInv
  <2> SUFFICES ASSUME NEW i \in wLeft,
                      NEW j \in 0 .. AvailableRead(writePos, readPos) - 1,
                      CellOf(writePos, i) = CellOf(readPos, j)
               PROVE  FALSE
    BY DEF NoDataRace, Storing, Held
  <2>1. Free \in 0 .. Size - 1
    BY Partition DEF TypeOK, Free
  <2>2. i \in 0 .. Len(wBuf) - 1 /\ Len(wBuf) \in Nat /\ Len(wBuf) <= Free
    BY DEF TypeOK, WriterInv
  <2>3. i \in 0 .. Free - 1
    BY <2>1, <2>2, SizeAssumption
  <2> QED
    BY <2>3, FreeNotUnread DEF TypeOK, Free
<1> QED
  BY <1>1, Invariance, PTL

\* ringbuf_available_read is exact: full and empty are never confused.
THEOREM CountCorrect == Spec => []CountsExact
<1>1. IInv => CountsExact
  BY DEF IInv
<1> QED
  BY <1>1, Invariance, PTL

\* Bytes arrive in order, each once, and none that was not written.
THEOREM OrderCorrect == Spec => []InOrder
<1>1. IInv => InOrder
  BY DEF IInv
<1> QED
  BY <1>1, Invariance, PTL
-----------------------------------------------------------------------------
\* A stream that was extended still begins with what it was.
LEMMA PrefixOfConcat ==
  ASSUME NEW S, NEW s \in Seq(S), NEW t \in Seq(S)
  PROVE  SubSeq(s \o t, 1, Len(s)) = s
<1> DEFINE u == SubSeq(s \o t, 1, Len(s))
<1>1. s \o t \in Seq(S) /\ Len(s \o t) = Len(s) + Len(t) /\ Len(s) \in Nat /\ Len(t) \in Nat
  BY ConcatProperties
<1>2. u \in Seq(S) /\ Len(u) = Len(s) /\ \A i \in 1 .. Len(s) : u[i] = (s \o t)[i]
  BY <1>1
<1>3. \A i \in 1 .. Len(s) : (s \o t)[i] = s[i]
  BY ConcatProperties, <1>1
<1> HIDE DEF u
<1>4. u = s
  BY <1>2, <1>3, SeqEqual
<1> QED
  BY <1>4 DEF u

\* Every step of the two memcpys, on any interleaving, is a step of a bounded
\* first-in first-out stream or invisible to it: the ring implements Fifo.
THEOREM Refinement == Spec => ImplementsFifo
<1>1. Init => F!Init
  BY DEF Init, F!Init
<1>2. ASSUME IInv, [Next]_vars PROVE [F!Next]_<<sent, got>>
  <2> USE <1>2 DEF IInv
  <2>1. CASE EndWrite
    <3>1. IInv' /\ sent' = sent \o wBuf /\ UNCHANGED got
      BY <2>1, EndWriteInv DEF EndWrite
    <3>2. /\ sent' \in Seq(Byte) /\ Len(sent) <= Len(sent')
          /\ SubSeq(sent', 1, Len(sent)) = sent
      <4>1. SubSeq(sent \o wBuf, 1, Len(sent)) = sent
        BY PrefixOfConcat DEF TypeOK
      <4> QED
        BY <3>1, <4>1 DEF TypeOK
    <3>3. Len(sent') - Len(got) <= Size - 1
      <4>1. /\ AvailableRead(writePos', readPos') \in 0 .. Size - 1
            /\ AvailableRead(writePos', readPos') + Len(got') = Len(sent')
            /\ Len(got') \in Nat /\ Len(sent') \in Nat
        <5>1. writePos' \in Cells /\ readPos' \in Cells
          BY <3>1 DEF IInv, TypeOK
        <5>2. AvailableRead(writePos', readPos') + Len(got') = Len(sent')
          BY <3>1 DEF IInv, CountsExact
        <5>3. Len(got') \in Nat /\ Len(sent') \in Nat
          BY <3>1 DEF IInv, TypeOK
        <5> QED
          BY <5>1, <5>2, <5>3, Partition
      <4> QED
        BY <3>1, <4>1, SizeAssumption
    <3> QED
      BY <3>1, <3>2, <3>3 DEF F!Next, F!Put
  <2>2. CASE EndRead
    <3>1. IInv' /\ got' = got \o rBuf /\ UNCHANGED sent
      BY <2>2, EndReadInv DEF EndRead
    <3>2. Len(got') = Len(got) + Len(rBuf) /\ Len(got') \in Nat
      BY <3>1 DEF IInv, TypeOK
    <3>3. Len(rBuf) \in 0 .. (Len(sent) - Len(got))
      BY <3>1, <3>2 DEF IInv, TypeOK, InOrder
    <3>4. got' = SubSeq(sent, 1, Len(got) + Len(rBuf))
      <4> DEFINE n == Len(got) + Len(rBuf)
      <4>1. n \in 0 .. Len(sent)
        BY <3>3 DEF TypeOK
      <4>2. /\ SubSeq(sent, 1, n) \in Seq(Byte) /\ Len(SubSeq(sent, 1, n)) = n
            /\ \A i \in 1 .. n : SubSeq(sent, 1, n)[i] = sent[i]
        BY <4>1 DEF TypeOK
      <4>3. got' \in Seq(Byte) /\ \A i \in 1 .. n : got'[i] = sent[i]
        BY <3>1, <3>2 DEF IInv, TypeOK, InOrder
      <4> HIDE DEF n
      <4>4. Len(got') = n
        BY <3>2 DEF n
      <4>5. got' = SubSeq(sent, 1, n)
        BY <4>2, <4>3, <4>4, SeqEqual
      <4> QED
        BY <4>5 DEF n
    <3> QED
      BY <3>1, <3>3, <3>4 DEF F!Next, F!Take
  <2>3. CASE BeginWrite \/ StoreByte \/ BeginRead \/ LoadByte \/ UNCHANGED vars
    <3>1. UNCHANGED <<sent, got>>
      BY <2>3 DEF BeginWrite, StoreByte, BeginRead, LoadByte, vars
    <3> QED
      BY <3>1
  <2> QED
    BY <2>1, <2>2, <2>3 DEF Next
<1> QED
  BY <1>1, <1>2, Invariance, PTL DEF Spec, ImplementsFifo, F!Spec
=============================================================================
