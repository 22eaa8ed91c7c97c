------------------------------ MODULE I2cProofs ------------------------------
(***************************************************************************)
(* Proofs about I2c, for a FIFO and transfers of any length: the driver    *)
(* counts nothing, so all its safety is in what the controller's bits mean *)
(* at the moment the driver gets to them.                                  *)
(***************************************************************************)
EXTENDS I2c, TLAPS

InLoop == {"poll", "serve", "clear", "end"}

\* A bit the driver has still to act on: raised, and not just being acknowledged.
Pending(bit) == bit \in flags /\ ~(pc = "clear" /\ Served(stat) = bit)

\* Where the driver is: between two transfers the controller is still, in a branch it
\* acts on what it has read, out of the loop the controller has nothing more to say.
PlaceInv ==
  /\ pc \in {"idle", "bus"} => flags = {} /\ ~active
  /\ pc = "bus" => pos = 0
  /\ pc \in {"serve", "clear"} =>
       stat # {} /\ stat \subseteq flags /\ Served(stat) \notin Ending
  /\ pc = "end" => stat # {} /\ stat = flags /\ Served(stat) \in Ending
  /\ flags \cap Ending # {} => ~active

\* Every byte is in the buffer's part that is done, in the FIFO, or on the other side.
CountInv ==
  /\ pos <= cnt
  /\ pc \in InLoop =>
       /\ moved <= cnt
       /\ tx => pos = moved + fifo
       /\ ~tx => moved = pos + fifo

\* A pending bit still means what it meant when it was raised.
BitInv ==
  pc \in InLoop =>
    /\ tx => "rdr" \notin flags /\ "rrdy" \notin flags
    /\ ~tx => "xdr" \notin flags /\ "xrdy" \notin flags
    /\ Pending("xrdy") => fifo = 0 /\ cnt - pos >= FifoSize
    /\ Pending("xdr") => fifo = 0 /\ cnt - pos < FifoSize
    /\ Pending("rrdy") => fifo = FifoSize
    /\ Pending("rdr") => fifo < FifoSize /\ moved = cnt
    /\ pc = "clear" /\ Served(stat) = "rdr" => fifo = 0 /\ moved = cnt
    /\ "ardy" \in flags => moved = cnt /\ (~tx => fifo = 0 \/ Pending("rdr"))

I2cInv == TypeOK /\ PlaceInv /\ CountInv /\ BitInv
-----------------------------------------------------------------------------
\* The bit the loop serves is one of those it has read, and ARDY only if RDR is not.
LEMMA ServedFacts ==
  ASSUME NEW s, s \subseteq Bits, s # {}
  PROVE  Served(s) \in s /\ (Served(s) = "ardy" => "rdr" \notin s)
<1> DEFINE Is(i) == Priority[i] \in s /\ \A j \in 1 .. i - 1 : Priority[j] \notin s
<1>1. DOMAIN Priority = 1 .. 9
  BY DEF Priority
<1>2. \E i \in 1 .. 9 : Priority[i] \in s
  <2>1. /\ Priority[1] = "nack" /\ Priority[2] = "al" /\ Priority[3] = "xdr"
        /\ Priority[4] = "rdr" /\ Priority[5] = "ardy" /\ Priority[6] = "xrdy"
        /\ Priority[7] = "rrdy" /\ Priority[8] = "rovr" /\ Priority[9] = "xudf"
    BY DEF Priority
  <2>2. /\ 1 \in 1 .. 9 /\ 2 \in 1 .. 9 /\ 3 \in 1 .. 9 /\ 4 \in 1 .. 9 /\ 5 \in 1 .. 9
        /\ 6 \in 1 .. 9 /\ 7 \in 1 .. 9 /\ 8 \in 1 .. 9 /\ 9 \in 1 .. 9
    OBVIOUS
  <2>3. PICK b \in Bits : b \in s
    OBVIOUS
  <2> QED
    BY <2>1, <2>2, <2>3, Zenon DEF Bits, Errors
<1>3. \E i \in DOMAIN Priority : Is(i)
  <2> DEFINE P(i) == Priority[i] \in s
  <2>1. \E i \in 1 .. 9 : P(i) /\ \A j \in 1 .. i - 1 : ~P(j)
    <3> HIDE DEF P
    <3>1. \E i \in 1 .. 9 : P(i)
      BY <1>2 DEF P
    <3> QED
      BY <3>1
  <2> QED
    BY <1>1, <2>1
<1>4. PICK i \in 1 .. 9 : Served(s) = Priority[i] /\ Is(i)
  BY <1>1, <1>3 DEF Served, First
<1>5. Priority[i] = "ardy" => i = 5
  BY DEF Priority
<1>6. Priority[4] = "rdr"
  BY DEF Priority
<1> QED
  BY <1>4, <1>5, <1>6

Counts == WriteCounts \cup ReadCounts

LEMMA I2cInit == Init => I2cInv
<1> SUFFICES ASSUME Init PROVE I2cInv
  OBVIOUS
<1>1. << >> \in Seq(BOOLEAN \X Counts) /\ Len(<< >>) = 0
  OBVIOUS
<1>2. TypeOK
  <2>1. {tx, busy, active} \subseteq BOOLEAN
    BY DEF Init
  <2>2. stat \subseteq Bits /\ flags \subseteq Bits /\ fifo \in 0 .. FifoSize
    BY I2cAssumption DEF Init
  <2> QED
    BY <1>1, <2>1, <2>2 DEF Init, TypeOK, Counts
<1>3. PlaceInv /\ CountInv /\ BitInv
  BY DEF Init, PlaceInv, CountInv, BitInv, InLoop
<1> QED
  BY <1>2, <1>3 DEF I2cInv

\* The calls the driver makes are made of transfers.
LEMMA CallTypes ==
  /\ \A n \in ReadCounts : /\ Transfers(n) \in Seq(BOOLEAN \X Counts)
                         /\ Len(Transfers(n)) <= 2
  /\ \A n \in WriteCounts : /\ << <<TRUE, n>> >> \in Seq(BOOLEAN \X Counts)
                          /\ Len(<< <<TRUE, n>> >>) <= 2
<1>1. ASSUME NEW n \in ReadCounts
      PROVE  Transfers(n) \in Seq(BOOLEAN \X Counts) /\ Len(Transfers(n)) <= 2
  <2>1. <<TRUE, 1>> \in BOOLEAN \X Counts /\ <<FALSE, n>> \in BOOLEAN \X Counts
    BY I2cAssumption DEF Counts
  <2> HIDE DEF Counts
  <2> QED
    BY <2>1 DEF Transfers
<1>2. ASSUME NEW n \in WriteCounts
      PROVE  /\ << <<TRUE, n>> >> \in Seq(BOOLEAN \X Counts)
             /\ Len(<< <<TRUE, n>> >>) <= 2
  <2>1. <<TRUE, n>> \in BOOLEAN \X Counts
    BY DEF Counts
  <2> HIDE DEF Counts
  <2> QED
    BY <2>1
<1> QED
  BY <1>1, <1>2

LEMMA CallsStep ==
  ASSUME I2cInv, ReadRegs \/ WriteReg \/ Enter
  PROVE  I2cInv'
<1> USE I2cAssumption DEF I2cInv, PlaceInv, CountInv, BitInv, InLoop, controller
<1>1. CASE ReadRegs \/ WriteReg
  <2>1. calls' \in Seq(BOOLEAN \X Counts) /\ Len(calls') <= 2
    BY <1>1, CallTypes DEF ReadRegs, WriteReg
  <2>2. /\ pc = "idle"
        /\ UNCHANGED <<pc, tx, cnt, pos, stat, result, busy, flags, active, moved, fifo>>
    BY <1>1 DEF ReadRegs, WriteReg
  <2>3. TypeOK'
    BY <2>1, <2>2 DEF TypeOK, Counts
  <2> QED
    BY <2>2, <2>3
<1>2. CASE Enter
  <2>1. /\ Head(calls) \in BOOLEAN \X Counts /\ Tail(calls) \in Seq(BOOLEAN \X Counts)
        /\ Len(Tail(calls)) <= 2
    BY <1>2 DEF Enter, TypeOK, Counts
  <2>2. TypeOK'
    BY <1>2, <2>1 DEF Enter, TypeOK, Counts
  <2>3. cnt' \in Nat
    BY <2>2 DEF TypeOK
  <2> QED
    BY <1>2, <2>2, <2>3 DEF Enter
<1> QED
  BY <1>1, <1>2

LEMMA DriverStep ==
  ASSUME I2cInv, Program \/ Poll \/ Clear \/ End
  PROVE  I2cInv'
<1> USE I2cAssumption DEF I2cInv, PlaceInv, CountInv, BitInv, InLoop, controller, Pending
<1>1. CASE Program
  BY <1>1 DEF Program, TypeOK
<1>2. CASE Poll
  BY <1>2 DEF Poll, TypeOK
<1>3. CASE Clear
  BY <1>3 DEF Clear, TypeOK
<1>4. CASE End
  <2>1. calls' \in Seq(BOOLEAN \X Counts) /\ Len(calls') <= 2 /\ result' \in {0, -1}
    BY <1>4 DEF End, TypeOK, Counts
  <2>2. Served(stat) \in flags \cap Ending
    BY <1>4, ServedFacts DEF End, TypeOK
  <2>3. /\ pc' = "idle" /\ flags' = {} /\ ~active
        /\ UNCHANGED <<tx, cnt, pos, stat, busy, active, moved, fifo>>
    BY <1>4, <2>2 DEF End
  <2>4. TypeOK'
    BY <2>1, <2>3 DEF TypeOK, Counts
  <2> QED
    BY <2>3, <2>4
<1> QED
  BY <1>1, <1>2, <1>3, <1>4

\* The part of TypeOK that is about numbers and bits.
LEMMA Numbers ==
  ASSUME I2cInv
  PROVE  /\ cnt \in Nat /\ pos \in Nat /\ moved \in Nat /\ fifo \in 0 .. FifoSize
         /\ FifoSize \in Nat \ {0} /\ fifo \in Nat /\ fifo <= FifoSize
         /\ flags \subseteq Bits /\ stat \subseteq Bits
BY I2cAssumption DEF I2cInv, TypeOK

LEMMA ServeStep ==
  ASSUME I2cInv, Serve
  PROVE  I2cInv'
<1> DEFINE bit == Served(stat)
<1>1. /\ bit \in {"xdr", "rdr", "xrdy", "rrdy"} /\ bit \in flags /\ pc = "serve"
      /\ stat \subseteq flags /\ stat # {} /\ bit \notin Ending
  BY ServedFacts, Numbers DEF I2cInv, PlaceInv, Serve, Bits, Ending
<1>2. /\ pc' = "clear" /\ Served(stat') = bit
      /\ UNCHANGED <<calls, tx, cnt, stat, result, busy, flags, active, moved>>
  BY DEF Serve
<1>3. /\ Pending(bit)
      /\ \A b : Pending(b)' => Pending(b) /\ b # bit
  BY <1>1, <1>2 DEF Pending
<1>4. /\ pos' = pos + Amount(bit)
      /\ fifo' = IF bit \in {"xdr", "xrdy"} THEN fifo + Amount(bit)
                 ELSE IF fifo > Amount(bit) THEN fifo - Amount(bit) ELSE 0
  BY DEF Serve
<1> HIDE DEF bit
<1>5. /\ bit \in {"xdr", "xrdy"} => tx
      /\ bit \in {"rdr", "rrdy"} => ~tx
  BY <1>1 DEF I2cInv, BitInv, InLoop
<1>6. PlaceInv'
  BY <1>1, <1>2 DEF I2cInv, PlaceInv, bit
<1>7. /\ pos' \in Nat /\ pos' <= cnt /\ fifo' \in 0 .. FifoSize
      /\ tx => pos' = moved + fifo'
      /\ ~tx => moved = pos' + fifo'
      /\ bit \in {"rdr", "rrdy"} => fifo' = 0
      /\ bit = "rdr" => moved = cnt
  <2>1. /\ pos <= cnt /\ moved <= cnt
        /\ tx => pos = moved + fifo
        /\ ~tx => moved = pos + fifo
    BY <1>1 DEF I2cInv, CountInv, InLoop
  <2>2. /\ bit = "xrdy" => fifo = 0 /\ cnt - pos >= FifoSize
        /\ bit = "xdr" => fifo = 0 /\ cnt - pos < FifoSize
        /\ bit = "rrdy" => fifo = FifoSize
        /\ bit = "rdr" => fifo < FifoSize /\ moved = cnt
    BY <1>1, <1>3 DEF I2cInv, BitInv, InLoop
  <2>3. /\ bit = "xdr" => Amount(bit) = cnt - pos
        /\ bit = "rdr" => Amount(bit) = fifo
        /\ bit \in {"xrdy", "rrdy"} => Amount(bit) = FifoSize
    BY <1>5 DEF Amount
  <2> QED
    BY <1>1, <1>4, <1>5, <2>1, <2>2, <2>3, Numbers
<1>8. TypeOK'
  BY <1>2, <1>7 DEF I2cInv, TypeOK
<1>9. CountInv'
  BY <1>1, <1>2, <1>7 DEF I2cInv, CountInv, InLoop
<1>10. BitInv'
  BY <1>1, <1>2, <1>3, <1>5, <1>7, Numbers DEF I2cInv, BitInv, CountInv, InLoop
<1> QED
  BY <1>6, <1>8, <1>9, <1>10 DEF I2cInv

\* The bits a transfer leaves when it is over: with bytes still in the FIFO, RDR is among
\* them, and it is not being acknowledged.
LEMMA FinishBits ==
  ASSUME I2cInv, Finish, pc \notin {"idle", "bus", "end"}
  PROVE  BitInv'
<1>1. /\ pc \in {"poll", "serve", "clear"} /\ UNCHANGED <<pc, stat, tx, cnt, pos, fifo, moved>>
      /\ moved = cnt /\ (tx \/ fifo = 0 \/ cnt < FifoSize)
  BY DEF I2cInv, TypeOK, Finish, driver
<1>2. /\ tx => pos = moved + fifo
      /\ ~tx => moved = pos + fifo
  BY <1>1 DEF I2cInv, CountInv, InLoop
<1>3. /\ tx => "rdr" \notin flags /\ "rrdy" \notin flags
      /\ ~tx => "xdr" \notin flags /\ "xrdy" \notin flags
      /\ Pending("xrdy") => fifo = 0 /\ cnt - pos >= FifoSize
      /\ Pending("xdr") => fifo = 0 /\ cnt - pos < FifoSize
      /\ Pending("rrdy") => fifo = FifoSize
      /\ Pending("rdr") => fifo < FifoSize
      /\ pc = "clear" /\ Served(stat) = "rdr" => fifo = 0
  BY <1>1 DEF I2cInv, BitInv, InLoop
<1>4. CASE tx \/ fifo = 0
  <2>1. flags' = flags \cup {"ardy"}
    BY <1>4, Numbers DEF Finish
  <2>2. \A b : b # "ardy" => Pending(b)' = Pending(b)
    BY <1>1, <2>1 DEF Pending
  <2>3. ~tx => fifo = 0
    BY <1>4
  <2> QED
    BY <1>1, <1>3, <2>1, <2>2, <2>3 DEF BitInv
<1>5. CASE ~tx /\ fifo # 0
  <2>1. flags' = flags \cup {"ardy", "rdr"}
    <3>1. fifo > 0
      BY <1>5, Numbers
    <3>2. flags' = flags \cup {"ardy"} \cup (IF ~tx /\ fifo > 0 THEN {"rdr"} ELSE {})
      BY DEF Finish
    <3> QED
      BY <1>5, <3>1, <3>2
  <2>2. \A b : b \notin {"ardy", "rdr"} => Pending(b)' = Pending(b)
    BY <1>1, <2>1 DEF Pending
  <2>3. Pending("rdr")'
    BY <1>1, <1>3, <1>5, <2>1 DEF Pending
  <2>4. cnt < FifoSize /\ moved = pos + fifo
    BY <1>1, <1>2, <1>5
  <2>5. fifo < FifoSize
    BY <1>1, <2>4, Numbers
  <2> QED
    BY <1>1, <1>3, <1>5, <2>1, <2>2, <2>3, <2>5 DEF BitInv
<1> QED
  BY <1>4, <1>5

LEMMA ControllerStep ==
  ASSUME I2cInv, Controller
  PROVE  I2cInv'
<1> USE Numbers, I2cAssumption
        DEF I2cInv, PlaceInv, CountInv, BitInv, InLoop, driver, Pending
<1>1. active /\ pc \notin {"idle", "bus", "end"} /\ flags \cap Ending = {}
  <2>1. active
    BY DEF Controller, Move, Ask, Finish, Fail
  <2>2. pc = "end" => Served(stat) \in flags \cap Ending
    BY ServedFacts
  <2> QED
    BY <2>1, <2>2
<1>2. CASE Move
  BY <1>2 DEF Move, TypeOK
<1>3. CASE Ask
  BY <1>1, <1>3 DEF Ask, Bits, Errors, Ending, TypeOK
<1>4. CASE Finish
  <2>1. /\ flags' = flags \cup {"ardy"} \cup (IF ~tx /\ fifo > 0 THEN {"rdr"} ELSE {})
        /\ moved = cnt
        /\ active' = FALSE /\ busy' = FALSE /\ UNCHANGED <<driver, moved, fifo>>
    BY <1>4 DEF Finish
  <2>2. TypeOK'
    BY <2>1 DEF TypeOK, Bits, Errors
  <2>3. PlaceInv' /\ CountInv'
    BY <1>1, <2>1
  <2>4. BitInv'
    BY <1>1, <1>4, FinishBits
  <2> QED
    BY <2>2, <2>3, <2>4
<1>5. CASE Fail
  <2>1. PICK e \in Errors : flags' = flags \cup {e}
    BY <1>5 DEF Fail
  <2>2. active' = FALSE /\ busy' = FALSE /\ UNCHANGED <<driver, moved, fifo>>
    BY <1>5 DEF Fail
  <2>3. TypeOK'
    BY <2>1, <2>2 DEF TypeOK, Bits
  <2>4. PlaceInv' /\ CountInv'
    BY <1>1, <2>1, <2>2
  <2>5. BitInv'
    BY <1>1, <2>1, <2>2 DEF Errors
  <2> QED
    BY <2>3, <2>4, <2>5
<1> QED
  BY <1>2, <1>3, <1>4, <1>5 DEF Controller

LEMMA I2cStep == I2cInv /\ [Next]_vars => I2cInv'
<1> SUFFICES ASSUME I2cInv, [Next]_vars PROVE I2cInv'
  OBVIOUS
<1>1. CASE UNCHANGED vars
  BY <1>1 DEF I2cInv, TypeOK, PlaceInv, CountInv, BitInv, Pending, vars, driver, controller
<1> QED
  BY <1>1, CallsStep, DriverStep, ServeStep, ControllerStep DEF Next, Driver

LEMMA I2cAlways == Spec => []I2cInv
BY I2cInit, I2cStep, PTL DEF Spec
-----------------------------------------------------------------------------
\* The FIFO never overflows and the types hold, for any FIFO.
THEOREM TypeCorrect == Spec => []TypeOK
<1>1. I2cInv => TypeOK
  BY DEF I2cInv
<1> QED
  BY <1>1, I2cAlways, PTL

\* The driver never moves a byte behind the caller's buffer, for transfers of any length
\* and a FIFO of any size, whatever the controller does between two of its accesses.
THEOREM StaysInBuffer == Spec => []BufferInBounds
<1>1. I2cInv => BufferInBounds
  BY DEF I2cInv, CountInv, BufferInBounds
<1> QED
  BY <1>1, I2cAlways, PTL

\* What counts as a good transfer is whole, on the bus and in the buffer.
THEOREM GoodIsWhole == Spec => []SuccessIsWhole
<1>1. I2cInv => SuccessIsWhole
  <2> SUFFICES ASSUME I2cInv, pc = "end", stat \cap Errors = {}
               PROVE  pos = cnt /\ moved = cnt
    BY DEF SuccessIsWhole
  <2>1. "ardy" \in flags /\ "rdr" \notin flags
    BY ServedFacts DEF I2cInv, TypeOK, PlaceInv, Ending
  <2> QED
    BY <2>1, I2cAssumption DEF I2cInv, TypeOK, CountInv, BitInv, InLoop, Pending
<1> QED
  BY <1>1, I2cAlways, PTL

\* A transfer leaves no bit behind, however it ended.
THEOREM LeavesNothing == Spec => []NoStaleBits
<1>1. I2cInv => NoStaleBits
  BY DEF I2cInv, PlaceInv, NoStaleBits
<1> QED
  BY <1>1, I2cAlways, PTL
=============================================================================
