-------------------------------- MODULE I2c ---------------------------------
(***************************************************************************)
(* The I2C driver (src/panda/m3/i2c.c): i2c_tx_rx polls the controller's   *)
(* status and moves bytes between a caller's buffer and the controller's   *)
(* FIFO; i2c_read_regs and i2c_write_reg are one or two such transfers.    *)
(* The controller, the bus and the devices on it are hardware and act at   *)
(* any moment between two accesses of the driver.                          *)
(*                                                                         *)
(* Bytes are counted, not named.  The bits of I2C_STAT are the members of  *)
(* the set flags; the bus-busy bit BB is the variable busy.                *)
(***************************************************************************)
EXTENDS Integers, Sequences

CONSTANTS
  FifoSize,    \* I2C_FIFO_SIZE, also both thresholds (64)
  WriteCounts, \* bytes of the writes (1 for a register number, 2 with a value)
  ReadCounts   \* bytes of the reads

ASSUME I2cAssumption ==
  /\ FifoSize \in Nat \ {0}
  /\ 1 \in WriteCounts /\ WriteCounts \cup ReadCounts \subseteq Nat \ {0}

VARIABLES
  calls,     \* the transfers the current call still has to make: <<tx, count>>
  pc,        \* of i2c_tx_rx: idle, bus, poll, serve, clear, end
  tx, cnt, pos, stat,   \* its parameters and locals
  result,    \* what the last transfer returned
  busy, flags,          \* the controller's status
  active,    \* it has a transfer under way
  moved,     \* bytes that have crossed the bus
  fifo       \* bytes in its FIFO
driver == <<calls, pc, tx, cnt, pos, stat, result>>
controller == <<busy, flags, active, moved, fifo>>
vars == <<driver, controller>>

Errors == {"nack", "al", "rovr", "xudf"}
Bits == Errors \cup {"xdr", "rdr", "ardy", "xrdy", "rrdy"}

\* The order in which the poll loop looks at the bits.
Priority == <<"nack", "al", "xdr", "rdr", "ardy", "xrdy", "rrdy", "rovr", "xudf">>
First(s, order) == order[CHOOSE i \in DOMAIN order :
                      order[i] \in s /\ \A j \in 1 .. i - 1 : order[j] \notin s]

\* Mutations (X_...): bugs this code could have.
X_Served(s) == First(s, <<"nack", "al", "ardy", "xdr", "rdr", "xrdy", "rrdy", "rovr",
                          "xudf">>)
X_Amount(bit) == FifoSize

Served(s) == First(s, Priority)

\* The bits that end the loop.
Ending == Errors \cup {"ardy"}

\* How many bytes the branch of a bit moves: BUFSTAT's amount, or a whole FIFO.
Amount(bit) == CASE bit = "xdr" -> IF tx THEN cnt - pos ELSE 0
                 [] bit = "rdr" -> IF tx THEN 0 ELSE fifo
                 [] OTHER -> FifoSize

\* i2c_read_regs: the register number, then the data.
Transfers(n) == << <<TRUE, 1>>, <<FALSE, n>> >>
-----------------------------------------------------------------------------
\* i2c_init has reset and configured the controller.
Init ==
  /\ calls = << >> /\ pc = "idle"
  /\ tx = FALSE /\ cnt = 0 /\ pos = 0 /\ stat = {} /\ result = 0
  /\ busy = FALSE /\ flags = {} /\ active = FALSE /\ moved = 0 /\ fifo = 0

ReadRegs ==
  /\ pc = "idle" /\ calls = << >>
  /\ \E n \in ReadCounts : calls' = Transfers(n)
  /\ UNCHANGED <<pc, tx, cnt, pos, stat, result, controller>>

WriteReg ==
  /\ pc = "idle" /\ calls = << >>
  /\ \E n \in WriteCounts : calls' = << <<TRUE, n>> >>
  /\ UNCHANGED <<pc, tx, cnt, pos, stat, result, controller>>

\* i2c_tx_rx is called, and waits for the bus.
Enter ==
  /\ pc = "idle" /\ calls # << >>
  /\ pc' = "bus" /\ pos' = 0
  /\ tx' = Head(calls)[1] /\ cnt' = Head(calls)[2]
  /\ calls' = Tail(calls)
  /\ UNCHANGED <<stat, result, controller>>

\* The bus is free: the transfer is programmed, the FIFOs cleared, CON written.
Program ==
  /\ pc = "bus" /\ ~busy
  /\ pc' = "poll"
  /\ busy' = TRUE /\ active' = TRUE /\ moved' = 0 /\ fifo' = 0
  /\ UNCHANGED <<calls, tx, cnt, pos, stat, result, flags>>

\* One look at the status.
Poll ==
  /\ pc = "poll" /\ flags # {}
  /\ stat' = flags
  /\ pc' = IF Served(flags) \in Ending THEN "end" ELSE "serve"
  /\ UNCHANGED <<calls, tx, cnt, pos, result, controller>>

\* The branch of the first bit: bytes between the buffer and the FIFO ...
Serve ==
  /\ pc = "serve" /\ pc' = "clear"
  /\ LET amt == Amount(Served(stat)) IN
       /\ pos' = pos + amt
       /\ fifo' = IF Served(stat) \in {"xdr", "xrdy"} THEN fifo + amt
                  ELSE IF fifo > amt THEN fifo - amt ELSE 0
  /\ UNCHANGED <<calls, tx, cnt, stat, result, busy, flags, active, moved>>

\* Mutation: the branch of XDR forgets to.
X_Clear ==
  /\ pc = "clear" /\ pc' = "poll"
  /\ flags' = flags \ ({Served(stat)} \ {"xdr"})
  /\ UNCHANGED <<calls, tx, cnt, pos, stat, result, busy, active, moved, fifo>>

\* ... and the bit is acknowledged.
Clear ==
  /\ pc = "clear" /\ pc' = "poll"
  /\ flags' = flags \ {Served(stat)}
  /\ UNCHANGED <<calls, tx, cnt, pos, stat, result, busy, active, moved, fifo>>

\* Mutation: the loop is left without acknowledging what ended it.
X_End ==
  /\ pc = "end" /\ pc' = "idle"
  /\ result' = IF stat \cap Errors # {} THEN -1 ELSE 0
  /\ calls' = IF result' = -1 THEN << >> ELSE calls
  /\ UNCHANGED <<tx, cnt, pos, stat, flags, busy, active, moved, fifo>>

\* Out of the loop: the bits last read are acknowledged; an error ends the call.
End ==
  /\ pc = "end" /\ pc' = "idle"
  /\ flags' = flags \ stat
  /\ result' = IF stat \cap Errors # {} THEN -1 ELSE 0
  /\ calls' = IF result' = -1 THEN << >> ELSE calls
  /\ UNCHANGED <<tx, cnt, pos, stat, busy, active, moved, fifo>>
-----------------------------------------------------------------------------
\* The controller (external): a byte crosses the bus, ...
Move ==
  /\ active /\ moved < cnt
  /\ \/ tx /\ fifo > 0 /\ fifo' = fifo - 1
     \/ ~tx /\ fifo < FifoSize /\ fifo' = fifo + 1
  /\ moved' = moved + 1
  /\ UNCHANGED <<driver, busy, flags, active>>

\* ... it asks for bytes or offers them, by thresholds, ...
Ask ==
  /\ active
  /\ LET left == cnt - moved - fifo
         wants == IF tx THEN (IF fifo > 0 \/ left <= 0 THEN {}
                              ELSE IF left >= FifoSize THEN {"xrdy"} ELSE {"xdr"})
                  ELSE (IF fifo >= FifoSize THEN {"rrdy"}
                        ELSE IF fifo > 0 /\ moved = cnt THEN {"rdr"} ELSE {})
     IN /\ ~(wants \subseteq flags)
        /\ flags' = flags \cup wants
  /\ UNCHANGED <<driver, busy, active, moved, fifo>>

\* ... the transfer is over and the bus stopped, for one that never fills the FIFO
\* maybe before the driver has read it, ...
Finish ==
  /\ active /\ moved = cnt
  /\ tx \/ fifo = 0 \/ cnt < FifoSize
  /\ flags' = flags \cup {"ardy"}
             \cup (IF ~tx /\ fifo > 0 THEN {"rdr"} ELSE {})
  /\ active' = FALSE /\ busy' = FALSE
  /\ UNCHANGED <<driver, moved, fifo>>

\* ... or it fails: no acknowledge, a lost arbitration, an overrun.
Fail ==
  /\ active /\ moved < cnt
  /\ \E e \in Errors :
       /\ e = "rovr" => ~tx
       /\ e = "xudf" => tx
       /\ flags' = flags \cup {e}
  /\ active' = FALSE /\ busy' = FALSE
  /\ UNCHANGED <<driver, moved, fifo>>

Driver == Enter \/ Program \/ Poll \/ Serve \/ Clear \/ End
Controller == Move \/ Ask \/ Finish \/ Fail
Next == ReadRegs \/ WriteReg \/ Driver \/ Controller

\* The driver spins; the controller does not fall silent.
Fairness == WF_vars(Driver) /\ WF_vars(Move \/ Ask \/ Finish)
Spec == Init /\ [][Next]_vars
FairSpec == Spec /\ Fairness
-----------------------------------------------------------------------------
\* The FIFO never holds more than it can, and every variable keeps its type.
TypeOK ==
  /\ calls \in Seq(BOOLEAN \X (WriteCounts \cup ReadCounts)) /\ Len(calls) <= 2
  /\ pc \in {"idle", "bus", "poll", "serve", "clear", "end"}
  /\ {tx, busy, active} \subseteq BOOLEAN
  /\ cnt \in {0} \cup WriteCounts \cup ReadCounts /\ pos \in Nat
  /\ stat \subseteq Bits /\ flags \subseteq Bits
  /\ result \in {0, -1} /\ moved \in Nat /\ fifo \in 0 .. FifoSize

\* The driver never touches a byte behind the caller's buffer, although it moves whole
\* FIFOs or what BUFSTAT says and never compares pos with count.
BufferInBounds == pos <= cnt

\* i2c_tx_rx reports success only for a whole transfer: every byte was on the bus and
\* in the buffer, although it leaves at the first ARDY it looks at and counts nothing.
SuccessIsWhole ==
  pc = "end" /\ stat \cap Errors = {} => pos = cnt /\ moved = cnt

\* No bit of one transfer is left for the next to act on.
NoStaleBits == pc \in {"idle", "bus"} => flags = {}

\* A transfer returns, as long as the controller says something.
TransferReturns == pc = "poll" ~> pc = "idle"
=============================================================================
