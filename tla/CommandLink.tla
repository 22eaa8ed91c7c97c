----------------------------- MODULE CommandLink -----------------------------
(***************************************************************************)
(* The command protocol between a Linux program (panda/user/copter.py) and *)
(* the flight firmware (panda/m3/command.c), over the two shared rings.    *)
(*                                                                         *)
(* A frame is a length byte, a command byte and `length' payload bytes.    *)
(* There is no start marker and no checksum: each side knows where a frame *)
(* begins only because it has read everything before it.  The host retries *)
(* a short write, so its frames enter whole; the firmware never waits, and *)
(* command_send drops, piece by piece, what does not fit.                  *)
(*                                                                         *)
(* Each ring is the byte stream RingBuf implements.  A ringbuf_write, and  *)
(* a ringbuf_read of the host, is two steps (look at the positions, store  *)
(* one): the other side may go on in between, and so may a restart of the  *)
(* M3, which empties both rings while the program keeps what it has read.  *)
(***************************************************************************)
EXTENDS Integers, Sequences, SequencesExt

CONSTANTS
  ByteMax,        \* the largest byte (255)
  CmdConnect, CmdDisconnect,
  CmdQuiet,       \* the commands whose handlers send nothing: o t a s m
  CmdError,       \* 'e', the answer to a command nobody registered
  CmdLimit,       \* LEN(cmd_map) (128); DASSERT(cmd < 128) hangs the firmware
  Telemetry,      \* the commands of one telemetry burst, in order: '2' .. '5'
  TelemetryLen,   \* sizeof(int)
  TelemetryByte,  \* the payload bytes a motor value may show
  Period,         \* a burst every Period ticks (25)
  HostFrames,     \* the frames the host programs send
  TxRoom, RxRoom, \* bytes that fit in the rings host -> M3 and M3 -> host
  ReadCount,      \* the bytes the host's file object asks for at once
  Junk,           \* what the cells of a ring may hold where nothing was written
  MaxFrames,      \* bound: the frames the host ever sends
  MaxAstray,      \* bound: the bytes a program that is astray gathers
  MaxBoots        \* bound: how often the M3 is ever started

ASSUME RoomAssumption == /\ ByteMax \in Nat /\ TxRoom \in Nat /\ RxRoom \in Nat
                         /\ Period \in Nat \ {0} /\ MaxFrames \in Nat
                         /\ ReadCount \in Nat /\ MaxAstray \in Nat /\ MaxBoots \in Nat
                         /\ Junk \subseteq Seq(0 .. ByteMax)

\* copter.py sends registered commands only; the firmware's own answers are none of
\* those a connection is made with, and telemetry is none of the three answers.
ASSUME FrameAssumption ==
  /\ CmdLimit \in Int
  /\ \A f \in HostFrames :
       /\ f \in Seq(0 .. ByteMax) /\ Len(f) >= 2
       /\ f[1] = Len(f) - 2 /\ f[2] < CmdLimit
  /\ {CmdConnect, CmdDisconnect, CmdError} \subseteq 0 .. ByteMax
  /\ CmdConnect # CmdDisconnect /\ CmdError \notin {CmdConnect, CmdDisconnect}
  /\ CmdQuiet \intersect {CmdConnect, CmdDisconnect} = {}
  /\ Telemetry \in Seq(0 .. ByteMax \ {CmdConnect, CmdDisconnect, CmdError})
  /\ TelemetryLen \in 0 .. ByteMax /\ TelemetryByte \subseteq 0 .. ByteMax

VARIABLES
  tx, rx,        \* the bytes in the rings host -> M3 and M3 -> host
  hLeft,         \* frames the host may still send (the bound)
  hOut,          \* what is left to write of the host's frame
  hBegun,        \* ... and some of it is written (history)
  hRoom,         \* the room its ringbuf_write found; -1: outside one
  hIn,           \* bytes the host has read and not consumed
  hBusy,         \* the host is inside recvCommand, past the length byte
  hGet,          \* the bytes its ringbuf_read found; -1: it is not reading the device,
                 \* -2: it is, between two of them
  hStale,        \* the positions it looked at are those of before a restart (history)
  hConnected,    \* Copter.connected
  hDead,         \* struct.unpack raised: the program is gone
  mode,          \* off, idle, reply, telemetry, or hung in a DASSERT
  cmdI, cmdLeft, cmdLen, cmdBuf,   \* the parser's statics in command.c
  connected,
  count,         \* control.c's count, modulo Period
  out,           \* the ringbuf_writes command_send still has to do, in order
  room,          \* bytes the current one found room for; -1: not measured yet
  boots,         \* starts of the M3
  toM3, toHost,  \* frames in flight, oldest first (history, not in the code)
  torn,          \* the rings were reset in the middle of a host frame (history)
  astray,        \* bytes the host waits for are lost: command_send dropped some, or a
                 \* reset emptied the ring with the host inside a frame or a read (history)
  forgot         \* a restart left the two sides of two minds about being connected (history)

writing == <<hOut, hBegun, hRoom>>
reading == <<hIn, hBusy, hGet>>
host == <<hLeft, writing, reading, hStale, hConnected, hDead>>
parser == <<cmdI, cmdLeft, cmdLen, cmdBuf>>
sender == <<out, room, toHost, astray>>
links == <<boots, torn, forgot>>
vars == <<tx, rx, host, mode, parser, connected, count, sender, toM3, links>>

Byte == 0 .. ByteMax
Frame(cmd, payload) == <<Len(payload), cmd>> \o payload
MinOf(a, b) == IF a < b THEN a ELSE b

\* The mutations (X_...) are bugs this code could have; each property is shown to
\* notice one of them.  The specification does not use them.
X_FrameSizeLong(len) == len + 3
X_FrameLeft(len) == len + 2
X_Writes(frame) == << <<frame[2]>>, <<frame[1]>>, SubSeq(frame, 3, Len(frame)) >>
X_ConnectedAfter(cmd) == cmd = CmdConnect \/ connected
X_ParserReset == UNCHANGED parser

\* The bytes of a whole frame, for the host, ...
FrameSize(len) == len + 2

\* ... and behind the length byte, for the parser: cmd_buf_left = cmd_buf_len + 1.
FrameLeft(len) == len + 1
-----------------------------------------------------------------------------
\* Linux is up, the rings are empty, the M3 has not been started (what command.c's
\* statics hold before the first command_init is of no account).
Init ==
  /\ tx = << >> /\ rx = << >>
  /\ hLeft = MaxFrames /\ hOut = << >> /\ hBegun = FALSE /\ hRoom = -1
  /\ hIn = << >> /\ hBusy = FALSE /\ hGet = -1 /\ hStale = FALSE
  /\ hConnected = FALSE /\ hDead = FALSE
  /\ mode = "off" /\ boots = 0
  /\ cmdI = -1 /\ cmdLeft = 0 /\ cmdLen = 0 /\ cmdBuf = << >>
  /\ connected = FALSE /\ count = 0
  /\ out = << >> /\ room = -1
  /\ toM3 = << >> /\ toHost = << >>
  /\ torn = FALSE /\ astray = FALSE /\ forgot = FALSE
-----------------------------------------------------------------------------
\* sendCommand: the frame goes into the buffer of the file object.
HostSend ==
  /\ ~hDead /\ ~hBusy /\ hOut = << >> /\ hGet = -1
  /\ hLeft > 0 /\ hLeft' = hLeft - 1
  /\ \E f \in HostFrames :
       /\ hOut' = f
       /\ toM3' = IF torn THEN toM3 ELSE Append(toM3, f)
  /\ hBegun' = FALSE
  /\ UNCHANGED <<tx, rx, hRoom, reading, hStale, hConnected, hDead, mode, parser,
                 connected, count, sender, links>>

\* flush writes the device, and writes the rest again: a ringbuf_write looks for room ...
HostMeasure ==
  /\ ~hDead /\ hOut # << >> /\ hRoom = -1
  /\ hRoom' = MinOf(Len(hOut), TxRoom - Len(tx))
  /\ UNCHANGED <<tx, rx, hLeft, hOut, hBegun, reading, hStale, hConnected, hDead, mode,
                 parser, connected, count, sender, toM3, links>>

\* ... and stores where it has written to.  If the rings were reset since it looked, that
\* is anywhere.
HostStore ==
  /\ hRoom >= 0 /\ hRoom' = -1
  /\ IF hStale THEN \E j \in Junk : Len(j) <= TxRoom /\ tx' = j
     ELSE tx' = tx \o SubSeq(hOut, 1, hRoom)
  /\ hOut' = SubSeq(hOut, hRoom + 1, Len(hOut))
  /\ hBegun' = (hBegun \/ hRoom > 0)
  /\ hStale' = FALSE
  /\ UNCHANGED <<rx, hLeft, reading, hConnected, hDead, mode, parser, connected, count,
                 sender, toM3, links>>

\* recvCommand reads the length byte: from then on it waits for the whole frame.
HostEnterRecv ==
  /\ ~hDead /\ ~hBusy /\ hOut = << >> /\ hGet = -1 /\ hIn # << >>
  /\ hBusy' = TRUE
  /\ UNCHANGED <<tx, rx, hLeft, writing, hIn, hGet, hStale, hConnected, hDead, mode,
                 parser, connected, count, sender, toM3, links>>

FrameRead == Len(hIn) >= 2 /\ Len(hIn) >= FrameSize(hIn[1])

\* A read it cannot serve from its buffer goes to the device, which reads the ring until
\* it has ReadCount bytes or finds none: a ringbuf_read looks what there is ...
HostLook ==
  /\ ~hDead /\ hOut = << >>
  /\ astray => Len(hIn) < MaxAstray
  /\ hGet = -2 \/ (hGet = -1 /\ IF hBusy THEN ~FrameRead ELSE hIn = << >>)
  /\ hGet' = Len(rx)
  /\ UNCHANGED <<tx, rx, hLeft, writing, hIn, hBusy, hStale, hConnected, hDead, mode,
                 parser, connected, count, sender, toM3, links>>

\* ... and stores where it has read to.  If the rings were reset since it looked, the bytes
\* are whatever the cells hold by now, and the position is anywhere, even for no bytes (and
\* so they are when StoreRoom met such a position meanwhile).
HostTake ==
  /\ hGet >= 0
  /\ IF hStale \/ hGet > Len(rx)
     THEN /\ \E j \in Junk : Len(j) = hGet /\ hIn' = hIn \o j
          /\ \E j \in Junk : Len(j) <= RxRoom /\ rx' = j
     ELSE hIn' = hIn \o SubSeq(rx, 1, hGet) /\ rx' = SubSeq(rx, hGet + 1, Len(rx))
  /\ hGet' = IF hGet > 0 /\ Len(hIn') < ReadCount THEN -2 ELSE -1
  /\ hBusy' = (hBusy \/ hGet > 0)
  /\ hStale' = FALSE
  /\ UNCHANGED <<tx, hLeft, writing, hConnected, hDead, mode, parser, connected, count,
                 sender, toM3, links>>

\* recvCommand returns; processCommand acts on the frame.  A telemetry frame of
\* another length makes struct.unpack raise, and nothing catches it.
HostProcess ==
  /\ ~hDead /\ hBusy /\ hGet = -1 /\ FrameRead
  /\ LET len == hIn[1]  cmd == hIn[2] IN
       /\ hIn' = SubSeq(hIn, FrameSize(len) + 1, Len(hIn))
       /\ hConnected' = IF cmd = CmdConnect THEN TRUE
                        ELSE IF cmd = CmdDisconnect THEN FALSE ELSE hConnected
       /\ hDead' = (cmd \in Range(Telemetry) /\ len # TelemetryLen)
  /\ hBusy' = FALSE
  /\ toHost' = IF astray THEN toHost ELSE SubSeq(toHost, 2, Len(toHost))
  /\ UNCHANGED <<hLeft, tx, rx, writing, hGet, hStale, mode, parser, connected, count, out,
                 room, astray, toM3, links>>
-----------------------------------------------------------------------------
\* The frames that tell the host whether it is connected.
Decides(f) == f[2] \in {CmdConnect, CmdDisconnect}

\* Once the program has read what is on its way to it, it thinks of the connection as the
\* firmware does.
OneMind ==
  /\ (\A i \in DOMAIN toHost : ~Decides(toHost[i])) => hConnected = connected
  /\ \A i \in DOMAIN toHost :
       Decides(toHost[i]) /\ (\A j \in DOMAIN toHost : j > i => ~Decides(toHost[j]))
         => connected = (toHost[i][2] = CmdConnect)

\* The STOP ioctl: the M3 is held in reset, wherever it is, under the feet of a program
\* that may be running; also when it hangs.
M3Stop ==
  /\ mode # "off" /\ mode' = "off"
  /\ room' = -1
  /\ UNCHANGED <<tx, rx, host, parser, connected, count, out, toHost, astray, toM3, links>>

\* The frames on their way to the host of which it has every byte: all there is to hIn.
WholeRead == {k \in 0 .. Len(toHost) : FlattenSeq(SubSeq(toHost, 1, k)) = hIn}

\* cmd_i = -1: the next byte is a length byte.
ParserReset == cmdI' = -1 /\ cmdLeft' = 0 /\ cmdLen' = 0 /\ cmdBuf' = << >>

\* The START ioctl and main's command_init: both rings are emptied, and the parser starts
\* at a length byte (what else it holds is not read again).  With a new image `connected'
\* and `count' start anew too; without one they keep what they held.
M3Boot ==
  /\ mode = "off" /\ mode' = "idle"
  /\ boots < MaxBoots /\ boots' = boots + 1
  /\ tx' = << >> /\ rx' = << >>
  /\ ParserReset
  /\ \/ connected' = FALSE /\ count' = 0
     \/ UNCHANGED <<connected, count>>
  /\ out' = << >> /\ room' = -1
  /\ hStale' = (hRoom >= 0 \/ hGet >= 0)
  /\ torn' = (hOut # << >> /\ (hBegun \/ hRoom >= 0))
  /\ toM3' = IF hOut = << >> \/ torn' THEN << >> ELSE <<hOut>>
  /\ astray' = (astray \/ hGet >= 0 \/ WholeRead = {})
  /\ toHost' = IF astray' THEN << >> ELSE SubSeq(toHost, 1, CHOOSE k \in WholeRead : TRUE)
  /\ UNCHANGED <<hLeft, writing, reading, hConnected, hDead>>
  /\ forgot' = ~OneMind'

\* command_send: three ringbuf_writes (the one of no bytes changes nothing).
Writes(frame) ==
  << <<frame[1]>>, <<frame[2]>> >>
  \o (IF Len(frame) = 2 THEN << >> ELSE << SubSeq(frame, 3, Len(frame)) >>)

Sending(frames) ==
  /\ out' = FlattenSeq([i \in 1 .. Len(frames) |-> Writes(frames[i])])
  /\ toHost' = IF astray THEN toHost ELSE toHost \o frames

\* connect_cmd and disconnect_cmd.
ConnectedAfter(cmd) == cmd = CmdConnect \/ (connected /\ cmd # CmdDisconnect)

\* The handler of a complete frame, found in cmd_map.
Dispatch(cmd) ==
  \/ /\ cmd >= CmdLimit
     /\ mode' = "hung"
     /\ UNCHANGED <<connected, out, toHost, forgot>>
  \/ /\ cmd < CmdLimit
     /\ mode' = "reply"
     /\ connected' = ConnectedAfter(cmd)
     /\ forgot' = (forgot /\ cmd \notin {CmdConnect, CmdDisconnect})
     /\ IF cmd \in CmdQuiet THEN UNCHANGED <<out, toHost>>
        ELSE Sending(<<Frame(IF cmd \in {CmdConnect, CmdDisconnect} THEN cmd
                             ELSE CmdError, << >>)>>)

\* command_process: at most the bytes counted on entry, and at most one frame.
\* The length byte is taken first; the frame may stay incomplete until a later tick.
\* (After a frame the code leaves the old bytes in cmd_buf and cmd_buf_len; nothing
\* reads them before the next frame overwrites them, so they are cleared here.)
CommandProcess ==
  /\ mode = "idle"
  /\ LET fresh == cmdI = -1
         avail == IF fresh THEN Len(tx) - 1 ELSE Len(tx)
         len == IF fresh THEN tx[1] ELSE cmdLen
         left == IF fresh THEN FrameLeft(len) ELSE cmdLeft
         n == MinOf(avail, left)
         taken == SubSeq(tx, Len(tx) - avail + 1, Len(tx) - avail + n)
         buf == IF fresh THEN taken ELSE cmdBuf \o taken
     IN IF tx = << >>
        THEN /\ mode' = "reply"
             /\ UNCHANGED <<tx, parser, connected, out, toHost, toM3, forgot>>
        ELSE /\ tx' = SubSeq(tx, Len(tx) - avail + n + 1, Len(tx))
             /\ cmdLeft' = left - n
             /\ IF left > n
                THEN /\ cmdI' = Len(buf) /\ cmdBuf' = buf /\ cmdLen' = len
                     /\ mode' = "reply"
                     /\ UNCHANGED <<connected, out, toHost, toM3, forgot>>
                ELSE /\ cmdI' = -1 /\ cmdBuf' = << >> /\ cmdLen' = 0
                     /\ toM3' = IF torn THEN toM3 ELSE Tail(toM3)
                     /\ Dispatch(buf[1])
  /\ UNCHANGED <<rx, host, count, room, astray, torn, boots>>

\* Mutation: command_send waits until the whole piece fits.
X_MeasureRoom ==
  /\ mode # "off" /\ out # << >> /\ room = -1
  /\ RxRoom - Len(rx) >= Len(Head(out))
  /\ room' = Len(Head(out))
  /\ UNCHANGED <<tx, rx, host, mode, parser, connected, count, out, toHost, astray,
                 toM3, links>>

\* ringbuf_write of the firmware, up to its memcpy: how much fits.
MeasureRoom ==
  /\ mode # "off" /\ out # << >> /\ room = -1
  /\ room' = MinOf(Len(Head(out)), RxRoom - Len(rx))
  /\ UNCHANGED <<tx, rx, host, mode, parser, connected, count, out, toHost, astray,
                 toM3, links>>

\* ... and to its end.  command_send ignores what ringbuf_write returns.  (The room is
\* gone only if a stale position was stored since; then the ring shows anything.)
StoreRoom ==
  /\ room >= 0
  /\ IF Len(rx) + room <= RxRoom THEN rx' = rx \o SubSeq(Head(out), 1, room)
     ELSE \E j \in Junk : Len(j) <= RxRoom /\ rx' = j
  /\ out' = Tail(out) /\ room' = -1
  /\ astray' = (astray \/ room < Len(Head(out)))
  /\ toHost' = IF astray' THEN << >> ELSE toHost
  /\ UNCHANGED <<tx, host, mode, parser, connected, count, toM3, links>>

\* send_log_data: a frame for each of the motors, with the same bytes here.
Burst(b) == [i \in 1 .. Len(Telemetry) |-> Frame(Telemetry[i], [j \in 1 .. TelemetryLen |-> b])]

\* control_update after command_process: a burst when connected, every Period ticks.
SendTelemetry ==
  /\ mode = "reply" /\ out = << >>
  /\ mode' = "telemetry"
  /\ IF connected /\ count = 0 THEN \E b \in TelemetryByte : Sending(Burst(b))
     ELSE UNCHANGED <<out, toHost>>
  /\ UNCHANGED <<tx, rx, host, parser, connected, count, room, astray, toM3, links>>

\* count++; the interrupt handler returns.
EndTick ==
  /\ mode = "telemetry" /\ out = << >>
  /\ mode' = "idle"
  /\ count' = (count + 1) % Period
  /\ UNCHANGED <<tx, rx, host, parser, connected, sender, toM3, links>>

HostWrite == HostMeasure \/ HostStore
HostRead == HostEnterRecv \/ HostLook \/ HostTake \/ HostProcess
M3Step == CommandProcess \/ MeasureRoom \/ StoreRoom \/ SendTelemetry \/ EndTick
Next == HostSend \/ HostWrite \/ HostRead \/ M3Stop \/ M3Boot \/ M3Step

\* The systick interrupt recurs and its handler runs to its end.  The host program
\* is a loop with no wait of its own, and a write that waits for room is retried.
Fairness == WF_vars(M3Step) /\ WF_vars(HostWrite) /\ WF_vars(HostRead)

Spec == Init /\ [][Next]_vars
FairSpec == Spec /\ Fairness
-----------------------------------------------------------------------------
\* The rings never hold more than their room, and the parser's index and remainder fit
\* cmd_buf.
TypeOK ==
  /\ tx \in Seq(Byte) /\ Len(tx) <= TxRoom
  /\ rx \in Seq(Byte) /\ Len(rx) <= RxRoom
  /\ hLeft \in 0 .. MaxFrames /\ hOut \in Seq(Byte) /\ hIn \in Seq(Byte)
  /\ hRoom \in -1 .. TxRoom /\ hGet \in -2 .. RxRoom /\ boots \in 0 .. MaxBoots
  /\ {hBegun, hBusy, hStale, hConnected, hDead, connected, torn, astray, forgot} \subseteq BOOLEAN
  /\ mode \in {"off", "idle", "reply", "telemetry", "hung"}
  /\ cmdI \in -1 .. ByteMax + 1 /\ cmdLeft \in 0 .. ByteMax + 1 /\ cmdLen \in Byte
  /\ cmdBuf \in Seq(Byte)
  /\ count \in 0 .. Period - 1
  /\ out \in Seq(Seq(Byte)) /\ room \in -1 .. RxRoom
  /\ toM3 \in Seq(Seq(Byte)) /\ toHost \in Seq(Seq(Byte))

\* The bytes of the frame the parser is in the middle of.
Parsed == IF cmdI = -1 THEN << >> ELSE <<cmdLen>> \o cmdBuf

\* Host to M3: what the parser holds, the ring and the unwritten rest are, byte for
\* byte, the frames sent and not yet acted on.  So the firmware acts on exactly the
\* frames sent, in order, however the writes are cut, however few bytes a tick finds and
\* whenever the M3 is restarted; the one exception is a restart while the program is
\* writing a frame, until the next restart that finds it writing none.
CommandFraming ==
  ~torn => Parsed \o tx \o hOut = FlattenSeq(toM3)

\* M3 to host: the same, as long as command_send has not dropped a byte and no restart has
\* emptied the ring with the program inside a frame or a read.
ReplyFraming ==
  ~astray => hIn \o rx \o FlattenSeq(out) = FlattenSeq(toHost)

\* The DASSERT that stops the whole firmware (motors at their last value) is only
\* reached when a reset of the rings made it read a frame from its middle.
HangsOnlyWhenTorn == mode = "hung" => torn

\* The exception of struct.unpack that ends the host program (the motors keep running) is
\* only reached when bytes it waited for were lost: whole telemetry has its length.
DiesOnlyWhenAstray == hDead => astray

\* Neither side stops for what the other sends whole.
StopsOnlyWhenBroken == HangsOnlyWhenTorn /\ DiesOnlyWhenAstray

\* What command_process dispatches is the command of the oldest frame sent, ...
FirmwareActsOnOldest ==
  [][CommandProcess /\ toM3' # toM3 =>
       toM3 # << >> /\ Dispatch(Head(toM3)[2]) /\ mode' = "reply" /\ toM3' = Tail(toM3)]_vars

\* ... and what recvCommand returns is the oldest frame the firmware sent.
HostActsOnOldest ==
  [][HostProcess /\ ~astray =>
       /\ toHost # << >> /\ Head(toHost) = SubSeq(hIn, 1, FrameSize(hIn[1]))
       /\ toHost' = Tail(toHost)]_vars

\* In each direction, frames come out as they went in.
StreamsFramed == CommandFraming /\ ReplyFraming

\* So the two sides see queues of whole frames: every answer is to the oldest frame sent.
Queues == INSTANCE Session WITH Bursts <- {Burst(b) : b \in TelemetryByte}
ImplementsSession == Queues!Spec

\* When nothing is in flight, both sides agree on whether they are connected, also across
\* restarts: unless bytes were torn or lost, they disagree only from a restart that made
\* the firmware forget the connection until it handles the next connect or disconnect.
Quiet == /\ mode = "idle" /\ cmdI = -1 /\ ~hBusy
         /\ tx = << >> /\ rx = << >> /\ hOut = << >> /\ hIn = << >>
ConnectionAgrees == Quiet /\ ~torn /\ ~astray /\ ~forgot => hConnected = connected

\* sendCommand always returns while the M3 runs: its tick empties the ring at least
\* one byte at a time, and never waits for the host (unless it hung or the host died).
WriteReturns == hOut # << >> ~> (hOut = << >> \/ mode \in {"off", "hung"} \/ hDead)

\* recvCommand always returns while the M3 runs, unless bytes of its frame were lost.
RecvReturns == hBusy ~> (~hBusy \/ astray \/ mode = "off")
=============================================================================
