# Verification of the quadcopter

TLA+ modules, TLC runs and TLAPS proofs for the software of the PandaBoard
quadcopter (`src/panda`), the programs that fly it (`src/panda/user`,
`src/controller/talk_module`) and the core of the earlier STM32 firmware
(`src/maple`).  `PROJECT.json` maps every definition to the lines
it models and lists the runs, the mutants, the hazards and the theorems.

## 1. The system

Linux runs on the Cortex-A9 of an OMAP4 and the flight firmware on one Cortex-M3
core of the same chip.  They share memory and nothing else: no mailbox, no lock.

| component | state it keeps | operations |
|---|---|---|
| shared ring buffer, `common/ringbuf.c` | two positions and the data in shared memory | `ringbuf_init`, `write`, `read`, `getc`, `putc`, `available_*` |
| command protocol, `m3/command.c`, `user/copter.py` | the parser's statics and `cmd_buf`, `connected` on both sides, two rings | `command_process`, `command_send`, the handlers; `sendCommand`, `recvCommand`, `processCommand` |
| flight control, `m3/control.c`, `m3/main.c` | `armed`, `throttle`, `calibrating`, the PIDs, the duty values | the systick (`control_update`), five command handlers, boot |
| sensors and i2c, `m3/sensors.c`, `m3/i2c.c` | offsets, `calibrate`, controller registers | `sensors_calibrate`, `sensors_get_data`, `i2c_tx_rx` |
| pwm, `m3/pwm.c` | four timers, four pins | `pwm_init`, `pwm_set`, one interrupt handler per motor |
| trace, `m3/debug.c` | one ring | `debug_printf`, `debug_init` |
| kernel module, `kmod/*.c` | the M3's resets, its MMU table, `firmware_enabled`, the image, a position per open file | insmod and rmmod, read, write, the STOP and START ioctls, firmware write and read |
| user programs, `user/*.py` | the throttle on the screen, the gains of the command line, the rest of an image | `start_m3.py`; the keys of `quad_status.py`; `set_motor.py` |
| ground station, `controller/talk_module` | one byte queue per socket | `client.loop`, `server.loop`, the callbacks |
| attitude, `m3/angle.c`, `vector.c`, `pid.c` | quaternions and sums in floating point | `angle_update`, `pid_update` |
| earlier firmware, `maple/*.c` | statics shared by a timer interrupt and the main loop, the frame parser's statics | `timer_intr`, the loop of `quadcopter_run`, `command_process` |
| `ducati`, `daemon`, `panda/a9`, `controller/*.py`, `kalman_test` | older experiments and front ends, not part of either firmware | |

Programs call the kernel module (ioctl, read, write); it moves bytes into and out
of the rings; the systick of the M3 polls the command ring, calls the handlers,
sets the timers, and answers through the reply ring; `debug_printf` writes the
trace ring, which the firmware device reads.  `start_m3.py` stops the M3, writes
the image and starts it; `quad_status.py` sends the gains and then a frame for each
key of the pilot; `set_motor.py` runs beside it.

The ground station's server runs on Linux too: `py_serv.py` receives the packets of
the joystick client `py_client.py` over TCP and calls `copter.Copter`, which writes
the command ring.

What is hard here: two processors share rings with no lock; frames and packets are
cut anywhere; pieces of replies are dropped when a ring is full; one side is reset
under the other and keeps its statics; an interrupt comes between any two statements
of a main loop; hardware acts between two looks at a status register; the system
calls of several processes take no lock; programs are killed half-way and run again,
the module is taken out and inserted again, and the memory keeps what was in it.

What makes each part correct:

| component | must hold |
|---|---|
| ring buffer | no cell accessed by both sides; a FIFO stream; no byte stuck |
| command protocol | frames acted on once, whole and in order; the parser in its buffer; neither side stuck; a reset or a full ring is the only thing that breaks framing |
| flight control | a disarmed quadcopter stays still; an armed motor stays in the safe range; the calibration is divided once; gains come from one tune command; what is armed has been tuned; the throttle in use is the one the pilot sees; the disarm key works |
| sensors, both firmwares | offsets are means of their own sensor's readings; at rest the readings are zero; the estimate never uses unwritten memory unless a read failed |
| i2c | a transfer that counts as good is whole; no access behind the buffer; no status left over |
| pwm | the pin follows the duty, whatever interrupts whom |
| kernel module, `start_m3.py` | the M3 is only released into one whole fresh image, with everything mapped; the image does not change under it; an image that fits is started |
| trace and printf | the reader gets what was printed; `debug_printf` prints what printf prints |
| ground station | each packet acted on and answered once, in order; no client starves another |
| earlier firmware | data shared with the interrupt is seen whole; every command is handled once |

## 2. The modules

`Fifo` is the abstract stream; `RingBuf` implements it (a PROPERTY of the run `ring`,
and a theorem).  `TraceRing` is made of two instances of `RingBuf` that differ in
their size; `CommandLink` uses two streams of the kind `RingBuf` implements, with the two
moments of a `ringbuf_write` and of a `ringbuf_read` kept apart: the other side goes on in
between, and a restart of the M3 may empty the rings there.
`Session` is the abstract protocol: two queues of whole frames, with commands acted on and
answered in order, off which a restart takes whole frames; `CommandLink` implements it (a
PROPERTY of the run `link`, and a theorem).
`Flight` EXTENDS `Control` with the programs of the other processor and the frames
under way between the two, a queue like the one `Session` promises; it implements `Control` with `Command` set to those
frames (a theorem).  `Numbers` is `Sensors`, `Printf` and an instance of `MapleSensors` side by
side, one of which is looked at, decided at the start; one run checks the three.
The others stand alone: what one gives another is an input there (the PID outputs of
`Control` are any integer of a set).

| module | code | state and steps |
|---|---|---|
| `RingBuf` | `common/ringbuf.c` | positions and cells; a call is begin, one step per byte moved (in any order, as memcpy may), end |
| `TraceRing` | `m3/debug.c` `debug_init`, `kmod/firmware.c` `firmware_init` | the same ring with the size each side gives it |
| `CommandLink` | `m3/command.c`, `user/copter.py`, `kmod/main.c` read and write | the parser's `cmd_buf_i`, `left`, `len`; both `connected`; the frames in flight as history. Host: send, partial write with retry, spin in `recvCommand`. M3: a tick with `command_process`, the three writes of `command_send`, the telemetry burst; `M3Stop` and `M3Boot` at any moment, again and again, with a new image or the old statics, while the host keeps what it has read, where it is in a frame or a ring, and its `connected` |
| `Session` | what `m3/command.c` and `user/copter.py` promise each other | a queue of frames each way, both `connected`, a boot that takes whole frames off them, and where the promise ends: a frame `torn` by a boot, bytes the program waits for gone `astray` |
| `Control` | `m3/control.c`, `set_motor` of `m3/main.c`, the calibration of `m3/sensors.c` | one systick cut wherever a STOP leaves a difference: sample, count, divide, estimate, four motors, a command, four motors of a disarm. `Load` brings a new image, `Start` boots without one. `Receive` is `command_process` for one whole frame |
| `Flight` | `user/quad_status.py`, `set_motor.py`, the senders of `copter.py` | the program's place (tune, gains, connect, keys), its `throttle`, the queue of frames. One action per key, kill and rerun at any moment; another program that sends short tune frames (`Other`); `FlightHandle` feeds `Receive` with the oldest frame; a boot empties the queue |
| `Sensors` | `m3/sensors.c`, what `m3/angle.c` is fed | `sensors_calibrate` in six steps (gyro's sum, accelerometer's sum, count, two divisions, the tests before), a restart between any two; reads that fail in any tick, sums and means, `(int16_t)` negation, taint of the estimate |
| `MapleSensors` | `maple/sensors.c` | the two calibration loops with reads that fail, the mean, the readings of a tick with the signs and the `int16_t` of each path |
| `Numbers` | these two and `Printf` | which of the three is looked at |
| `I2c` | `m3/i2c.c` | the poll loop against a controller that moves bytes, raises flags and fails between any two of its accesses |
| `Pwm` | `m3/pwm.c` | timers that count, overflow and match flags, handlers of two accesses that delay each other, `pwm_set` at any moment, M3 resets; a boot enables an interrupt before it initialises the timer, which runs on across a reset |
| `Kmod` | `kmod/main.c`, `firmware.c`, `mmu.c`, `user/start_m3.py` | STOP, START and the firmware write, one step per register access; insmod in its five steps with its failures, rmmod; `start_m3.py` as a program (`at`), a plain copy to the device beside it, by any number of processes whose calls interleave; file positions and the clipping at the end of the region |
| `Printf` | `m3/debug.c` (same text in `maple/debug.c`) | the scan of the format; conversions with the widths of C types, digit by digit; what printf prints for each item of a format (`Item`) |
| `Talk` | `controller/talk_module` | client rounds, sends, `loop`; server accept, `processCommand` in every round, blocking recv, callback with its blocking call on the copter, answer; clients that vanish |
| `Maple` | `maple/quadcopter.c`, `command.c`, `angle.c`, `sensors.c` | the timer interrupt between any two statements of the main loop, the two critical sections, bytes that trickle in |

An operator whose name begins with `X_` is a mutation: a bug the definition next to
it could have.  No specification uses one; `PROJECT.json` pairs each property of a
run with the mutation that breaks it.

## 3. The runs

| run | distinct states | shows |
|---|---|---|
| `ring` | 7 k | `NoDataRace`, `ImplementsFifo`, `Delivered` for a four-cell ring, calls of up to four bytes |
| `link` | 528 k | `StreamsFramed`, `ImplementsSession`, who may hang or die, and why (`StopsOnlyWhenBroken`), `ConnectionAgrees`, `WriteReturns`, `RecvReturns` |
| `control` | 1.65 M | firmware and pilot: `StoppedIsStill`, `ArmedIsSafe`, `CalibratedOnce`, `GainsOfOneTune`, `ThrottleAgrees`, `ArmedIsTuned`, `DisarmedDrivesNothing`, `DisarmStops` |
| `numbers` | 1.17 M | sensors: `OffsetIsMean`, `RestIsZero`, `EstimateClean`, and `MapleAtRest` for the earlier firmware; printf: `MatchesPrintf`, `InsideTheFormat` |
| `i2c` | 2.7 k | `BufferInBounds`, `SuccessIsWhole`, `NoStaleBits`, `TransferReturns` |
| `pwm` | 1.5 M | `PulseFollowsDuty`, `PulseBounded` |
| `kmod` | 344 k | `MappedWhileRunning`, `NoReloadWhileRunning`, `FreshStart`, `Starts` for two processes |
| `talk` | 827 k | `ActedInOrder`, `AnsweredInOrder`, `Answered` for two clients |
| `maple` | 49 k | `TelemetryOfOneTick`, `EstimatorWhole`, `FramesKept`, `CommandsHandled` |
| `trace_wrap` | violation | `TraceInOrder` |
| `talk_tune` | violation | `TuneInOrder` |
| `maple_zero` | violation | `GyroIsZeroed` |

Each module states its types as `TypeOK` (`TalkTypeOK`).  No run spends a property on it:
it is proved for `RingBuf`, `CommandLink`, `Talk`, `Control`, `Kmod`, `I2c`, `Pwm`, `Sensors`
and `Maple`, and elsewhere it documents the variables.  The order of the ring (`InOrder`) is likewise proved, and
implied by the refinement the run checks.

**What the properties except, and why.**  Histories single out what the code cannot
prevent.  `torn`: a boot emptied the command ring while the host was inside a frame, so the
parser begins in the middle of it (until a boot that finds the host outside one).  `astray`:
bytes the host waits for are lost, because `command_send` dropped them or because a boot
emptied the reply ring while the host was inside a frame or a `ringbuf_read`; nothing in the
protocol lets it find the next frame again.  `forgot`: a boot with a new image set the
firmware's `connected` to 0 and the program was not told; no telemetry comes until the
firmware handles the next connect.  `mixed`: a tune frame that is not nine floats
long came last; `tune_cmd` prints "invalid length for tune command" and reads nine floats
all the same (`control.c:69`), so that the gains it does not carry are what earlier commands
left in `cmd_buf`: the message sounds like a refusal and is none. `GainsOfOneTune` says what
gains can come of it and that nothing else mixes them.  `untuned`: the M3 was started armed (STOP and START keep `.data`) or under a
`quad_status.py` that had sent its gains already, so the PIDs have the zeros of `pid_init`
and the copter can fly on them.  `spoken`: a program that is run again displays 0 until it
sends a throttle, while the firmware keeps the old one.  `robbed`: insmod while the M3
runs empties its MMU table and sets `firmware_enabled` again, so that a plain copy changes
the image that is running.  `cut`: a STOP inside the calibration leaves its sums half
made, and the next start goes on with them.  The properties of `Pwm` are about the timers
the M3 serves (`Served`), from `intr_enable` on: while it is in reset nothing lowers a
pin.

The kernel module has no lock, and the comment "prevent reloading firmware while running"
(`kmod/main.c:126`) promises more than the code keeps with two processes.
`NoReloadWhileRunning` says exactly how much.  `late`: a write tests `firmware_enabled` and
then copies (`firmware.c:37-42`); if another process's START comes between the two, the
copy goes on into the image the M3 is already running.  `crossed`: a STOP and a START
overlap, so that the M3 ends up released with `firmware_enabled` set, either because
`firmware_enable` came after `firmware_disable`, or because START wrote an RSTCTRL back
that it had read before.  These two and `robbed` are the only ways; the property fails
without any one of them, as TLC shows.  `together`: two processes have been loading at the
same time, so that their images mix, and a START by one empties the table the other's M3
runs on; `FreshStart` and `MappedWhileRunning` are about one loader at a time, of many that
may follow one another.  A STOP by a process that no other is in the way of ends all four.

`failed`, `cuts` (of `Sensors`): a sensor one of whose calibration reads failed has an offset
with stack memory or the other sensor's reading in it, because `sensors_calibrate` ignores the
result (`sensors.c:96`); a STOP between a sum and the count, with a START of the same image,
makes a sample too many, and one between the last count and the end of the divisions leaves a
sum undivided.  Apart from that, `OffsetIsMean` still says how many readings there are, and
of which sensor.  `missed`: a read failed in flight, so that the estimate was fed what
the stack held (`control.c:154`).  `PlainChar` (of `Printf`): where plain char is unsigned,
as on both targets, `output_int` prints 255 for `%hhd` of -1 (`debug.c:97`), where printf
prints -1.  `test_printf.c:33` prints both for comparison, and on a machine with a signed char
finds no difference.  `MatchesPrintf` states it as its only exception, and the run takes char
as unsigned.

**The three disagreements.**  `trace_wrap`: `ringbuf.h` says that the memory must be
`size` + 8 bytes long, `ringbuf_init` takes the 8 out of `size`.  `firmware_init`
follows the comment and `debug_init` the code, so the two sides of the trace ring
differ by 8 bytes about where it wraps, and after the first lap the kernel reads other
cells than the firmware wrote.  `talk_tune`: `action_callback` hands `data[6]` on
twice, so every gain behind it reaches the parameter of the one before it.  `maple_zero`:
the comment on `calibrate_gyro` of the earlier firmware says "calculate zero for gyro", but
`sensors_get_data` turns the gyro's sign once more than the calibration did, so that a bias
is shown as minus twice itself instead of 0.

**Bounds, and why they are enough.**
- `ring`: four cells and calls of four bytes contain empty, full, wrap-around in either
  memcpy and a call longer than the room; five bytes go once around. The theorems remove
  all three bounds.
- `link`: a command ring of 2 bytes is smaller than the frame of 3, so a frame is written
  and parsed in pieces; a reply ring of 3 bytes overflows while the host is elsewhere; two
  frames let a connect and a disconnect, or an unknown command, cross with the telemetry of
  every second tick (25 in the code; the period only has to be longer than one tick). Bytes
  are 0..4, with one value past the command table. Two boots (`MaxBoots`): the second finds
  a program that is connected, inside a frame, or between the two steps of a ring call. A
  position looked at before a boot and stored after it leaves anything in the ring (`Junk`:
  nothing, or one of three strings, with the beginning of a frame of another length). A
  program that is astray gathers bytes up to `MaxAstray` and one read more. A read of the
  device goes on until it has `ReadCount` bytes (8192 in CPython's buffer) or finds none.
- `control`: duties 0..7 with the safe range 2..5; with the PID output -3 the mixer gives -3,
  3 and 9: below zero, in range, and above both limits (the gap between 0 and the minimum
  is left to the theorems, which take any integer).
  Two samples make the calibration's first, last and divided steps distinct. One key moves
  the throttle by 6: beyond the safe range, and two keys out of 16 bits, where
  `struct.pack` raises and the program ends. Two frames wait at most, so that a disarm can
  follow or precede anything; one tick takes one. One set of gains is enough to tell
  tuned from zero and whole from mixed; the short tune frame carries one float, and is sent
  while quad_status.py does not run (`ShortBeside`; the theorems drop that). The programs have their turn at rest and before
  the command step of a tick only: they change nothing the other steps look at.
- `numbers`, the sensors: readings of 3 bits with the most negative one; three samples; one
  restart inside a sample or a division (`MaxCuts`), any number of others. The theorems
  drop these bounds.
- `i2c`: a FIFO of 2 (64) with transfers of 1, 2, 4 and 5 bytes: shorter, as long,
  a multiple, and a multiple and a rest; calls of one and two transfers follow each other
  without end.
- `pwm`: the code's period is 96001 timer ticks and its pulses 38400 to 76800 long; the
  model's are 7, and 2 to 4. What matters is kept: a pulse and a gap are longer than an
  interrupt can be late (`Latency`, one unit, counted for each flag), and a tick sets motors much less often
  than once a period (two periods; four in the code). Two motors, because handlers only
  meet pairwise: each timer is delayed by the others and by nothing else.
- `kmod`: two processes, two ranges for the eight START maps (a table can be empty, half
  made and whole), a region of two pieces, an image that fills it and one that is too long,
  so that what is there can be half old, or mixed by two loaders; any number of calls,
  kills, loads and unloads of the module.  A variable of a call or an open file is cleared
  when the call returns or the file is closed.
- `numbers`, printf: an unsigned plain char; types of 3, 4, 5 and 7 bits, with arguments at their edges; formats of one
  conversion, `t` and `z` among its lengths, with a character or `%%` beside it, and of two;
  where an item ends in the format, the arguments and the output is part of the call
  (`cuts`).  And all 7381 strings of up to four of nine characters, enough for
  every path through `parse_specifier` and for a specifier cut off at each place; what
  printf prints for those is not known (no `cuts`), and the arguments missing for them
  are arbitrary (`Absent`).
- `talk`: one client tunes and makes a round with a button while another tunes; streams
  are cut at every byte. `MaxRounds` bounds the rounds.
- `maple`: two stamps tell new readings from old ones; two frames out of four kinds;
  a buffer that just holds the longest, as `cmd_buf` does.

Only history variables grow without a bound of the code's own; they are bounded by the
number of bytes, frames or rounds sent (`MaxBytes`, `MaxFrames`, `MaxRounds`, `MaxSent`)
or by the calibration (`gyros`, `accels`).  No run uses symmetry.

**Fairness, and why the code has it.**  `ring`: a call that has begun returns, and the
reader polls (the systick, or a Python loop); a poll that finds bytes is strongly fair
because the writer may be slower than it. Nothing makes the writer write. `link`: the
systick recurs while the M3 runs; `sendCommand` retries what a short write left; the host
is in its receive loop. `control`: the systick comes again as long as the M3 runs (WF of
`FlightTick`); no program and no key is fair. `kmod`: a program that is not killed goes
on with its calls, whatever the others do; the operator owes nothing. `i2c`: the driver
spins, and the controller reports something in the end; one that is silent hangs the
code, which has no timeout. `talk`: the server goes on with its own loop, and that is all.
No call on the copter has to return (a write blocks while the command ring is full,
`recvCommand` spins while half a reply is there), and no client has to send or to leave,
so a server kept for ever in one of those calls, or in the blocking recv of a client that
says nothing, is a behaviour of the model; `Answered` says that nothing else puts a client
off. `maple`: interrupts leave the main loop
time, and the line delivers. `numbers` and `pwm` claim no liveness.

**Deadlock** is checked except in `link` (a failed DASSERT stops the firmware until a
restart, and the bounds on frames and boots stop the rest), `numbers` (the call of printf returns), `talk` and
`talk_tune` (the server dies, or waits for clients that say nothing more).

**External parts** are marked in the map: the OMAP4's timers (they match when the counter
arrives at the match register, not when the register is written behind it), its I2C
controller (it raises RDR no later than ARDY, and nothing after an error), the STM32's
USART (it loses nothing), TCP (in order, cut anywhere), and the user. Memory accesses of
one processor are seen in program order by the other: the rings are mapped with ioremap
and the M3 does not reorder. Two processes may load and start the M3 at once (`Kmod`); the
rings have one host program at a time. An operator removes
the module only while no device is open (it has no `.owner`, so the kernel would not wait).

## 4. What is proved

TLAPS checks these for every value of the constants, under the ASSUMEs of the modules.
TLC checked each inductive invariant on the instance of its run before it was proved.

| proof module | about | theorems |
|---|---|---|
| `RingBufProofs` | `RingBuf` | types, race freedom, counts, order, the refinement of `Fifo` |
| `FramingProofs` | `CommandLink`, `Talk` | framing both ways, hangs, connections, each side acts on the oldest frame; the refinement of `Session`; packets and answers in order |
| `FlightProofs` | `Control`, `Flight` | the motors, the calibration, the gains; the refinement of `Control`, throttle, tuning |
| `KmodProofs` | `Kmod` | mapping, no reload, fresh start |
| `PwmProofs` | `Pwm` | the pin follows the duty, the length of a pulse |
| `I2cProofs` | `I2c` | the buffer, what counts as good, no stale status |
| `NumberProofs` | `Sensors`, `MapleSensors`, `Printf` | means, rest, clean data; digits, scan and output of printf |
| `MapleProofs` | `Maple` | critical sections, frames |

`RingBufProofs` (`SizeAssumption`: at least one cell; `CallAssumption`; `ByteAssumption`):
`TypeOK`, `NoDataRace`, `CountsExact`, `InOrder` and the refinement of `Fifo`.  None of
these is inductive: that a byte is delivered right depends on what the cells between the
positions hold and on how far each memcpy is.  The invariant adds three facts.
`ContentInv`: the unread cells hold the undelivered part of the stream.  `WriterInv`: the
call under way fits the free cells, and what it has moved is in its place.  `ReaderInv`:
the same for the reader.  The argument is that of a single-producer, single-consumer
ring: free cells can only become more while the writer is in a call, unread ones only
more while the reader is, since each position has one owner; `FreeNotUnread` and
`CellInjective` say that the two sets of cells do not meet at any wrap-around.

`FramingProofs` is about two streams, and proves for both that frames come out as they
went in.  The properties say so with `FlattenSeq`, the bytes of a sequence of frames,
which the community modules define by recursion.  Its values are computed here by an
induction whose predicate is a set (`SetInduction`, `SeqInduction`; the reason it holds is
that a finite set has no injection into a smaller one), and from it follow the laws the
steps need: `FlatAppend`, `FlatConcat`, `FlatFirst`, `FlatFlat`.

- `CommandLink` (`RoomAssumption`, rings of any size, even none, and any number of frames;
  `FrameAssumption`, a host's frame says its own length and has a command of the table, and
  the `e` of an unknown command is none of the two that connect, telemetry none of the
  three answers): `TypeOK`, `StreamsFramed`, `StopsOnlyWhenBroken`,
  `ConnectionAgrees`, the refinement of `Session`, and two action properties no run names: the command the firmware
  dispatches is that of the oldest frame sent (`FirmwareActsOnOldest`), the frame
  `recvCommand` returns is the oldest one the firmware sent (`HostActsOnOldest`).
  `ParserInv` ties `cmd_buf_i` and `left` to what `cmd_buf` holds; with framing it follows
  that the length byte the parser reads is that of the oldest frame under way, so that
  the frame it completes is that frame and its command is in the table (`WholeFrame`,
  `DispatchLink`).  `SenderInv`: the room `command_send` measured can only have grown.
  `ConnInv` (`OneMind`, unless a boot `forgot`) is what makes `ConnectionAgrees` inductive: the last frame under way that
  decides the connection says what the firmware thinks, and without one the two agree.
  `DeadInv` says that every frame under way to the host is one `struct.unpack` takes,
  which with framing is why the host program does not die.
  For `Session` (`SessionImplemented`) each step is one of its steps or none: what passes
  between a program and a ring is none; the step that completes a frame is `Act`, and it
  acts on the head of the queue by `WholeFrame`, as `Receive` does by `FrameCut`; a boot
  leaves the last frame to the M3 if nothing of it is written yet (`LastInv`: it is what the
  host has still to write) and of those to the host the ones it has read (`ReadWhole`).
  `HostInv` is about the two steps of the host's ring calls: what it measured is still so,
  or it is `hStale` and the frame torn or the bytes astray.
- `Talk` (`RoundsAssumption`, any clients and any number of rounds): `TalkTypeOK`,
  `ActedInOrder`, `AnsweredInOrder`.  `StreamInv`: what the server acted on, buffers and has
  not received is what the client sent, less what was lost with a client that left.
  `AnswerInv`: what a client's `loop` returned, buffers and has not received are the answers
  to the packets acted on.

`FlightProofs`, first part (of `Control`: `0 < ThrottleMin <= ThrottleMax <= PwmMax`, PID
outputs integers, frames of the command type, nine floats in a tune frame of the right length): `TypeOK`, `StoppedIsStill`, `ArmedIsSafe`,
`CalibratedOnce`, `GainsOfOneTune` and the action property `DisarmedDrivesNothing`.  The
strengthening is `StepInv` (what the motors hold while four are written one by one),
`CalibrationInv` (how the statics that survive a restart relate to the sums) and, for the
gains, `BufferInv` (what is in `cmd_buf` comes from frames); a second invariant, `Reset`, says that no tick is under way while the M3 is in reset.

Second part (besides those assumptions: `KeyAssumption`, keys that move the throttle;
`GainAssumption`, no gain on the command line is the zero `pid_init` writes;
`FrameAssumption`, the commands are the frames of the two programs and the short tune frames
of others; `ShortAssumption`, these have less than nine floats): `FlightSpec`
implements the `Spec` of `Control`, hence all its safety properties hold in a flight with
any queue length, any key step and any gains (`FlightIsSafe`); `ThrottleAgrees`; and
`ArmedIsTuned`.  The last two are about what is still under way.  `ThrottleInv`: the last
throttle frame in the queue carries the throttle on the screen and, if there is none, the
firmware has it already.  `TunedInv`: as long as the last gain is zero the copter is not
armed, every arm frame has a whole tune frame before it, and a program past its first frame
has one in the queue; a boot empties the queue, and marks `untuned` what it breaks.  A short
tune frame may change gains but does not bring the last one back to zero (`NinthInv`).

`MapleProofs` (`MapleAssumption`: a frame says its own length and fits `cmd_buf`):
`TypeOK`, `TelemetryOfOneTick`, `EstimatorWhole` and `FramesKept`.  For the critical
sections the invariant says that interrupts are masked exactly inside them, and what each has
done so far.  For the frames, `StreamInv` lays those not yet handled over the bytes on
their way and in the receive buffer, each behind a position; so nothing has to be
flattened, and no induction is needed. Taking bytes moves the positions down, handling a
frame drops the first one, and `BufferInv` says that `cmd_buf` holds what is in front.

`KmodProofs` (`RegionAssumption`, `LengthAssumption`, `SizeAssumption`: at least one
range, one piece of region and one piece of every image): `TypeOK` for any number of
processes, hence no copy leaves the region; and, also for any number, `NoReloadWhileRunning`,
`MappedWhileRunning` and `FreshStart`.  `Private` is what a process knows whatever others
do: where its call stands in its program, and that position plus rest is the size of its
image.  `FlagInv` is what `firmware_enabled` guards whoever calls: while it is cleared,
whoever is in a copy passed the check before (`late`); and unless a STOP overlaps a START,
it is cleared from `firmware_disable` until a STOP has put the M3 back into reset.
`SoloInv` is what holds while at most one process is loading: the M3 is in reset from STOP
to START, the register still holds what was read of it, the table is as far as the loop
has come, and the pieces below the position are the image's own.

`I2cProofs` (`I2cAssumption`: a FIFO of at least one byte, transfers of at least one):
`TypeOK`, `BufferInBounds`, `SuccessIsWhole`, `NoStaleBits`.  The driver compares nothing
with its count, so the invariant is about the controller's bits: `BitInv` says that one
which is `Pending` still means, when the driver gets to it, what it meant when it was
raised (XRDY a whole FIFO of room and of bytes, XDR less, RRDY a full FIFO, RDR the rest;
ARDY a moved transfer whose rest, if any, RDR announces); `CountInv` says that every byte
is on the bus, in the FIFO or in the buffer; `ServedFacts` is the order of the loop's tests.

`NumberProofs`, of `Sensors` (`SensorsAssumption`: at least one sample, readings of `Width`
bits): `TypeOK`, `OffsetIsMean`, `RestIsZero` and `EstimateClean`, for any number of samples,
restarts and readings.  `GyroInv` and `AccelInv`: if no read of the sensor failed, its sum is the
`Sum` of its readings, of which there are as many as samples counted, one more while this
tick's is added and not counted, and at most one for each restart that cut a sample;
`SumAppend` is what a sample needs of `Sum`, a recursive function, and `UniformSum` what
`RestIsZero` does.  `CalibrationInv` relates the counter and the step, and `DividedInv` says
that nothing is divided twice, and that nothing is left undivided unless a restart cut in.
Of `MapleSensors`, in `Numbers`: `MapleAtRest`, by the same sums (`MapleInv`).
`PartsAreAlone` carries the theorems about `Spec` and `ScanSpec` over to `PartsSpec`, which
the run checks.

Of `Printf`, for types of any width (`ProgramsAssumption`, the types of formats
and arguments; `BufferAssumption`: the largest number of `CONV_BUF_SIZE - 1` digits of base 8,
10 and 16 is no less than any value of any type, 64 characters for 64 bits):
- `ConversionsRight`: a conversion of any argument in any type is its numeral, with all its
  digits and none in front, behind the sign if it has one; and `ConversionsFit`: it does not
  overrun its buffer, the sign of the least value included. `IsNumeral` says what a numeral
  is by its value, the code's loop (`Converted`) makes it from the last digit to the first.
  `LoopRight` is the induction over the room that is left: the loop's digits are a numeral
  of the number (`MoreDigits`), and the number has no other, because without its last digit
  any numeral is one of the number divided by the base.
- `MatchesPrintf` (`PrintsAsPrintf`), with `ItemsAssumption`: a call of which it is known what
  printf prints is made of items, from cut to cut, each a character, a `%%` or a conversion
  with its argument, and the output of each is the one C describes (`Conversion`), or the
  unsigned number in the exception `PlainChar`; `SameSign` is why there is no other: a value
  that is not negative as a signed char is the same as an unsigned one.
  `MatchInv`: in text, a cut is reached and everything up to it printed; in a specifier,
  as many letters of its modifier are behind `at` as the modifier says (`Begun`). `Spelling`
  is what each next letter makes of it.
- `InsideTheFormat`, for any format and arguments (`ScanInv`).

`PwmProofs` (`PwmAssumption`: a pulse, and the gap behind the longest, last longer than an
interrupt waits; `TickAssumption`: a tick sets its duties within the gap behind a pulse,
and ticks are further apart than a period and the longest pulse): `TypeOK`,
`PulseFollowsDuty` and `PulseBounded`, for any number of timers, any duties and
any `Latency`.  A timer whose duty is settled is in one of four phases, `Rising`, `High`,
`Falling`, `Low`, by its counter, its flags and its pin.  The difficult step is a match
that arrives while the handler of the overflow runs, or the reverse: `HandlerInv` keeps
the pin with the flags read, and says a match the handler has not read came no longer ago than
what it has read; so the timer cannot overflow before that handler is done.  For the length of
a pulse, `HighInv`: a pulse that began before the last overflow belongs to a tick that is over
and not long ago, so no second tick can make it miss another match; and as long as a tick
has more to set, the pin of a timer it has set is not up late in the period.

Only model-checked:
- all liveness (`Delivered`, `WriteReturns`, `RecvReturns`, `DisarmStops`, `Starts`,
  `TransferReturns`, `CommandsHandled`, `Answered`): fairness and ENABLED are out of the
  prover's reach;
- the three violations, which are single behaviours.

Two limits shaped the proofs.  The library's induction theorems take an operator as a
parameter and no installed prover can instantiate them; `SetInduction` takes a set in its
place, and `PathExists`, proved with it, is why the recursive functions over a range of
numbers (`Value`, `Converted`) are what they are defined to be.  And nothing is known of `^`:
that a power of two is positive (`PowerPositive`) and less than the next (`PowerOrder`) comes
from the subsets of a finite set.

## 5. Not modelled

- Floating-point arithmetic (`angle.c`, `vector.c`, `pid.c`): replaced by the set of
  values its results may take, and by whether the data behind it was written at all.
- Device set-up that is a list of register writes (`uart.c`, `sensors_init`, `i2c_init`
  beyond the state it leaves, page-table layout), and message wording.
- `control.c:188` sends the motor variables with `sizeof(int)`; the payload bytes are a
  member of a small set in `CommandLink`.
- That a read of the control device asks the ring for 512 bytes whatever is left of the
  count (`kmod/main.c:43`), and so may overrun the caller's buffer: `HostTake` takes what
  `HostLook` found, and the buffer of copter.py's file object has room for it.
- Two host programs on the control device at once, and a host program run again on what
  another left in the rings; `Flight` has the rerun of programs, with whole frames.
- The integral of `pid_update` and the conversion of its output to int: `PidOut` is any
  set of integers. The fault handlers, which only stop the firmware. Priorities of single
  interrupts: `intr_set_priority` is never called.
- `maple`: the motor command, the magnetometer's turn, the set-up of the Bluetooth module.
- `client.loop` of the ground station leaves packets behind in its buffer (`if` where the
  server has `while`): `Talk` has these states, no document promises otherwise.
- Words of a trace message lost because main and the systick print at the same time.
- `src/ducati`, `src/daemon`, `src/panda/a9`, `src/kalman_test` and the front ends in
  `src/controller`: older or standalone, see the components in `PROJECT.json`.
- Nothing disarms the motors when commands stop arriving; no document promises it, so
  there is no property, but the models show it: `Control` has no such step.

## 6. Plan

Done, in the order of importance: `RingBuf`, `CommandLink`, `Control` and `Flight`,
`Kmod` with module load and unload, `Pwm`, `I2c`, `Sensors` and `MapleSensors`, `Talk`,
`Maple`, `Printf`; the proofs of every safety property of every passing run.

Left, as a run of a module that exists: `Printf` with the DASSERT format, whose `%s` is not
written.

Left, as modules: the magnetometer's turn and the motor command of the earlier firmware;
the trace with main and the systick as two writers; a ring with two writing processes.

Left, as proofs: the streams of `CommandLink` by `RingBuf`; `Flight` and `Session` as one
system, whose queue they share; safety that liveness rests on, such as that a frame
in a ring is never left without a tick that finds it.
