-------------------------------- MODULE Kmod --------------------------------
(***************************************************************************)
(* Loading, starting and stopping the Cortex-M3: the kernel module with    *)
(* its two devices (panda/kmod/main.c, firmware.c, mmu.c), the program     *)
(* that uses them (panda/user/start_m3.py) and the operator, who inserts   *)
(* and removes the module and runs and kills the program at any moment.    *)
(*                                                                         *)
(* No lock is taken anywhere: ioctl is unlocked_ioctl, so the calls of two *)
(* processes interleave at every access to a register, to the page table   *)
(* and to firmware_enabled.  The module has no .owner, so rmmod does not   *)
(* wait for the devices to be closed; the operator modelled here does.     *)
(*                                                                         *)
(* What goes wrong when two processes load and start the M3 at once is not *)
(* left out: the four variables called histories below say when it has,    *)
(* and each property names the one it is excused by.                       *)
(***************************************************************************)
EXTENDS Naturals, Sequences

CONSTANTS
  Proc,      \* the Linux processes that use the devices
  Regions,   \* the ranges START maps, in the order of the code, as a sequence
  Length,    \* QUADCOPTER_FIRMWARE_LENGTH, in pieces of an image
  Version,   \* the images there are
  Size       \* the pieces of each

ASSUME RegionAssumption == Regions \in Seq(STRING) /\ Len(Regions) > 0
ASSUME LengthAssumption == Length \in Nat \ {0}
ASSUME SizeAssumption == Size \in [Version -> Nat \ {0}]

VARIABLES
  at,         \* where each process is in its program
  pc,         \* ... and in the system call it makes; "user" in none
  reg,        \* the value of RM_MPU_M3_RSTCTRL it read
  arg,        \* progress of its call: pieces to copy, ranges mapped
  ver, left,  \* its image ("none" when it has none open), and the pieces not written yet
  fpos,       \* f_pos of its firmware device, in pieces
  module,     \* how far insmod has come: out, ctrl, mmu, fw, in
  resets,     \* RM_MPU_M3_RSTCTRL: the resets asserted
  table,      \* the ranges with an entry in the MMU table
  mmuOn,      \* TTB and CNTL are set
  enabled,    \* firmware_enabled
  image,      \* the firmware region: which piece of which image, or Nothing
  dirty,      \* the pieces the M3 has written to since: its statics
  robbed,     \* history: insmod has emptied the table of a running M3
  late,       \* history: who still copies, though START has forbidden it meanwhile
  crossed,    \* history: a STOP and a START of two processes have overlapped
  together    \* history: two processes have been loading at the same time

program == <<at, ver, left, fpos>>
call == <<pc, reg, arg>>
mmu == <<resets, table, mmuOn>>
region == <<image, dirty>>
history == <<robbed, late, crossed, together>>
vars == <<program, call, module, mmu, enabled, region, history>>

Nothing == <<"none", 0>>
Running == "cpu" \notin resets
Ranges == {Regions[i] : i \in 1 .. Len(Regions)}

\* The calls a process can be in, and whether its program has not started the M3 yet.
Stopping == {"stop_read", "stop_write", "stop_enable"}
Writing == {"fw_check", "fw_copy"}
Starting == {"mmu_init", "mmu_map", "mmu_read", "mmu_write", "mmu_on", "fw_disable",
             "cpu_read", "cpu_write"}
Loading(p) == at[p] \in {"opened", "copying", "stopped"}
Somebody(calls) == \E p \in Proc : pc[p] \in calls
-----------------------------------------------------------------------------
\* The board has booted: the module is out, the M3 and its MMU are in reset.
Init ==
  /\ at = [p \in Proc |-> "closed"] /\ pc = [p \in Proc |-> "user"]
  /\ reg = [p \in Proc |-> {}] /\ arg = [p \in Proc |-> 0]
  /\ ver = [p \in Proc |-> "none"]
  /\ left = [p \in Proc |-> 0] /\ fpos = [p \in Proc |-> 0]
  /\ module = "out"
  /\ resets = {"cpu", "mmu"} /\ table = {} /\ mmuOn = FALSE /\ enabled = TRUE
  /\ image = [i \in 1 .. Length |-> Nothing] /\ dirty = {}
  /\ robbed = FALSE /\ late = {} /\ crossed = FALSE /\ together = FALSE

Goto(p, from, to) == pc[p] = from /\ pc' = [pc EXCEPT ![p] = to]
Enter(p, from, to) == at[p] = from /\ at' = [at EXCEPT ![p] = to]
Leave(p, to) ==   \* its image and its firmware device are closed
  /\ at' = [at EXCEPT ![p] = to]
  /\ ver' = [ver EXCEPT ![p] = "none"]
  /\ left' = [left EXCEPT ![p] = 0] /\ fpos' = [fpos EXCEPT ![p] = 0]
-----------------------------------------------------------------------------
\* insmod: quadcopter_init registers the control device, ...
InsertCtrl ==
  /\ module = "out" /\ module' = "ctrl"
  /\ enabled' = TRUE
  /\ UNCHANGED <<program, call, mmu, region, history>>

\* ... calls mmu_init, whatever the M3 is doing, ...
InsertMmu ==
  /\ module = "ctrl" /\ module' = "mmu"
  /\ table' = {} /\ robbed' = (robbed \/ Running)
  /\ UNCHANGED <<program, call, resets, mmuOn, enabled, region, late, crossed, together>>

\* ... and gives up if the memory region is taken or the second device fails, ...
InsertFails ==
  /\ module = "mmu" /\ module' = "out"
  /\ UNCHANGED <<program, call, mmu, enabled, region, history>>

\* ... or else registers the firmware device, ...
InsertFirmware ==
  /\ module = "mmu" /\ module' = "fw"
  /\ UNCHANGED <<program, call, mmu, enabled, region, history>>

\* ... and only then maps the firmware region.
InsertPointers ==
  /\ module = "fw" /\ module' = "in"
  /\ UNCHANGED <<program, call, mmu, enabled, region, history>>

\* rmmod: quadcopter_exit.  The M3 is left as it is.
Remove ==
  /\ module = "in" /\ module' = "out"
  /\ \A p \in Proc : at[p] = "closed"
  /\ UNCHANGED <<program, call, mmu, enabled, region, history>>

Operator == \/ InsertCtrl \/ InsertMmu \/ InsertFails \/ InsertFirmware
            \/ InsertPointers \/ Remove
-----------------------------------------------------------------------------
\* start_m3.py opens the firmware device, then the control device, and an image; a
\* plain copy to the firmware device does no more than open that.
Open(p) ==
  /\ module \in {"fw", "in"} /\ pc[p] = "user"
  /\ Enter(p, "closed", "opened") \/ Enter(p, "closed", "copying")
  /\ \E v \in Version : /\ ver' = [ver EXCEPT ![p] = v]
                        /\ left' = [left EXCEPT ![p] = Size[v]]
  /\ fpos' = [fpos EXCEPT ![p] = 0]
  /\ together' = (together \/ \E q \in Proc \ {p} : Loading(q))
  /\ UNCHANGED <<call, module, mmu, enabled, region, robbed, late, crossed>>

\* A program ends, or is killed between two system calls.
Close(p) ==
  /\ pc[p] = "user" /\ at[p] # "closed"
  /\ Leave(p, "closed")
  /\ UNCHANGED <<call, module, mmu, enabled, region, history>>

\* Every read-modify-write of RSTCTRL is an ioread32 and, later, an iowrite32.
ReadResets(p, from, to) ==
  /\ Goto(p, from, to)
  /\ reg' = [reg EXCEPT ![p] = resets]
  /\ UNCHANGED <<program, arg, module, mmu, enabled, region, history>>

WriteResets(p, from, to, value) ==
  /\ Goto(p, from, to)
  /\ resets' = value /\ reg' = [reg EXCEPT ![p] = {}]
  /\ UNCHANGED <<arg, module, table, mmuOn, enabled, region>>
-----------------------------------------------------------------------------
\* ioctl QUADCOPTER_STOP: mmu_disable_m3, then firmware_enable.
StopCall(p) ==
  /\ at[p] = "opened"
  /\ Goto(p, "user", "stop_read")
  /\ crossed' = (crossed \/ Somebody(Starting))
  /\ UNCHANGED <<program, reg, arg, module, mmu, enabled, region, robbed, late, together>>
StopRead(p) == ReadResets(p, "stop_read", "stop_write")
StopWrite(p) ==
  /\ WriteResets(p, "stop_write", "stop_enable", reg[p] \cup {"cpu"})
  /\ robbed' = FALSE
  /\ crossed' = (crossed /\ Somebody(Starting))
  /\ together' = (together /\ \E q \in Proc \ {p} : Loading(q))
  /\ UNCHANGED <<program, late>>
FirmwareEnable(p) ==
  /\ Goto(p, "stop_enable", "user")
  /\ Enter(p, "opened", "stopped")
  /\ enabled' = TRUE
  /\ UNCHANGED <<ver, left, fpos, reg, arg, module, mmu, region, history>>

\* write on the firmware device, of the rest of the image or of a buffer's length of
\* it: the check, which clips the count to the region or ends the program, ...
WriteCall(p) ==
  /\ at[p] \in {"stopped", "copying"} /\ left[p] > 0
  /\ Goto(p, "user", "fw_check")
  /\ \E count \in 1 .. left[p] : arg' = [arg EXCEPT ![p] = count]
  /\ UNCHANGED <<program, reg, module, mmu, enabled, region, history>>
X_Clip(p) ==    \* mutation: the last piece counts as outside
  IF fpos[p] + arg[p] >= Length THEN Length - fpos[p] - 1 ELSE arg[p]
Clip(p) == IF fpos[p] + arg[p] > Length THEN Length - fpos[p] ELSE arg[p]
WriteCheck(p) ==
  /\ pc[p] = "fw_check"
  /\ IF enabled
     THEN /\ pc' = [pc EXCEPT ![p] = "fw_copy"]
          /\ arg' = [arg EXCEPT ![p] = Clip(p)]
          /\ UNCHANGED program
     ELSE /\ pc' = [pc EXCEPT ![p] = "user"]
          /\ arg' = [arg EXCEPT ![p] = 0]
          /\ Leave(p, "closed")
  /\ UNCHANGED <<reg, module, mmu, enabled, region, history>>

\* ... and the copy, piece by piece.  The program calls again while anything is left.
WriteCopy(p) ==
  /\ pc[p] = "fw_copy" /\ module = "in" /\ arg[p] > 0
  /\ image' = [image EXCEPT ![fpos[p] + 1] = <<ver[p], Size[ver[p]] - left[p] + 1>>]
  /\ dirty' = dirty \ {fpos[p] + 1}
  /\ fpos' = [fpos EXCEPT ![p] = @ + 1]
  /\ left' = [left EXCEPT ![p] = @ - 1]
  /\ arg' = [arg EXCEPT ![p] = @ - 1]
  /\ UNCHANGED <<at, ver, pc, reg, module, mmu, enabled, history>>
WriteReturn(p) ==
  /\ arg[p] = 0
  /\ Goto(p, "fw_copy", "user")
  /\ late' = late \ {p}
  /\ UNCHANGED <<program, reg, arg, module, mmu, enabled, region, robbed, crossed, together>>

\* Before insmod has mapped the region the copy is a kernel fault, which ends the
\* process.
WriteFault(p) ==
  /\ module # "in" /\ arg[p] > 0
  /\ Goto(p, "fw_copy", "user")
  /\ Leave(p, "closed") /\ arg' = [arg EXCEPT ![p] = 0]
  /\ late' = late \ {p}
  /\ UNCHANGED <<reg, module, mmu, enabled, region>>
  /\ UNCHANGED <<robbed, crossed, together>>
-----------------------------------------------------------------------------
\* ioctl QUADCOPTER_START, once the whole image is written: mmu_init zeroes the table,
X_StartCall(p) ==   \* mutation: START before the file object has written the rest
  /\ at[p] = "stopped"
  /\ Goto(p, "user", "mmu_init")
  /\ crossed' = (crossed \/ Somebody(Stopping))
  /\ UNCHANGED <<program, reg, arg, module, mmu, enabled, region, robbed, late, together>>
StartCall(p) ==
  /\ at[p] = "stopped" /\ left[p] = 0
  /\ Goto(p, "user", "mmu_init")
  /\ crossed' = (crossed \/ Somebody(Stopping))
  /\ UNCHANGED <<program, reg, arg, module, mmu, enabled, region, robbed, late, together>>
MmuInit(p) ==
  /\ Goto(p, "mmu_init", "mmu_map")
  /\ table' = {} /\ arg' = [arg EXCEPT ![p] = 0]
  /\ UNCHANGED <<program, reg, module, resets, mmuOn, enabled, region, history>>

\* ... the ranges are mapped one after the other, ...
X_MmuMap(p) ==   \* mutation: the last range is left out
  /\ pc[p] = "mmu_map"
  /\ table' = table \cup {Regions[arg[p] + 1]}
  /\ IF arg[p] + 2 < Len(Regions)
     THEN arg' = [arg EXCEPT ![p] = arg[p] + 1] /\ UNCHANGED pc
     ELSE arg' = [arg EXCEPT ![p] = 0] /\ pc' = [pc EXCEPT ![p] = "mmu_read"]
  /\ UNCHANGED <<program, reg, module, resets, mmuOn, enabled, region, history>>
MmuMap(p) ==
  /\ pc[p] = "mmu_map"
  /\ table' = table \cup {Regions[arg[p] + 1]}
  /\ IF arg[p] + 1 < Len(Regions)
     THEN arg' = [arg EXCEPT ![p] = arg[p] + 1] /\ UNCHANGED pc
     ELSE arg' = [arg EXCEPT ![p] = 0] /\ pc' = [pc EXCEPT ![p] = "mmu_read"]
  /\ UNCHANGED <<program, reg, module, resets, mmuOn, enabled, region, history>>

\* ... mmu_enable takes the MMU out of reset and switches it on, ...
MmuRead(p) == ReadResets(p, "mmu_read", "mmu_write")
MmuWrite(p) ==
  /\ WriteResets(p, "mmu_write", "mmu_on", reg[p] \ {"mmu"})
  /\ UNCHANGED <<program, history>>
MmuOn(p) ==
  /\ Goto(p, "mmu_on", "fw_disable")
  /\ mmuOn' = TRUE
  /\ UNCHANGED <<program, reg, arg, module, resets, table, enabled, region, history>>

\* ... no image may be written any more, and the CPU is released.
X_FirmwareDisable(p) ==   \* mutation: the image stays writable
  /\ Goto(p, "fw_disable", "cpu_read")
  /\ late' = {q \in Proc : pc[q] = "fw_copy"}
  /\ UNCHANGED <<program, reg, arg, module, mmu, enabled, region, robbed, crossed, together>>
FirmwareDisable(p) ==
  /\ Goto(p, "fw_disable", "cpu_read")
  /\ enabled' = FALSE
  /\ late' = {q \in Proc : pc[q] = "fw_copy"}
  /\ UNCHANGED <<program, reg, arg, module, mmu, region, robbed, crossed, together>>
CpuRead(p) == ReadResets(p, "cpu_read", "cpu_write")
CpuWrite(p) ==
  /\ WriteResets(p, "cpu_write", "user", reg[p] \ {"cpu"})
  /\ Leave(p, "started")
  /\ UNCHANGED history

\* The M3 runs what is in the region: .data and .bss are its last piece (link.ld).
Run ==
  /\ Running
  /\ \E v \in Version : /\ image[1] = <<v, 1>> /\ Size[v] <= Length
                        /\ dirty' = dirty \cup {Size[v]}
  /\ UNCHANGED <<program, call, module, mmu, enabled, image, history>>

Stop(p) == StopCall(p) \/ StopRead(p) \/ StopWrite(p) \/ FirmwareEnable(p)
Write(p) == \/ WriteCall(p) \/ WriteCheck(p) \/ WriteCopy(p) \/ WriteReturn(p)
            \/ WriteFault(p)
Start(p) == \/ StartCall(p) \/ MmuInit(p) \/ MmuMap(p) \/ MmuRead(p) \/ MmuWrite(p)
            \/ MmuOn(p) \/ FirmwareDisable(p) \/ CpuRead(p) \/ CpuWrite(p)
Program(p) == Stop(p) \/ Write(p) \/ Start(p)

Next == Operator \/ Run \/ \E p \in Proc : Open(p) \/ Close(p) \/ Program(p)

Spec == Init /\ [][Next]_vars

\* A program that is not killed goes on with its calls.
FairSpec == Spec /\ \A p \in Proc : WF_vars(Program(p))
-----------------------------------------------------------------------------
Steps == {"user"} \cup Stopping \cup Writing \cup Starting

\* A copy stays inside the firmware region, and every variable keeps its type.
TypeOK ==
  /\ at \in [Proc -> {"closed", "opened", "copying", "stopped", "started"}]
  /\ pc \in [Proc -> Steps]
  /\ reg \in [Proc -> SUBSET {"cpu", "mmu"}] /\ arg \in [Proc -> Nat]
  /\ ver \in [Proc -> Version \cup {"none"}] /\ left \in [Proc -> Nat]
  /\ fpos \in [Proc -> 0 .. Length]
  /\ module \in {"out", "ctrl", "mmu", "fw", "in"}
  /\ resets \subseteq {"cpu", "mmu"} /\ table \subseteq Ranges
  /\ mmuOn \in BOOLEAN /\ enabled \in BOOLEAN 
  /\ robbed \in BOOLEAN /\ late \subseteq Proc /\ crossed \in BOOLEAN /\ together \in BOOLEAN
  /\ image \in [1 .. Length -> {Nothing} \cup (Version \X (Nat \ {0}))]
  /\ dirty \subseteq 1 .. Length

\* "prevent reloading firmware while running", for any number of processes: the only
\* write that changes the memory the M3 executes from, while the M3 is out of reset, is
\* one that had passed its check of firmware_enabled before START cleared the flag and
\* is still copying.  No lock closes that window; and the flag itself is wrong after the
\* module was inserted over a running M3 (robbed) and after a STOP and a START that
\* overlapped (crossed), until the next STOP.
NoReloadWhileRunning ==
  [][Running /\ ~robbed /\ ~crossed =>
       UNCHANGED image \/ \E p \in late : WriteCopy(p)]_vars

\* Whenever the M3 is out of reset its MMU is on, and maps all it needs: the program,
\* the stack, the devices and the three rings; unless the module was inserted over a
\* running M3, or two processes were loading at the same time: START does not look
\* whether another has started the M3 by then, and begins with emptying the table.
MappedWhileRunning ==
  Running /\ ~robbed /\ ~together => "mmu" \notin resets /\ mmuOn /\ table = Ranges

\* The region holds all of image v, untouched by the M3.
Fresh(v) ==
  /\ Size[v] <= Length
  /\ \A i \in 1 .. Size[v] : image[i] = <<v, i>> /\ i \notin dirty

\* The M3 is only ever released into one whole image with its statics as the linker
\* made them (disarmed, uncalibrated), however often start_m3.py was killed half-way
\* and whatever other images or shorter copies were written before; unless two
\* processes were loading at the same time, whose images mix.
FreshStart ==
  [][~Running /\ Running' /\ ~together => \E v \in Version : Fresh(v)]_vars

\* start_m3.py starts the M3, whatever other processes do, unless it ends (a write is
\* refused because another has started the M3), is killed, or its image does not fit the
\* region: then the writes return 0 and Python tries the rest for ever.
Starts ==
  \A p \in Proc :
    at[p] = "opened" /\ Size[ver[p]] <= Length ~> at[p] \in {"started", "closed"}
=============================================================================
