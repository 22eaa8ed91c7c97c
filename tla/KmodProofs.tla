----------------------------- MODULE KmodProofs ------------------------------
(***************************************************************************)
(* Proofs about Kmod, for every list of ranges, length of the region, set  *)
(* of images and number of processes.  Three invariants carry them: what a *)
(* process knows of itself (Private), what firmware_enabled guards whoever *)
(* calls (FlagInv), and what one process can rely on while it is the only  *)
(* one that loads (SoloInv).                                               *)
(***************************************************************************)
EXTENDS Kmod, TLAPS

\* What a process knows, whatever the others do: where its calls stand in its program,
\* and how much of its image is written; and that the module stays while it is open.
Private(q) ==
  /\ pc[q] \in Stopping => at[q] = "opened"
  /\ pc[q] \in Writing => at[q] \in {"stopped", "copying"} /\ arg[q] <= left[q]
  /\ pc[q] = "fw_copy" => fpos[q] + arg[q] <= Length
  /\ pc[q] \in Starting => at[q] = "stopped" /\ left[q] = 0
  /\ pc[q] = "mmu_map" => arg[q] < Len(Regions)
  /\ Loading(q) => ver[q] \in Version /\ fpos[q] + left[q] = Size[ver[q]]
  /\ at[q] = "opened" => fpos[q] = 0
  /\ at[q] # "closed" => module \in {"fw", "in"}

PrivateInv == TypeOK /\ \A q \in Proc : Private(q)
-----------------------------------------------------------------------------
LEMMA PrivateInit == Init => PrivateInv
<1> SUFFICES ASSUME Init PROVE PrivateInv
  OBVIOUS
<1>1. /\ at \in [Proc -> {"closed"}] /\ pc \in [Proc -> {"user"}]
      /\ reg \in [Proc -> {{}}] /\ arg \in [Proc -> {0}]
      /\ ver \in [Proc -> {"none"}] /\ left \in [Proc -> {0}] /\ fpos \in [Proc -> {0}]
  BY DEF Init
<1>2. image \in [1 .. Length -> {Nothing} \cup (Version \X (Nat \ {0}))]
  BY DEF Init
<1>3. TypeOK
  <2>1. 0 \in 0 .. Length /\ "user" \in Steps
    BY LengthAssumption DEF Steps
  <2> QED
    BY <1>1, <1>2, <2>1 DEF Init, TypeOK
<1>4. ASSUME NEW q \in Proc PROVE Private(q)
  BY <1>1 DEF Private, Loading, Stopping, Writing, Starting
<1> QED
  BY <1>3, <1>4 DEF PrivateInv

LEMMA OperatorPrivate == PrivateInv /\ Operator => PrivateInv'
<1> SUFFICES ASSUME PrivateInv, Operator PROVE PrivateInv'
  OBVIOUS
<1> USE DEF PrivateInv, TypeOK, Private, Loading, program, call, mmu, region, history, Running
<1>1. CASE InsertCtrl
  BY <1>1 DEF InsertCtrl
<1>2. CASE InsertMmu
  BY <1>2 DEF InsertMmu
<1>3. CASE InsertFails
  BY <1>3 DEF InsertFails
<1>4. CASE InsertFirmware
  BY <1>4 DEF InsertFirmware
<1>5. CASE InsertPointers
  BY <1>5 DEF InsertPointers
<1>6. CASE Remove
  BY <1>6 DEF Remove
<1> QED
  BY <1>1, <1>2, <1>3, <1>4, <1>5, <1>6 DEF Operator

LEMMA OpenPrivate ==
  ASSUME PrivateInv, NEW p \in Proc, Open(p) \/ Close(p)
  PROVE  PrivateInv'
<1> USE DEF PrivateInv, TypeOK, Private, Loading, program, call, mmu, region,
            history, Enter, Stopping, Writing, Starting
<1>1. CASE Open(p)
  <2>1. PICK v \in Version :
          ver' = [ver EXCEPT ![p] = v] /\ left' = [left EXCEPT ![p] = Size[v]]
    BY <1>1 DEF Open
  <2>2. PICK a \in {"opened", "copying"} : at' = [at EXCEPT ![p] = a]
    BY <1>1 DEF Open
  <2>3. Size[v] \in Nat /\ Length \in Nat
    BY SizeAssumption, LengthAssumption
  <2> QED
    BY <1>1, <2>1, <2>2, <2>3 DEF Open
<1>2. CASE Close(p)
  BY <1>2, LengthAssumption DEF Close, Leave
<1> QED
  BY <1>1, <1>2

LEMMA StopPrivate ==
  ASSUME PrivateInv, NEW p \in Proc, Stop(p)
  PROVE  PrivateInv'
<1> USE DEF PrivateInv, TypeOK, Private, Loading, program, call, mmu, region, history, Enter, Goto,
            Steps, Stopping, Writing, Starting, Somebody
<1>1. CASE StopCall(p)
  BY <1>1 DEF StopCall
<1>2. CASE StopRead(p)
  BY <1>2 DEF StopRead, ReadResets
<1>3. CASE StopWrite(p)
  BY <1>3 DEF StopWrite, WriteResets
<1>4. CASE FirmwareEnable(p)
  BY <1>4 DEF FirmwareEnable
<1> QED
  BY <1>1, <1>2, <1>3, <1>4 DEF Stop

LEMMA WritePrivate ==
  ASSUME PrivateInv, NEW p \in Proc, Write(p)
  PROVE  PrivateInv'
<1> USE DEF PrivateInv, TypeOK, Private, Loading, program, call, mmu, region, history, Enter, Goto,
            Steps, Stopping, Writing, Starting, Somebody
<1>1. CASE WriteCall(p)
  BY <1>1 DEF WriteCall
<1>2. CASE WriteCheck(p)
  <2>1. Clip(p) \in Nat /\ Clip(p) <= arg[p] /\ fpos[p] + Clip(p) <= Length
    BY LengthAssumption DEF Clip
  <2>2. UNCHANGED <<reg, module, mmu, image, dirty, enabled, history>>
    BY <1>2 DEF WriteCheck
  <2>3. CASE enabled
    <3>1. /\ pc' = [pc EXCEPT ![p] = "fw_copy"] /\ UNCHANGED program
          /\ arg' = [arg EXCEPT ![p] = Clip(p)]
      BY <1>2, <2>3, Zenon DEF WriteCheck
    <3>2. pc[p] = "fw_check"
      BY <1>2 DEF WriteCheck
    <3> QED
      BY <2>1, <2>2, <3>1, <3>2
  <2>4. CASE ~enabled
    <3>1. /\ pc' = [pc EXCEPT ![p] = "user"] /\ Leave(p, "closed")
          /\ arg' = [arg EXCEPT ![p] = 0]
      BY <1>2, <2>4, Zenon DEF WriteCheck
    <3> QED
      BY <2>2, <3>1, LengthAssumption DEF Leave
  <2> QED
    BY <2>3, <2>4
<1>3. CASE WriteCopy(p)
  <2>1. /\ pc[p] = "fw_copy" /\ at[p] \in {"stopped", "copying"}
        /\ arg[p] \in Nat \ {0} /\ arg[p] <= left[p] /\ left[p] \in Nat
        /\ fpos[p] \in Nat /\ fpos[p] + arg[p] <= Length
        /\ fpos[p] + left[p] = Size[ver[p]] /\ ver[p] \in Version
    BY <1>3 DEF WriteCopy
  <2>2. Length \in Nat /\ Size[ver[p]] \in Nat
    BY <2>1, SizeAssumption, LengthAssumption
  <2>3. /\ fpos[p] + 1 \in 1 .. Length /\ fpos[p] + 1 \in 0 .. Length /\ left[p] - 1 \in Nat /\ arg[p] - 1 \in Nat
        /\ Size[ver[p]] - left[p] + 1 \in Nat \ {0}
    BY <2>1, <2>2
  <2>4. image' \in [1 .. Length -> {Nothing} \cup (Version \X (Nat \ {0}))]
    BY <1>3, <2>1, <2>3 DEF WriteCopy
  <2>5. /\ fpos' = [fpos EXCEPT ![p] = fpos[p] + 1]
        /\ left' = [left EXCEPT ![p] = left[p] - 1]
        /\ arg' = [arg EXCEPT ![p] = arg[p] - 1]
        /\ dirty' = dirty \ {fpos[p] + 1}
        /\ UNCHANGED <<at, ver, pc, reg, module, mmu, enabled, history>>
    BY <1>3 DEF WriteCopy
  <2>6. TypeOK'
    <3>1. /\ fpos' \in [Proc -> 0 .. Length] /\ left' \in [Proc -> Nat]
          /\ arg' \in [Proc -> Nat] /\ dirty' \subseteq 1 .. Length
      BY <2>3, <2>5
    <3> QED
      BY <2>4, <2>5, <3>1
  <2>7. ASSUME NEW q \in Proc PROVE Private(q)'
    <3>1. CASE q = p
      <4>1. /\ arg'[p] = arg[p] - 1 /\ left'[p] = left[p] - 1 /\ fpos'[p] = fpos[p] + 1
            /\ UNCHANGED <<at, pc, ver, module>>
        BY <2>5
      <4>2. /\ arg'[p] <= left'[p] /\ fpos'[p] + arg'[p] <= Length
            /\ fpos'[p] + left'[p] = Size[ver[p]]
        BY <2>1, <2>2, <4>1
      <4> QED
        BY <2>1, <3>1, <4>1, <4>2
    <3>2. CASE q # p
      <4>1. /\ arg'[q] = arg[q] /\ left'[q] = left[q] /\ fpos'[q] = fpos[q]
            /\ UNCHANGED <<at, pc, ver, module>>
        BY <2>5, <3>2
      <4> QED
        BY <4>1
    <3> QED
      BY <3>1, <3>2
  <2> QED
    BY <2>6, <2>7
<1>4. CASE WriteReturn(p)
  BY <1>4 DEF WriteReturn
<1>5. CASE WriteFault(p)
  BY <1>5, LengthAssumption DEF WriteFault, Leave
<1> QED
  BY <1>1, <1>2, <1>3, <1>4, <1>5 DEF Write

LEMMA StartPrivate ==
  ASSUME PrivateInv, NEW p \in Proc, Start(p)
  PROVE  PrivateInv'
<1> USE DEF PrivateInv, TypeOK, Private, Loading, program, call, mmu, region, history, Enter, Goto,
            Steps, Stopping, Writing, Starting, Somebody
<1>1. CASE StartCall(p)
  BY <1>1 DEF StartCall
<1>2. CASE MmuInit(p)
  BY <1>2, RegionAssumption DEF MmuInit
<1>3. CASE MmuMap(p)
  <2>1. /\ pc[p] = "mmu_map" /\ table' = table \cup {Regions[arg[p] + 1]}
        /\ UNCHANGED <<program, reg, module, resets, mmuOn, enabled, region, history>>
    BY <1>3 DEF MmuMap
  <2>2. Len(Regions) \in Nat /\ arg[p] \in Nat /\ arg[p] + 1 \in 1 .. Len(Regions)
    BY <2>1, RegionAssumption
  <2>3. table' \subseteq Ranges
    BY <2>1, <2>2 DEF Ranges
  <2>4. CASE arg[p] + 1 < Len(Regions)
    <3>1. arg' = [arg EXCEPT ![p] = arg[p] + 1] /\ UNCHANGED pc
      BY <1>3, <2>4 DEF MmuMap
    <3> QED
      BY <2>1, <2>2, <2>3, <2>4, <3>1
  <2>5. CASE ~(arg[p] + 1 < Len(Regions))
    <3>1. arg' = [arg EXCEPT ![p] = 0] /\ pc' = [pc EXCEPT ![p] = "mmu_read"]
      BY <1>3, <2>5 DEF MmuMap
    <3> QED
      BY <2>1, <2>3, <3>1
  <2> QED
    BY <2>4, <2>5
<1>4. CASE MmuRead(p)
  BY <1>4 DEF MmuRead, ReadResets
<1>5. CASE MmuWrite(p)
  BY <1>5 DEF MmuWrite, WriteResets
<1>6. CASE MmuOn(p)
  BY <1>6 DEF MmuOn
<1>7. CASE FirmwareDisable(p)
  BY <1>7 DEF FirmwareDisable
<1>8. CASE CpuRead(p)
  BY <1>8 DEF CpuRead, ReadResets
<1>9. CASE CpuWrite(p)
  BY <1>9, LengthAssumption DEF CpuWrite, WriteResets, Leave
<1> QED
  BY <1>1, <1>2, <1>3, <1>4, <1>5, <1>6, <1>7, <1>8, <1>9 DEF Start

LEMMA RunPrivate == PrivateInv /\ Run => PrivateInv'
<1> SUFFICES ASSUME PrivateInv, Run PROVE PrivateInv'
  OBVIOUS
<1>1. PICK v \in Version : Size[v] <= Length /\ dirty' = dirty \cup {Size[v]}
  BY DEF Run
<1>2. Size[v] \in 1 .. Length
  BY <1>1, SizeAssumption, LengthAssumption
<1>3. dirty' \subseteq 1 .. Length
  BY <1>1, <1>2 DEF PrivateInv, TypeOK
<1>4. UNCHANGED <<program, call, module, mmu, enabled, image, history>>
  BY DEF Run
<1> QED
  BY <1>3, <1>4 DEF PrivateInv, TypeOK, Private, Loading, program, call, mmu, history

LEMMA PrivateStep == PrivateInv /\ [Next]_vars => PrivateInv'
<1> SUFFICES ASSUME PrivateInv, [Next]_vars PROVE PrivateInv'
  OBVIOUS
<1>1. CASE UNCHANGED vars
  BY <1>1 DEF vars, program, call, mmu, region, history, PrivateInv, TypeOK, Private,
                    Loading
<1>2. ASSUME NEW p \in Proc, Program(p) PROVE PrivateInv'
  BY <1>2, StopPrivate, WritePrivate, StartPrivate DEF Program
<1> QED
  BY <1>1, <1>2, OperatorPrivate, OpenPrivate, RunPrivate DEF Next

\* Every variable keeps its type, for any number of processes; in particular no copy
\* leaves the firmware region, whatever counts and positions writes are made with.
THEOREM TypeCorrect == Spec => []TypeOK
<1>1. PrivateInv => TypeOK
  BY DEF PrivateInv
<1> QED
  BY <1>1, PrivateInit, PrivateStep, PTL DEF Spec
-----------------------------------------------------------------------------
\* What firmware_enabled guards, whoever calls: while it is cleared, whoever is copying
\* has passed the check before it was; and it is cleared while START releases the M3 and
\* until the next STOP has put the M3 back into reset, as long as no STOP overlaps a
\* START.
Flag(q) ==
  /\ ~enabled /\ pc[q] = "fw_copy" => q \in late
  /\ pc[q] \in {"cpu_read", "cpu_write"} /\ ~crossed => ~enabled
  /\ pc[q] = "mmu_write" /\ "cpu" \notin reg[q] /\ ~robbed /\ ~crossed => ~enabled
  /\ pc[q] = "stop_enable" /\ ~crossed => ~Running

FlagInv ==
  /\ Somebody(Stopping) /\ Somebody(Starting) => crossed
  /\ Running /\ ~robbed /\ ~crossed => module = "ctrl" \/ ~enabled
  /\ \A q \in Proc : Flag(q)

LEMMA FlagInit == Init => FlagInv
BY DEF Init, FlagInv, Flag, Somebody, Running, Starting, Stopping

LEMMA OperatorFlag == PrivateInv /\ FlagInv /\ Operator => FlagInv'
<1> SUFFICES ASSUME PrivateInv, FlagInv, Operator PROVE FlagInv'
  OBVIOUS
<1> USE DEF PrivateInv, TypeOK, Private, FlagInv, Flag, Somebody, Running, Stopping,
            Writing, Starting, program, call, mmu, region, history
<1>1. CASE InsertCtrl
  BY <1>1 DEF InsertCtrl
<1>2. CASE InsertMmu
  BY <1>2 DEF InsertMmu
<1>3. CASE InsertFails
  BY <1>3 DEF InsertFails
<1>4. CASE InsertFirmware
  BY <1>4 DEF InsertFirmware
<1>5. CASE InsertPointers
  BY <1>5 DEF InsertPointers
<1>6. CASE Remove
  BY <1>6 DEF Remove
<1> QED
  BY <1>1, <1>2, <1>3, <1>4, <1>5, <1>6 DEF Operator

LEMMA OpenFlag ==
  ASSUME PrivateInv, FlagInv, NEW p \in Proc, Open(p) \/ Close(p)
  PROVE  FlagInv'
<1>1. UNCHANGED <<pc, reg, resets, enabled, module, robbed, late, crossed>>
  BY DEF Open, Close, Leave, call, mmu, history
<1> QED
  BY <1>1 DEF FlagInv, Flag, Somebody, Running

LEMMA StopFlag ==
  ASSUME PrivateInv, FlagInv, NEW p \in Proc, Stop(p)
  PROVE  FlagInv'
<1> USE DEF PrivateInv, TypeOK, Private, FlagInv, Flag, Somebody, Running, Stopping,
            Writing, Starting, program, call, mmu, region, history, Goto, Enter
<1>1. CASE StopCall(p)
  BY <1>1 DEF StopCall
<1>2. CASE StopRead(p)
  BY <1>2 DEF StopRead, ReadResets
<1>3. CASE StopWrite(p)
  BY <1>3 DEF StopWrite, WriteResets
<1>4. CASE FirmwareEnable(p)
  BY <1>4 DEF FirmwareEnable
<1> QED
  BY <1>1, <1>2, <1>3, <1>4 DEF Stop

LEMMA WriteFlag ==
  ASSUME PrivateInv, FlagInv, NEW p \in Proc, Write(p)
  PROVE  FlagInv'
<1> USE DEF PrivateInv, TypeOK, Private, FlagInv, Flag, Somebody, Running, Stopping,
            Writing, Starting, program, call, mmu, region, history, Goto, Enter
<1>1. CASE WriteCall(p)
  BY <1>1 DEF WriteCall
<1>2. CASE WriteCheck(p)
  BY <1>2 DEF WriteCheck
<1>3. CASE WriteCopy(p)
  BY <1>3 DEF WriteCopy
<1>4. CASE WriteReturn(p)
  BY <1>4 DEF WriteReturn
<1>5. CASE WriteFault(p)
  BY <1>5 DEF WriteFault
<1> QED
  BY <1>1, <1>2, <1>3, <1>4, <1>5 DEF Write

LEMMA StartFlag ==
  ASSUME PrivateInv, FlagInv, NEW p \in Proc, Start(p)
  PROVE  FlagInv'
<1> USE DEF PrivateInv, TypeOK, Private, FlagInv, Flag, Somebody, Running, Stopping,
            Writing, Starting, program, call, mmu, region, history, Goto, Enter
<1>1. CASE StartCall(p)
  BY <1>1 DEF StartCall
<1>2. CASE MmuInit(p)
  BY <1>2 DEF MmuInit
<1>3. CASE MmuMap(p)
  BY <1>3 DEF MmuMap
<1>4. CASE MmuRead(p)
  BY <1>4 DEF MmuRead, ReadResets
<1>5. CASE MmuWrite(p)
  BY <1>5 DEF MmuWrite, WriteResets
<1>6. CASE MmuOn(p)
  BY <1>6 DEF MmuOn
<1>7. CASE FirmwareDisable(p)
  BY <1>7 DEF FirmwareDisable
<1>8. CASE CpuRead(p)
  BY <1>8 DEF CpuRead, ReadResets
<1>9. CASE CpuWrite(p)
  BY <1>9 DEF CpuWrite, WriteResets
<1> QED
  BY <1>1, <1>2, <1>3, <1>4, <1>5, <1>6, <1>7, <1>8, <1>9 DEF Start

LEMMA FlagStep == PrivateInv /\ FlagInv /\ [Next]_vars => FlagInv'
<1> SUFFICES ASSUME PrivateInv, FlagInv, [Next]_vars PROVE FlagInv'
  OBVIOUS
<1>1. CASE UNCHANGED vars
  BY <1>1 DEF vars, call, mmu, history, FlagInv, Flag, Somebody, Running
<1>2. ASSUME NEW p \in Proc, Open(p) \/ Close(p) \/ Program(p) PROVE FlagInv'
  BY <1>2, OpenFlag, StopFlag, WriteFlag, StartFlag DEF Program
<1>3. CASE Run
  BY <1>3 DEF Run, call, mmu, history, FlagInv, Flag, Somebody, Running
<1> QED
  BY <1>1, <1>2, <1>3, OperatorFlag DEF Next

LEMMA FlagAlways == Spec => [](PrivateInv /\ FlagInv)
BY PrivateInit, PrivateStep, FlagInit, FlagStep, PTL DEF Spec

\* Only a write that passed its check before START cleared the flag changes the image of
\* a running M3, for any number of processes, images and regions of any size and writes
\* cut in any way; with the two exceptions the property names.
THEOREM ImageStays == Spec => NoReloadWhileRunning
<1>1. ASSUME PrivateInv /\ FlagInv, [Next]_vars
      PROVE  [Running /\ ~robbed /\ ~crossed =>
                UNCHANGED image \/ \E p \in late : WriteCopy(p)]_vars
  <2>1. CASE UNCHANGED vars
    BY <2>1
  <2>2. ASSUME NEW p \in Proc, WriteCopy(p), Running /\ ~robbed /\ ~crossed
        PROVE  p \in late
    <3>1. pc[p] = "fw_copy" /\ module = "in"
      BY <2>2 DEF WriteCopy
    <3>2. ~enabled
      BY <1>1, <2>2, <3>1 DEF FlagInv
    <3> QED
      BY <1>1, <3>1, <3>2 DEF FlagInv, Flag
  <2>3. CASE Next /\ \A p \in Proc : ~WriteCopy(p)
    BY <2>3 DEF Next, Operator, InsertCtrl, InsertMmu, InsertFails, InsertFirmware,
      InsertPointers, Remove, Run, Open, Close, Program, Stop, StopCall, StopRead,
      StopWrite, FirmwareEnable, Write, WriteCall, WriteCheck, WriteReturn, WriteFault,
      Start, StartCall, MmuInit, MmuMap, MmuRead, MmuWrite, MmuOn, FirmwareDisable,
      CpuRead, CpuWrite, ReadResets, WriteResets, region
  <2> QED
    BY <1>1, <2>1, <2>2, <2>3
<1> QED
  BY <1>1, FlagAlways, PTL DEF Spec, NoReloadWhileRunning
-----------------------------------------------------------------------------
\* What a process knows of the M3 and of the image while no other is loading: the M3 is
\* in reset from STOP to START, the register holds what was read of it, START has mapped
\* what it has come to, and the pieces below its position are its image's own.
Mapped == {"mmu_read", "mmu_write", "mmu_on", "fw_disable", "cpu_read", "cpu_write"}

Solo(p) ==
  /\ at[p] = "stopped" \/ pc[p] = "stop_enable" => ~Running
  /\ pc[p] \in {"stop_write", "mmu_write", "cpu_write"} => reg[p] = resets
  /\ pc[p] = "mmu_map" => table = {Regions[i] : i \in 1 .. arg[p]}
  /\ pc[p] \in Mapped => table = Ranges
  /\ pc[p] \in {"mmu_on", "fw_disable", "cpu_read", "cpu_write"} => "mmu" \notin resets
  /\ pc[p] \in {"fw_disable", "cpu_read", "cpu_write"} => mmuOn
  /\ at[p] = "stopped" => \A i \in 1 .. fpos[p] : image[i] = <<ver[p], i>> /\ i \notin dirty

Maps == Running /\ ~robbed => "mmu" \notin resets /\ mmuOn /\ table = Ranges

SoloInv ==
  ~together => /\ \A p, q \in Proc : Loading(p) /\ Loading(q) => p = q
               /\ \A p \in Proc : Loading(p) => Solo(p)
               /\ Maps

\* What SoloInv says to the one process that takes a step in a call.
Alone(p) == /\ \A q \in Proc : Loading(q) => p = q
            /\ Loading(p) /\ Solo(p) /\ Maps

LEMMA SoloInit == Init => SoloInv
BY DEF Init, SoloInv, Solo, Maps, Loading, Running

LEMMA OperatorSolo == PrivateInv /\ SoloInv /\ Operator => SoloInv'
<1> SUFFICES ASSUME PrivateInv, SoloInv, Operator PROVE SoloInv'
  OBVIOUS
<1> USE DEF PrivateInv, TypeOK, Private, SoloInv, Solo, Maps, Loading, Running,
            program, call, mmu, region, history, Stopping, Writing, Starting, Mapped
<1>1. CASE InsertCtrl
  BY <1>1 DEF InsertCtrl
<1>2. CASE InsertMmu
  BY <1>2 DEF InsertMmu
<1>3. CASE InsertFails
  BY <1>3 DEF InsertFails
<1>4. CASE InsertFirmware
  BY <1>4 DEF InsertFirmware
<1>5. CASE InsertPointers
  BY <1>5 DEF InsertPointers
<1>6. CASE Remove
  BY <1>6 DEF Remove
<1> QED
  BY <1>1, <1>2, <1>3, <1>4, <1>5, <1>6 DEF Operator

LEMMA OpenSolo ==
  ASSUME PrivateInv, SoloInv, NEW p \in Proc, Open(p) \/ Close(p)
  PROVE  SoloInv'
<1> USE DEF PrivateInv, TypeOK, Private, SoloInv, Solo, Maps, Loading, Running,
            program, call, mmu, region, history, Stopping, Writing, Starting, Mapped
<1>1. CASE Open(p)
  <2>1. /\ pc[p] = "user" /\ at[p] = "closed" /\ Loading(p)' /\ at'[p] # "stopped"
        /\ \A q \in Proc \ {p} : UNCHANGED <<at[q], fpos[q], ver[q], left[q]>>
        /\ UNCHANGED <<call, mmu, region, robbed>>
        /\ together' = (together \/ \E q \in Proc \ {p} : Loading(q))
    BY <1>1 DEF Open, Enter
  <2> SUFFICES ASSUME ~together' PROVE SoloInv'
    OBVIOUS
  <2>2. ~together /\ \A q \in Proc \ {p} : ~Loading(q)
    BY <2>1, Zenon
  <2>3. Solo(p)' /\ Maps'
    BY <2>1, <2>2
  <2>4. \A q \in Proc \ {p} : ~Loading(q)'
    BY <2>1, <2>2
  <2> QED
    BY <2>3, <2>4 DEF SoloInv
<1>2. CASE Close(p)
  BY <1>2 DEF Close, Leave
<1> QED
  BY <1>1, <1>2

\* A STOP that no other program is in the way of finds or makes the process alone.
LEMMA StopSolo ==
  ASSUME PrivateInv, NEW p \in Proc, Stop(p), Alone(p)
  PROVE  Solo(p)' /\ Maps'
<1> USE DEF Alone, PrivateInv, TypeOK, Private, Solo, Loading, Running, Maps,
            program, call, mmu, region, history, Goto, Enter, Leave,
            Stopping, Writing, Starting, Mapped
<1>1. CASE StopCall(p)
  BY <1>1 DEF StopCall
<1>2. CASE StopRead(p)
  BY <1>2 DEF StopRead, ReadResets
<1>3. CASE StopWrite(p)
  BY <1>3 DEF StopWrite, WriteResets
<1>4. CASE FirmwareEnable(p)
  BY <1>4 DEF FirmwareEnable
<1> QED
  BY <1>1, <1>2, <1>3, <1>4 DEF Stop

LEMMA WriteSolo ==
  ASSUME PrivateInv, NEW p \in Proc, Write(p), Alone(p)
  PROVE  Solo(p)' /\ Maps'
<1> USE DEF Alone, PrivateInv, TypeOK, Private, Solo, Loading, Running, Maps,
            program, call, mmu, region, history, Goto, Enter, Leave,
            Stopping, Writing, Starting, Mapped
<1>1. CASE WriteCall(p)
  BY <1>1 DEF WriteCall
<1>2. CASE WriteCheck(p)
  BY <1>2 DEF WriteCheck
<1>3. CASE WriteCopy(p)
  <2>1. /\ pc[p] = "fw_copy" /\ fpos'[p] = fpos[p] + 1 /\ fpos[p] \in Nat
        /\ fpos[p] + 1 \in 1 .. Length /\ arg[p] \in Nat \ {0}
        /\ UNCHANGED <<at, ver, pc, reg, module, mmu, enabled, history>>
    BY <1>3, LengthAssumption DEF WriteCopy
  <2>2. ASSUME at[p] = "stopped", NEW i \in 1 .. fpos'[p]
        PROVE  image'[i] = <<ver[p], i>> /\ i \notin dirty'
    <3>1. CASE i = fpos[p] + 1
      <4>1. Size[ver[p]] - left[p] + 1 = i
        BY <2>1, <2>2, <3>1, SizeAssumption
      <4>2. i \in 1 .. Length
        BY <2>1, <3>1
      <4> QED
        BY <1>3, <3>1, <4>1, <4>2 DEF WriteCopy
    <3>2. CASE i # fpos[p] + 1
      <4>1. i \in 1 .. fpos[p]
        BY <2>1, <3>2
      <4>2. image'[i] = image[i] /\ dirty' \subseteq dirty
        BY <1>3, <3>2 DEF WriteCopy
      <4> QED
        BY <2>2, <4>1, <4>2
    <3> QED
      BY <3>1, <3>2
  <2> QED
    BY <2>1, <2>2
<1>4. CASE WriteReturn(p)
  BY <1>4 DEF WriteReturn
<1>5. CASE WriteFault(p)
  BY <1>5 DEF WriteFault
<1> QED
  BY <1>1, <1>2, <1>3, <1>4, <1>5 DEF Write

LEMMA StartSolo ==
  ASSUME PrivateInv, NEW p \in Proc, Start(p), Alone(p)
  PROVE  Solo(p)' /\ Maps'
<1> USE DEF Alone, PrivateInv, TypeOK, Private, Solo, Loading, Running, Maps,
            program, call, mmu, region, history, Goto, Enter, Leave,
            Stopping, Writing, Starting, Mapped
<1>1. CASE StartCall(p)
  BY <1>1 DEF StartCall
<1>2. CASE MmuInit(p)
  BY <1>2, RegionAssumption DEF MmuInit
<1>3. CASE MmuMap(p)
  <2>1. /\ pc[p] = "mmu_map" /\ table' = table \cup {Regions[arg[p] + 1]} /\ ~Running
        /\ UNCHANGED <<program, reg, module, resets, mmuOn, enabled, region, history>>
    BY <1>3 DEF MmuMap
  <2>2. Len(Regions) \in Nat /\ arg[p] \in Nat /\ arg[p] < Len(Regions)
    BY <2>1, RegionAssumption
  <2>3. table = {Regions[i] : i \in 1 .. arg[p]}
    BY <2>1, Zenon
  <2>4. table' = {Regions[i] : i \in 1 .. arg[p] + 1}
    BY <2>1, <2>2, <2>3
  <2>5. CASE arg[p] + 1 < Len(Regions)
    <3>1. arg'[p] = arg[p] + 1 /\ UNCHANGED pc
      BY <1>3, <2>5 DEF MmuMap
    <3> QED
      BY <2>1, <2>4, <3>1
  <2>6. CASE ~(arg[p] + 1 < Len(Regions))
    <3>1. pc'[p] = "mmu_read" /\ arg[p] + 1 = Len(Regions)
      BY <1>3, <2>2, <2>6 DEF MmuMap
    <3>2. table' = Ranges
      BY <2>4, <3>1 DEF Ranges
    <3> QED
      BY <2>1, <3>1, <3>2
  <2> QED
    BY <2>5, <2>6
<1>4. CASE MmuRead(p)
  BY <1>4 DEF MmuRead, ReadResets
<1>5. CASE MmuWrite(p)
  BY <1>5 DEF MmuWrite, WriteResets
<1>6. CASE MmuOn(p)
  BY <1>6 DEF MmuOn
<1>7. CASE FirmwareDisable(p)
  BY <1>7 DEF FirmwareDisable
<1>8. CASE CpuRead(p)
  BY <1>8 DEF CpuRead, ReadResets
<1>9. CASE CpuWrite(p)
  BY <1>9 DEF CpuWrite, WriteResets
<1> QED
  BY <1>1, <1>2, <1>3, <1>4, <1>5, <1>6, <1>7, <1>8, <1>9 DEF Start

\* What a call leaves alone: the other processes, and who is loading, but for its own
\* leaving; and only a STOP ends a time of two.
LEMMA CallKeeps ==
  ASSUME PrivateInv, NEW p \in Proc, Program(p)
  PROVE  /\ \A q \in Proc \ {p} : UNCHANGED <<at[q], pc[q], reg[q], arg[q], fpos[q], ver[q]>>
         /\ Loading(p)
         /\ together /\ ~together' =>
              StopWrite(p) /\ \A q \in Proc \ {p} : ~Loading(q)
<1> USE DEF PrivateInv, TypeOK, Private, Loading, program, call, mmu, region, history,
            Goto, Enter, Leave, Stopping, Writing, Starting
<1>1. CASE Stop(p)
  BY <1>1 DEF Stop, StopCall, StopRead, StopWrite, FirmwareEnable, ReadResets,
              WriteResets
<1>2. CASE Write(p)
  <2>1. CASE WriteCheck(p)
    BY <2>1 DEF WriteCheck
  <2> QED
    BY <1>2, <2>1 DEF Write, WriteCall, WriteCopy, WriteReturn, WriteFault
<1>3. CASE Start(p)
  <2>1. CASE MmuMap(p)
    BY <2>1 DEF MmuMap
  <2> QED
    BY <1>3, <2>1 DEF Start, StartCall, MmuInit, MmuRead, MmuWrite, MmuOn,
                      FirmwareDisable, CpuRead, CpuWrite, ReadResets, WriteResets
<1> QED
  BY <1>1, <1>2, <1>3 DEF Program

LEMMA ProgramSolo ==
  ASSUME PrivateInv, SoloInv, NEW p \in Proc, Program(p)
  PROVE  SoloInv'
<1> SUFFICES ASSUME ~together' PROVE SoloInv'
  BY DEF SoloInv
<1>1. /\ \A q \in Proc \ {p} : UNCHANGED <<at[q], pc[q], reg[q], arg[q], fpos[q], ver[q]>>
      /\ Loading(p)
      /\ together => StopWrite(p) /\ \A q \in Proc \ {p} : ~Loading(q)
  BY CallKeeps
<1>2. \A q \in Proc \ {p} : ~Loading(q)
  BY <1>1 DEF SoloInv
<1>3. \A q \in Proc \ {p} : ~Loading(q)'
  BY <1>1, <1>2 DEF Loading
<1>4. Solo(p)' /\ Maps'
  <2>1. CASE together
    <3>1. StopWrite(p)
      BY <1>1, <2>1
    <3>2. "cpu" \in resets' /\ pc'[p] = "stop_enable" /\ at'[p] = "opened"
      BY <3>1 DEF StopWrite, WriteResets, Goto, program, PrivateInv, Private, TypeOK,
                  Stopping
    <3> QED
      BY <3>2 DEF Solo, Maps, Running, Mapped
  <2>2. CASE ~together
    <3>1. Alone(p)
      BY <1>1, <1>2, <2>2 DEF Alone, SoloInv
    <3> QED
      BY <3>1, StopSolo, WriteSolo, StartSolo DEF Program
  <2> QED
    BY <2>1, <2>2
<1> QED
  BY <1>3, <1>4 DEF SoloInv

LEMMA SoloStep == PrivateInv /\ SoloInv /\ [Next]_vars => SoloInv'
<1> SUFFICES ASSUME PrivateInv, SoloInv, [Next]_vars PROVE SoloInv'
  OBVIOUS
<1>1. CASE UNCHANGED vars
  BY <1>1 DEF vars, program, call, mmu, region, history, SoloInv, Solo, Maps, Loading,
              Running
<1>2. CASE Run
  <2>1. PICK v \in Version : dirty' = dirty \cup {Size[v]}
    BY <1>2 DEF Run
  <2>2. Running /\ UNCHANGED <<program, call, mmu, image, history>>
    BY <1>2 DEF Run
  <2> QED
    BY <2>1, <2>2 DEF program, call, mmu, history, SoloInv, Solo, Maps, Loading, Running
<1>3. ASSUME NEW p \in Proc, Open(p) \/ Close(p) \/ Program(p) PROVE SoloInv'
  BY <1>3, OpenSolo, ProgramSolo
<1> QED
  BY <1>1, <1>2, <1>3, OperatorSolo DEF Next

LEMMA SoloAlways == Spec => [](PrivateInv /\ SoloInv)
BY PrivateInit, PrivateStep, SoloInit, SoloStep, PTL DEF Spec
-----------------------------------------------------------------------------
\* The M3 never runs without its MMU and all of its ranges, whatever the list of ranges
\* and however many programs follow one another, unless two have been loading at once
\* and no STOP has come since the other left.
THEOREM MapsBeforeRunning == Spec => []MappedWhileRunning
<1>1. SoloInv => MappedWhileRunning
  BY DEF SoloInv, Maps, MappedWhileRunning
<1> QED
  BY <1>1, SoloAlways, PTL

\* The M3 is only released into one whole image with fresh statics, however the writes
\* of start_m3.py are cut, whatever other programs wrote before, and whichever of them
\* were killed; with the same exception.
THEOREM StartsFresh == Spec => FreshStart
<1>1. ASSUME PrivateInv /\ SoloInv, [Next]_vars
      PROVE  [~Running /\ Running' /\ ~together => \E v \in Version : Fresh(v)]_vars
  <2> SUFFICES ASSUME Next, ~Running, Running', ~together
               PROVE  \E v \in Version : Fresh(v)
    BY <1>1
  <2>1. PICK p \in Proc : CpuWrite(p) \/ StopWrite(p) \/ MmuWrite(p)
    BY DEF Next, Operator, InsertCtrl, InsertMmu, InsertFails, InsertFirmware,
        InsertPointers, Remove, Run, Open, Close, Program, Stop, StopCall, StopRead,
        FirmwareEnable, Write, WriteCall, WriteCheck, WriteCopy, WriteReturn, WriteFault,
        Start, StartCall, MmuInit, MmuMap, MmuRead, MmuOn, FirmwareDisable, CpuRead,
        ReadResets, mmu, Running
  <2>2. Loading(p) /\ Solo(p)
    BY <1>1, <2>1, CallKeeps DEF Program, Stop, Start, SoloInv
  <2>3. CASE CpuWrite(p)
    <3>1. /\ at[p] = "stopped" /\ left[p] = 0 /\ fpos[p] = Size[ver[p]]
          /\ ver[p] \in Version /\ fpos[p] <= Length
      BY <1>1, <2>2, <2>3, SizeAssumption, LengthAssumption
         DEF PrivateInv, TypeOK, Private, CpuWrite, WriteResets, Goto, Starting
    <3>2. Fresh(ver[p])
      BY <2>2, <3>1 DEF Solo, Fresh
    <3> QED
      BY <3>1, <3>2
  <2>4. CASE StopWrite(p) \/ MmuWrite(p)
    BY <2>2, <2>4 DEF Solo, StopWrite, MmuWrite, WriteResets, Goto, Running
  <2> QED
    BY <2>1, <2>3, <2>4
<1> QED
  BY <1>1, SoloAlways, PTL DEF Spec, FreshStart
=============================================================================
