----------------------------- MODULE PwmProofs -------------------------------
(***************************************************************************)
(* Proofs about Pwm: for any number of motors, any duties and interrupts   *)
(* late by any Latency shorter than a pulse and the gap behind it, the pin *)
(* follows the duty.                                                       *)
(***************************************************************************)
EXTENDS Pwm, TLAPS

Earliest == Reload + Step
Latest == Reload + 2 * Step

\* Where a timer and its pin are, since an overflow behind the last change of its duty:
\* the overflow is not acknowledged yet, ...
Rising(m) ==
  /\ counter[m] < match[m] /\ "ovf" \in status[m]
  /\ counter[m] - Reload <= age[m]["ovf"]
  /\ serving = m /\ "ovf" \in stat => status[m] = stat
\* ... it is, ...
High(m) == counter[m] < match[m] /\ status[m] = {} /\ pin[m]
\* ... the match is not acknowledged yet, ...
Falling(m) ==
  /\ counter[m] >= match[m] /\ status[m] = {"mat"}
  /\ counter[m] - match[m] <= age[m]["mat"]
\* ... it is.
Low(m) == counter[m] >= match[m] /\ status[m] = {} /\ ~pin[m]

\* The handler of a timer has set the pin by the flags it has read, all of which are
\* still there; and a match that came after them came no longer ago than they did.
HandlerInv(m) ==
  serving = m =>
    /\ m \in Served /\ stat \subseteq status[m] /\ stat # {}
    /\ pin[m] <=> "ovf" \in stat
    /\ "mat" \in status[m] \ stat => \A f \in stat : counter[m] - Latest <= age[m][f]

\* No flag of a timer that is served is older than Latency; a timer that is not has
\* neither ages nor a past.
AgeInv(m) ==
  /\ m \in Served => \A f \in status[m] : age[m][f] <= Latency
  /\ m \notin Served => age[m] = FreshAge /\ settled[m] = 0

PhaseInv(m) == settled[m] = 1 => Rising(m) \/ High(m) \/ Falling(m) \/ Low(m)

TimerInv(m) == HandlerInv(m) /\ AgeInv(m) /\ PhaseInv(m)
PwmInv == TypeOK /\ \A m \in M : TimerInv(m)
-----------------------------------------------------------------------------
\* The period, with the longest pulse and the latest interrupt, fits a word.
LEMMA Numbers ==
  /\ Reload \in Nat /\ Step \in Nat \ {0} /\ Latency \in Nat /\ Latency < Step
  /\ Word \in Nat /\ Last \in Nat /\ Last = Word - 1
  /\ Earliest = Reload + Step /\ Latest = Reload + 2 * Step
  /\ Earliest \in Nat /\ Latest \in Nat /\ Latest + Latency <= Last
  /\ Motors \in Nat \ {0}
BY PwmAssumption DEF Last, Earliest, Latest

\* Every duty has a match value between the shortest pulse and the longest: nothing
\* wraps around on the way.
LEMMA DutyRange ==
  ASSUME NEW val \in 0 .. MaxDuty
  PROVE  Duty(val) \in Earliest .. Latest
<1> DEFINE n == val * Step
           q == n \div MaxDuty
<1>1. /\ val \in Nat /\ MaxDuty \in Nat \ {0} /\ val <= MaxDuty /\ Step \in Nat /\ Word \in Nat
      /\ MaxDuty * Step < Word
  BY PwmAssumption
<1>2. n \in Nat /\ MaxDuty * Step \in Nat
  BY <1>1
<1>3. n <= MaxDuty * Step
  <2>1. (MaxDuty - val) * Step >= 0
    BY <1>1
  <2>2. (MaxDuty - val) * Step = MaxDuty * Step - n
    BY <1>1
  <2> QED
    BY <1>2, <2>1, <2>2
<1> HIDE DEF n
<1>4. n % Word = n
  BY <1>1, <1>2, <1>3
<1>5. q \in Nat /\ MaxDuty * q <= n
  BY <1>1, <1>2
<1> HIDE DEF q
<1>6. q <= Step
  <2> SUFFICES ASSUME q >= Step + 1 PROVE FALSE
    BY <1>1, <1>5
  <2>1. MaxDuty * (q - (Step + 1)) >= 0
    BY <1>1, <1>5
  <2>2. MaxDuty * q = MaxDuty * (q - (Step + 1)) + MaxDuty * Step + MaxDuty
    BY <1>1, <1>5
  <2>3. MaxDuty * q \in Int /\ MaxDuty * (q - (Step + 1)) \in Int
    BY <1>1, <1>5
  <2> QED
    BY <1>1, <1>2, <1>3, <1>5, <2>1, <2>2, <2>3
<1>7. Scaled(val) = q
  BY <1>4 DEF Scaled, n, q
<1>8. (Reload + Step + q) % Word = Reload + Step + q
  BY <1>1, <1>5, <1>6, Numbers
<1> QED
  BY <1>5, <1>6, <1>7, <1>8, Numbers DEF Duty
-----------------------------------------------------------------------------
LEMMA PwmInit == Init => PwmInv
<1> SUFFICES ASSUME Init PROVE PwmInv
  OBVIOUS
<1>1. Duty(MaxDuty) \in Reload + Step .. Reload + 2 * Step /\ Last \in Reload .. Last
  BY DutyRange, Numbers, PwmAssumption
<1>2. << >> \in Seq(M \X Duties) /\ FreshAge \in [Flags -> Nat]
  BY DEF FreshAge
<1>3. TypeOK
  BY <1>1, <1>2, PwmAssumption DEF Init, TypeOK
<1>4. ASSUME NEW m \in M PROVE TimerInv(m)
  BY Numbers DEF Init, M, TimerInv, HandlerInv, AgeInv, PhaseInv, Served
<1> QED
  BY <1>3, <1>4 DEF PwmInv
-----------------------------------------------------------------------------
\* What the types say of one timer.
LEMMA OneTimer ==
  ASSUME TypeOK, NEW m \in M
  PROVE  /\ counter[m] \in Int /\ Reload <= counter[m] /\ counter[m] <= Last
         /\ match[m] \in Int /\ Earliest <= match[m] /\ match[m] <= Latest
         /\ status[m] \subseteq Flags /\ stat \subseteq Flags
         /\ \A f \in Flags : age[m][f] \in Nat
         /\ pin[m] \in BOOLEAN /\ settled[m] \in {0, 1}
BY Numbers DEF TypeOK, Earliest, Latest

\* A handler that runs is one of a timer; before intr_enable there is none.
LEMMA NoHandler ==
  ASSUME PwmInv, started = -1
  PROVE  serving = 0
BY DEF PwmInv, TypeOK, TimerInv, HandlerInv, Served, M

\* Steps that touch no timer.
LEMMA TimersAlone ==
  ASSUME PwmInv,
         UNCHANGED <<started, live, counter, match, status, age, serving, stat, pin, settled>>
  PROVE  (\A m \in M : TimerInv(m))'
BY DEF PwmInv, TimerInv, HandlerInv, AgeInv, PhaseInv, Rising, High, Falling, Low, Served, M

LEMMA PwmStart == PwmInv /\ Start => PwmInv'
<1> SUFFICES ASSUME PwmInv, Start PROVE PwmInv'
  OBVIOUS
<1>1. TypeOK'
  <2>1. started' \in -1 .. Motors
    BY Numbers DEF Start
  <2> QED
    BY <2>1 DEF PwmInv, Start, TypeOK
<1>2. serving' = 0 /\ UNCHANGED <<age, status, settled>>
  BY NoHandler DEF Start
<1>3. ASSUME NEW m \in M PROVE TimerInv(m)'
  <2>1. age'[m] = FreshAge /\ settled'[m] = 0
    BY <1>2, <1>3 DEF PwmInv, TimerInv, AgeInv, Served, Start
  <2>2. status'[m] \subseteq Flags
    BY <1>2, <1>3, OneTimer DEF PwmInv
  <2>3. HandlerInv(m)'
    BY <1>2, <1>3 DEF HandlerInv, M
  <2>4. AgeInv(m)'
    BY <2>1, <2>2, Numbers DEF AgeInv, FreshAge
  <2>5. PhaseInv(m)'
    BY <2>1 DEF PhaseInv
  <2> QED
    BY <2>3, <2>4, <2>5 DEF TimerInv
<1> QED
  BY <1>1, <1>3 DEF PwmInv, M

LEMMA PwmStop == PwmInv /\ Stop => PwmInv'
<1> SUFFICES ASSUME PwmInv, Stop PROVE PwmInv'
  OBVIOUS
<1>1. << >> \in Seq(M \X Duties) /\ FreshAge \in [Flags -> Nat]
  BY DEF FreshAge
<1>2. TypeOK'
  <2>1. /\ -1 \in -1 .. Motors /\ 0 \in 0 .. Motors /\ 0 \in 0 .. TickPeriod
        /\ {} \subseteq Flags
    BY Numbers, PwmAssumption
  <2>2. [m \in M |-> FreshAge] \in [M -> [Flags -> Nat]]
    BY <1>1
  <2>3. /\ [m \in M |-> 0] \in [M -> {0, 1}] /\ [m \in M |-> 0] \in [M -> Nat]
    OBVIOUS
  <2>4. TypeOK
    BY DEF PwmInv
  <2> QED
    BY <1>1, <2>1, <2>2, <2>3, <2>4 DEF Stop, TypeOK
<1>3. ASSUME NEW m \in M PROVE TimerInv(m)'
  <2>1. serving' = 0 /\ started' = -1 /\ age'[m] = FreshAge /\ settled'[m] = 0
    BY <1>3 DEF Stop, M
  <2>2. HandlerInv(m)'
    BY <2>1, <1>3 DEF HandlerInv, M
  <2>3. AgeInv(m)'
    BY <2>1 DEF AgeInv, Served
  <2>4. PhaseInv(m)'
    BY <2>1 DEF PhaseInv
  <2> QED
    BY <2>2, <2>3, <2>4 DEF TimerInv
<1> QED
  BY <1>2, <1>3 DEF PwmInv, M

LEMMA PwmInitTimer == PwmInv /\ InitTimer => PwmInv'
<1> SUFFICES ASSUME PwmInv, InitTimer PROVE PwmInv'
  OBVIOUS
<1> DEFINE k == started + 1
<1>1. /\ k \in M /\ serving = 0 /\ serving' = 0 /\ started # -1 /\ started' = k /\ k # -1
      /\ live' = IF k > live THEN k ELSE live
      /\ counter' = [counter EXCEPT ![k] = Last]
      /\ match' = [match EXCEPT ![k] = Duty(MaxDuty)]
      /\ status' = [status EXCEPT ![k] = {}] /\ age' = [age EXCEPT ![k] = FreshAge]
      /\ settled' = [settled EXCEPT ![k] = 0] /\ high' = [high EXCEPT ![k] = 0]
      /\ UNCHANGED <<serving, stat, pin, todo, sinceTick>>
  BY Numbers DEF PwmInv, InitTimer, Preempted, M
<1> HIDE DEF k
<1>2. TypeOK'
  <2>1. Duty(MaxDuty) \in Reload + Step .. Reload + 2 * Step /\ Last \in Reload .. Last
    BY DutyRange, Numbers, PwmAssumption
  <2>2. FreshAge \in [Flags -> Nat]
    BY DEF FreshAge
  <2>3. started' \in -1 .. Motors /\ live' \in 0 .. Motors /\ serving' \in 0 .. Motors
    BY <1>1, Numbers DEF PwmInv, TypeOK, M
  <2>4. /\ counter' \in [M -> Reload .. Last]
        /\ match' \in [M -> Reload + Step .. Reload + 2 * Step]
        /\ status' \in [M -> SUBSET Flags] /\ age' \in [M -> [Flags -> Nat]]
        /\ settled' \in [M -> {0, 1}] /\ high' \in [M -> Nat]
    BY <1>1, <2>1, <2>2 DEF PwmInv, TypeOK
  <2> QED
    BY <1>1, <2>3, <2>4 DEF PwmInv, TypeOK
<1>3. ASSUME NEW m \in M PROVE TimerInv(m)'
  <2>1. HandlerInv(m)'
    BY <1>1, <1>3 DEF HandlerInv, M
  <2>2. CASE m = k
    <3>1. age'[m] = FreshAge /\ settled'[m] = 0 /\ status'[m] = {}
      BY <1>1, <2>2 DEF PwmInv, TypeOK
    <3> QED
      BY <2>1, <3>1 DEF TimerInv, AgeInv, PhaseInv
  <2>3. CASE m # k
    <3>1. /\ age'[m] = age[m] /\ settled'[m] = settled[m] /\ status'[m] = status[m]
          /\ counter'[m] = counter[m] /\ match'[m] = match[m] /\ pin'[m] = pin[m]
          /\ serving # m /\ serving' # m
      BY <1>1, <1>3, <2>3 DEF PwmInv, TypeOK, M
    <3>2. m \in Served => m \in Served'
      BY <1>1, <1>3, Numbers DEF Served, M, PwmInv, TypeOK
    <3>3. AgeInv(m) /\ PhaseInv(m)
      BY <1>3 DEF PwmInv, TimerInv
    <3>4. AgeInv(m)'
      <4>1. CASE m \in Served
        BY <3>1, <3>2, <3>3, <4>1 DEF AgeInv
      <4>2. CASE m \notin Served
        <5>1. age'[m] = FreshAge /\ settled'[m] = 0 /\ status'[m] \subseteq Flags
          BY <3>1, <3>3, <4>2, <1>3, OneTimer DEF AgeInv, PwmInv
        <5> QED
          BY <5>1, Numbers DEF AgeInv, FreshAge
      <4> QED
        BY <4>1, <4>2
    <3>5. PhaseInv(m)'
      BY <3>1, <3>3 DEF PhaseInv, Rising, High, Falling, Low
    <3> QED
      BY <2>1, <3>4, <3>5 DEF TimerInv
  <2> QED
    BY <2>2, <2>3
<1> QED
  BY <1>2, <1>3 DEF PwmInv, M

LEMMA PwmTick == PwmInv /\ Tick => PwmInv'
<1> SUFFICES ASSUME PwmInv, Tick PROVE PwmInv'
  OBVIOUS
<1>1. /\ sinceTick' = 0
      /\ UNCHANGED <<started, live, counter, match, status, age, serving, stat, pin,
                     settled, high>>
  BY DEF Tick
<1>2. todo' \in Seq(M \X Duties)
  <2>1. PICK d1, d2 \in [M -> Duties], twice \in BOOLEAN :
          todo' = [m \in M |-> <<m, d1[m]>>]
                  \o (IF twice THEN [m \in M |-> <<m, d2[m]>>] ELSE << >>)
    BY DEF Tick
  <2>2. ASSUME NEW d \in [M -> Duties] PROVE [m \in M |-> <<m, d[m]>>] \in Seq(M \X Duties)
    <3>1. [m \in M |-> <<m, d[m]>>] \in [1 .. Motors -> M \X Duties]
      BY DEF M
    <3> QED
      BY <3>1, Numbers
  <2> DEFINE one == [m \in M |-> <<m, d1[m]>>]
             two == IF twice THEN [m \in M |-> <<m, d2[m]>>] ELSE << >>
  <2>3. one \in Seq(M \X Duties)
    BY <2>2
  <2>4. two \in Seq(M \X Duties)
    <3>1. CASE twice
      BY <2>2, <3>1
    <3>2. CASE ~twice
      BY <3>2
    <3> QED
      BY <3>1, <3>2
  <2>5. todo' = one \o two
    BY <2>1
  <2> HIDE DEF one, two
  <2> QED
    BY <2>3, <2>4, <2>5
<1>3. TypeOK'
  <2>1. sinceTick' \in 0 .. TickPeriod
    BY <1>1, PwmAssumption
  <2> QED
    BY <1>1, <1>2, <2>1 DEF PwmInv, TypeOK
<1> QED
  BY <1>1, <1>3, TimersAlone DEF PwmInv, M

\* A timer whose registers and handler a step leaves alone.
LEMMA TimerAlone ==
  ASSUME PwmInv, NEW m \in M, serving # m, serving' # m,
         UNCHANGED <<started, live>>,
         counter'[m] = counter[m], match'[m] = match[m], status'[m] = status[m],
         age'[m] = age[m], pin'[m] = pin[m], settled'[m] = settled[m]
  PROVE  TimerInv(m)'
<1>1. TimerInv(m) /\ Served' = Served
  BY DEF PwmInv, Served
<1> QED
  BY <1>1 DEF TimerInv, HandlerInv, AgeInv, PhaseInv, Rising, High, Falling, Low

LEMMA PwmHandlerRead ==
  ASSUME PwmInv, NEW k \in M, HandlerRead(k)
  PROVE  PwmInv'
<1>1. /\ started # -1 /\ k <= live /\ serving = 0 /\ status[k] # {}
      /\ serving' = k /\ stat' = status[k]
      /\ pin' = [pin EXCEPT ![k] = "ovf" \in status[k]]
      /\ high' = [high EXCEPT ![k] = IF pin'[k] THEN @ ELSE 0]
      /\ UNCHANGED <<started, live, counter, match, status, age, todo, sinceTick, settled>>
  BY DEF HandlerRead
<1>2. k \in Served /\ Served' = Served
  BY <1>1 DEF Served, M, PwmInv, TypeOK
<1>3. pin' \in [M -> BOOLEAN] /\ pin'[k] = ("ovf" \in status[k])
  <2>1. ("ovf" \in status[k]) \in BOOLEAN
    OBVIOUS
  <2> HIDE <1>2
  <2> QED
    BY <1>1, <2>1, Zenon DEF PwmInv, TypeOK
<1>4. TypeOK'
  <2>1. serving' \in 0 .. Motors /\ stat' \subseteq Flags
    BY <1>1, OneTimer, Numbers DEF M, PwmInv
  <2>2. high' \in [M -> Nat]
    BY <1>1 DEF PwmInv, TypeOK
  <2> QED
    BY <1>1, <1>3, <2>1, <2>2 DEF PwmInv, TypeOK
<1>5. ASSUME NEW m \in M PROVE TimerInv(m)'
  <2>1. CASE m # k
    <3>1. pin'[m] = pin[m]
      BY <1>1, <2>1, Zenon DEF PwmInv, TypeOK
    <3> QED
      BY <1>1, <2>1, <3>1, TimerAlone DEF M
  <2>2. CASE m = k
    <3>1. TimerInv(k)
      BY DEF PwmInv
    <3>2. HandlerInv(k)'
      BY <1>1, <1>2, <1>3 DEF HandlerInv
    <3>3. AgeInv(k)'
      BY <1>1, <1>2, <3>1 DEF TimerInv, AgeInv
    <3>4. PhaseInv(k)'
      BY <1>1, <3>1 DEF TimerInv, PhaseInv, Rising, High, Falling, Low
    <3> QED
      BY <2>2, <3>2, <3>3, <3>4 DEF TimerInv
  <2> QED
    BY <2>1, <2>2
<1> QED
  BY <1>4, <1>5 DEF PwmInv, M

LEMMA PwmHandlerClear == PwmInv /\ HandlerClear => PwmInv'
<1> SUFFICES ASSUME PwmInv, HandlerClear PROVE PwmInv'
  OBVIOUS
<1> DEFINE k == serving
           younger == [f \in Flags |-> IF f \in stat THEN 0 ELSE age[k][f]]
<1>1. /\ k \in M /\ serving' = 0 /\ stat' = {}
      /\ status' = [status EXCEPT ![k] = status[k] \ stat]
      /\ age' = [age EXCEPT ![k] = younger]
      /\ UNCHANGED <<started, live, counter, match, pin, todo, sinceTick, settled, high>>
  BY Numbers DEF PwmInv, TypeOK, HandlerClear, M
<1>2. younger \in [Flags -> Nat]
  BY <1>1, OneTimer DEF PwmInv
<1>3. TypeOK'
  <2>1. status' \in [M -> SUBSET Flags] /\ age' \in [M -> [Flags -> Nat]]
    BY <1>1, <1>2 DEF PwmInv, TypeOK
  <2>2. serving' \in 0 .. Motors
    BY <1>1, Numbers
  <2> QED
    BY <1>1, <2>1, <2>2 DEF PwmInv, TypeOK
<1>4. ASSUME NEW m \in M PROVE TimerInv(m)'
  <2>1. CASE m # k
    <3>1. serving # m /\ serving' # m
      BY <1>1, <2>1 DEF M
    <3>2. status'[m] = status[m] /\ age'[m] = age[m]
      BY <1>1, <2>1 DEF PwmInv, TypeOK
    <3> QED
      BY <1>1, <3>1, <3>2, TimerAlone
  <2>2. CASE m = k
    <3>1. /\ k \in Served /\ Served' = Served /\ stat \subseteq status[k] /\ stat # {}
          /\ pin[k] <=> "ovf" \in stat
      BY <1>1 DEF PwmInv, TimerInv, HandlerInv, Served
    <3>2. /\ AgeInv(k) /\ PhaseInv(k) /\ stat \subseteq Flags /\ status[k] \subseteq Flags
      BY <1>1, OneTimer DEF PwmInv, TimerInv
    <3>3. /\ status'[k] = status[k] \ stat
          /\ \A f \in status[k] \ stat : age'[k][f] = age[k][f]
      BY <1>1, <3>2 DEF PwmInv, TypeOK
    <3> HIDE DEF younger
    <3>4. AgeInv(m)'
      BY <2>2, <3>1, <3>2, <3>3 DEF AgeInv
    <3>5. PhaseInv(m)'
      <4> SUFFICES ASSUME settled'[m] = 1
                   PROVE  Rising(m)' \/ High(m)' \/ Falling(m)' \/ Low(m)'
        BY DEF PhaseInv
      <4>0. settled[k] = 1 /\ counter' = counter /\ match' = match /\ pin' = pin /\ serving' # m
        BY <1>1, <2>2 DEF M
      <4>1. CASE Rising(k) /\ "ovf" \in stat
        <5>1. status'[m] = {} /\ pin[k]
          BY <2>2, <3>1, <3>3, <4>1 DEF Rising
        <5> QED
          BY <2>2, <4>0, <4>1, <5>1 DEF Rising, High
      <4>2. CASE Rising(k) /\ "ovf" \notin stat
        <5>1. "ovf" \in status'[m] /\ age'[m]["ovf"] = age[k]["ovf"]
          BY <2>2, <3>3, <4>2 DEF Rising
        <5> QED
          BY <2>2, <4>0, <4>2, <5>1 DEF Rising
      <4>3. CASE Falling(k)
        <5>1. status'[m] = {} /\ ~pin[k]
          BY <2>2, <3>1, <3>3, <4>3 DEF Falling
        <5> QED
          BY <2>2, <4>0, <4>3, <5>1 DEF Falling, Low
      <4>4. status[k] # {}
        BY <3>1
      <4> QED
        BY <3>2, <4>0, <4>1, <4>2, <4>3, <4>4 DEF PhaseInv, High, Low
    <3>6. HandlerInv(m)'
      BY <1>1, <2>2 DEF HandlerInv, M
    <3> QED
      BY <3>4, <3>5, <3>6 DEF TimerInv
  <2> QED
    BY <2>1, <2>2
<1> QED
  BY <1>3, <1>4 DEF PwmInv, M

LEMMA PwmSet == PwmInv /\ Set => PwmInv'
<1> SUFFICES ASSUME PwmInv, Set PROVE PwmInv'
  OBVIOUS
<1>1. PICK k \in M, val \in Duties :
        /\ todo # << >> /\ serving = 0 /\ Tail(todo) \in Seq(M \X Duties)
        /\ match' = [match EXCEPT ![k] = Duty(val)]
        /\ settled' = [settled EXCEPT ![k] = 0]
  <2>1. todo # << >> /\ todo \in Seq(M \X Duties)
    BY DEF Set, PwmInv, TypeOK
  <2>2. Head(todo) \in M \X Duties /\ Tail(todo) \in Seq(M \X Duties)
    BY <2>1
  <2>3. Head(todo)[1] \in M /\ Head(todo)[2] \in Duties
    BY <2>2
  <2> QED
    BY <2>1, <2>2, <2>3 DEF Set, Preempted
<1>2. /\ todo' = Tail(todo)
      /\ UNCHANGED <<started, live, counter, status, age, serving, stat, pin, sinceTick, high>>
  BY DEF Set
<1>3. Duty(val) \in Reload + Step .. Reload + 2 * Step
  BY DutyRange, PwmAssumption DEF Earliest, Latest
<1>4. TypeOK'
  <2>1. /\ match' \in [M -> Reload + Step .. Reload + 2 * Step]
        /\ settled' \in [M -> {0, 1}]
    BY <1>1, <1>3 DEF PwmInv, TypeOK
  <2> QED
    BY <1>1, <1>2, <2>1 DEF PwmInv, TypeOK
<1>5. ASSUME NEW m \in M PROVE TimerInv(m)'
  <2>1. serving # m /\ serving' # m /\ Served' = Served
    BY <1>1, <1>2 DEF M, Served
  <2>2. CASE m # k
    BY <1>1, <1>2, <2>1, <2>2, TimerAlone DEF PwmInv, TypeOK
  <2>3. CASE m = k
    <3>1. settled'[m] = 0 /\ AgeInv(m)
      BY <1>1, <2>3 DEF PwmInv, TypeOK, TimerInv
    <3> QED
      BY <1>2, <2>1, <3>1 DEF TimerInv, HandlerInv, AgeInv, PhaseInv
  <2> QED
    BY <2>2, <2>3
<1> QED
  BY <1>4, <1>5 DEF PwmInv, M
-----------------------------------------------------------------------------
\* What Advance does to one timer: to one that stands still or that nobody serves, ...
LEMMA NotServed ==
  ASSUME PwmInv, Advance, NEW m \in M, m \notin Served
  PROVE  age'[m] = FreshAge /\ settled'[m] = 0 /\ serving # m
<1>1. settled[m] = 0 /\ serving # m
  BY DEF PwmInv, TimerInv, AgeInv, HandlerInv
<1> QED
  BY <1>1 DEF Advance, FreshAge

\* ... and to one that runs and is served.
LEMMA IsServed ==
  ASSUME PwmInv, Advance, NEW m \in M, m \in Served
  PROVE  /\ \A f \in status[m] : age[m][f] < Latency
         /\ counter'[m] = IF counter[m] = Last THEN Reload ELSE counter[m] + 1
         /\ status'[m] = status[m]
               \cup (IF counter[m] = Last THEN {"ovf"} ELSE {})
               \cup (IF counter'[m] = match[m] THEN {"mat"} ELSE {})
         /\ \A f \in Flags : age'[m][f] = IF f \in status[m] THEN age[m][f] + 1 ELSE 0
         /\ settled'[m] = IF counter[m] = Last THEN 1 ELSE settled[m]
         /\ match'[m] = match[m] /\ pin'[m] = pin[m] /\ serving' = serving /\ stat' = stat
<1>1. m <= live
  BY DEF Served, PwmInv, TypeOK
<1>2. counter'[m] = IF counter[m] = Last THEN Reload ELSE counter[m] + 1
  BY <1>1, Numbers DEF Advance, PwmInv, TypeOK, M
<1>3. status'[m] = status[m]
        \cup (IF counter[m] = Last THEN {"ovf"} ELSE {})
        \cup (IF counter'[m] = match[m] THEN {"mat"} ELSE {})
  BY <1>1 DEF Advance
<1>4. /\ \A f \in status[m] : age[m][f] < Latency
      /\ \A f \in Flags : age'[m][f] = IF f \in status[m] THEN age[m][f] + 1 ELSE 0
      /\ settled'[m] = IF counter[m] = Last THEN 1 ELSE settled[m]
  BY DEF Advance
<1>5. match'[m] = match[m] /\ pin'[m] = pin[m] /\ serving' = serving /\ stat' = stat
  BY DEF Advance
<1> QED
  BY <1>2, <1>3, <1>4, <1>5

LEMMA AdvanceTypes == PwmInv /\ Advance => TypeOK'
<1> SUFFICES ASSUME PwmInv, Advance PROVE TypeOK'
  OBVIOUS
<1>1. /\ counter' = [m \in M |-> IF m > live THEN counter[m]
                                ELSE IF counter[m] = Last THEN Reload ELSE counter[m] + 1]
      /\ status' = [m \in M |-> status[m]
                  \cup (IF m <= live /\ counter[m] = Last THEN {"ovf"} ELSE {})
                  \cup (IF m <= live /\ counter'[m] = match[m] THEN {"mat"} ELSE {})]
      /\ age' = [m \in M |-> [f \in Flags |-> IF m \in Served /\ f \in status[m]
                                             THEN age[m][f] + 1 ELSE 0]]
      /\ settled' = [m \in M |-> IF m \in Served /\ counter[m] = Last THEN 1 ELSE settled[m]]
      /\ high' = [m \in M |-> IF pin[m] /\ m \in Served THEN high[m] + 1 ELSE 0]
      /\ sinceTick' = IF started = Motors /\ sinceTick < TickPeriod THEN sinceTick + 1
                      ELSE sinceTick
      /\ UNCHANGED <<started, live, match, serving, stat, pin, todo>>
  BY DEF Advance
<1>2. counter' \in [M -> Reload .. Last]
  <2>1. ASSUME NEW m \in M
        PROVE  (IF m > live THEN counter[m]
                ELSE IF counter[m] = Last THEN Reload ELSE counter[m] + 1) \in Reload .. Last
    BY OneTimer, Numbers DEF PwmInv
  <2> QED
    BY <1>1, <2>1
<1>3. status' \in [M -> SUBSET Flags]
  <2>1. ASSUME NEW m \in M
        PROVE  status[m] \cup (IF m <= live /\ counter[m] = Last THEN {"ovf"} ELSE {})
                 \cup (IF m <= live /\ counter'[m] = match[m] THEN {"mat"} ELSE {}) \in SUBSET Flags
    BY OneTimer DEF PwmInv, Flags
  <2> QED
    BY <1>1, <2>1
<1>4. age' \in [M -> [Flags -> Nat]]
  <2>1. ASSUME NEW m \in M, NEW f \in Flags
        PROVE  (IF m \in Served /\ f \in status[m] THEN age[m][f] + 1 ELSE 0) \in Nat
    BY OneTimer DEF PwmInv
  <2> QED
    BY <1>1, <2>1
<1>5. settled' \in [M -> {0, 1}] /\ high' \in [M -> Nat]
  BY <1>1 DEF PwmInv, TypeOK
<1>6. sinceTick' \in 0 .. TickPeriod
  BY <1>1, PwmAssumption DEF PwmInv, TypeOK
<1> QED
  BY <1>1, <1>2, <1>3, <1>4, <1>5, <1>6 DEF PwmInv, TypeOK

\* A flag of a handler at work: what arrives while it runs is younger.
LEMMA AdvanceHandler ==
  ASSUME PwmInv, Advance, NEW m \in M
  PROVE  HandlerInv(m)'
<1> SUFFICES ASSUME serving' = m PROVE HandlerInv(m)'
  BY DEF HandlerInv
<1>1. serving = m /\ m \in Served /\ Served' = Served
  BY DEF Advance, PwmInv, TimerInv, HandlerInv, Served
<1>2. /\ stat \subseteq status[m] /\ stat # {}
      /\ pin[m] <=> "ovf" \in stat
      /\ "mat" \in status[m] \ stat => \A f \in stat : counter[m] - Latest <= age[m][f]
  BY <1>1 DEF PwmInv, TimerInv, HandlerInv
<1>3. stat' \subseteq status'[m] /\ stat' # {}
  BY <1>1, <1>2, IsServed
<1>4. pin'[m] <=> "ovf" \in stat'
  BY <1>1, <1>2, IsServed, Zenon
<1>5. ASSUME "mat" \in status'[m] \ stat', NEW f \in stat'
      PROVE  counter'[m] - Latest <= age'[m][f]
  <2>1. /\ f \in stat /\ f \in Flags /\ f \in status[m] /\ age[m][f] \in Nat
        /\ age'[m][f] = age[m][f] + 1 /\ "mat" \notin stat
    BY <1>1, <1>2, <1>5, IsServed, OneTimer DEF PwmInv
  <2>2. /\ counter[m] \in Int /\ match[m] \in Int /\ match[m] <= Latest
        /\ counter'[m] = IF counter[m] = Last THEN Reload ELSE counter[m] + 1
    BY <1>1, IsServed, OneTimer DEF PwmInv
  <2>3. CASE "mat" \in status[m]
    <3>1. counter[m] - Latest <= age[m][f]
      BY <1>2, <2>1, <2>3
    <3> QED
      BY <2>1, <2>2, <3>1, Numbers
  <2>4. CASE "mat" \notin status[m]
    <3>1. counter'[m] = match[m]
      BY <1>1, <1>5, <2>4, IsServed
    <3> QED
      BY <2>1, <2>2, <3>1, Numbers
  <2> QED
    BY <2>3, <2>4
<1> QED
  BY <1>1, <1>3, <1>4, <1>5 DEF HandlerInv

\* The timer overflows: whatever came before, a handler at work has not cleared it, and
\* a match it has not read would have waited too long.
LEMMA Overflow ==
  ASSUME PwmInv, Advance, NEW m \in M, m \in Served, counter[m] = Last
  PROVE  Rising(m)'
<1>1. counter'[m] = Reload /\ match'[m] = match[m] /\ "ovf" \in status'[m]
  BY IsServed
<1>2. counter'[m] < match'[m] /\ counter'[m] # match[m]
  BY <1>1, OneTimer, Numbers DEF PwmInv
<1>3. age'[m]["ovf"] \in Nat
  BY AdvanceTypes DEF TypeOK, Flags
<1>4. ASSUME serving' = m, "ovf" \in stat' PROVE status'[m] = stat'
  <2>1. serving = m /\ stat' = stat /\ "ovf" \in stat
    BY <1>4, IsServed
  <2>2. stat \subseteq status[m] /\ status[m] \subseteq Flags
    BY <2>1, OneTimer DEF PwmInv, TimerInv, HandlerInv
  <2>3. "mat" \notin status[m] \ stat
    <3> SUFFICES ASSUME "mat" \in status[m] \ stat PROVE FALSE
      OBVIOUS
    <3>1. Last - Latest <= age[m]["ovf"]
      BY <2>1 DEF PwmInv, TimerInv, HandlerInv
    <3>2. age[m]["ovf"] < Latency /\ age[m]["ovf"] \in Nat
      BY <2>1, <2>2, IsServed, OneTimer DEF PwmInv, Flags
    <3> QED
      BY <3>1, <3>2, Numbers
  <2>4. status'[m] = status[m] \cup {"ovf"}
    BY <1>2, IsServed
  <2> QED
    BY <2>1, <2>2, <2>3, <2>4 DEF Flags
<1> QED
  BY <1>1, <1>2, <1>3, <1>4, Numbers DEF Rising

LEMMA AdvancePhase ==
  ASSUME PwmInv, Advance, NEW m \in M, m \in Served
  PROVE  PhaseInv(m)'
<1>1. CASE counter[m] = Last
  BY <1>1, Overflow DEF PhaseInv
<1>2. CASE counter[m] # Last
  <2> SUFFICES ASSUME settled'[m] = 1
               PROVE  Rising(m)' \/ High(m)' \/ Falling(m)' \/ Low(m)'
    BY DEF PhaseInv
  <2>1. /\ counter[m] \in Int /\ match[m] \in Int /\ match[m] >= Earliest
        /\ counter'[m] = counter[m] + 1 /\ match'[m] = match[m]
        /\ \A f \in Flags : age[m][f] \in Nat
    BY <1>2, IsServed, OneTimer DEF PwmInv
  <2>2. /\ \A f \in status[m] : age[m][f] < Latency
        /\ \A f \in Flags : age'[m][f] = IF f \in status[m] THEN age[m][f] + 1 ELSE 0
        /\ status'[m] = status[m] \cup (IF counter'[m] = match[m] THEN {"mat"} ELSE {})
        /\ serving' = serving /\ stat' = stat
    BY <1>2, IsServed
  <2>3. pin'[m] = pin[m]
    BY IsServed
  <2>4. settled[m] = 1
    BY <1>2, IsServed
  <2>5. CASE Rising(m)
    <3>1. /\ age[m]["ovf"] < Latency /\ age[m]["ovf"] \in Nat /\ "ovf" \in status[m]
          /\ age'[m]["ovf"] = age[m]["ovf"] + 1 /\ counter[m] - Reload <= age[m]["ovf"]
      BY <2>1, <2>2, <2>5 DEF Rising, Flags
    <3>2. /\ counter'[m] < match[m] /\ counter'[m] # match[m]
          /\ counter'[m] - Reload <= age'[m]["ovf"]
      BY <2>1, <3>1, Numbers
    <3>3. status'[m] = status[m]
      BY <2>2, <3>2
    <3>4. Rising(m)'
      BY <2>1, <2>2, <2>5, <3>1, <3>2, <3>3 DEF Rising
    <3> QED
      BY <3>4
  <2>6. CASE High(m)
    <3>1. CASE counter'[m] = match[m]
      <4>1. status'[m] = {"mat"} /\ age'[m]["mat"] = 0 /\ counter'[m] - match'[m] = 0
        BY <2>1, <2>2, <2>6, <3>1 DEF High, Flags
      <4>2. Falling(m)'
        BY <2>1, <3>1, <4>1 DEF Falling
      <4> QED
        BY <4>2
    <3>2. CASE counter'[m] # match[m]
      <4>1. status'[m] = {} /\ counter'[m] < match'[m]
        BY <2>1, <2>2, <2>6, <3>2 DEF High
      <4>2. High(m)'
        BY <2>3, <2>6, <4>1 DEF High
      <4> QED
        BY <4>2
    <3> QED
      BY <3>1, <3>2
  <2>7. CASE Falling(m)
    <3>1. status'[m] = {"mat"} /\ age'[m]["mat"] = age[m]["mat"] + 1 /\ age[m]["mat"] \in Nat
      BY <2>1, <2>2, <2>7 DEF Falling, Flags
    <3>2. Falling(m)'
      BY <2>1, <2>7, <3>1 DEF Falling
    <3> QED
      BY <3>2
  <2>8. CASE Low(m)
    <3>1. status'[m] = {} /\ counter'[m] >= match'[m]
      BY <2>1, <2>2, <2>8 DEF Low
    <3>2. Low(m)'
      BY <2>3, <2>8, <3>1 DEF Low
    <3> QED
      BY <3>2
  <2>9. PhaseInv(m)
    BY DEF PwmInv, TimerInv
  <2> QED
    BY <2>4, <2>5, <2>6, <2>7, <2>8, <2>9 DEF PhaseInv
<1> QED
  BY <1>1, <1>2

LEMMA PwmAdvance == PwmInv /\ Advance => PwmInv'
<1> SUFFICES ASSUME PwmInv, Advance PROVE PwmInv'
  OBVIOUS
<1>1. TypeOK'
  BY AdvanceTypes
<1>2. ASSUME NEW m \in M PROVE TimerInv(m)'
  <2>0. Served' = Served
    BY DEF Advance, Served
  <2>1. CASE m \notin Served
    BY <2>0, <2>1, NotServed, AdvanceHandler DEF TimerInv, AgeInv, PhaseInv
  <2>2. CASE m \in Served
    <3>1. AgeInv(m)'
      <4> SUFFICES ASSUME NEW f \in status'[m] PROVE age'[m][f] <= Latency
        BY <2>0, <2>2 DEF AgeInv
      <4>1. f \in Flags
        BY <1>1 DEF TypeOK
      <4> QED
        BY <2>2, <4>1, IsServed, OneTimer, Numbers DEF PwmInv
    <3> QED
      BY <2>2, <3>1, AdvanceHandler, AdvancePhase DEF TimerInv
  <2> QED
    BY <2>1, <2>2
<1> QED
  BY <1>1, <1>2 DEF PwmInv, M

LEMMA PwmStep == PwmInv /\ [Next]_vars => PwmInv'
<1> SUFFICES ASSUME PwmInv, [Next]_vars PROVE PwmInv'
  OBVIOUS
<1>1. CASE UNCHANGED vars
  <2>1. TypeOK'
    BY <1>1 DEF PwmInv, TypeOK, vars
  <2> QED
    BY <1>1, <2>1, TimersAlone DEF PwmInv, vars, M
<1> QED
  BY <1>1, PwmStart, PwmStop, PwmInitTimer, PwmTick, PwmSet, PwmAdvance, PwmHandlerClear,
     PwmHandlerRead DEF Next

LEMMA PwmAlways == Spec => []PwmInv
BY PwmInit, PwmStep, PTL DEF Spec

\* pwm.c: the registers hold what the hardware expects, in every step of a boot, of a
\* flight and of the reset between two.
THEOREM TypeCorrect == Spec => []TypeOK
<1>1. PwmInv => TypeOK
  BY DEF PwmInv
<1> QED
  BY <1>1, PwmAlways, PTL

\* pwm_intr, pwm_set: an overflow after the last change of its duty the pin of a motor
\* follows it, up and down at most Latency late, for any number of motors whose
\* handlers delay each other.
THEOREM PinFollowsDuty == Spec => []PulseFollowsDuty
<1>1. ASSUME PwmInv PROVE PulseFollowsDuty
  <2> SUFFICES ASSUME NEW m \in Served, settled[m] = 1
               PROVE  /\ counter[m] > Reload + Latency /\ counter[m] < match[m] => pin[m]
                      /\ counter[m] > match[m] + Latency => ~pin[m]
    BY DEF PulseFollowsDuty
  <2>1. m \in M
    BY <1>1, Numbers DEF Served, M, PwmInv, TypeOK
  <2>2. /\ counter[m] \in Int /\ match[m] \in Int /\ \A f \in Flags : age[m][f] \in Nat
        /\ \A f \in status[m] : age[m][f] <= Latency
    BY <1>1, <2>1, OneTimer DEF PwmInv, TimerInv, AgeInv
  <2>3. CASE Rising(m)
    <3>1. counter[m] < match[m] /\ counter[m] <= Reload + Latency
      BY <2>2, <2>3, Numbers DEF Rising, Flags
    <3> QED
      BY <2>2, <3>1, Numbers
  <2>4. CASE High(m)
    <3>1. counter[m] < match[m] /\ pin[m]
      BY <2>4 DEF High
    <3>2. ~(counter[m] > match[m] + Latency)
      BY <2>2, <3>1, Numbers
    <3> QED
      BY <3>1, <3>2
  <2>5. CASE Falling(m)
    <3>1. counter[m] >= match[m] /\ counter[m] <= match[m] + Latency
      BY <2>2, <2>5, Numbers DEF Falling, Flags
    <3> QED
      BY <2>2, <3>1, Numbers
  <2>6. CASE Low(m)
    <3>1. counter[m] >= match[m] /\ ~pin[m]
      BY <2>6 DEF Low
    <3>2. ~(counter[m] < match[m])
      BY <2>2, <3>1
    <3> QED
      BY <3>1, <3>2
  <2>7. Rising(m) \/ High(m) \/ Falling(m) \/ Low(m)
    BY <1>1, <2>1 DEF PwmInv, TimerInv, PhaseInv
  <2> QED
    BY <2>3, <2>4, <2>5, <2>6, <2>7
<1> QED
  BY <1>1, PwmAlways, PTL
-----------------------------------------------------------------------------
(***************************************************************************)
(* How long a pulse is.  A timer that is told a shorter duty in the middle *)
(* of a pulse may miss its match; the pin then stays up over the next      *)
(* overflow.  It cannot happen twice in a row: the tick that did it is     *)
(* over before that overflow, and the next one only begins when the pin    *)
(* has come down again.                                                    *)
(***************************************************************************)
Period == Word - Reload

\* Time since the overflow of a timer.
Spent(m) == counter[m] - Reload

\* The pin is up, or will be when the overflow is served.
Lit(m) == pin[m] \/ "ovf" \in status[m]

\* A pulse that began before the last overflow: its tick is over, and was not long ago.
\* A timer not settled: a duty was set in this period, not long ago; and while more can
\* follow the pin is not up late in the period.
HighInv(m) ==
  /\ ~pin[m] \/ m \notin Served => high[m] = 0
  /\ high[m] <= Spent(m) + (IF settled[m] = 1 THEN Period ELSE 0)
  /\ high[m] > Spent(m) => todo = << >> /\ sinceTick <= TickTime + Period + Spent(m)
  /\ m \in Served /\ settled[m] = 0 =>
       /\ sinceTick <= TickTime + Spent(m)
       /\ todo # << >> /\ Lit(m) => Spent(m) <= 2 * Step + Latency + sinceTick

TickInv ==
  /\ started # Motors => todo = << >> /\ sinceTick = 0
  /\ todo # << >> => sinceTick <= TickTime

PulseInv == TickInv /\ \A m \in M : HighInv(m)

LEMMA TickNumbers ==
  /\ TickTime \in Nat /\ TickPeriod \in Nat
  /\ Period \in Nat /\ Period = Last - Reload + 1
  /\ 2 * Step + Latency + TickTime < Period /\ 2 * Step \in Nat
  /\ TickTime + Period + 2 * Step + Latency < TickPeriod
BY Numbers, TickAssumption, PwmAssumption DEF Period, Last

\* What the types say of the times.
LEMMA Times ==
  ASSUME TypeOK, NEW m \in M
  PROVE  /\ Spent(m) \in Nat /\ Spent(m) < Period /\ (Spent(m) = Period - 1 <=> counter[m] = Last)
         /\ high[m] \in Nat /\ sinceTick \in Nat /\ sinceTick <= TickPeriod
         /\ settled[m] \in {0, 1}
<1>1. counter[m] \in Int /\ Reload <= counter[m] /\ counter[m] <= Last
  BY OneTimer
<1>2. high[m] \in Nat /\ sinceTick \in Nat /\ sinceTick <= TickPeriod /\ settled[m] \in {0, 1}
  BY TickNumbers DEF TypeOK
<1> QED
  BY <1>1, <1>2, Numbers, TickNumbers DEF Spent

\* A settled timer: its pin is up, or about to be, only early in the period.
LEMMA SettledLit ==
  ASSUME PwmInv, NEW m \in M, m \in Served, settled[m] = 1, Lit(m)
  PROVE  /\ Spent(m) <= 2 * Step + Latency
         /\ (\A f \in status[m] : age[m][f] < Latency) => Spent(m) < 2 * Step + Latency
<1>1. /\ counter[m] \in Int /\ match[m] \in Int /\ match[m] <= Latest
      /\ \A f \in Flags : age[m][f] \in Nat
      /\ \A f \in status[m] : age[m][f] <= Latency
  BY OneTimer DEF PwmInv, TimerInv, AgeInv
<1>2. Spent(m) = counter[m] - Reload /\ 2 * Step \in Nat /\ Latest = Reload + 2 * Step
  BY Numbers, TickNumbers DEF Spent
<1>3. CASE Rising(m)
  <2>1. /\ counter[m] - Reload <= age[m]["ovf"] /\ age[m]["ovf"] \in Nat
        /\ "ovf" \in status[m] /\ age[m]["ovf"] <= Latency
    BY <1>1, <1>3 DEF Rising, Flags
  <2> QED
    BY <1>1, <1>2, <2>1, Numbers
<1>4. CASE High(m)
  BY <1>1, <1>2, <1>4, Numbers DEF High
<1>5. CASE Falling(m)
  <2>1. /\ counter[m] - match[m] <= age[m]["mat"] /\ age[m]["mat"] \in Nat
        /\ "mat" \in status[m] /\ age[m]["mat"] <= Latency
    BY <1>1, <1>5 DEF Falling, Flags
  <2> QED
    BY <1>1, <1>2, <2>1, Numbers
<1>6. ~Low(m)
  <2>1. CASE pin[m]
    BY <2>1 DEF Low
  <2>2. CASE "ovf" \in status[m]
    BY <2>2 DEF Low
  <2> QED
    BY <2>1, <2>2 DEF Lit
<1> QED
  BY <1>3, <1>4, <1>5, <1>6 DEF PwmInv, TimerInv, PhaseInv

\* A pulse that began before the last overflow ends before a tick may begin.
LEMMA OverlongEnds ==
  ASSUME PwmInv, PulseInv, NEW m \in M, high[m] > Spent(m)
  PROVE  /\ todo = << >> /\ sinceTick < TickPeriod
         /\ pin[m] /\ m \in Served /\ settled[m] = 1
<1>1. HighInv(m) /\ TypeOK
  BY DEF PulseInv, PwmInv
<1>2. /\ Spent(m) \in Nat /\ high[m] \in Nat /\ sinceTick \in Nat /\ settled[m] \in {0, 1}
  BY <1>1, Times
<1>3. high[m] # 0
  BY <1>2
<1>4. pin[m] /\ m \in Served
  BY <1>1, <1>3 DEF HighInv
<1>5. settled[m] = 1
  BY <1>1, <1>2 DEF HighInv
<1>6. Spent(m) <= 2 * Step + Latency
  BY <1>4, <1>5, SettledLit DEF Lit
<1>7. todo = << >> /\ sinceTick <= TickTime + Period + Spent(m)
  BY <1>1 DEF HighInv
<1>8. sinceTick < TickPeriod
  BY <1>2, <1>6, <1>7, TickNumbers, Numbers
<1> QED
  BY <1>4, <1>5, <1>7, <1>8
-----------------------------------------------------------------------------
LEMMA PulseInit == Init => PulseInv
<1> SUFFICES ASSUME Init PROVE PulseInv
  OBVIOUS
<1>1. started = -1 /\ todo = << >> /\ sinceTick = 0 /\ TickInv
  BY TickNumbers DEF Init, TickInv
<1>2. ASSUME NEW m \in M PROVE HighInv(m)
  <2>1. high[m] = 0 /\ settled[m] = 0 /\ counter[m] = Last /\ m \notin Served
    BY DEF Init, Served
  <2>2. Spent(m) \in Nat
    BY <2>1, Numbers, TickNumbers DEF Spent
  <2> QED
    BY <1>1, <2>1, <2>2 DEF HighInv
<1> QED
  BY <1>1, <1>2 DEF PulseInv

\* A step between the overflows of a timer that lets no time pass: the pin is turned on
\* only for an overflow that waits, and the pulse grows no longer.
LEMMA HighKept ==
  ASSUME PwmInv, PulseInv, NEW m \in M,
         Served' = Served, UNCHANGED <<todo, sinceTick>>,
         counter'[m] = counter[m], settled'[m] = settled[m],
         Lit(m)' => Lit(m),
         high'[m] = high[m] \/ high'[m] = 0,
         ~pin'[m] => high'[m] = 0
  PROVE  HighInv(m)'
<1>1. HighInv(m) /\ TypeOK
  BY DEF PulseInv, PwmInv
<1>2. /\ Spent(m) \in Nat /\ high[m] \in Nat /\ sinceTick \in Nat /\ settled[m] \in {0, 1}
      /\ Period \in Nat
  BY <1>1, Times, TickNumbers
<1>3. Spent(m)' = Spent(m)
  BY DEF Spent
<1>4. high'[m] \in Nat /\ high'[m] <= high[m]
  BY <1>2
<1>5. ~pin'[m] \/ m \notin Served' => high'[m] = 0
  BY <1>1 DEF HighInv
<1>6. high'[m] <= Spent(m) + (IF settled'[m] = 1 THEN Period ELSE 0)
  BY <1>1, <1>2, <1>4 DEF HighInv
<1>7. high'[m] > Spent(m) => todo' = << >> /\ sinceTick' <= TickTime + Period + Spent(m)
  BY <1>1, <1>2, <1>4 DEF HighInv
<1>8. m \in Served' /\ settled'[m] = 0 =>
        /\ sinceTick' <= TickTime + Spent(m)
        /\ todo' # << >> /\ Lit(m)' => Spent(m) <= 2 * Step + Latency + sinceTick'
  BY <1>1 DEF HighInv
<1> HIDE DEF Lit
<1> QED
  BY <1>3, <1>5, <1>6, <1>7, <1>8 DEF HighInv, Period

\* A timer at the beginning of what it is served for: no pulse, and no tick.
LEMMA HighFresh ==
  ASSUME TypeOK', NEW m \in M, high'[m] = 0, todo' = << >>, sinceTick' = 0
  PROVE  HighInv(m)'
<1>1. counter'[m] \in Reload .. Last /\ settled'[m] \in {0, 1}
  BY DEF TypeOK
<1>2. Spent(m)' \in Nat
  BY <1>1, Numbers DEF Spent
<1>3. Period' = Period
  BY DEF Period
<1> QED
  BY <1>1, <1>2, <1>3, TickNumbers, Numbers DEF HighInv

LEMMA PulseStart == PwmInv /\ PulseInv /\ Start /\ PwmInv' => PulseInv'
<1> SUFFICES ASSUME PwmInv, PulseInv, Start, PwmInv' PROVE PulseInv'
  OBVIOUS
<1>1. /\ started = -1 /\ todo' = << >> /\ sinceTick' = 0 /\ high' = high
  BY Numbers DEF Start, PulseInv, TickInv
<1>2. ASSUME NEW m \in M PROVE HighInv(m)'
  <2>1. HighInv(m) /\ m \notin Served
    BY <1>1 DEF PulseInv, Served
  <2>2. high'[m] = 0
    BY <1>1, <2>1 DEF HighInv
  <2> QED
    BY <1>1, <2>2, HighFresh DEF PwmInv
<1> QED
  BY <1>1, <1>2, TickNumbers DEF PulseInv, TickInv, M

LEMMA PulseStop == PwmInv /\ PulseInv /\ Stop /\ PwmInv' => PulseInv'
<1> SUFFICES ASSUME PwmInv, PulseInv, Stop, PwmInv' PROVE PulseInv'
  OBVIOUS
<1>1. /\ todo' = << >> /\ sinceTick' = 0 /\ \A m \in M : high'[m] = 0
  BY DEF Stop
<1>2. ASSUME NEW m \in M PROVE HighInv(m)'
  BY <1>1, HighFresh DEF PwmInv
<1> QED
  BY <1>1, <1>2, TickNumbers DEF PulseInv, TickInv, M

LEMMA PulseInitTimer == PwmInv /\ PulseInv /\ InitTimer /\ PwmInv' => PulseInv'
<1> SUFFICES ASSUME PwmInv, PulseInv, InitTimer, PwmInv' PROVE PulseInv'
  OBVIOUS
<1> DEFINE k == started + 1
<1>1. /\ k \in M /\ started # -1 /\ started' = k
      /\ live' = IF k > live THEN k ELSE live
      /\ counter' = [counter EXCEPT ![k] = Last]
      /\ status' = [status EXCEPT ![k] = {}]
      /\ settled' = [settled EXCEPT ![k] = 0] /\ high' = [high EXCEPT ![k] = 0]
      /\ UNCHANGED <<pin, todo, sinceTick>>
  BY Numbers DEF PwmInv, InitTimer, Preempted, M
<1>2. todo' = << >> /\ sinceTick' = 0
  BY Numbers DEF InitTimer, PulseInv, TickInv
<1> HIDE DEF k
<1>3. ASSUME NEW m \in M PROVE HighInv(m)'
  <2>1. HighInv(m)
    BY DEF PulseInv
  <2>2. CASE high'[m] = 0
    BY <1>2, <2>2, HighFresh DEF PwmInv
  <2>3. CASE high'[m] # 0
    <3>1. /\ m # k /\ high'[m] = high[m] /\ counter'[m] = counter[m]
          /\ settled'[m] = settled[m] /\ status'[m] = status[m]
      BY <1>1, <2>3 DEF PwmInv, TypeOK
    <3>2. pin[m] /\ m \in Served
      BY <2>1, <2>3, <3>1 DEF HighInv
    <3>3. m \in Served'
      <4>1. m \in 1 .. live /\ live \in Int /\ live' \in Int /\ live <= live'
        BY <1>1, <3>2, Numbers DEF Served, M, PwmInv, TypeOK
      <4> QED
        BY <1>1, <4>1, Numbers DEF Served, M
    <3>4. Spent(m)' = Spent(m) /\ Period' = Period
      BY <3>1 DEF Spent, Period
    <3>5. Lit(m)' <=> Lit(m)
      BY <1>1, <3>1 DEF Lit
    <3> HIDE DEF Lit
    <3> QED
      BY <1>1, <2>1, <3>1, <3>2, <3>3, <3>4, <3>5 DEF HighInv
  <2> QED
    BY <2>2, <2>3
<1> QED
  BY <1>2, <1>3, TickNumbers DEF PulseInv, TickInv, M

LEMMA PulseHandlerRead ==
  ASSUME PwmInv, PulseInv, NEW k \in M, HandlerRead(k)
  PROVE  PulseInv'
<1>1. /\ serving = 0 /\ pin' = [pin EXCEPT ![k] = "ovf" \in status[k]]
      /\ high' = [high EXCEPT ![k] = IF pin'[k] THEN @ ELSE 0]
      /\ UNCHANGED <<started, live, counter, status, todo, sinceTick, settled>>
  BY DEF HandlerRead
<1>2. Served' = Served /\ pin'[k] = ("ovf" \in status[k])
  BY <1>1, Zenon DEF Served, PwmInv, TypeOK
<1>3. ASSUME NEW m \in M PROVE HighInv(m)'
  <2>1. CASE m = k
    <3>1. high'[m] = IF pin'[m] THEN high[m] ELSE 0
      BY <1>1, <2>1 DEF PwmInv, TypeOK
    <3>2. Lit(m)' => Lit(m)
      BY <1>1, <1>2, <2>1, Zenon DEF Lit
    <3> QED
      BY <1>1, <1>2, <3>1, <3>2, HighKept
  <2>2. CASE m # k
    <3>1. high'[m] = high[m]
      BY <1>1, <2>2 DEF PwmInv, TypeOK
    <3>2. pin'[m] = pin[m]
      BY <1>1, <2>2, Zenon DEF PwmInv, TypeOK
    <3>3. ~pin[m] => high[m] = 0
      BY DEF PulseInv, HighInv
    <3>4. Lit(m)' => Lit(m)
      BY <1>1, <3>2, Zenon DEF Lit
    <3> QED
      BY <1>1, <1>2, <3>1, <3>2, <3>3, <3>4, HighKept
  <2> QED
    BY <2>1, <2>2
<1> QED
  BY <1>1, <1>3 DEF PulseInv, TickInv, M

LEMMA PulseHandlerClear == PwmInv /\ PulseInv /\ HandlerClear => PulseInv'
<1> SUFFICES ASSUME PwmInv, PulseInv, HandlerClear PROVE PulseInv'
  OBVIOUS
<1>1. /\ status' = [status EXCEPT ![serving] = @ \ stat]
      /\ UNCHANGED <<started, live, counter, pin, todo, sinceTick, settled, high>>
  BY DEF HandlerClear
<1>2. ASSUME NEW m \in M PROVE HighInv(m)'
  <2>1. status'[m] \subseteq status[m]
    BY <1>1 DEF PwmInv, TypeOK
  <2>2. Lit(m)' => Lit(m)
    BY <1>1, <2>1 DEF Lit
  <2>3. ~pin[m] => high[m] = 0
    BY DEF PulseInv, HighInv
  <2>4. Served' = Served
    BY <1>1 DEF Served
  <2> QED
    BY <1>1, <2>2, <2>3, <2>4, HighKept
<1> QED
  BY <1>1, <1>2 DEF PulseInv, TickInv, M

\* A tick begins: every timer that is served has overflowed since the last one.
LEMMA PulseTick == PwmInv /\ PulseInv /\ Tick => PulseInv'
<1> SUFFICES ASSUME PwmInv, PulseInv, Tick PROVE PulseInv'
  OBVIOUS
<1>1. /\ started = Motors /\ sinceTick = TickPeriod /\ sinceTick' = 0
      /\ UNCHANGED <<started, live, counter, status, pin, settled, high>>
  BY DEF Tick
<1>2. ASSUME NEW m \in M PROVE HighInv(m)'
  <2>1. HighInv(m) /\ TypeOK
    BY DEF PulseInv, PwmInv
  <2>2. /\ Spent(m) \in Nat /\ Spent(m) < Period /\ high[m] \in Nat
        /\ settled[m] \in {0, 1}
    BY <2>1, Times
  <2>3. high[m] <= Spent(m)
    BY <1>1, <2>2, OverlongEnds, TickNumbers
  <2>4. m \in Served => settled[m] = 1
    BY <1>1, <2>1, <2>2, TickNumbers, Numbers DEF HighInv
  <2>5. Spent(m)' = Spent(m) /\ Served' = Served /\ high'[m] = high[m] /\ pin' = pin
        /\ settled'[m] = settled[m] /\ Period' = Period
    BY <1>1 DEF Spent, Served, Period
  <2> QED
    BY <2>1, <2>2, <2>3, <2>4, <2>5 DEF HighInv
<1> QED
  BY <1>1, <1>2, TickNumbers DEF PulseInv, TickInv, M

\* A duty is set: no pulse is from before the last overflow, and one of this period is
\* up early in it, or was when the tick began to set the duties.
LEMMA PulseSet == PwmInv /\ PulseInv /\ Set => PulseInv'
<1> SUFFICES ASSUME PwmInv, PulseInv, Set PROVE PulseInv'
  OBVIOUS
<1>1. /\ todo # << >>
      /\ settled' = [settled EXCEPT ![Head(todo)[1]] = 0]
      /\ UNCHANGED <<started, live, counter, status, pin, sinceTick, high>>
  BY DEF Set
<1>2. started = Motors /\ sinceTick <= TickTime
  BY <1>1 DEF PulseInv, TickInv
<1>3. ASSUME NEW m \in M PROVE HighInv(m)'
  <2>1. HighInv(m) /\ TypeOK
    BY DEF PulseInv, PwmInv
  <2>2. /\ Spent(m) \in Nat /\ Spent(m) < Period /\ high[m] \in Nat
        /\ settled[m] \in {0, 1} /\ sinceTick \in Nat
    BY <2>1, Times
  <2>3. high[m] <= Spent(m)
    BY <1>1, <2>2, OverlongEnds
  <2>4. settled'[m] = settled[m] \/ settled'[m] = 0
    BY <1>1 DEF PwmInv, TypeOK
  <2>5. m \in Served /\ Lit(m) => Spent(m) <= 2 * Step + Latency + sinceTick
    <3>1. CASE m \in Served /\ settled[m] = 1
      BY <2>2, <3>1, SettledLit, Numbers, TickNumbers
    <3>2. CASE m \in Served /\ settled[m] = 0
      BY <1>1, <2>1, <3>2 DEF HighInv
    <3> QED
      BY <2>2, <3>1, <3>2
  <2>6. sinceTick <= TickTime + Spent(m)
    BY <1>2, <2>2, TickNumbers
  <2>7. /\ Spent(m)' = Spent(m) /\ Served' = Served /\ high'[m] = high[m] /\ pin' = pin
        /\ (Lit(m)' <=> Lit(m)) /\ Period' = Period
    BY <1>1 DEF Spent, Served, Lit, Period
  <2>8. settled'[m] \in {0, 1}
    BY <2>2, <2>4
  <2> HIDE DEF Lit
  <2>9. high'[m] <= Spent(m)' + (IF settled'[m] = 1 THEN Period' ELSE 0)
    BY <2>2, <2>3, <2>7, TickNumbers
  <2>10. /\ ~pin'[m] \/ m \notin Served' => high'[m] = 0
         /\ ~(high'[m] > Spent(m)')
    BY <2>1, <2>2, <2>3, <2>7 DEF HighInv
  <2> QED
    BY <1>1, <2>5, <2>6, <2>7, <2>9, <2>10 DEF HighInv
<1> QED
  BY <1>1, <1>2, <1>3 DEF PulseInv, TickInv, M

\* What Advance does to the times of a timer that is served.
LEMMA AdvanceTimes ==
  ASSUME PwmInv, PulseInv, Advance, NEW m \in M, m \in Served
  PROVE  /\ Spent(m)' = IF Spent(m) = Period - 1 THEN 0 ELSE Spent(m) + 1
         /\ settled'[m] = IF Spent(m) = Period - 1 THEN 1 ELSE settled[m]
         /\ high'[m] = IF pin[m] THEN high[m] + 1 ELSE 0
         /\ pin'[m] = pin[m] /\ m \in Served' /\ todo' = todo /\ Period' = Period
         /\ sinceTick' \in Nat /\ sinceTick' <= sinceTick + 1
         /\ todo # << >> => sinceTick < TickTime /\ sinceTick' = sinceTick + 1
         /\ Spent(m) # Period - 1 => (Lit(m)' <=> Lit(m))
<1>1. TypeOK
  BY DEF PwmInv
<1>2. /\ counter[m] \in Int /\ (Spent(m) = Period - 1 <=> counter[m] = Last)
      /\ Spent(m) \in Nat /\ sinceTick \in Nat /\ sinceTick <= TickPeriod
  BY <1>1, Times, OneTimer
<1>3. Spent(m)' = IF Spent(m) = Period - 1 THEN 0 ELSE Spent(m) + 1
  <2>1. counter'[m] = IF counter[m] = Last THEN Reload ELSE counter[m] + 1
    BY IsServed
  <2> QED
    BY <1>2, <2>1, Numbers DEF Spent
<1>4. settled'[m] = IF Spent(m) = Period - 1 THEN 1 ELSE settled[m]
  BY <1>2, IsServed
<1>5. high'[m] = IF pin[m] THEN high[m] + 1 ELSE 0
  BY DEF Advance
<1>6. pin' = pin /\ Served' = Served /\ todo' = todo /\ Period' = Period
  BY DEF Advance, Served, Period
<1>7. sinceTick' = IF started = Motors /\ sinceTick < TickPeriod THEN sinceTick + 1
                   ELSE sinceTick
  BY DEF Advance
<1>8. todo # << >> => sinceTick < TickTime /\ started = Motors
  BY DEF Advance, PulseInv, TickInv
<1>9. sinceTick' \in Nat /\ sinceTick' <= sinceTick + 1
  BY <1>2, <1>7
<1>10. todo # << >> => sinceTick' = sinceTick + 1
  BY <1>2, <1>7, <1>8, TickNumbers, Numbers
<1>11. ASSUME Spent(m) # Period - 1 PROVE Lit(m)' <=> Lit(m)
  <2>1. "ovf" \in status'[m] <=> "ovf" \in status[m]
    BY <1>2, <1>11, IsServed
  <2> QED
    BY <1>6, <2>1 DEF Lit
<1> HIDE DEF Lit
<1> QED
  BY <1>3, <1>4, <1>5, <1>6, <1>8, <1>9, <1>10, <1>11

LEMMA AdvanceHigh ==
  ASSUME PwmInv, PulseInv, Advance, NEW m \in M, m \in Served
  PROVE  HighInv(m)'
<1>1. HighInv(m) /\ TypeOK
  BY DEF PulseInv, PwmInv
<1>2. /\ Spent(m) \in Nat /\ Spent(m) < Period /\ high[m] \in Nat
      /\ settled[m] \in {0, 1} /\ sinceTick \in Nat
  BY <1>1, Times
<1>3. /\ Spent(m)' = IF Spent(m) = Period - 1 THEN 0 ELSE Spent(m) + 1
      /\ settled'[m] = IF Spent(m) = Period - 1 THEN 1 ELSE settled[m]
      /\ todo' = todo /\ Period' = Period
      /\ sinceTick' \in Nat /\ sinceTick' <= sinceTick + 1
      /\ todo # << >> => sinceTick < TickTime /\ sinceTick' = sinceTick + 1
  BY AdvanceTimes
<1>4. /\ ~pin[m] => high'[m] = 0
      /\ pin[m] => high'[m] = high[m] + 1
      /\ ~pin'[m] \/ m \notin Served' => high'[m] = 0
  BY AdvanceTimes
<1>5. high'[m] \in Nat /\ high'[m] <= high[m] + 1
  BY <1>2, <1>4
<1>6. /\ high[m] <= Spent(m) + (IF settled[m] = 1 THEN Period ELSE 0)
      /\ high[m] > Spent(m) => todo = << >> /\ sinceTick <= TickTime + Period + Spent(m)
      /\ settled[m] = 0 => sinceTick <= TickTime + Spent(m)
  BY <1>1 DEF HighInv
<1>7. settled[m] = 0 /\ todo # << >> /\ Lit(m) => Spent(m) <= 2 * Step + Latency + sinceTick
  BY <1>1 DEF HighInv
<1>8. TickTime \in Nat /\ Period \in Nat /\ 2 * Step + Latency \in Nat
      /\ 2 * Step + Latency + TickTime < Period
  BY TickNumbers, Numbers
<1>9. CASE Spent(m) # Period - 1
  <2>1. Spent(m)' = Spent(m) + 1 /\ settled'[m] = settled[m]
    BY <1>3, <1>9
  <2>6. Lit(m)' <=> Lit(m)
    <3>1. Spent(m) # Period - 1 => (Lit(m)' <=> Lit(m))
      BY AdvanceTimes
    <3> QED
      BY <1>9, <3>1
  <2> HIDE DEF Lit, Spent, Period
  <2>2. high'[m] <= Spent(m)' + (IF settled'[m] = 1 THEN Period ELSE 0)
    <3>1. CASE settled[m] = 1
      BY <1>2, <1>5, <1>6, <1>8, <2>1, <3>1
    <3>2. CASE settled[m] # 1
      BY <1>2, <1>5, <1>6, <1>8, <2>1, <3>2
    <3> QED
      BY <3>1, <3>2
  <2>3. high'[m] > Spent(m)' => todo' = << >> /\ sinceTick' <= TickTime + Period + Spent(m)'
    <3> SUFFICES ASSUME high'[m] > Spent(m)'
                 PROVE  todo' = << >> /\ sinceTick' <= TickTime + Period + Spent(m)'
      OBVIOUS
    <3>1. high[m] > Spent(m)
      BY <1>2, <1>5, <2>1
    <3>2. todo = << >> /\ sinceTick <= TickTime + Period + Spent(m)
      BY <1>6, <3>1
    <3>3. todo' = todo /\ sinceTick' \in Nat /\ sinceTick' <= sinceTick + 1
      BY <1>3
    <3> QED
      BY <1>2, <1>8, <2>1, <3>2, <3>3
  <2>4. settled'[m] = 0 => sinceTick' <= TickTime + Spent(m)'
    BY <1>2, <1>3, <1>6, <1>8, <2>1
  <2>5. settled'[m] = 0 /\ todo' # << >> /\ Lit(m)' =>
          Spent(m)' <= 2 * Step + Latency + sinceTick'
    <3> SUFFICES ASSUME settled'[m] = 0, todo' # << >>, Lit(m)'
                 PROVE  Spent(m)' <= 2 * Step + Latency + sinceTick'
      OBVIOUS
    <3>1. Spent(m) <= 2 * Step + Latency + sinceTick
      BY <1>3, <1>7, <2>1, <2>6, Zenon
    <3>2. sinceTick' = sinceTick + 1
      BY <1>3
    <3> QED
      BY <1>2, <1>8, <2>1, <3>1, <3>2
  <2> QED
    BY <1>3, <1>4, <2>2, <2>3, <2>4, <2>5 DEF HighInv
<1>10. CASE Spent(m) = Period - 1
  <2>1. Spent(m)' = 0 /\ settled'[m] = 1
    BY <1>3, <1>10
  <2>2. /\ high'[m] <= Period
        /\ high'[m] > 0 => todo = << >> /\ sinceTick' <= TickTime + Period
    <3>1. CASE ~pin[m]
      BY <1>4, <1>8, <3>1
    <3>2. CASE pin[m]
      <4>1. settled[m] = 0
        <5>1. ~(Spent(m) < 2 * Step + Latency)
          BY <1>2, <1>8, <1>10
        <5>2. settled[m] # 1
          BY <3>2, <5>1, SettledLit, IsServed DEF Lit
        <5> QED
          BY <1>2, <5>2
      <4>2. high'[m] <= Period
        BY <1>2, <1>5, <1>6, <1>8, <1>10, <4>1
      <4>3. todo = << >>
        <5> SUFFICES ASSUME todo # << >> PROVE FALSE
          OBVIOUS
        <5>1. Lit(m)
          BY <3>2 DEF Lit
        <5>2. Spent(m) <= 2 * Step + Latency + sinceTick
          BY <1>7, <4>1, <5>1, Zenon
        <5> QED
          BY <1>2, <1>3, <1>8, <1>10, <5>2
      <4>4. sinceTick' <= TickTime + Period
        BY <1>2, <1>3, <1>6, <1>8, <1>10, <4>1
      <4> QED
        BY <4>2, <4>3, <4>4
    <3> QED
      BY <3>1, <3>2
  <2>3. high'[m] <= Spent(m)' + (IF settled'[m] = 1 THEN Period ELSE 0)
    BY <1>8, <2>1, <2>2
  <2>4. high'[m] > Spent(m)' => todo' = << >> /\ sinceTick' <= TickTime + Period + Spent(m)'
    BY <1>3, <1>5, <1>8, <2>1, <2>2
  <2> QED
    BY <1>3, <1>4, <2>1, <2>3, <2>4 DEF HighInv
<1> QED
  BY <1>9, <1>10

LEMMA PulseAdvance == PwmInv /\ PulseInv /\ Advance /\ PwmInv' => PulseInv'
<1> SUFFICES ASSUME PwmInv, PulseInv, Advance, PwmInv' PROVE PulseInv'
  OBVIOUS
<1>1. /\ sinceTick' = IF started = Motors /\ sinceTick < TickPeriod THEN sinceTick + 1
                      ELSE sinceTick
      /\ todo # << >> => sinceTick < TickTime
      /\ UNCHANGED <<started, live, todo>>
  BY DEF Advance
<1>2. sinceTick \in Nat
  BY TickNumbers DEF PwmInv, TypeOK
<1>3. TickInv'
  BY <1>1, <1>2, TickNumbers DEF PulseInv, TickInv
<1>4. ASSUME NEW m \in M PROVE HighInv(m)'
  <2>1. CASE m \in Served
    BY <2>1, AdvanceHigh
  <2>2. CASE m \notin Served
    <3>1. high'[m] = 0 /\ m \notin Served'
      BY <1>1, <2>2 DEF Advance, Served
    <3>2. TypeOK'
      BY DEF PwmInv
    <3>3. counter'[m] \in Reload .. Last /\ settled'[m] \in {0, 1} /\ Period' = Period
      BY <3>2 DEF TypeOK, Period
    <3>4. Spent(m)' \in Nat
      BY <3>3, Numbers DEF Spent
    <3> QED
      BY <3>1, <3>3, <3>4, TickNumbers DEF HighInv
  <2> QED
    BY <2>1, <2>2
<1> QED
  BY <1>3, <1>4 DEF PulseInv, M

LEMMA PulseStep == PwmInv /\ PulseInv /\ [Next]_vars /\ PwmInv' => PulseInv'
<1> SUFFICES ASSUME PwmInv, PulseInv, [Next]_vars, PwmInv' PROVE PulseInv'
  OBVIOUS
<1>1. CASE UNCHANGED vars
  BY <1>1 DEF PulseInv, TickInv, HighInv, Spent, Lit, Served, Period, vars, M
<1> QED
  BY <1>1, PulseStart, PulseStop, PulseInitTimer, PulseTick, PulseSet, PulseAdvance,
     PulseHandlerClear, PulseHandlerRead DEF Next

LEMMA PulseAlways == Spec => []PulseInv
BY PwmAlways, PulseInit, PulseStep, PTL DEF Spec

\* pwm_set in the middle of a pulse: a motor that misses a match for it is driven for a
\* period and the longest pulse at most, for any duties, latency and number of motors.
THEOREM PulsesBounded == Spec => []PulseBounded
<1>1. ASSUME PwmInv, PulseInv PROVE PulseBounded
  <2> SUFFICES ASSUME NEW m \in Served, pin[m]
               PROVE  high[m] <= (Word - Reload) + 2 * Step + Latency
    BY DEF PulseBounded
  <2>1. m \in M /\ TypeOK
    <3>1. m \in M
      BY <1>1, Numbers DEF Served, M, PwmInv, TypeOK
    <3> QED
      BY <1>1, <3>1 DEF PwmInv
  <2>2. /\ Spent(m) \in Nat /\ Spent(m) < Period /\ high[m] \in Nat
        /\ settled[m] \in {0, 1} /\ Period = Word - Reload
    BY <2>1, Times DEF Period
  <2>3. high[m] <= Spent(m) + (IF settled[m] = 1 THEN Period ELSE 0)
    BY <1>1, <2>1 DEF PulseInv, HighInv
  <2>4. CASE settled[m] = 1
    BY <1>1, <2>1, <2>2, <2>3, <2>4, SettledLit, Numbers, TickNumbers DEF Lit
  <2>5. CASE settled[m] = 0
    BY <2>2, <2>3, <2>5, Numbers, TickNumbers
  <2> QED
    BY <2>2, <2>4, <2>5
<1> QED
  BY <1>1, PwmAlways, PulseAlways, PTL
=============================================================================
