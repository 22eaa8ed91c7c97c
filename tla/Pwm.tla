-------------------------------- MODULE Pwm ---------------------------------
(***************************************************************************)
(* The motor outputs (src/panda/m3/pwm.c): per motor one hardware timer,   *)
(* whose overflow and match interrupts raise and lower a pin.  The systick *)
(* handler changes the match register at any moment; the timer interrupts  *)
(* have a higher priority than it, and one priority among themselves, so   *)
(* handlers of different motors delay each other.  A reset of the M3 stops *)
(* everything but the timers, which go on counting: when the next boot     *)
(* enables their interrupts, before it sets them up again, they are still  *)
(* at work for the duties of the last flight.                              *)
(*                                                                         *)
(* Time is discrete.  The timers are hardware, not in the repository: they *)
(* count to Word - 1 and are reloaded, and latch a flag for the overflow   *)
(* and one for the arrival of the counter at the match register.           *)
(***************************************************************************)
EXTENDS Integers, Sequences

CONSTANTS
  Motors,     \* how many timers; pwm_init starts them in order
  Word,       \* 2^32
  Reload,     \* 0xFFFE88FF: the timer runs from here to Word - 1
  Step,       \* 0x9600: the shortest pulse, and the range above it
  MaxDuty,    \* UINT16_MAX
  Duties,     \* the values pwm_set is called with
  Latency,    \* bound: time a timer interrupt waits at most, its handler included
  TickPeriod, \* bound: time from one tick that sets duties to the next
  TickTime    \* bound: time from the first pwm_set of a tick to its last

\* A pulse and the gap behind it are longer than an interrupt can be late.
ASSUME PwmAssumption ==
  /\ Motors \in Nat \ {0} /\ Word \in Nat /\ TickPeriod \in Nat
  /\ MaxDuty \in Nat \ {0} /\ Duties \subseteq 0 .. MaxDuty
  /\ Latency \in Nat /\ Step \in Nat /\ Reload \in Nat
  /\ Latency < Step /\ MaxDuty * Step < Word
  /\ Reload + 2 * Step + Latency < Word

\* A tick sets all its duties within the gap behind a pulse, and ticks are further apart
\* than a period and the longest pulse (in the code four periods).
ASSUME TickAssumption ==
  /\ TickTime \in Nat /\ Reload + 2 * Step + Latency + TickTime < Word
  /\ TickTime + (Word - Reload) + 2 * Step + Latency < TickPeriod

VARIABLES
  started,   \* timers pwm_init has started since the last reset; -1: M3 in reset or
             \* not yet at intr_enable
  live,      \* timers that have been started since power-on
  counter,   \* TCRR of each timer
  match,     \* TMAR
  status,    \* IRQSTATUS: a set of flags
  age,       \* time since each flag was set (for the bound Latency)
  serving,   \* motor whose handler is between its two accesses; 0: none
  stat,      \* what that handler read
  pin,       \* the GPIO
  todo,      \* the pwm_set calls the tick still has to make
  sinceTick, \* time since the tick began, up to TickPeriod
  settled,   \* overflows of the timer since its match register was written, up to 1
  high       \* time the pin has been high
vars == <<started, live, counter, match, status, age, serving, stat, pin, todo,
          sinceTick, settled, high>>

M == 1 .. Motors
Flags == {"ovf", "mat"}
FreshAge == [f \in Flags |-> 0]
Last == Word - 1
Scaled(val) == ((val * Step) % Word) \div MaxDuty

\* Mutations (X_...): bugs this code could have.
X_DutyLong(val) == Reload + Step + 2 * Scaled(val)

\* The match value of a duty, as pwm_set computes it.
Duty(val) == (Reload + Step + Scaled(val)) % Word
-----------------------------------------------------------------------------
\* Power-on: the timers stand still.
Init ==
  /\ started = -1 /\ live = 0
  /\ counter = [m \in M |-> Last] /\ match = [m \in M |-> Duty(MaxDuty)]
  /\ status = [m \in M |-> {}] /\ age = [m \in M |-> FreshAge]
  /\ serving = 0 /\ stat = {} /\ pin = [m \in M |-> FALSE]
  /\ todo = << >> /\ sinceTick = 0
  /\ settled = [m \in M |-> 0] /\ high = [m \in M |-> 0]

\* The M3 leaves its reset; main calls pwm_init, which sets up the vector table and
\* enables the four interrupts: a flag left of the last flight is served at once.
Start ==
  /\ started = -1 /\ started' = 0
  /\ UNCHANGED <<live, counter, match, status, age, serving, stat, pin, todo, sinceTick,
                 settled, high>>

\* The M3 is reset at any point; the timers and the pins do not notice.
Stop ==
  /\ started # -1 /\ started' = -1
  /\ serving' = 0 /\ stat' = {} /\ todo' = << >> /\ sinceTick' = 0
  /\ age' = [m \in M |-> FreshAge] /\ settled' = [m \in M |-> 0] /\ high' = [m \in M |-> 0]
  /\ UNCHANGED <<live, counter, match, status, pin>>

\* The systick has the lower priority (intr_set_systick_priority), and main none: either
\* waits while a timer's handler runs.
Preempted == serving # 0

\* init_timer: the timer is reset and set up for the longest pulse.
InitTimer ==
  LET m == started + 1 IN
  /\ started \in 0 .. Motors - 1 /\ ~Preempted
  /\ started' = m /\ live' = IF m > live THEN m ELSE live
  /\ counter' = [counter EXCEPT ![m] = Last]
  /\ match' = [match EXCEPT ![m] = Duty(MaxDuty)]
  /\ status' = [status EXCEPT ![m] = {}] /\ age' = [age EXCEPT ![m] = FreshAge]
  /\ settled' = [settled EXCEPT ![m] = 0]
  /\ high' = [high EXCEPT ![m] = 0]
  /\ UNCHANGED <<serving, stat, pin, todo, sinceTick>>

\* Mutation: the handler looks at the match flag first.
X_HandlerRead(m) ==
  /\ started # -1 /\ m <= live /\ serving = 0 /\ status[m] # {}
  /\ serving' = m /\ stat' = status[m]
  /\ pin' = [pin EXCEPT ![m] = "mat" \notin status[m]]
  /\ high' = [high EXCEPT ![m] = IF pin'[m] THEN @ ELSE 0]
  /\ UNCHANGED <<started, live, counter, match, status, age, todo, sinceTick, settled>>

\* An interrupt handler reads the flags and sets the pin ...
HandlerRead(m) ==
  /\ started # -1 /\ m <= live /\ serving = 0 /\ status[m] # {}
  /\ serving' = m /\ stat' = status[m]
  /\ pin' = [pin EXCEPT ![m] = "ovf" \in status[m]]
  /\ high' = [high EXCEPT ![m] = IF pin'[m] THEN @ ELSE 0]
  /\ UNCHANGED <<started, live, counter, match, status, age, todo, sinceTick, settled>>

\* ... and then clears the flags it has read, no others.
HandlerClear ==
  /\ serving # 0 /\ serving' = 0
  /\ status' = [status EXCEPT ![serving] = @ \ stat]
  /\ age' = [age EXCEPT ![serving] = [f \in Flags |-> IF f \in stat THEN 0 ELSE @[f]]]
  /\ stat' = {}
  /\ UNCHANGED <<started, live, counter, match, pin, todo, sinceTick, settled, high>>

\* The systick handler begins to set the motors: once for the control loop, and
\* again if a command of the same tick sets them (disarm_cmd).
Tick ==
  /\ started = Motors /\ todo = << >> /\ sinceTick = TickPeriod
  /\ \E d1, d2 \in [M -> Duties] : \E twice \in BOOLEAN :
       todo' = [m \in M |-> <<m, d1[m]>>]
               \o (IF twice THEN [m \in M |-> <<m, d2[m]>>] ELSE << >>)
  /\ sinceTick' = 0
  /\ UNCHANGED <<started, live, counter, match, status, age, serving, stat, pin, settled,
                 high>>

\* pwm_set.
Set ==
  /\ todo # << >> /\ ~Preempted
  /\ LET m == Head(todo)[1] IN
       /\ match' = [match EXCEPT ![m] = Duty(Head(todo)[2])]
       /\ settled' = [settled EXCEPT ![m] = 0]
  /\ todo' = Tail(todo)
  /\ UNCHANGED <<started, live, counter, status, age, serving, stat, pin, sinceTick, high>>

\* Timers whose interrupts the M3 serves.
Served == IF started = -1 THEN {} ELSE 1 .. live

\* Time passes, for all timers that run.
Advance ==
  /\ \A m \in Served : \A f \in status[m] : age[m][f] < Latency
  /\ todo # << >> => sinceTick < TickTime
  /\ counter' = [m \in M |-> IF m > live THEN counter[m]
                             ELSE IF counter[m] = Last THEN Reload ELSE counter[m] + 1]
  /\ status' = [m \in M |-> status[m]
                  \cup (IF m <= live /\ counter[m] = Last THEN {"ovf"} ELSE {})
                  \cup (IF m <= live /\ counter'[m] = match[m] THEN {"mat"} ELSE {})]
  /\ age' = [m \in M |-> [f \in Flags |-> IF m \in Served /\ f \in status[m]
                                         THEN age[m][f] + 1 ELSE 0]]
  /\ settled' = [m \in M |-> IF m \in Served /\ counter[m] = Last THEN 1 ELSE settled[m]]
  /\ high' = [m \in M |-> IF pin[m] /\ m \in Served THEN high[m] + 1 ELSE 0]
  /\ sinceTick' = IF started = Motors /\ sinceTick < TickPeriod THEN sinceTick + 1
                  ELSE sinceTick
  /\ UNCHANGED <<started, live, match, serving, stat, pin, todo>>

Next == \/ Start \/ Stop \/ InitTimer \/ Tick \/ Set \/ Advance
        \/ HandlerClear \/ \E m \in M : HandlerRead(m)

Spec == Init /\ [][Next]_vars
-----------------------------------------------------------------------------
\* The registers hold what the hardware expects: the timer in its range, the match
\* value inside it, with a gap behind it.
TypeOK ==
  /\ started \in -1 .. Motors /\ live \in 0 .. Motors /\ serving \in 0 .. Motors
  /\ counter \in [M -> Reload .. Last]
  /\ match \in [M -> Reload + Step .. Reload + 2 * Step]
  /\ status \in [M -> SUBSET Flags] /\ stat \subseteq Flags
  /\ pin \in [M -> BOOLEAN] /\ settled \in [M -> {0, 1}]
  /\ age \in [M -> [Flags -> Nat]] /\ high \in [M -> Nat] /\ sinceTick \in 0 .. TickPeriod
  /\ todo \in Seq(M \X Duties)

\* Once a timer has overflowed after a change of its duty, the pin follows the duty:
\* up from the overflow, down from the match, each at most Latency late.  No other
\* motor's handler, no preempted pwm_set, no flag set while a handler runs and no flag
\* left by the last flight breaks it.
PulseFollowsDuty ==
  \A m \in Served :
    settled[m] = 1 =>
      /\ counter[m] > Reload + Latency /\ counter[m] < match[m] => pin[m]
      /\ counter[m] > match[m] + Latency => ~pin[m]

\* A duty lowered in the middle of a pulse is missed by the timer, which runs on to
\* the next period; that happens to one pulse at a time, so none is ever longer than
\* a period and the longest pulse.
PulseBounded ==
  \A m \in Served :
    pin[m] => high[m] <= (Word - Reload) + 2 * Step + Latency
=============================================================================
