---------------------------- MODULE NumberProofs -----------------------------
(***************************************************************************)
(* Proofs about the numbers of the firmware, for any number of samples and *)
(* any width of a reading or of a type.  Sensors: an offset is the mean of *)
(* its sensor's readings or counts the restarts that cut in, calibration   *)
(* and flight see the same sign, no unwritten memory reaches the estimate  *)
(* unnoticed; what the accelerometer of the earlier firmware shows at      *)
(* rest (MapleSensors, in Numbers).  Printf: a conversion                  *)
(* is its argument's numeral and stays in its buffer, the scan stays in    *)
(* its format, and what is printed is what printf prints.                  *)
(***************************************************************************)
EXTENDS Numbers, TLAPS, FiniteSetTheorems, SequenceTheorems

\* A sensor that reads the same value every time.
Uniform(s, v) == \A i \in DOMAIN s : s[i] = v

OffsetType == [sum : Int, by : {1, Samples}]
Sampling == {"accel", "count"}
Dividing == {"divide", "halved"}

TypeInv ==
  /\ step \in {"calibrate", "gyro", "accel", "count", "divide", "halved",
              "get", "update", "command"}
  /\ calibrating \in BOOLEAN /\ calibrate \in 0 .. Samples
  /\ gyroOffset \in OffsetType /\ accelOffset \in OffsetType
  /\ gyros \in Seq(Int) /\ accels \in Seq(Int)
  /\ held \in Seq(Int) /\ Len(held) <= 1
  /\ failed \subseteq {"gyro", "accel"} /\ cuts \in 0 .. MaxCuts

\* Where in sensors_calibrate the tick is.
CalibrationInv ==
  /\ step \in {"gyro", "accel", "count"} => calibrating = TRUE /\ calibrate < Samples
  /\ step \in Dividing => calibrating = TRUE /\ calibrate = Samples
  /\ step = "accel" => Len(held) = 1
  /\ calibrating = FALSE => calibrate = Samples

\* What has been divided: nothing before the last sample, and everything behind it if no
\* restart cut in.
DividedInv ==
  /\ calibrate < Samples \/ step = "divide" => gyroOffset.by = 1
  /\ calibrate < Samples \/ step \in Dividing => accelOffset.by = 1
  /\ step = "halved" => gyroOffset.by = Samples
  /\ calibrate = Samples /\ step \notin Dividing /\ cuts = 0 =>
       calibrating = FALSE /\ gyroOffset.by = Samples /\ accelOffset.by = Samples

\* A sum stands for its sensor's own readings; there are as many as samples counted, with
\* this tick's, and one more for each restart that cut a sample.
Adds(sensor, offset, s, n) ==
  sensor \notin failed =>
    /\ offset.sum = Sum(s)
    /\ calibrate > 0 \/ step \in Sampling => n <= Len(s) /\ Len(s) <= n + cuts
GyroInv == Adds("gyro", gyroOffset, gyros, IF step \in Sampling THEN calibrate + 1 ELSE calibrate)
AccelInv == Adds("accel", accelOffset, accels, IF step = "count" THEN calibrate + 1 ELSE calibrate)

\* The members of sd that are written stand for this tick's reading; a tick starts
\* without any.
DataInv ==
  /\ sd \in Seq(Int) /\ Len(sd) <= 2
  /\ step \notin {"update", "command"} => sd = << >>
  /\ Len(sd) > 0 => /\ now \in Seq(Int) /\ Len(now) = 1
                    /\ sd[1] = Less(now[1], gyroOffset)

\* The estimate is only fed what is written, or a read has been missed.
CleanInv ==
  /\ q \in {"level", "estimated", "tainted"}
  /\ step = "update" /\ Len(sd) < 2 => missed
  /\ q = "tainted" => missed

CountInv == TypeInv /\ CalibrationInv /\ DividedInv /\ GyroInv /\ AccelInv
SensorsInv == CountInv /\ DataInv /\ CleanInv
-----------------------------------------------------------------------------
\* A set of numbers with 0 that has with each number the next one has them all: a
\* number outside would leave finitely many below it, and the successors of those are
\* among them, less 0.
LEMMA SetInduction ==
  ASSUME NEW S \in SUBSET Nat, 0 \in S, \A n \in S : n + 1 \in S
  PROVE  \A n \in Nat : n \in S
<1> SUFFICES ASSUME NEW n \in Nat, n \notin S PROVE FALSE
  OBVIOUS
<1> DEFINE A == (0 .. n) \cap S
           f == [k \in A |-> k + 1]
<1>1. IsFiniteSet(A)
  <2>1. IsFiniteSet(0 .. n)
    BY FS_Interval
  <2> QED
    BY <2>1, FS_Intersection
<1>2. 0 \in A
  OBVIOUS
<1>3. \A k \in A : k + 1 \in A \ {0}
  OBVIOUS
<1>4. f \in Injection(A, A \ {0})
  BY <1>3 DEF Injection, IsInjective
<1>5. /\ IsFiniteSet(A \ {0})
      /\ Cardinality(A \ {0}) = Cardinality(A) - 1
      /\ Cardinality(A) \in Nat
  BY <1>1, <1>2, FS_RemoveElement, FS_CardinalityType
<1> HIDE DEF A, f
<1>6. Cardinality(A) <= Cardinality(A \ {0})
  BY <1>4, <1>5, FS_Injection
<1> QED
  BY <1>5, <1>6

\* f holds the sums of the first i elements of s, up to n.
IsTotal(s, f, n) == f = [i \in 0 .. n |-> IF i = 0 THEN 0 ELSE f[i - 1] + s[i]]

LEMMA TotalAt ==
  ASSUME NEW s, NEW f, NEW n \in Nat, IsTotal(s, f, n)
  PROVE  f[0] = 0 /\ \A i \in 1 .. n : f[i] = f[i - 1] + s[i]
<1> DEFINE t == [i \in 0 .. n |-> IF i = 0 THEN 0 ELSE f[i - 1] + s[i]]
<1>1. f = t
  BY DEF IsTotal
<1>2. t[0] = 0
  OBVIOUS
<1>3. ASSUME NEW i \in 1 .. n PROVE t[i] = f[i - 1] + s[i]
  OBVIOUS
<1> HIDE DEF t
<1> QED
  BY <1>1, <1>2, <1>3

\* There are such sums, ...
LEMMA TotalExists ==
  ASSUME NEW s, NEW m \in Nat
  PROVE  \E f : IsTotal(s, f, m)
<1> DEFINE S == {n \in Nat : \E f : IsTotal(s, f, n)}
<1>1. 0 \in S
  <2> DEFINE f == [i \in 0 .. 0 |-> 0]
  <2>1. f = [i \in 0 .. 0 |-> IF i = 0 THEN 0 ELSE f[i - 1] + s[i]]
    OBVIOUS
  <2> QED
    BY <2>1 DEF IsTotal
<1>2. ASSUME NEW n \in S PROVE n + 1 \in S
  <2>1. PICK f : IsTotal(s, f, n)
    OBVIOUS
  <2>2. n \in Nat /\ f[0] = 0 /\ \A i \in 1 .. n : f[i] = f[i - 1] + s[i]
    BY <2>1, TotalAt
  <2> DEFINE g == [i \in 0 .. n + 1 |-> IF i = n + 1 THEN f[n] + s[n + 1] ELSE f[i]]
             h == [i \in 0 .. n + 1 |-> IF i = 0 THEN 0 ELSE g[i - 1] + s[i]]
  <2>3. ASSUME NEW i \in 0 .. n + 1 PROVE g[i] = h[i]
    <3>1. CASE i = 0
      BY <2>2, <3>1
    <3>2. CASE i = n + 1
      <4>1. g[i] = f[n] + s[i] /\ i # 0 /\ g[i - 1] = f[n]
        BY <2>2, <3>2
      <4> QED
        BY <4>1
    <3>3. CASE i \in 1 .. n
      <4>1. g[i] = f[i] /\ g[i - 1] = f[i - 1] /\ i # 0 /\ f[i] = f[i - 1] + s[i]
        BY <2>2, <3>3
      <4> QED
        BY <4>1
    <3> QED
      BY <2>2, <3>1, <3>2, <3>3
  <2>4. g = h
    BY <2>3
  <2>5. IsTotal(s, g, n + 1)
    <3> HIDE DEF g
    <3> QED
      BY <2>4 DEF IsTotal
  <2>6. \E k : IsTotal(s, k, n + 1)
    <3> HIDE DEF g, h
    <3> QED
      BY <2>5
  <2> QED
    BY <2>2, <2>6
<1>3. S \in SUBSET Nat
  OBVIOUS
<1> HIDE DEF S
<1>4. m \in S
  BY <1>1, <1>2, <1>3, SetInduction
<1> QED
  BY <1>4 DEF S

\* ... which the elements added determine.
LEMMA TotalUnique ==
  ASSUME NEW s, NEW t, NEW f, NEW g, NEW n \in Nat, NEW m \in Nat, n <= m,
         IsTotal(s, f, n), IsTotal(t, g, m), \A i \in 1 .. n : s[i] = t[i]
  PROVE  \A i \in 0 .. n : f[i] = g[i]
<1> DEFINE S == {i \in Nat : i <= n => f[i] = g[i]}
<1>0. /\ f[0] = 0 /\ \A i \in 1 .. n : f[i] = f[i - 1] + s[i]
      /\ g[0] = 0 /\ \A i \in 1 .. m : g[i] = g[i - 1] + t[i]
  BY TotalAt
<1>1. 0 \in S
  BY <1>0
<1>2. ASSUME NEW i \in S PROVE i + 1 \in S
  <2> SUFFICES ASSUME i + 1 <= n PROVE f[i + 1] = g[i + 1]
    OBVIOUS
  <2>1. i \in Nat /\ i + 1 \in 1 .. n /\ i + 1 \in 1 .. m /\ f[i] = g[i] /\ (i + 1) - 1 = i
    OBVIOUS
  <2>2. f[i + 1] = f[i] + s[i + 1] /\ g[i + 1] = g[i] + t[i + 1]
    BY <1>0, <2>1
  <2> QED
    BY <2>1, <2>2
<1>3. S \in SUBSET Nat
  OBVIOUS
<1> HIDE DEF S
<1>4. \A i \in Nat : i \in S
  BY <1>1, <1>2, <1>3, SetInduction
<1> QED
  BY <1>4 DEF S

\* Sum is the last of them.
LEMMA SumTotal ==
  ASSUME NEW s, Len(s) \in Nat
  PROVE  \E f : IsTotal(s, f, Len(s)) /\ Sum(s) = f[Len(s)]
<1> DEFINE c == CHOOSE f : IsTotal(s, f, Len(s))
<1>1. IsTotal(s, c, Len(s))
  BY TotalExists
<1>2. Sum(s) = c[Len(s)]
  BY DEF Sum, IsTotal
<1> HIDE DEF c
<1> QED
  BY <1>1, <1>2

LEMMA SumEmpty == Sum(<< >>) = 0
<1>1. Len(<< >>) = 0
  OBVIOUS
<1>2. PICK f : IsTotal(<< >>, f, 0) /\ Sum(<< >>) = f[0]
  BY <1>1, SumTotal
<1> QED
  BY <1>2, TotalAt

\* One more reading adds itself to the sum.
LEMMA SumExtends ==
  ASSUME NEW s, NEW t, NEW n \in Nat, Len(s) = n, Len(t) = n + 1,
         \A i \in 1 .. n : s[i] = t[i]
  PROVE  Sum(t) = Sum(s) + t[n + 1]
<1>1. PICK f : IsTotal(s, f, n) /\ Sum(s) = f[n]
  BY SumTotal
<1>2. PICK g : IsTotal(t, g, n + 1) /\ Sum(t) = g[n + 1]
  <2>1. n + 1 \in Nat
    OBVIOUS
  <2> QED
    BY <2>1, SumTotal
<1>3. f[n] = g[n]
  <2>1. n + 1 \in Nat /\ n <= n + 1
    OBVIOUS
  <2>2. \A i \in 0 .. n : f[i] = g[i]
    BY <1>1, <1>2, <2>1, TotalUnique
  <2> QED
    BY <2>2
<1>4. g[n + 1] = g[n] + t[n + 1]
  <2>1. \A i \in 1 .. n + 1 : g[i] = g[i - 1] + t[i]
    BY <1>2, TotalAt
  <2>2. n + 1 \in 1 .. n + 1 /\ (n + 1) - 1 = n
    OBVIOUS
  <2> QED
    BY <2>1, <2>2
<1> QED
  BY <1>1, <1>2, <1>3, <1>4

LEMMA SumAppend ==
  ASSUME NEW s \in Seq(Int), NEW x \in Int
  PROVE  Sum(Append(s, x)) = Sum(s) + x
<1> DEFINE t == Append(s, x)
<1>1. /\ Len(s) \in Nat /\ Len(t) = Len(s) + 1 /\ t[Len(s) + 1] = x
      /\ \A i \in 1 .. Len(s) : s[i] = t[i]
  OBVIOUS
<1> HIDE DEF t
<1>2. Sum(t) = Sum(s) + t[Len(s) + 1]
  BY <1>1, SumExtends
<1>3. Sum(t) = Sum(s) + x
  BY <1>1, <1>2
<1> QED
  BY <1>3 DEF t

\* A sensor that reads the same value every time adds up to a multiple of it.
LEMMA UniformSum ==
  ASSUME NEW s \in Seq(Int), NEW v \in Int, Uniform(s, v)
  PROVE  Sum(s) = Len(s) * v
<1> DEFINE n == Len(s)
<1>1. n \in Nat /\ \A i \in 1 .. n : s[i] = v
  BY DEF Uniform
<1> HIDE DEF n
<1>2. PICK f : IsTotal(s, f, n) /\ Sum(s) = f[n]
  BY <1>1, SumTotal DEF n
<1>3. f[0] = 0 /\ \A i \in 1 .. n : f[i] = f[i - 1] + s[i]
  BY <1>1, <1>2, TotalAt
<1> DEFINE S == {i \in Nat : i <= n => f[i] = i * v}
<1>4. 0 \in S
  BY <1>3
<1>5. ASSUME NEW i \in S PROVE i + 1 \in S
  <2> SUFFICES ASSUME i + 1 <= n PROVE f[i + 1] = (i + 1) * v
    OBVIOUS
  <2>1. i \in Nat /\ i + 1 \in 1 .. n /\ f[i] = i * v /\ (i + 1) - 1 = i
    BY <1>1
  <2>2. f[i + 1] = f[i] + v
    BY <1>1, <1>3, <2>1
  <2>3. (i + 1) * v = i * v + v
    BY <2>1
  <2> QED
    BY <2>1, <2>2, <2>3
<1>6. S \in SUBSET Nat
  OBVIOUS
<1> HIDE DEF S
<1>7. n \in S
  BY <1>1, <1>4, <1>5, <1>6, SetInduction
<1> QED
  BY <1>1, <1>2, <1>7 DEF S, n
-----------------------------------------------------------------------------
\* A power of two is a positive number.
LEMMA PowerPositive ==
  ASSUME NEW n \in Nat
  PROVE  2 ^ n \in Nat \ {0}
<1>1. IsFiniteSet(1 .. n) /\ Cardinality(1 .. n) = n
  BY FS_Interval
<1>2. IsFiniteSet(SUBSET (1 .. n)) /\ Cardinality(SUBSET (1 .. n)) = 2 ^ n
  BY <1>1, FS_SUBSET
<1>3. Cardinality(SUBSET (1 .. n)) \in Nat
  BY <1>2, FS_CardinalityType
<1>4. Cardinality(SUBSET (1 .. n)) # 0
  BY <1>2, FS_EmptySet
<1> QED
  BY <1>2, <1>3, <1>4

\* A reading that is turned round is a number.
LEMMA TurnedType ==
  /\ \A g \in Gyro : Turned(g) \in Int
  /\ \A a \in Accel : Turned(a) \in Int
  /\ \A j \in Junk : j \in Int
<1>1. 2 ^ Width \in Nat \ {0} /\ 2 ^ (Width - 1) \in Nat \ {0}
  BY SensorsAssumption, PowerPositive
<1>2. ASSUME NEW r \in Reading PROVE r \in Int /\ Turned(r) \in Int
  <2> DEFINE h == 2 ^ (Width - 1)
             w == 2 ^ Width
  <2>1. h \in Nat \ {0} /\ w \in Nat \ {0} /\ r \in Int
    BY <1>1 DEF Reading
  <2> HIDE DEF h, w
  <2>2. ((-r + h) % w) - h \in Int
    BY <2>1
  <2> QED
    BY <2>1, <2>2 DEF Turned, Int16, h, w
<1> QED
  BY <1>2, SensorsAssumption

\* A reading less an offset is a number.
LEMMA LessType ==
  ASSUME NEW x \in Int, NEW offset \in OffsetType
  PROVE  Less(x, offset) \in Int
<1>1. offset.sum \in Int /\ offset.by \in Nat \ {0} /\ Samples \in Nat \ {0}
  BY SensorsAssumption DEF OffsetType
<1>2. Samples \div offset.by \in Int
  BY <1>1
<1> QED
  BY <1>1, <1>2 DEF Less

LEMMA SensorsInit == Init => SensorsInv
<1> SUFFICES ASSUME Init PROVE SensorsInv
  OBVIOUS
<1>1. << >> \in Seq(Int) /\ Len(<< >>) = 0 /\ Fresh \in OffsetType /\ Fresh.by = 1 /\ Fresh.sum = 0
  BY DEF Fresh, OffsetType
<1>2. TypeInv
  BY <1>1, SensorsAssumption DEF Init, TypeInv
<1>3. CalibrationInv /\ DividedInv
  BY <1>1, SensorsAssumption DEF Init, CalibrationInv, DividedInv, Dividing
<1>4. GyroInv /\ AccelInv
  BY <1>1, SumEmpty DEF Init, GyroInv, AccelInv, Adds, Sampling
<1> QED
  BY <1>1, <1>2, <1>3, <1>4 DEF Init, SensorsInv, CountInv, DataInv, CleanInv

\* An offset with a value added, and divided.
LEMMA Added ==
  ASSUME NEW offset \in OffsetType, NEW v \in Int
  PROVE  /\ Add(offset, v) \in OffsetType
         /\ Add(offset, v).sum = offset.sum + v /\ Add(offset, v).by = offset.by
BY DEF Add, OffsetType

LEMMA Divided ==
  ASSUME NEW offset \in OffsetType, offset.by = 1
  PROVE  /\ Mean(offset) \in OffsetType
         /\ Mean(offset).sum = offset.sum /\ Mean(offset).by = Samples
<1>1. offset \in [sum : Int, by : {1, Samples}] /\ offset.by * Samples = Samples
  BY SensorsAssumption DEF OffsetType
<1>2. Mean(offset) = [offset EXCEPT !.by = Samples]
  BY <1>1 DEF Mean
<1> QED
  BY <1>1, <1>2 DEF OffsetType

LEMMA RestartStep == CountInv /\ Restart => CountInv'
<1> SUFFICES ASSUME CountInv, Restart PROVE CountInv'
  OBVIOUS
<1>1. /\ step' = "calibrate" /\ held' = << >>
      /\ calibrating' = calibrating /\ calibrate' = calibrate
      /\ gyroOffset' = gyroOffset /\ accelOffset' = accelOffset
      /\ failed' = failed /\ gyros' = gyros /\ accels' = accels
      /\ (Cutting => cuts < MaxCuts) /\ cuts' = IF Cutting THEN cuts + 1 ELSE cuts
  BY DEF Restart, calibration
<1>2. TypeInv /\ cuts \in 0 .. MaxCuts /\ MaxCuts \in Nat /\ calibrate \in Nat /\ Samples \in Nat
  BY SensorsAssumption DEF CountInv, TypeInv
<1>3. cuts' \in 0 .. MaxCuts /\ cuts' \in Nat /\ cuts <= cuts' /\ (Cutting => cuts' = cuts + 1)
  BY <1>1, <1>2
<1>4. TypeInv'
  BY <1>1, <1>2, <1>3 DEF TypeInv
<1>5. CalibrationInv'
  BY <1>1 DEF CountInv, CalibrationInv, Dividing
<1>6. DividedInv'
  BY <1>1, <1>2, <1>3 DEF CountInv, DividedInv, Dividing, Cutting
<1>7. GyroInv'
  <2> SUFFICES ASSUME "gyro" \notin failed
               PROVE  /\ gyroOffset.sum = Sum(gyros)
                      /\ calibrate > 0 => calibrate <= Len(gyros) /\ Len(gyros) <= calibrate + cuts'
    BY <1>1 DEF GyroInv, Adds, Sampling
  <2>1. /\ gyroOffset.sum = Sum(gyros) /\ Len(gyros) \in Nat
        /\ calibrate > 0 /\ step \in Sampling =>
              calibrate + 1 <= Len(gyros) /\ Len(gyros) <= calibrate + 1 + cuts
        /\ calibrate > 0 /\ step \notin Sampling =>
              calibrate <= Len(gyros) /\ Len(gyros) <= calibrate + cuts
    BY <1>2 DEF CountInv, GyroInv, Adds, TypeInv
  <2>2. calibrate > 0 /\ step \in Sampling => cuts' = cuts + 1
    BY <1>3 DEF Cutting, Sampling
  <2> QED
    BY <1>2, <1>3, <2>1, <2>2
<1>8. AccelInv'
  <2> SUFFICES ASSUME "accel" \notin failed
               PROVE  /\ accelOffset.sum = Sum(accels)
                      /\ calibrate > 0 => calibrate <= Len(accels) /\ Len(accels) <= calibrate + cuts'
    BY <1>1 DEF AccelInv, Adds, Sampling
  <2>1. /\ accelOffset.sum = Sum(accels) /\ Len(accels) \in Nat
        /\ calibrate > 0 /\ step = "count" =>
              calibrate + 1 <= Len(accels) /\ Len(accels) <= calibrate + 1 + cuts
        /\ calibrate > 0 /\ step # "count" =>
              calibrate <= Len(accels) /\ Len(accels) <= calibrate + cuts
    BY <1>2 DEF CountInv, AccelInv, Adds, TypeInv
  <2>2. calibrate > 0 /\ step = "count" => cuts' = cuts + 1
    BY <1>3 DEF Cutting
  <2> QED
    BY <1>2, <1>3, <2>1, <2>2
<1> QED
  BY <1>4, <1>5, <1>6, <1>7, <1>8 DEF CountInv

LEMMA CalibrateStep == CountInv /\ Calibrate => CountInv'
<1> SUFFICES ASSUME CountInv, Calibrate PROVE CountInv'
  OBVIOUS
<1>1. /\ step = "calibrate" /\ calibrate' = calibrate
      /\ gyroOffset' = gyroOffset /\ accelOffset' = accelOffset
      /\ failed' = failed /\ gyros' = gyros /\ accels' = accels
      /\ held' = held /\ cuts' = cuts
      /\ step' \in {"gyro", "get"}
  BY DEF Calibrate
<1>2. TypeInv /\ calibrate \in 0 .. Samples /\ Samples \in Nat /\ calibrating \in BOOLEAN
  BY SensorsAssumption DEF CountInv, TypeInv
<1>3. \/ step' = "gyro" /\ calibrating = TRUE /\ calibrating' = TRUE /\ calibrate < Samples
      \/ step' = "get" /\ calibrating' = FALSE /\ calibrate = Samples
  <2>1. CASE calibrating /\ calibrate < Samples
    BY <2>1 DEF Calibrate
  <2>2. CASE ~(calibrating /\ calibrate < Samples)
    <3>1. step' = "get" /\ calibrating' = FALSE
      BY <2>2 DEF Calibrate
    <3>2. calibrate = Samples
      BY <1>2, <2>2 DEF CountInv, CalibrationInv
    <3> QED BY <3>1, <3>2
  <2> QED BY <2>1, <2>2
<1>4. TypeInv'
  BY <1>1, <1>2, <1>3 DEF TypeInv
<1>5. CalibrationInv'
  BY <1>1, <1>2, <1>3 DEF CountInv, CalibrationInv, Dividing
<1>6. DividedInv'
  BY <1>1, <1>2, <1>3 DEF CountInv, DividedInv, Dividing
<1>7. GyroInv' /\ AccelInv'
  BY <1>1 DEF CountInv, GyroInv, AccelInv, Adds, Sampling
<1> QED
  BY <1>4, <1>5, <1>6, <1>7 DEF CountInv

\* What a history holds when the next sample begins, and what its sum does.
LEMMA Starts ==
  ASSUME CountInv, step = "gyro"
  PROVE  /\ LET s == IF calibrate = 0 THEN << >> ELSE gyros
                o == IF calibrate = 0 THEN Fresh ELSE gyroOffset
            IN /\ s \in Seq(Int) /\ o \in OffsetType /\ o.by = 1
               /\ calibrate = 0 \/ "gyro" \notin failed =>
                    o.sum = Sum(s) /\ calibrate <= Len(s) /\ Len(s) <= calibrate + cuts
         /\ LET s == IF calibrate = 0 THEN << >> ELSE accels
                o == IF calibrate = 0 THEN Fresh ELSE accelOffset
            IN /\ s \in Seq(Int) /\ o \in OffsetType /\ o.by = 1
               /\ calibrate = 0 \/ "accel" \notin failed =>
                    o.sum = Sum(s) /\ calibrate <= Len(s) /\ Len(s) <= calibrate + cuts
<1>1. /\ calibrate \in Nat /\ cuts \in Nat /\ calibrate < Samples
      /\ gyros \in Seq(Int) /\ accels \in Seq(Int)
      /\ gyroOffset \in OffsetType /\ accelOffset \in OffsetType
      /\ gyroOffset.by = 1 /\ accelOffset.by = 1
  BY SensorsAssumption DEF CountInv, TypeInv, CalibrationInv, DividedInv
<1>2. CASE calibrate = 0
  <2>1. << >> \in Seq(Int) /\ Len(<< >>) = 0 /\ Fresh \in OffsetType /\ Fresh.by = 1 /\ Fresh.sum = 0
    BY DEF Fresh, OffsetType
  <2> QED
    BY <1>1, <1>2, <2>1, SumEmpty
<1>3. CASE calibrate # 0
  <2>1. calibrate > 0 /\ step \notin Sampling /\ step # "count"
    BY <1>1, <1>3 DEF Sampling
  <2>2. "gyro" \notin failed =>
          /\ gyroOffset.sum = Sum(gyros)
          /\ calibrate <= Len(gyros) /\ Len(gyros) <= calibrate + cuts
    BY <2>1 DEF CountInv, GyroInv, Adds
  <2>3. "accel" \notin failed =>
          /\ accelOffset.sum = Sum(accels)
          /\ calibrate <= Len(accels) /\ Len(accels) <= calibrate + cuts
    BY <2>1 DEF CountInv, AccelInv, Adds
  <2> QED
    BY <1>1, <1>3, <2>2, <2>3
<1> QED
  BY <1>2, <1>3

LEMMA SampleGyroStep == CountInv /\ SampleGyro => CountInv'
<1> SUFFICES ASSUME CountInv, SampleGyro PROVE CountInv'
  OBVIOUS
<1>1. PICK s, o, as, ao, f :
        /\ s = (IF calibrate = 0 THEN << >> ELSE gyros)
        /\ o = (IF calibrate = 0 THEN Fresh ELSE gyroOffset)
        /\ as = (IF calibrate = 0 THEN << >> ELSE accels)
        /\ ao = (IF calibrate = 0 THEN Fresh ELSE accelOffset)
        /\ f = (IF calibrate = 0 THEN {} ELSE failed)
  OBVIOUS
<1>2. /\ step = "gyro" /\ step' = "accel"
      /\ calibrating' = calibrating /\ calibrate' = calibrate /\ cuts' = cuts
      /\ gyroOffset' = Add(o, held'[1]) /\ accelOffset' = ao /\ accels' = as
      /\ \/ \E g \in Gyro : held' = <<Turned(g)>> /\ gyros' = Append(s, Turned(g)) /\ failed' = f
         \/ (\E j \in Junk : held' = <<j>>) /\ gyros' = s /\ failed' = f \cup {"gyro"}
  BY <1>1 DEF SampleGyro
<1>3. PICK v \in Int :
        /\ held' = <<v>>
        /\ \/ gyros' = Append(s, v) /\ failed' = f
           \/ gyros' = s /\ failed' = f \cup {"gyro"}
  BY <1>2, TurnedType
<1>4. /\ s \in Seq(Int) /\ o \in OffsetType /\ o.by = 1
      /\ as \in Seq(Int) /\ ao \in OffsetType /\ ao.by = 1
      /\ "gyro" \notin f => o.sum = Sum(s) /\ calibrate <= Len(s) /\ Len(s) <= calibrate + cuts
      /\ "accel" \notin f => ao.sum = Sum(as) /\ calibrate <= Len(as) /\ Len(as) <= calibrate + cuts
  <2>1. /\ calibrate = 0 \/ "gyro" \notin failed <=> "gyro" \notin f
        /\ calibrate = 0 \/ "accel" \notin failed <=> "accel" \notin f
    BY <1>1
  <2> QED
    BY <1>1, <1>2, <2>1, Starts
<1>5. /\ calibrate \in Nat /\ calibrate \in 0 .. Samples /\ cuts \in Nat /\ cuts \in 0 .. MaxCuts
      /\ calibrate < Samples /\ calibrating = TRUE /\ f \subseteq {"gyro", "accel"}
      /\ Samples \in Nat
  <2>1. /\ calibrate \in 0 .. Samples /\ cuts \in 0 .. MaxCuts /\ failed \subseteq {"gyro", "accel"}
        /\ Samples \in Nat /\ MaxCuts \in Nat
    BY SensorsAssumption DEF CountInv, TypeInv
  <2>2. calibrate < Samples /\ calibrating = TRUE
    BY <1>2 DEF CountInv, CalibrationInv
  <2>3. f \subseteq {"gyro", "accel"}
    BY <1>1, <2>1
  <2> QED
    BY <2>1, <2>2, <2>3
<1>6. /\ held' \in Seq(Int) /\ Len(held') = 1 /\ held'[1] = v
  BY <1>3
<1>7. gyroOffset' \in OffsetType /\ gyroOffset'.sum = o.sum + v /\ gyroOffset'.by = 1
  BY <1>2, <1>4, <1>6, Added
<1>8. TypeInv'
  <2>1. gyros' \in Seq(Int)
    BY <1>3, <1>4, AppendProperties
  <2>2. failed' \subseteq {"gyro", "accel"}
    BY <1>3, <1>5
  <2>3. accelOffset' \in OffsetType /\ accels' \in Seq(Int)
    BY <1>2, <1>4
  <2>4. calibrating' \in BOOLEAN /\ calibrate' \in 0 .. Samples /\ cuts' \in 0 .. MaxCuts
    BY <1>2, <1>5
  <2>5. held' \in Seq(Int) /\ Len(held') <= 1 /\ gyroOffset' \in OffsetType
    BY <1>6, <1>7
  <2>6. step' = "accel"
    BY <1>2
  <2> QED
    BY <2>1, <2>2, <2>3, <2>4, <2>5, <2>6 DEF TypeInv
<1>9. CalibrationInv' /\ DividedInv'
  BY <1>2, <1>4, <1>5, <1>6, <1>7 DEF CalibrationInv, DividedInv, Dividing
<1>10. GyroInv'
  <2> SUFFICES ASSUME "gyro" \notin failed'
               PROVE  /\ gyroOffset'.sum = Sum(gyros')
                      /\ calibrate + 1 <= Len(gyros') /\ Len(gyros') <= calibrate + 1 + cuts
    BY <1>2 DEF GyroInv, Adds, Sampling
  <2>1. gyros' = Append(s, v) /\ "gyro" \notin f
    BY <1>3
  <2>2. Sum(Append(s, v)) = Sum(s) + v /\ Len(Append(s, v)) = Len(s) + 1 /\ Len(s) \in Nat
    BY <1>4, SumAppend
  <2> QED
    BY <1>4, <1>5, <1>7, <2>1, <2>2
<1>11. AccelInv'
  <2> SUFFICES ASSUME "accel" \notin failed'
               PROVE  /\ ao.sum = Sum(as)
                      /\ calibrate <= Len(as) /\ Len(as) <= calibrate + cuts
    BY <1>2 DEF AccelInv, Adds
  <2>1. "accel" \notin f
    BY <1>3
  <2> QED
    BY <1>4, <2>1
<1> QED
  BY <1>8, <1>9, <1>10, <1>11 DEF CountInv

LEMMA SampleAccelStep == CountInv /\ SampleAccel => CountInv'
<1> SUFFICES ASSUME CountInv, SampleAccel PROVE CountInv'
  OBVIOUS
<1>1. /\ step = "accel" /\ step' = "count"
      /\ calibrating' = calibrating /\ calibrate' = calibrate /\ cuts' = cuts
      /\ gyroOffset' = gyroOffset /\ gyros' = gyros
      /\ accelOffset' = Add(accelOffset, held'[1])
      /\ \/ \E a \in Accel : /\ held' = <<Turned(a)>> /\ accels' = Append(accels, Turned(a))
                            /\ failed' = failed
         \/ failed' = failed \cup {"accel"} /\ held' = held /\ accels' = accels
  BY DEF SampleAccel
<1>2. /\ TypeInv /\ calibrate \in Nat /\ cuts \in Nat /\ Samples \in Nat /\ calibrate < Samples
      /\ held \in Seq(Int) /\ Len(held) = 1 /\ calibrating = TRUE
      /\ gyroOffset.by = 1 /\ accelOffset.by = 1 /\ accels \in Seq(Int)
      /\ accelOffset \in OffsetType
  BY <1>1, SensorsAssumption DEF CountInv, TypeInv, CalibrationInv, DividedInv
<1>3. PICK v \in Int :
        /\ held' \in Seq(Int) /\ Len(held') = 1 /\ held'[1] = v
        /\ \/ accels' = Append(accels, v) /\ failed' = failed
           \/ accels' = accels /\ failed' = failed \cup {"accel"}
  <2>1. CASE \E a \in Accel : /\ held' = <<Turned(a)>> /\ accels' = Append(accels, Turned(a))
                             /\ failed' = failed
    <3>1. PICK a \in Accel : /\ held' = <<Turned(a)>> /\ accels' = Append(accels, Turned(a))
                             /\ failed' = failed
      BY <2>1
    <3>2. Turned(a) \in Int
      BY TurnedType
    <3> QED
      BY <3>1, <3>2
  <2>2. CASE failed' = failed \cup {"accel"} /\ held' = held /\ accels' = accels
    <3>1. 1 \in 1 .. Len(held)
      BY <1>2
    <3>2. held[1] \in Int
      BY <1>2, <3>1, ElementOfSeq
    <3> QED
      BY <1>2, <2>2, <3>2
  <2> QED
    BY <1>1, <2>1, <2>2
<1>4. accelOffset' \in OffsetType /\ accelOffset'.sum = accelOffset.sum + v /\ accelOffset'.by = 1
  BY <1>1, <1>2, <1>3, Added
<1>5. TypeInv'
  <2>1. accels' \in Seq(Int)
    <3>1. Append(accels, v) \in Seq(Int)
      BY <1>2, AppendProperties
    <3> QED
      BY <1>2, <1>3, <3>1
  <2>2. failed' \subseteq {"gyro", "accel"}
    BY <1>2, <1>3 DEF TypeInv
  <2> QED
    BY <1>1, <1>2, <1>3, <1>4, <2>1, <2>2 DEF TypeInv
<1>6. CalibrationInv' /\ DividedInv'
  BY <1>1, <1>2, <1>3, <1>4 DEF CalibrationInv, DividedInv, Dividing
<1>7. GyroInv'
  <2>1. "gyro" \notin failed' => "gyro" \notin failed
    BY <1>3
  <2> QED
    BY <1>1, <2>1 DEF CountInv, GyroInv, Adds, Sampling
<1>8. AccelInv'
  <2> SUFFICES ASSUME "accel" \notin failed'
               PROVE  /\ accelOffset'.sum = Sum(accels')
                      /\ calibrate + 1 <= Len(accels') /\ Len(accels') <= calibrate + 1 + cuts
    BY <1>1 DEF AccelInv, Adds
  <2>1. accels' = Append(accels, v) /\ "accel" \notin failed
    BY <1>3
  <2>2. /\ Sum(Append(accels, v)) = Sum(accels) + v
        /\ Len(Append(accels, v)) = Len(accels) + 1 /\ Len(accels) \in Nat
    BY <1>2, SumAppend
  <2>3. /\ accelOffset.sum = Sum(accels)
        /\ calibrate <= Len(accels) /\ Len(accels) <= calibrate + cuts
    BY <1>1, <2>1 DEF CountInv, AccelInv, Adds, Sampling
  <2> QED
    BY <1>2, <1>4, <2>1, <2>2, <2>3
<1> QED
  BY <1>5, <1>6, <1>7, <1>8 DEF CountInv

LEMMA CountStep == CountInv /\ Count => CountInv'
<1> SUFFICES ASSUME CountInv, Count PROVE CountInv'
  OBVIOUS
<1>1. /\ step = "count" /\ calibrate' = calibrate + 1 /\ held' = << >>
      /\ step' = (IF calibrate + 1 >= Samples THEN "divide" ELSE "get")
      /\ calibrating' = calibrating /\ cuts' = cuts /\ failed' = failed
      /\ gyroOffset' = gyroOffset /\ gyros' = gyros
      /\ accelOffset' = accelOffset /\ accels' = accels
  BY DEF Count
<1>2. /\ TypeInv /\ calibrate \in Nat /\ Samples \in Nat /\ calibrate < Samples
      /\ calibrating = TRUE /\ gyroOffset.by = 1 /\ accelOffset.by = 1
  BY <1>1, SensorsAssumption DEF CountInv, TypeInv, CalibrationInv, DividedInv
<1>3. \/ calibrate + 1 = Samples /\ step' = "divide"
      \/ calibrate + 1 < Samples /\ step' = "get"
  BY <1>1, <1>2
<1>4. TypeInv'
  BY <1>1, <1>2, <1>3 DEF TypeInv
<1>5. CalibrationInv' /\ DividedInv'
  BY <1>1, <1>2, <1>3 DEF CalibrationInv, DividedInv, Dividing
<1>6. GyroInv' /\ AccelInv'
  <2>1. step' \notin Sampling /\ step' # "count" /\ step \in Sampling
    BY <1>1, <1>3 DEF Sampling
  <2> QED
    BY <1>1, <2>1 DEF CountInv, GyroInv, AccelInv, Adds
<1> QED
  BY <1>4, <1>5, <1>6 DEF CountInv

LEMMA DivideStep == CountInv /\ (DivideGyro \/ DivideAccel) => CountInv'
<1> SUFFICES ASSUME CountInv, DivideGyro \/ DivideAccel PROVE CountInv'
  OBVIOUS
<1>1. /\ TypeInv /\ Samples \in Nat /\ step \in Dividing /\ calibrate = Samples
      /\ gyroOffset \in OffsetType /\ accelOffset \in OffsetType
  BY SensorsAssumption DEF CountInv, TypeInv, CalibrationInv, Dividing, DivideGyro, DivideAccel
<1>2. /\ calibrate' = calibrate /\ held' = held /\ cuts' = cuts /\ failed' = failed
      /\ gyros' = gyros /\ accels' = accels
  BY DEF DivideGyro, DivideAccel
<1>3. \/ /\ step = "divide" /\ step' = "halved" /\ calibrating' = calibrating
         /\ gyroOffset' = Mean(gyroOffset) /\ accelOffset' = accelOffset
      \/ /\ step = "halved" /\ step' = "get" /\ calibrating' = FALSE
         /\ gyroOffset' = gyroOffset /\ accelOffset' = Mean(accelOffset)
  BY DEF DivideGyro, DivideAccel
<1>4. /\ accelOffset.by = 1 /\ (step = "divide" => gyroOffset.by = 1)
      /\ (step = "halved" => gyroOffset.by = Samples) /\ calibrating = TRUE
  BY <1>1 DEF CountInv, DividedInv, CalibrationInv, Dividing
<1>5. /\ gyroOffset' \in OffsetType /\ gyroOffset'.sum = gyroOffset.sum /\ gyroOffset'.by = Samples
      /\ accelOffset' \in OffsetType /\ accelOffset'.sum = accelOffset.sum
      /\ (step' = "halved" => accelOffset'.by = 1) /\ (step' = "get" => accelOffset'.by = Samples)
  BY <1>1, <1>3, <1>4, Divided
<1>6. TypeInv'
  BY <1>1, <1>2, <1>3, <1>5 DEF TypeInv
<1>7. CalibrationInv'
  BY <1>1, <1>2, <1>3, <1>4 DEF CalibrationInv, Dividing
<1>8. DividedInv'
  BY <1>1, <1>2, <1>3, <1>5 DEF DividedInv, Dividing
<1>9. GyroInv' /\ AccelInv'
  <2>1. /\ step \notin Sampling /\ step # "count" /\ step' \notin Sampling /\ step' # "count"
    BY <1>3 DEF Sampling
  <2> QED
    BY <1>2, <1>5, <2>1 DEF CountInv, GyroInv, AccelInv, Adds
<1> QED
  BY <1>6, <1>7, <1>8, <1>9 DEF CountInv

\* Nothing else touches the calibration.
LEMMA CountKept ==
  ASSUME CountInv, UNCHANGED calibration, held' = held, cuts' = cuts,
         \/ step' = step
         \/ step \in {"get", "update", "command"} /\ step' \in {"update", "command", "calibrate"}
  PROVE  CountInv'
<1>1. /\ calibrating' = calibrating /\ calibrate' = calibrate
      /\ gyroOffset' = gyroOffset /\ accelOffset' = accelOffset
      /\ failed' = failed /\ gyros' = gyros /\ accels' = accels
  BY DEF calibration
<1>2. TypeInv'
  BY <1>1 DEF CountInv, TypeInv
<1>3. CalibrationInv' /\ DividedInv'
  BY <1>1 DEF CountInv, CalibrationInv, DividedInv, Dividing
<1>4. GyroInv' /\ AccelInv'
  BY <1>1 DEF CountInv, GyroInv, AccelInv, Adds, Sampling
<1> QED
  BY <1>2, <1>3, <1>4 DEF CountInv

LEMMA GetStep == SensorsInv /\ Get => DataInv' /\ CleanInv'
<1> SUFFICES ASSUME SensorsInv, Get PROVE DataInv' /\ CleanInv'
  OBVIOUS
<1>1. step' = "update" /\ UNCHANGED <<calibration, q>>
  BY DEF Get
<1>3. \/ \E x, z \in Int : now' = <<x>> /\ sd' = Written(x, z) /\ missed' = missed
      \/ \E x \in Int : now' = <<x>> /\ sd' = <<Less(x, gyroOffset)>> /\ missed' = TRUE
      \/ now' = << >> /\ sd' = << >> /\ missed' = TRUE
  BY TurnedType DEF Get
<1>4. gyroOffset \in OffsetType /\ accelOffset \in OffsetType /\ gyroOffset' = gyroOffset
  BY <1>1 DEF SensorsInv, CountInv, TypeInv, calibration
<1>5. CASE \E x, z \in Int : now' = <<x>> /\ sd' = Written(x, z) /\ missed' = missed
  <2>1. PICK x \in Int, z \in Int : now' = <<x>> /\ sd' = Written(x, z) /\ missed' = missed
    BY <1>5
  <2>2. Less(x, gyroOffset) \in Int /\ Less(z, accelOffset) \in Int
    BY <1>4, LessType
  <2>3. /\ sd' \in Seq(Int) /\ Len(sd') = 2 /\ sd'[1] = Less(x, gyroOffset)
        /\ now' \in Seq(Int) /\ Len(now') = 1 /\ now'[1] = x
    BY <2>1, <2>2 DEF Written
  <2>4. sd'[1] = Less(now[1], gyroOffset)'
    BY <1>4, <2>3 DEF Less
  <2> QED
    BY <1>1, <2>1, <2>3, <2>4 DEF SensorsInv, DataInv, CleanInv
<1>6. CASE \E x \in Int : now' = <<x>> /\ sd' = <<Less(x, gyroOffset)>> /\ missed' = TRUE
  <2>1. PICK x \in Int : now' = <<x>> /\ sd' = <<Less(x, gyroOffset)>> /\ missed' = TRUE
    BY <1>6
  <2>2. Less(x, gyroOffset) \in Int
    BY <1>4, LessType
  <2>3. /\ sd' \in Seq(Int) /\ Len(sd') = 1 /\ sd'[1] = Less(x, gyroOffset)
        /\ now' \in Seq(Int) /\ Len(now') = 1 /\ now'[1] = x
    BY <2>1, <2>2
  <2>4. sd'[1] = Less(now[1], gyroOffset)'
    BY <1>4, <2>3 DEF Less
  <2> QED
    BY <1>1, <2>1, <2>3, <2>4 DEF SensorsInv, DataInv, CleanInv
<1>7. CASE now' = << >> /\ sd' = << >> /\ missed' = TRUE
  BY <1>1, <1>7 DEF SensorsInv, DataInv, CleanInv
<1> QED
  BY <1>3, <1>5, <1>6, <1>7

LEMMA SensorsStep == SensorsInv /\ [Next]_vars => SensorsInv'
<1> SUFFICES ASSUME SensorsInv, [Next]_vars PROVE SensorsInv'
  OBVIOUS
<1>1. CountInv
  BY DEF SensorsInv
<1>2. CASE UNCHANGED vars
  <2>1. /\ UNCHANGED calibration /\ held' = held /\ cuts' = cuts /\ step' = step
        /\ sd' = sd /\ q' = q /\ missed' = missed /\ now' = now /\ gyroOffset' = gyroOffset
    BY <1>2 DEF vars, calibration
  <2> QED
    BY <1>1, <2>1, CountKept DEF SensorsInv, DataInv, CleanInv, Less
<1>3. CASE Restart
  <2>1. step' = "calibrate" /\ sd' = << >> /\ q' = "level" /\ missed' = FALSE
    BY <1>3 DEF Restart
  <2> QED
    BY <1>1, <1>3, <2>1, RestartStep DEF SensorsInv, DataInv, CleanInv
<1>4. CASE Calibrate \/ SampleGyro \/ SampleAccel \/ Count \/ DivideGyro \/ DivideAccel
  <2>1. CountInv'
    BY <1>1, <1>4, CalibrateStep, SampleGyroStep, SampleAccelStep, CountStep, DivideStep
  <2>2. /\ UNCHANGED <<sd, q, missed, now>> /\ step \notin {"update", "command"}
        /\ step' \notin {"update", "command"}
    BY <1>4 DEF Calibrate, SampleGyro, SampleAccel, Count, DivideGyro, DivideAccel
  <2>3. DataInv' /\ CleanInv'
    BY <2>2 DEF SensorsInv, DataInv, CleanInv
  <2> QED
    BY <2>1, <2>3 DEF SensorsInv
<1>5. CASE Get
  <2>1. UNCHANGED <<calibration, held, cuts>> /\ step = "get" /\ step' = "update"
    BY <1>5 DEF Get
  <2> QED
    BY <1>1, <1>5, <2>1, CountKept, GetStep DEF SensorsInv
<1>6. CASE Update
  <2>1. /\ step = "update" /\ step' = "command"
        /\ UNCHANGED <<calibration, held, cuts, sd, missed, now>>
        /\ q' = IF Len(sd) = 2 /\ q # "tainted" THEN "estimated" ELSE "tainted"
    BY <1>6 DEF Update
  <2>2. DataInv'
    <3>1. gyroOffset' = gyroOffset
      BY <2>1 DEF calibration
    <3> QED
      BY <2>1, <3>1 DEF SensorsInv, DataInv, Less
  <2>3. CleanInv'
    <3>1. Len(sd) \in Nat /\ Len(sd) <= 2
      <4>1. sd \in Seq(Int) /\ Len(sd) <= 2
        BY DEF SensorsInv, DataInv
      <4> QED
        BY <4>1
    <3>2. /\ Len(sd) < 2 => missed
          /\ q = "tainted" => missed
          /\ missed' = missed
      BY <2>1 DEF SensorsInv, CleanInv
    <3>3. Len(sd) # 2 => Len(sd) < 2
      <4>1. PICK n \in Nat : n = Len(sd) /\ n <= 2
        BY <3>1
      <4>2. n # 2 => n < 2
        BY <4>1
      <4> QED
        BY <4>1, <4>2
    <3>4. q' \in {"level", "estimated", "tainted"} /\ (q' = "tainted" => Len(sd) # 2 \/ q = "tainted")
      BY <2>1
    <3> QED
      BY <2>1, <3>2, <3>3, <3>4 DEF CleanInv
  <2> QED
    BY <1>1, <2>1, <2>2, <2>3, CountKept DEF SensorsInv
<1>7. CASE Command
  <2>1. /\ UNCHANGED <<calibration, held, cuts>> /\ step = "command" /\ step' = "calibrate"
        /\ sd' = << >>
        /\ (q' = "level" /\ missed' = FALSE) \/ (q' = q /\ missed' = missed)
    BY <1>7 DEF Command
  <2>2. DataInv' /\ CleanInv'
    BY <2>1 DEF SensorsInv, DataInv, CleanInv
  <2> QED
    BY <1>1, <2>1, <2>2, CountKept DEF SensorsInv
<1> QED
  BY <1>2, <1>3, <1>4, <1>5, <1>6, <1>7 DEF Next

LEMMA SensorsAlways == Spec => []SensorsInv
BY SensorsInit, SensorsStep, PTL DEF Spec
-----------------------------------------------------------------------------
\* What the invariant says when the calibration is over.
LEMMA CalibratedInv ==
  ASSUME SensorsInv, calibrating = FALSE
  PROVE  /\ gyros \in Seq(Int) /\ accels \in Seq(Int)
         /\ "gyro" \notin failed =>
              /\ gyroOffset.sum = Sum(gyros) /\ Len(gyros) \in Samples .. Samples + cuts
              /\ cuts = 0 => Len(gyros) = Samples
         /\ "accel" \notin failed =>
              /\ accelOffset.sum = Sum(accels) /\ Len(accels) \in Samples .. Samples + cuts
         /\ cuts = 0 => gyroOffset.by = Samples /\ accelOffset.by = Samples
<1>1. /\ gyros \in Seq(Int) /\ accels \in Seq(Int) /\ Len(gyros) \in Nat /\ Len(accels) \in Nat
      /\ calibrate = Samples /\ Samples \in Nat \ {0} /\ cuts \in Nat
      /\ step \notin Sampling /\ step # "count" /\ step \notin Dividing
  BY SensorsAssumption
  DEF SensorsInv, CountInv, TypeInv, CalibrationInv, Sampling, Dividing
<1>2. "gyro" \notin failed =>
        gyroOffset.sum = Sum(gyros) /\ Samples <= Len(gyros) /\ Len(gyros) <= Samples + cuts
  BY <1>1 DEF SensorsInv, CountInv, GyroInv, Adds
<1>3. "accel" \notin failed =>
        accelOffset.sum = Sum(accels) /\ Samples <= Len(accels) /\ Len(accels) <= Samples + cuts
  BY <1>1 DEF SensorsInv, CountInv, AccelInv, Adds
<1>4. cuts = 0 => gyroOffset.by = Samples /\ accelOffset.by = Samples
  BY <1>1 DEF SensorsInv, CountInv, DividedInv
<1> QED
  BY <1>1, <1>2, <1>3, <1>4

\* A copter that turns as it did during the whole calibration, with no failed gyro read and
\* no restart inside a sample, is at rest for the estimator, for any number of samples, any
\* reading and any width.
THEOREM RestsAtZero == Spec => []RestIsZero
<1>1. SensorsInv => RestIsZero
  <2> SUFFICES ASSUME SensorsInv, calibrating = FALSE, "gyro" \notin failed, cuts = 0, Len(sd) > 0,
                      \A i \in DOMAIN gyros : gyros[i] = now[1]
               PROVE  sd[1] = 0
    <3>1. SensorsInv => calibrating \in BOOLEAN
      BY DEF SensorsInv, CountInv, TypeInv
    <3> QED
      BY <3>1 DEF RestIsZero
  <2> DEFINE x == now[1]
  <2>1. x \in Int /\ sd[1] = Less(x, gyroOffset)
    <3>1. now \in Seq(Int) /\ Len(now) = 1 /\ sd[1] = Less(x, gyroOffset)
      BY DEF SensorsInv, DataInv
    <3> QED
      BY <3>1
  <2>2. gyroOffset.sum = Samples * x /\ gyroOffset.by = Samples
    <3>1. gyros \in Seq(Int) /\ Len(gyros) = Samples /\ gyroOffset.by = Samples
          /\ gyroOffset.sum = Sum(gyros)
      BY CalibratedInv
    <3>2. Uniform(gyros, x)
      BY DEF Uniform
    <3> QED
      BY <2>1, <3>1, <3>2, UniformSum
  <2>3. Samples \in Nat \ {0} /\ Samples \div Samples = 1
    BY SensorsAssumption
  <2> HIDE DEF x
  <2>4. Samples * x \in Int
    BY <2>1, <2>3
  <2> QED
    BY <2>1, <2>2, <2>3, <2>4 DEF Less
<1> QED
  BY <1>1, SensorsAlways, PTL

\* No unwritten memory is in the estimate unless a read has failed since angle_init.
THEOREM StaysClean == Spec => []EstimateClean
<1>1. SensorsInv => EstimateClean
  BY DEF SensorsInv, CleanInv, EstimateClean
<1> QED
  BY <1>1, SensorsAlways, PTL

\* The calibration never counts past Samples, an offset is divided at most once, and
\* every variable keeps its type.
THEOREM TypeCorrect == Spec => []TypeOK
<1>1. SensorsInv => TypeOK
  BY DEF SensorsInv, CountInv, TypeInv, DataInv, CleanInv, TypeOK, OffsetType
<1> QED
  BY <1>1, SensorsAlways, PTL

\* sensors_calibrate, with a STOP and a START of the same image at any point: an offset
\* none of whose reads failed is made of its own sensor's readings, Samples of them and at
\* most one more for each restart inside a sample; with none, it is their mean.
THEOREM OffsetsAreMeans == Spec => []OffsetIsMean
<1>1. SensorsInv => OffsetIsMean
  <2> SUFFICES ASSUME SensorsInv, calibrating = FALSE PROVE OffsetIsMean
    <3>1. SensorsInv => calibrating \in BOOLEAN
      BY DEF SensorsInv, CountInv, TypeInv
    <3> QED
      BY <3>1 DEF OffsetIsMean
  <2> QED
    BY CalibratedInv DEF OffsetIsMean
<1> QED
  BY <1>1, SensorsAlways, PTL
-----------------------------------------------------------------------------
\* The earlier firmware.  An offset after n readings s of its sensor.
MapleOffset(offset, s) ==
  /\ s \in Seq(Int) /\ Len(s) <= Samples
  /\ offset.sum = Sum(s) /\ offset.sum \in Int
  /\ offset.by = IF Len(s) < Samples THEN 1 ELSE Samples

\* What is written in data stands for the reading of now; nothing is before the flight.
MapleData ==
  /\ phase # "fly" => mNow.accel = << >>
  /\ mNow.accel # << >> => /\ mNow.accel[1] \in Int
                           /\ data.accel = M!Less(mNow.accel[1], mAccelOffset)

MapleInv ==
  /\ phase \in {"gyro", "accel", "fly"}
  /\ y # << >> => y[1] \in Int
  /\ MapleOffset(mGyroOffset, mGyros) /\ MapleOffset(mAccelOffset, mAccels)
  /\ phase # "gyro" => Len(mGyros) = Samples
  /\ phase = "fly" => Len(mAccels) = Samples
  /\ MapleData

\* Readings are numbers.
LEMMA MapleReadings ==
  /\ \A g \in Gyro : M!GyroData(g) \in Int
  /\ \A a \in Accel : a \in Int
  /\ \A j \in Junk : j \in Int
<1>1. 2 ^ (Width - 1) \in Nat \ {0}
  BY SensorsAssumption, PowerPositive
<1>2. \A r \in Reading : r \in Int
  BY <1>1 DEF Reading
<1>3. \A g \in Gyro : M!GyroData(g) \in Int
  BY TurnedType DEF M!GyroData, M!Int16, Turned, Int16
<1> QED
  BY <1>2, <1>3, SensorsAssumption

LEMMA MapleStart == PartsInit => MapleInv
<1> SUFFICES ASSUME PartsInit PROVE MapleInv
  OBVIOUS
<1>1. /\ phase = "gyro" /\ y = << >>
      /\ mGyroOffset = [sum |-> 0, by |-> 1] /\ mAccelOffset = [sum |-> 0, by |-> 1]
      /\ mNow = [gyro |-> << >>, accel |-> << >>]
      /\ mGyros = << >> /\ mAccels = << >>
  BY DEF PartsInit, M!Init, M!Fresh
<1>2. MapleOffset([sum |-> 0, by |-> 1], << >>)
  BY SumEmpty, SensorsAssumption DEF MapleOffset
<1> QED
  BY <1>1, <1>2 DEF MapleInv, MapleData

\* One round of a calibration loop.
LEMMA MapleRound ==
  ASSUME NEW offset, NEW s, MapleOffset(offset, s), Len(s) < Samples, NEW v \in Int
  PROVE  MapleOffset(M!Added(offset, v, Len(s)), Append(s, v))
<1>1. /\ s \in Seq(Int) /\ offset.sum = Sum(s) /\ offset.sum \in Int
      /\ Samples \in Nat \ {0} /\ Len(s) \in Nat
  BY SensorsAssumption DEF MapleOffset
<1>2. /\ Append(s, v) \in Seq(Int) /\ Len(Append(s, v)) = Len(s) + 1
      /\ Sum(Append(s, v)) = offset.sum + v
  BY <1>1, SumAppend
<1>3. /\ M!Added(offset, v, Len(s)).sum = offset.sum + v
      /\ M!Added(offset, v, Len(s)).by = IF Len(s) + 1 < Samples THEN 1 ELSE Samples
  BY DEF M!Added
<1> QED
  BY <1>1, <1>2, <1>3 DEF MapleOffset

\* What a read of the calibration leaves in y is a number.
LEMMA MapleGet ==
  ASSUME MapleInv, NEW R, R \subseteq Int, M!Get(R)
  PROVE  y' # << >> => y'[1] \in Int
BY MapleReadings DEF M!Get, MapleInv

LEMMA MapleGetSome ==
  ASSUME NEW R, M!Get(R)
  PROVE  y' # << >>
BY DEF M!Get

LEMMA MapleStep == MapleInv /\ [PartsNext]_<<part, vars, maple, scanVars>> => MapleInv'
<1> SUFFICES ASSUME MapleInv, [PartsNext]_<<part, vars, maple, scanVars>> PROVE MapleInv'
  OBVIOUS
<1>1. CASE UNCHANGED maple
  <2>1. UNCHANGED <<phase, y, mGyroOffset, mAccelOffset, data, mGyros, mAccels, mNow, mFailed>>
    BY <1>1 DEF maple
  <2>2. MapleData'
    BY <2>1 DEF MapleInv, MapleData, M!Less
  <2> QED
    BY <2>1, <2>2 DEF MapleInv, MapleOffset
<1>2. CASE M!CalibrateGyro
  <2>1. /\ phase = "gyro" /\ Len(mGyros) < Samples
        /\ mGyroOffset' = M!Added(mGyroOffset, y'[1], Len(mGyros))
        /\ mGyros' = Append(mGyros, y'[1])
        /\ UNCHANGED <<phase, mAccelOffset, data, mAccels, mNow>>
    BY <1>2 DEF M!CalibrateGyro
  <2>2. y'[1] \in Int
    <3> DEFINE R == {M!GyroData(g) : g \in Gyro}
    <3>1. R \subseteq Int /\ M!Get(R)
      BY <1>2, MapleReadings DEF M!CalibrateGyro
    <3> HIDE DEF R
    <3> QED
      BY <3>1, MapleGet, MapleGetSome
  <2>3. MapleOffset(mGyroOffset', mGyros')
    BY <2>1, <2>2, MapleRound DEF MapleInv
  <2>4. MapleOffset(mAccelOffset', mAccels')
    BY <2>1 DEF MapleInv
  <2>5. MapleData'
    BY <2>1 DEF MapleInv, MapleData
  <2> QED
    BY <2>1, <2>2, <2>3, <2>4, <2>5 DEF MapleInv, MapleOffset
<1>3. CASE M!GyroDone
  <2>1. /\ phase = "gyro" /\ Len(mGyros) = Samples /\ phase' = "accel" /\ y' = << >>
        /\ UNCHANGED <<mGyroOffset, mAccelOffset, data, mGyros, mAccels, mNow>>
    BY <1>3 DEF M!GyroDone
  <2>2. MapleData'
    BY <2>1 DEF MapleInv, MapleData
  <2> QED
    BY <2>1, <2>2 DEF MapleInv, MapleOffset
<1>4. CASE M!CalibrateAccel
  <2>1. /\ phase = "accel" /\ Len(mAccels) < Samples
        /\ mAccelOffset' = M!Added(mAccelOffset, y'[1], Len(mAccels))
        /\ mAccels' = Append(mAccels, y'[1])
        /\ UNCHANGED <<phase, mGyroOffset, data, mGyros, mNow>>
    BY <1>4 DEF M!CalibrateAccel
  <2>2. y'[1] \in Int
    <3> DEFINE R == {M!AccelData(a) : a \in Accel}
    <3>1. R \subseteq Int /\ M!Get(R)
      BY <1>4, MapleReadings DEF M!CalibrateAccel, M!AccelData
    <3> HIDE DEF R
    <3> QED
      BY <3>1, MapleGet, MapleGetSome
  <2>3. MapleOffset(mAccelOffset', mAccels')
    BY <2>1, <2>2, MapleRound DEF MapleInv
  <2>4. MapleOffset(mGyroOffset', mGyros')
    BY <2>1 DEF MapleInv
  <2>5. MapleData'
    BY <2>1 DEF MapleInv, MapleData
  <2> QED
    BY <2>1, <2>2, <2>3, <2>4, <2>5 DEF MapleInv, MapleOffset
<1>5. CASE M!AccelDone
  <2>1. /\ phase = "accel" /\ Len(mAccels) = Samples /\ phase' = "fly" /\ y' = << >>
        /\ UNCHANGED <<mGyroOffset, mAccelOffset, data, mGyros, mAccels, mNow>>
    BY <1>5 DEF M!AccelDone
  <2>2. MapleData'
    BY <2>1 DEF MapleInv, MapleData
  <2> QED
    BY <2>1, <2>2 DEF MapleInv, MapleOffset
<1>6. CASE M!Tick
  <2>1. PICK g \in Gyro, a \in Accel, ok \in BOOLEAN :
          /\ data' = [gyro |-> M!Less(M!GyroFlight(M!GyroData(g)), mGyroOffset),
                      accel |-> IF ok THEN M!Less(M!AccelFlight(M!AccelData(a)), mAccelOffset)
                                ELSE data.accel]
          /\ mNow' = [gyro |-> <<M!GyroData(g)>>,
                      accel |-> IF ok THEN <<M!AccelData(a)>> ELSE mNow.accel]
    BY <1>6 DEF M!Tick
  <2>2. /\ phase = "fly"
        /\ UNCHANGED <<phase, y, mGyroOffset, mAccelOffset, mGyros, mAccels>>
    BY <1>6 DEF M!Tick
  <2>4. mNow'.accel # << >> =>
          mNow'.accel[1] \in Int /\ data'.accel = M!Less(mNow'.accel[1], mAccelOffset)
    <3>1. CASE ok
      BY <2>1, <3>1, MapleReadings DEF M!AccelData, M!AccelFlight
    <3>2. CASE ~ok
      <4>1. mNow'.accel = mNow.accel /\ data'.accel = data.accel
        BY <2>1, <3>2
      <4> QED
        BY <4>1 DEF MapleInv, MapleData
    <3> QED
      BY <3>1, <3>2
  <2>5. MapleData'
    BY <2>2, <2>4 DEF MapleData, M!Less
  <2> QED
    BY <2>2, <2>5 DEF MapleInv, MapleOffset
<1> QED
  BY <1>1, <1>2, <1>3, <1>4, <1>5, <1>6 DEF PartsNext, M!Next

LEMMA MapleAlways == PartsSpec => []MapleInv
BY MapleStart, MapleStep, PTL DEF PartsSpec

\* A sensor that read v whenever it was calibrated: what is left of a reading x.
LEMMA MapleLess ==
  ASSUME NEW offset, NEW s, MapleOffset(offset, s), Len(s) = Samples,
         NEW v \in Int, Uniform(s, v), NEW x \in Int
  PROVE  M!Less(x, offset) = Samples * x - Samples * v
<1>1. /\ offset.by = Samples /\ Samples \in Nat \ {0} /\ Samples \div Samples = 1
      /\ s \in Seq(Int) /\ offset.sum = Sum(s)
  BY SensorsAssumption DEF MapleOffset
<1>2. offset.sum = Samples * v
  BY <1>1, UniformSum
<1>3. Samples * v \in Int
  BY <1>1
<1>4. M!Less(x, offset) = Samples * x - (Samples * v) * 1
  BY <1>1, <1>2 DEF M!Less
<1> QED
  BY <1>3, <1>4

\* calibrate_accel and sensors_get_data of the earlier firmware: a copter that stands as it
\* did while it was calibrated shows 0 on the accelerometer, for any number of samples and
\* any readings, reads failing or not.  (Its gyro does not: GyroIsZeroed.)
THEOREM MapleRests == PartsSpec => []MapleAtRest
<1>1. MapleInv => MapleAtRest
  <2> SUFFICES ASSUME MapleInv PROVE MapleAtRest
    OBVIOUS
  <2>1. /\ MapleOffset(mGyroOffset, mGyros) /\ MapleOffset(mAccelOffset, mAccels)
        /\ MapleData /\ phase \in {"gyro", "accel", "fly"}
        /\ phase = "fly" => Len(mGyros) = Samples /\ Len(mAccels) = Samples
    BY DEF MapleInv
  <2>2. ASSUME M!SameAll(mAccels, mNow.accel) PROVE data.accel = 0
    <3>1. /\ mNow.accel # << >> /\ Uniform(mAccels, mNow.accel[1])
      BY <2>2 DEF M!SameAll, Uniform
    <3>2. /\ phase = "fly" /\ mNow.accel[1] \in Int
          /\ data.accel = M!Less(mNow.accel[1], mAccelOffset)
      BY <2>1, <3>1 DEF MapleData
    <3> DEFINE v == mNow.accel[1]
    <3>3. v \in Int /\ Uniform(mAccels, v) /\ data.accel = M!Less(v, mAccelOffset)
      BY <3>1, <3>2
    <3> HIDE DEF v
    <3>4. data.accel = Samples * v - Samples * v
      BY <2>1, <3>2, <3>3, MapleLess
    <3>5. Samples * v \in Int
      BY <3>3, SensorsAssumption
    <3> QED
      BY <3>4, <3>5
  <2> QED
    BY <2>2 DEF MapleAtRest, M!AtRest
<1> QED
  BY <1>1, MapleAlways, PTL

\* Whichever part is looked at, the two others' specifications hold as well: what is shown
\* of Spec above and of ScanSpec below holds in what TLC checks.
THEOREM PartsAreAlone == PartsSpec => Spec /\ ScanSpec
<1>1. PartsInit => Init /\ ScanInit
  BY DEF PartsInit
<1>2. [PartsNext]_<<part, vars, maple, scanVars>> => [Next]_vars
  BY DEF PartsNext
<1>3. [PartsNext]_<<part, vars, maple, scanVars>> => [Scan]_scanVars
  BY DEF PartsNext
<1> QED
  BY <1>1, <1>2, <1>3, PTL DEF PartsSpec, Spec, ScanSpec
-----------------------------------------------------------------------------
\* debug_printf.  A value of a type that can hold 0 .. 2 ^ bits - 1.
LEMMA UnsignedRange ==
  ASSUME NEW v \in Int, NEW bits \in Nat
  PROVE  Unsigned(v, bits) \in 0 .. 2 ^ bits - 1
<1> DEFINE w == 2 ^ bits
<1>1. w \in Nat \ {0}
  BY PowerPositive
<1> HIDE DEF w
<1>2. v % w \in 0 .. w - 1
  BY <1>1
<1> QED
  BY <1>2 DEF Unsigned, w

LEMMA SignedType ==
  ASSUME NEW v \in Int, NEW bits \in Nat \ {0}
  PROVE  Signed(v, bits) \in Int
<1> DEFINE h == 2 ^ (bits - 1)
<1>1. h \in Nat /\ 2 ^ bits \in Nat
  BY PowerPositive
<1> HIDE DEF h
<1>2. v + h \in Int
  BY <1>1
<1>3. Unsigned(v + h, bits) \in Int
  BY <1>1, <1>2, UnsignedRange
<1>4. Unsigned(v + h, bits) - h \in Int
  BY <1>1, <1>3
<1> QED
  BY <1>4 DEF Signed, h

-----------------------------------------------------------------------------
Bases == {8, 10, 16}

\* f starts with x, and each of its values is what a step makes of the one before.
IsPath(f, x, g, n) == f[0] = x /\ \A i \in 1 .. n : f[i] = g[i][f[i - 1]]

\* What a step makes of the value of the step before exists for any number of steps.
LEMMA PathExists ==
  ASSUME NEW D, NEW x \in D, NEW n \in Nat, NEW g \in [1 .. n -> [D -> D]]
  PROVE  \E f \in [0 .. n -> D] : IsPath(f, x, g, n)
<1> DEFINE S == {k \in Nat : k <= n => \E f \in [0 .. k -> D] : IsPath(f, x, g, k)}
<1>1. 0 \in S
  <2> DEFINE f == [i \in 0 .. 0 |-> x]
  <2>1. f \in [0 .. 0 -> D] /\ IsPath(f, x, g, 0)
    BY DEF IsPath
  <2> QED BY <2>1
<1>2. ASSUME NEW k \in S PROVE k + 1 \in S
  <2> SUFFICES ASSUME k + 1 <= n PROVE \E f \in [0 .. k + 1 -> D] : IsPath(f, x, g, k + 1)
    OBVIOUS
  <2>1. k \in Nat /\ k + 1 \in 1 .. n
    OBVIOUS
  <2>2. PICK f \in [0 .. k -> D] : IsPath(f, x, g, k)
    BY <2>1
  <2> DEFINE e == [i \in 0 .. k + 1 |-> IF i = k + 1 THEN g[k + 1][f[k]] ELSE f[i]]
  <2>3. f[k] \in D /\ g[k + 1][f[k]] \in D
    BY <2>1, <2>2
  <2>4. e \in [0 .. k + 1 -> D]
    BY <2>1, <2>2, <2>3
  <2>5. e[0] = x
    BY <2>1, <2>2 DEF IsPath
  <2>6. ASSUME NEW i \in 1 .. k + 1 PROVE e[i] = g[i][e[i - 1]]
    <3>1. CASE i = k + 1
      <4>1. e[i] = g[k + 1][f[k]] /\ e[i - 1] = f[k]
        BY <2>1, <3>1
      <4> QED BY <3>1, <4>1
    <3>2. CASE i \in 1 .. k
      <4>1. e[i] = f[i] /\ e[i - 1] = f[i - 1]
        BY <2>1, <3>2
      <4>2. f[i] = g[i][f[i - 1]]
        BY <2>2, <3>2 DEF IsPath
      <4> QED BY <4>1, <4>2
    <3> QED BY <2>1, <3>1, <3>2
  <2>7. IsPath(e, x, g, k + 1)
    <3> HIDE DEF e
    <3> QED BY <2>5, <2>6 DEF IsPath
  <2> HIDE DEF e
  <2> QED BY <2>4, <2>7
<1>3. S \in SUBSET Nat
  OBVIOUS
<1> HIDE DEF S
<1>4. n \in S
  BY <1>1, <1>2, <1>3, SetInduction
<1> QED BY <1>4 DEF S

\* f holds the values of the first i digits of s, up to n.
IsHorner(s, base, f, n) == f = [i \in 0 .. n |-> IF i = 0 THEN 0 ELSE f[i - 1] * base + s[i]]
Steps(s, base, f, n) ==
  /\ f[0] = 0 /\ \A i \in 1 .. n : f[i] = f[i - 1] * base + s[i]
  /\ \A i \in 0 .. n : f[i] \in Nat

LEMMA HornerAt ==
  ASSUME NEW base \in Nat, NEW n \in Nat, NEW s \in [1 .. n -> Nat], NEW f, IsHorner(s, base, f, n)
  PROVE  Steps(s, base, f, n)
<1> DEFINE t == [i \in 0 .. n |-> IF i = 0 THEN 0 ELSE f[i - 1] * base + s[i]]
<1>1. f = t
  BY DEF IsHorner
<1>2. t[0] = 0
  OBVIOUS
<1>3. ASSUME NEW i \in 1 .. n PROVE t[i] = f[i - 1] * base + s[i]
  OBVIOUS
<1> HIDE DEF t
<1>4. f[0] = 0 /\ \A i \in 1 .. n : f[i] = f[i - 1] * base + s[i]
  BY <1>1, <1>2, <1>3
<1> DEFINE S == {i \in Nat : i <= n => f[i] \in Nat}
<1>5. 0 \in S
  BY <1>4
<1>6. ASSUME NEW i \in S PROVE i + 1 \in S
  <2> SUFFICES ASSUME i + 1 <= n PROVE f[i + 1] \in Nat
    OBVIOUS
  <2>1. i \in Nat /\ i + 1 \in 1 .. n /\ f[i] \in Nat /\ (i + 1) - 1 = i
    OBVIOUS
  <2>2. f[i + 1] = f[i] * base + s[i + 1] /\ s[i + 1] \in Nat
    BY <1>4, <2>1
  <2>3. f[i] * base \in Nat
    BY <2>1
  <2> QED BY <2>2, <2>3
<1>7. S \in SUBSET Nat
  OBVIOUS
<1> HIDE DEF S
<1>8. \A i \in Nat : i \in S
  BY <1>5, <1>6, <1>7, SetInduction
<1>9. \A i \in 0 .. n : f[i] \in Nat
  BY <1>8 DEF S
<1> QED BY <1>4, <1>9 DEF Steps

LEMMA HornerValue ==
  ASSUME NEW base \in Nat, NEW n \in Nat, NEW s \in [1 .. n -> Nat]
  PROVE  \E f : IsHorner(s, base, f, n) /\ Value(s, base) = f[n]
<1> DEFINE g == [i \in 1 .. n |-> [x \in Nat |-> x * base + s[i]]]
<1>1. g \in [1 .. n -> [Nat -> Nat]]
  OBVIOUS
<1>2. \A i \in 1 .. n, x \in Nat : g[i][x] = x * base + s[i]
  OBVIOUS
<1> HIDE DEF g
<1>3. PICK f \in [0 .. n -> Nat] : IsPath(f, 0, g, n)
  BY <1>1, PathExists
<1>4. IsHorner(s, base, f, n)
  <2> DEFINE t == [i \in 0 .. n |-> IF i = 0 THEN 0 ELSE f[i - 1] * base + s[i]]
  <2>1. ASSUME NEW i \in 0 .. n PROVE f[i] = t[i]
    <3>1. CASE i = 0
      BY <1>3, <3>1 DEF IsPath
    <3>2. CASE i \in 1 .. n
      <4>1. f[i] = g[i][f[i - 1]] /\ f[i - 1] \in Nat
        BY <1>3, <3>2 DEF IsPath
      <4>2. t[i] = f[i - 1] * base + s[i]
        BY <3>2
      <4> QED BY <1>2, <3>2, <4>1, <4>2
    <3> QED BY <3>1, <3>2
  <2>2. f = t
    BY <1>3, <2>1
  <2> QED BY <2>2 DEF IsHorner
<1> DEFINE c == CHOOSE h : IsHorner(s, base, h, n)
<1>5. IsHorner(s, base, c, n)
  BY <1>4
<1>6. Len(s) = n
  OBVIOUS
<1>7. Value(s, base) = c[n]
  BY <1>6 DEF Value, IsHorner
<1> HIDE DEF c
<1> QED BY <1>5, <1>7

\* One more digit.
LEMMA ValueExtends ==
  ASSUME NEW base \in Nat, NEW n \in Nat, NEW s \in [1 .. n -> Nat], NEW t \in [1 .. n + 1 -> Nat],
         \A i \in 1 .. n : s[i] = t[i]
  PROVE  Value(t, base) = Value(s, base) * base + t[n + 1]
<1>0. n + 1 \in Nat
  OBVIOUS
<1>1. PICK f : IsHorner(s, base, f, n) /\ Value(s, base) = f[n]
  BY HornerValue
<1>2. PICK g : IsHorner(t, base, g, n + 1) /\ Value(t, base) = g[n + 1]
  BY <1>0, HornerValue
<1>3. /\ f[0] = 0 /\ \A i \in 1 .. n : f[i] = f[i - 1] * base + s[i]
      /\ g[0] = 0 /\ \A i \in 1 .. n + 1 : g[i] = g[i - 1] * base + t[i]
  <2>1. Steps(s, base, f, n)
    BY <1>1, HornerAt
  <2>2. Steps(t, base, g, n + 1)
    BY <1>0, <1>2, HornerAt
  <2> QED BY <2>1, <2>2 DEF Steps
<1> DEFINE S == {i \in Nat : i <= n => f[i] = g[i]}
<1>4. 0 \in S
  BY <1>3
<1>5. ASSUME NEW i \in S PROVE i + 1 \in S
  <2> SUFFICES ASSUME i + 1 <= n PROVE f[i + 1] = g[i + 1]
    OBVIOUS
  <2>1. i \in Nat /\ i + 1 \in 1 .. n /\ i + 1 \in 1 .. n + 1 /\ f[i] = g[i] /\ (i + 1) - 1 = i
    OBVIOUS
  <2>2. f[i + 1] = f[i] * base + s[i + 1] /\ g[i + 1] = g[i] * base + t[i + 1]
    BY <1>3, <2>1
  <2> QED BY <2>1, <2>2
<1>6. S \in SUBSET Nat
  OBVIOUS
<1> HIDE DEF S
<1>7. n \in S
  BY <1>4, <1>5, <1>6, SetInduction
<1>8. f[n] = g[n]
  BY <1>7 DEF S
<1>9. n + 1 \in 1 .. n + 1 /\ (n + 1) - 1 = n
  OBVIOUS
<1>10. g[n + 1] = g[n] * base + t[n + 1]
  BY <1>3, <1>9
<1> QED BY <1>1, <1>2, <1>8, <1>10

LEMMA DigitsType ==
  ASSUME NEW base \in Bases, NEW s \in Seq(0 .. base - 1)
  PROVE  base \in Nat /\ Len(s) \in Nat /\ s \in [1 .. Len(s) -> Nat]
<1>1. base \in Nat
  BY DEF Bases
<1>2. \A i \in 1 .. Len(s) : s[i] \in Nat
  BY <1>1, ElementOfSeq
<1> QED BY <1>1, <1>2, LenProperties

LEMMA ValueType ==
  ASSUME NEW base \in Bases, NEW s \in Seq(0 .. base - 1)
  PROVE  Value(s, base) \in Nat
<1>1. PICK n \in Nat : n = Len(s)
  BY DigitsType
<1>2. base \in Nat /\ s \in [1 .. n -> Nat]
  BY <1>1, DigitsType
<1>3. PICK f : IsHorner(s, base, f, n) /\ Value(s, base) = f[n]
  BY <1>2, HornerValue
<1>4. Steps(s, base, f, n)
  BY <1>2, <1>3, HornerAt
<1> QED BY <1>3, <1>4 DEF Steps

LEMMA ValueEmpty ==
  ASSUME NEW base \in Bases, NEW s \in Seq(0 .. base - 1), Len(s) = 0
  PROVE  Value(s, base) = 0
<1>1. PICK n \in Nat : n = 0
  OBVIOUS
<1>2. base \in Nat /\ s \in [1 .. n -> Nat]
  BY <1>1, DigitsType
<1>3. PICK f : IsHorner(s, base, f, n) /\ Value(s, base) = f[n]
  BY <1>2, HornerValue
<1>4. Steps(s, base, f, n)
  BY <1>2, <1>3, HornerAt
<1> QED BY <1>1, <1>3, <1>4 DEF Steps

\* A number that does not begin with 0 is not 0.
LEMMA ValuePositive ==
  ASSUME NEW base \in Bases, NEW s \in Seq(0 .. base - 1), Len(s) > 0, s[1] # 0
  PROVE  Value(s, base) > 0
<1>1. PICK n \in Nat : n = Len(s)
  BY DigitsType
<1>2. base \in Nat /\ base > 0 /\ s \in [1 .. n -> Nat] /\ n > 0
  BY <1>1, DigitsType DEF Bases
<1>3. PICK f : IsHorner(s, base, f, n) /\ Value(s, base) = f[n]
  BY <1>2, HornerValue
<1>4. Steps(s, base, f, n)
  BY <1>2, <1>3, HornerAt
<1> DEFINE S == {i \in Nat : i + 1 <= n => f[i + 1] > 0}
<1>5. 0 \in S
  <2>1. 1 \in 1 .. n /\ 1 - 1 = 0
    BY <1>2
  <2>2. f[1] = f[0] * base + s[1] /\ f[0] = 0 /\ s[1] \in Nat
    BY <1>2, <1>4, <2>1 DEF Steps
  <2>3. f[1] = s[1]
    BY <1>2, <2>2
  <2> QED BY <2>2, <2>3
<1>6. ASSUME NEW i \in S PROVE i + 1 \in S
  <2> SUFFICES ASSUME i + 1 + 1 <= n PROVE f[i + 1 + 1] > 0
    OBVIOUS
  <2>1. i \in Nat /\ i + 1 + 1 \in 1 .. n /\ i + 1 \in 0 .. n /\ f[i + 1] > 0 /\ (i + 1 + 1) - 1 = i + 1
    BY <1>2
  <2>2. f[i + 1 + 1] = f[i + 1] * base + s[i + 1 + 1] /\ s[i + 1 + 1] \in Nat /\ f[i + 1] \in Nat
    BY <1>2, <1>4, <2>1 DEF Steps
  <2>3. \A x, d \in Nat : x > 0 => x * base + d > 0
    BY DEF Bases
  <2> QED BY <2>1, <2>2, <2>3
<1>7. S \in SUBSET Nat
  OBVIOUS
<1> HIDE DEF S
<1>8. \A i \in Nat : i \in S
  BY <1>5, <1>6, <1>7, SetInduction
<1>9. n - 1 \in Nat /\ (n - 1) + 1 = n
  BY <1>2
<1>10. f[n] > 0
  BY <1>8, <1>9 DEF S
<1> QED BY <1>3, <1>10

LEMMA ValueAppend ==
  ASSUME NEW base \in Bases, NEW s \in Seq(0 .. base - 1), NEW d \in 0 .. base - 1
  PROVE  /\ s \o <<d>> \in Seq(0 .. base - 1) /\ Len(s \o <<d>>) = Len(s) + 1
         /\ \A i \in 1 .. Len(s) : (s \o <<d>>)[i] = s[i]
         /\ (s \o <<d>>)[Len(s) + 1] = d
         /\ Value(s \o <<d>>, base) = Value(s, base) * base + d
<1> DEFINE t == s \o <<d>>
<1>1. <<d>> \in Seq(0 .. base - 1) /\ Len(<<d>>) = 1 /\ <<d>>[1] = d /\ Len(s) \in Nat
  BY LenProperties
<1>2. t \in Seq(0 .. base - 1) /\ Len(t) = Len(s) + 1
      /\ \A i \in 1 .. Len(s) + Len(<<d>>) :
           t[i] = IF i <= Len(s) THEN s[i] ELSE <<d>>[i - Len(s)]
  BY <1>1, ConcatProperties
<1> HIDE DEF t
<1>3. ASSUME NEW i \in 1 .. Len(s) PROVE t[i] = s[i]
  BY <1>1, <1>2
<1>4. t[Len(s) + 1] = d
  <2>1. Len(s) + 1 \in 1 .. Len(s) + Len(<<d>>) /\ ~(Len(s) + 1 <= Len(s)) /\ Len(s) + 1 - Len(s) = 1
    BY <1>1
  <2> QED BY <1>1, <1>2, <2>1
<1>5. PICK n \in Nat : n = Len(s)
  BY <1>1
<1>6. base \in Nat /\ s \in [1 .. n -> Nat] /\ t \in [1 .. n + 1 -> Nat]
  BY <1>2, <1>5, DigitsType
<1>7. Value(t, base) = Value(s, base) * base + t[n + 1]
  BY <1>3, <1>5, <1>6, ValueExtends
<1> QED BY <1>2, <1>3, <1>4, <1>5, <1>7 DEF t

LEMMA LastDigit ==
  ASSUME NEW T, NEW s \in Seq(T), Len(s) > 0
  PROVE  \E r \in Seq(T), d \in T : s = r \o <<d>> /\ Len(s) = Len(r) + 1
<1>1. PICK n \in Nat : n = Len(s)
  BY LenProperties
<1> DEFINE r == SubSeq(s, 1, n - 1)
           d == s[n]
<1>2. s \in [1 .. n -> T] /\ n > 0
  BY <1>1, LenProperties
<1>3. d \in T /\ r \in Seq(T) /\ Len(r) = n - 1 /\ \A i \in 1 .. n - 1 : r[i] = s[i]
  BY <1>2
<1> HIDE DEF r
<1> DEFINE t == r \o <<d>>
<1>4. <<d>> \in Seq(T) /\ Len(<<d>>) = 1 /\ <<d>>[1] = d
  BY <1>3
<1>5. t \in Seq(T) /\ Len(t) = n
      /\ \A i \in 1 .. Len(r) + Len(<<d>>) : t[i] = IF i <= Len(r) THEN r[i] ELSE <<d>>[i - Len(r)]
  BY <1>2, <1>3, <1>4, ConcatProperties
<1> HIDE DEF t
<1>6. ASSUME NEW i \in 1 .. n PROVE t[i] = s[i]
  <2>1. CASE i = n
    <3>1. i \in 1 .. Len(r) + Len(<<d>>) /\ ~(i <= Len(r)) /\ i - Len(r) = 1
      BY <1>2, <1>3, <1>4, <2>1
    <3> QED BY <1>4, <1>5, <2>1, <3>1
  <2>2. CASE i \in 1 .. n - 1
    <3>1. i \in 1 .. Len(r) + Len(<<d>>) /\ i <= Len(r)
      BY <1>2, <1>3, <1>4, <2>2
    <3> QED BY <1>3, <1>5, <2>2, <3>1
  <2> QED BY <1>2, <2>1, <2>2
<1>7. t = s
  <2>1. t \in [1 .. n -> T]
    BY <1>5, LenProperties
  <2> QED BY <1>2, <1>6, <2>1
<1> QED BY <1>1, <1>3, <1>7 DEF t

\* The largest number of n digits.
Top(base, n) == Value([i \in 1 .. n |-> base - 1], base)

LEMMA TopSteps ==
  ASSUME NEW base \in Bases, NEW n \in Nat
  PROVE  /\ Top(base, n) \in Nat /\ Top(base, 0) = 0
         /\ Top(base, n + 1) = Top(base, n) * base + (base - 1)
<1> DEFINE s(k) == [i \in 1 .. k |-> base - 1]
<1>1. base \in Nat /\ base - 1 \in Nat /\ n + 1 \in Nat
  BY DEF Bases
<1>2. ASSUME NEW k \in Nat PROVE s(k) \in Seq(0 .. base - 1) /\ Len(s(k)) = k /\ s(k) \in [1 .. k -> Nat]
  BY <1>1
<1>3. Value(s(n + 1), base) = Value(s(n), base) * base + s(n + 1)[n + 1]
  <2>1. \A i \in 1 .. n : s(n)[i] = s(n + 1)[i]
    OBVIOUS
  <2>2. s(n) \in [1 .. n -> Nat] /\ s(n + 1) \in [1 .. n + 1 -> Nat]
    BY <1>1, <1>2
  <2> HIDE DEF s
  <2> QED BY <1>1, <2>1, <2>2, ValueExtends
<1>4. s(n + 1)[n + 1] = base - 1
  OBVIOUS
<1>5. s(n) \in Seq(0 .. base - 1) /\ s(0) \in Seq(0 .. base - 1) /\ Len(s(0)) = 0
  BY <1>2
<1>6. Value(s(n), base) \in Nat /\ Value(s(0), base) = 0
  <2> HIDE DEF s
  <2> QED BY <1>5, ValueType, ValueEmpty
<1> QED BY <1>3, <1>4, <1>6 DEF Top

\* The loop of convert_dec, convert_hex, convert_oct.
IsLoop(base, left) ==
  left = [room \in 0 .. ConvBufSize |->
            [v \in Nat |-> IF room = 0 THEN << >>
                           ELSE (IF v \div base = 0 THEN << >> ELSE left[room - 1][v \div base])
                                \o <<v % base>>]]

\* Its digits with some room left, and its result.
Loop(base, left) ==
  /\ \A v \in Nat : left[0][v] = << >>
  /\ \A room \in 1 .. ConvBufSize : \A v \in Nat :
       left[room][v] = (IF v \div base = 0 THEN << >> ELSE left[room - 1][v \div base])
                       \o <<v % base>>

LEMMA LoopExists ==
  ASSUME NEW base \in Bases
  PROVE  \E left : Loop(base, left) /\ Converted(base) = left[ConvBufSize]
<1> DEFINE D == [Nat -> Seq(Nat)]
           zero == [v \in Nat |-> << >>]
           body(h) == [v \in Nat |-> (IF v \div base = 0 THEN << >> ELSE h[v \div base])
                                     \o <<v % base>>]
           g == [room \in 1 .. ConvBufSize |-> [h \in D |-> body(h)]]
<1>1. ConvBufSize \in Nat /\ ConvBufSize > 1
  BY PrintfAssumption, BufferAssumption
<1>2. ASSUME NEW v \in Nat PROVE v \div base \in Nat /\ v % base \in Nat
  BY DEF Bases
<1>3. ASSUME NEW h \in D PROVE body(h) \in D
  <2>1. ASSUME NEW v \in Nat
        PROVE  (IF v \div base = 0 THEN << >> ELSE h[v \div base]) \o <<v % base>> \in Seq(Nat)
    <3>1. h[v \div base] \in Seq(Nat) /\ << >> \in Seq(Nat) /\ <<v % base>> \in Seq(Nat)
      BY <1>2
    <3> QED BY <3>1, ConcatProperties
  <2> QED BY <2>1
<1>4. zero \in D
  OBVIOUS
<1> HIDE DEF D, zero, body
<1>5. g \in [1 .. ConvBufSize -> [D -> D]]
  BY <1>3
<1>6. \A room \in 1 .. ConvBufSize, h \in D : g[room][h] = body(h)
  OBVIOUS
<1> HIDE DEF g
<1>7. PICK f \in [0 .. ConvBufSize -> D] : IsPath(f, zero, g, ConvBufSize)
  BY <1>1, <1>4, <1>5, PathExists
<1>8. IsLoop(base, f)
  <2> DEFINE cell(room) == [v \in Nat |-> IF room = 0 THEN << >>
                             ELSE (IF v \div base = 0 THEN << >> ELSE f[room - 1][v \div base])
                                  \o <<v % base>>]
             t == [room \in 0 .. ConvBufSize |-> cell(room)]
  <2>1. ASSUME NEW room \in 0 .. ConvBufSize PROVE f[room] = cell(room)
    <3>1. CASE room = 0
      <4>1. f[room] = zero
        BY <1>7, <3>1 DEF IsPath
      <4> QED BY <3>1, <4>1 DEF zero
    <3>2. CASE room \in 1 .. ConvBufSize
      <4>0. room - 1 \in 0 .. ConvBufSize
        BY <1>1, <3>2
      <4>1. f[room] = g[room][f[room - 1]] /\ f[room - 1] \in D
        BY <1>7, <3>2, <4>0 DEF IsPath
      <4>2. f[room] = body(f[room - 1])
        BY <1>6, <3>2, <4>1
      <4>3. room # 0
        BY <3>2
      <4> QED BY <4>2, <4>3 DEF body
    <3> QED BY <1>1, <3>1, <3>2
  <2> HIDE DEF cell
  <2>2. f = t
    BY <1>7, <2>1
  <2> QED BY <2>2 DEF IsLoop, cell
<1> DEFINE c == CHOOSE left : IsLoop(base, left)
<1>9. IsLoop(base, c)
  BY <1>8
<1>10. Converted(base) = c[ConvBufSize]
  BY DEF Converted, IsLoop
<1> HIDE DEF c
<1>11. Loop(base, c)
  <2> DEFINE cell(room) == [v \in Nat |-> IF room = 0 THEN << >>
                             ELSE (IF v \div base = 0 THEN << >> ELSE c[room - 1][v \div base])
                                  \o <<v % base>>]
  <2>1. c = [room \in 0 .. ConvBufSize |-> cell(room)]
    BY <1>9 DEF IsLoop
  <2> HIDE DEF cell
  <2>2. \A room \in 0 .. ConvBufSize : c[room] = cell(room)
    BY <2>1
  <2>3. ASSUME NEW v \in Nat PROVE c[0][v] = << >>
    <3>1. c[0] = cell(0)
      BY <1>1, <2>2
    <3> QED BY <3>1 DEF cell
  <2>4. ASSUME NEW room \in 1 .. ConvBufSize, NEW v \in Nat
        PROVE  c[room][v] = (IF v \div base = 0 THEN << >> ELSE c[room - 1][v \div base])
                            \o <<v % base>>
    <3>1. c[room] = cell(room) /\ room # 0
      BY <1>1, <2>2
    <3> QED BY <3>1 DEF cell
  <2> QED BY <2>3, <2>4 DEF Loop
<1> QED BY <1>10, <1>11

\* What the loop leaves behind: with room for n digits, a number of no more has its
\* numeral there, and no other sequence is one.
Right(base, left, room) ==
  \A n \in 1 .. room : \A v \in 0 .. Top(base, n) :
     /\ IsNumeral(left[room][v], v, base) /\ Len(left[room][v]) <= n
     /\ v > 0 => left[room][v][1] # 0
     /\ \A s : IsNumeral(s, v, base) => s = left[room][v]

\* A number of one digit.
LEMMA OneDigit ==
  ASSUME NEW base \in Bases, NEW v \in 0 .. base - 1
  PROVE  /\ v \div base = 0 /\ v % base = v
         /\ IsNumeral(<<v>>, v, base) /\ Len(<<v>>) = 1 /\ <<v>>[1] = v
         /\ \A s : IsNumeral(s, v, base) => s = <<v>>
<1>1. v \div base = 0 /\ v % base = v /\ base \in Nat /\ v \in Nat
  BY DEF Bases
<1>2. IsNumeral(<<v>>, v, base) /\ Len(<<v>>) = 1 /\ <<v>>[1] = v
  <2>1. << >> \in Seq(0 .. base - 1) /\ Len(<< >>) = 0
    OBVIOUS
  <2>2. Value(<< >>, base) = 0
    BY <2>1, ValueEmpty
  <2>3. <<v>> \in Seq(0 .. base - 1) /\ << >> \o <<v>> = <<v>>
    BY ConcatEmptySeq
  <2>4. Value(<<v>>, base) = v
    <3>1. PICK e \in Seq(0 .. base - 1) : e = << >>
      BY <2>1
    <3>2. Value(e \o <<v>>, base) = Value(e, base) * base + v
      BY ValueAppend
    <3>3. e \o <<v>> = <<v>> /\ Value(e, base) = 0
      BY <2>2, <2>3, <3>1
    <3>4. 0 * base + v = v
      BY <1>1
    <3>5. Value(e \o <<v>>, base) = v
      BY <3>2, <3>3, <3>4
    <3> QED BY <3>3, <3>5
  <2>5. Len(<<v>>) = 1 /\ <<v>>[1] = v /\ <<v>> # << >>
    OBVIOUS
  <2> QED BY <2>3, <2>4, <2>5 DEF IsNumeral
<1>3. ASSUME NEW s, IsNumeral(s, v, base) PROVE s = <<v>>
  <2>1. s \in Seq(0 .. base - 1) /\ Len(s) > 0
    BY <1>3, EmptySeq, LenProperties DEF IsNumeral
  <2>2. PICK r \in Seq(0 .. base - 1), d \in 0 .. base - 1 : s = r \o <<d>>
    BY <2>1, LastDigit
  <2>3. Value(r, base) * base + d = v /\ Value(r, base) \in Nat
    BY <1>3, <2>2, ValueAppend, ValueType DEF IsNumeral
  <2>4. Value(r, base) = 0 /\ d = v
    <3>1. \A x \in Nat : x * base + d = v => x = 0
      BY DEF Bases
    <3>2. Value(r, base) = 0
      BY <2>3, <3>1
    <3> QED BY <2>3, <3>2, <1>1
  <2>5. Len(r) = 0
    <3> SUFFICES ASSUME Len(r) > 0 PROVE FALSE
      BY LenProperties
    <3>1. Len(s) > 1 /\ s[1] = r[1]
      BY <2>2, ValueAppend, LenProperties
    <3>2. s[1] # 0
      BY <1>3, <3>1 DEF IsNumeral
    <3> QED BY <2>4, <3>1, <3>2, ValuePositive
  <2>6. r = << >>
    BY <2>5, EmptySeq
  <2> QED BY <2>2, <2>4, <2>6, ConcatEmptySeq
<1> QED BY <1>1, <1>2, <1>3

LEMMA DivisionUnique ==
  ASSUME NEW base \in Bases, NEW x \in Nat, NEW c \in 0 .. base - 1,
         NEW w \in Nat, NEW d \in 0 .. base - 1, x * base + c = w * base + d
  PROVE  x = w /\ c = d
<1>1. CASE base = 8
  <2>1. x * 8 + c = w * 8 + d /\ c \in 0 .. 7 /\ d \in 0 .. 7
    BY <1>1
  <2> QED BY <2>1
<1>2. CASE base = 10
  <2>1. x * 10 + c = w * 10 + d /\ c \in 0 .. 9 /\ d \in 0 .. 9
    BY <1>2
  <2> QED BY <2>1
<1>3. CASE base = 16
  <2>1. x * 16 + c = w * 16 + d /\ c \in 0 .. 15 /\ d \in 0 .. 15
    BY <1>3
  <2> QED BY <2>1
<1> QED BY <1>1, <1>2, <1>3 DEF Bases

\* ... and one of more digits.
LEMMA MoreDigits ==
  ASSUME NEW base \in Bases, NEW n \in Nat, NEW v \in 0 .. Top(base, n), n > 0, v \div base # 0
  PROVE  /\ v \div base \in 0 .. Top(base, n - 1) /\ n - 1 > 0 /\ v \div base > 0
         /\ v % base \in 0 .. base - 1 /\ v = (v \div base) * base + (v % base)
<1>1. /\ Top(base, n) \in Nat /\ Top(base, n - 1) \in Nat /\ Top(base, 0) = 0
      /\ Top(base, n) = Top(base, n - 1) * base + (base - 1)
  <2>1. PICK m \in Nat : m + 1 = n /\ n - 1 = m
    <3>1. n - 1 \in Nat /\ (n - 1) + 1 = n
      OBVIOUS
    <3> QED BY <3>1
  <2>2. /\ Top(base, m) \in Nat /\ Top(base, 0) = 0
        /\ Top(base, m + 1) = Top(base, m) * base + (base - 1)
    BY <2>1, TopSteps
  <2>3. Top(base, n) \in Nat
    BY TopSteps
  <2> QED BY <2>1, <2>2, <2>3
<1>2. PICK x \in Nat, z \in Nat : x = Top(base, n - 1) /\ z = Top(base, n)
  BY <1>1
<1>3. v \in 0 .. z /\ z = x * base + (base - 1)
  BY <1>1, <1>2
<1>4. v \in Nat /\ v <= x * base + (base - 1) /\ v \div base # 0
  BY <1>2, <1>3 DEF Bases
<1>5. v \div base \in 0 .. x /\ v \div base > 0 /\ v % base \in 0 .. base - 1
      /\ v = (v \div base) * base + (v % base)
  <2>1. CASE base = 8
    <3>1. v <= x * 8 + 7 /\ v \div 8 # 0
      BY <1>4, <2>1
    <3>2. v \div 8 \in Nat /\ v % 8 \in 0 .. 7 /\ v = (v \div 8) * 8 + (v % 8)
      BY <1>4
    <3>3. v \div 8 <= x
      BY <1>2, <1>4, <3>1, <3>2
    <3> QED BY <1>2, <2>1, <3>1, <3>2, <3>3
  <2>2. CASE base = 10
    <3>1. v <= x * 10 + 9 /\ v \div 10 # 0
      BY <1>4, <2>2
    <3>2. v \div 10 \in Nat /\ v % 10 \in 0 .. 9 /\ v = (v \div 10) * 10 + (v % 10)
      BY <1>4
    <3>3. v \div 10 <= x
      BY <1>2, <1>4, <3>1, <3>2
    <3> QED BY <1>2, <2>2, <3>1, <3>2, <3>3
  <2>3. CASE base = 16
    <3>1. v <= x * 16 + 15 /\ v \div 16 # 0
      BY <1>4, <2>3
    <3>2. v \div 16 \in Nat /\ v % 16 \in 0 .. 15 /\ v = (v \div 16) * 16 + (v % 16)
      BY <1>4
    <3>3. v \div 16 <= x
      BY <1>2, <1>4, <3>1, <3>2
    <3> QED BY <1>2, <2>3, <3>1, <3>2, <3>3
  <2> QED BY <2>1, <2>2, <2>3 DEF Bases
<1>6. n - 1 > 0
  <2>1. CASE n = 1
    <3>1. x = 0
      BY <1>1, <1>2, <2>1
    <3> QED BY <1>5, <3>1
  <2> QED BY <2>1
<1> QED BY <1>2, <1>5, <1>6

LEMMA LoopRight ==
  ASSUME NEW base \in Bases, NEW left, Loop(base, left)
  PROVE  Right(base, left, ConvBufSize)
<1>1. ConvBufSize \in Nat
  BY PrintfAssumption
<1> DEFINE S == {room \in Nat : room <= ConvBufSize => Right(base, left, room)}
<1>2. 0 \in S
  BY DEF Right
<1>3. ASSUME NEW room \in S PROVE room + 1 \in S
  <2> SUFFICES ASSUME room + 1 <= ConvBufSize PROVE Right(base, left, room + 1)
    OBVIOUS
  <2>1. room \in Nat /\ room + 1 \in 1 .. ConvBufSize /\ (room + 1) - 1 = room
        /\ Right(base, left, room)
    BY <1>1
  <2>2. \A v \in Nat : left[room + 1][v] =
          (IF v \div base = 0 THEN << >> ELSE left[room][v \div base]) \o <<v % base>>
    BY <2>1 DEF Loop
  <2> SUFFICES ASSUME NEW n \in 1 .. room + 1, NEW v \in 0 .. Top(base, n)
               PROVE  /\ IsNumeral(left[room + 1][v], v, base) /\ Len(left[room + 1][v]) <= n
                      /\ v > 0 => left[room + 1][v][1] # 0
                      /\ \A s : IsNumeral(s, v, base) => s = left[room + 1][v]
    BY DEF Right
  <2>3. n \in Nat /\ n > 0 /\ Top(base, n) \in Nat /\ v \in Nat
    BY <2>1, TopSteps
  <2>4. CASE v \div base = 0
    <3>1. v \in 0 .. base - 1
      BY <2>3, <2>4 DEF Bases
    <3>2. v % base = v
      BY <3>1 DEF Bases
    <3> <<v>> \in Seq(Nat)
      BY <2>3
    <3>3. left[room + 1][v] = <<v>>
      BY <2>2, <2>3, <2>4, <3>2, ConcatEmptySeq
    <3> QED BY <2>3, <3>1, <3>3, OneDigit
  <2>5. CASE v \div base # 0
    <3> DEFINE w == v \div base
               d == v % base
               t == left[room][w]
    <3>1. /\ w \in 0 .. Top(base, n - 1) /\ n - 1 > 0 /\ w > 0
          /\ d \in 0 .. base - 1 /\ v = w * base + d /\ base \in Nat /\ base > 0
      BY <2>3, <2>5, MoreDigits DEF Bases
    <3>2. left[room + 1][v] = t \o <<d>>
      BY <2>2, <2>3, <2>5
    <3> HIDE DEF w, d
    <3>3. n - 1 \in 1 .. room
      BY <2>1, <2>3, <3>1
    <3>4. /\ IsNumeral(t, w, base) /\ Len(t) <= n - 1 /\ t[1] # 0
          /\ \A s : IsNumeral(s, w, base) => s = t
      BY <2>1, <3>1, <3>3 DEF Right
    <3> HIDE DEF t
    <3>5. t \in Seq(0 .. base - 1) /\ t # << >> /\ Value(t, base) = w /\ Len(t) \in Nat /\ Len(t) > 0
      BY <3>4, LenProperties, EmptySeq DEF IsNumeral
    <3> DEFINE e == t \o <<d>>
    <3>6. /\ e \in Seq(0 .. base - 1) /\ Len(e) = Len(t) + 1 /\ e[1] = t[1]
          /\ Value(e, base) = w * base + d
      <4>1. 1 \in 1 .. Len(t)
        BY <3>5
      <4> QED BY <3>1, <3>5, <4>1, ValueAppend
    <3>7. IsNumeral(e, v, base) /\ Len(e) <= n /\ e[1] # 0
      <4>1. e # << >>
        BY <3>5, <3>6, EmptySeq
      <4>2. Len(e) <= n
        BY <2>3, <3>4, <3>5, <3>6
      <4> QED BY <3>1, <3>4, <3>6, <4>1, <4>2 DEF IsNumeral
    <3>8. ASSUME NEW s, IsNumeral(s, v, base) PROVE s = e
      <4>1. s \in Seq(0 .. base - 1) /\ Len(s) > 0 /\ Value(s, base) = v
        BY <3>8, EmptySeq, LenProperties DEF IsNumeral
      <4>2. PICK r \in Seq(0 .. base - 1), c \in 0 .. base - 1 :
               s = r \o <<c>> /\ Len(s) = Len(r) + 1
        BY <4>1, LastDigit
      <4>3. Value(r, base) * base + c = v /\ Value(r, base) \in Nat
        BY <4>1, <4>2, ValueAppend, ValueType
      <4>4. c = d /\ Value(r, base) = w
        <5>1. w \in Nat
          BY <2>3, <3>1 DEF Bases, w
        <5>2. Value(r, base) * base + c = w * base + d
          BY <3>1, <4>3
        <5> QED BY <3>1, <4>3, <5>1, <5>2, DivisionUnique
      <4>5. Len(r) \in Nat /\ Len(r) > 0
        <5>1. Len(r) # 0
          BY <3>1, <4>4, ValueEmpty
        <5> QED BY <5>1, LenProperties
      <4>6. s[1] = r[1] /\ s[1] # 0
        <5>1. 1 \in 1 .. Len(r) /\ Len(s) > 1
          BY <4>2, <4>5
        <5> QED BY <3>8, <4>2, <5>1, ValueAppend DEF IsNumeral
      <4>7. IsNumeral(r, w, base)
        BY <4>4, <4>5, <4>6, EmptySeq DEF IsNumeral
      <4> QED BY <3>4, <4>2, <4>4, <4>7
    <3> HIDE DEF e
    <3> QED BY <3>2, <3>7, <3>8 DEF e
  <2> QED BY <2>4, <2>5
<1>4. S \in SUBSET Nat
  OBVIOUS
<1> HIDE DEF S
<1>5. ConvBufSize \in S
  BY <1>1, <1>2, <1>3, <1>4, SetInduction
<1> QED BY <1>5 DEF S

\* A conversion's numeral is what the loop leaves, and nothing else is.
LEMMA Numerals ==
  ASSUME NEW base \in Bases, NEW v \in 0 .. Top(base, ConvBufSize - 1)
  PROVE  LET s == Converted(base)[v] IN
           /\ IsNumeral(s, v, base) /\ Len(s) <= ConvBufSize - 1
           /\ \A t : IsNumeral(t, v, base) => t = s
<1>1. PICK left : Loop(base, left) /\ Converted(base) = left[ConvBufSize]
  BY LoopExists
<1>2. Right(base, left, ConvBufSize)
  BY <1>1, LoopRight
<1>3. ConvBufSize - 1 \in 1 .. ConvBufSize
  BY PrintfAssumption, BufferAssumption
<1> QED BY <1>1, <1>2, <1>3 DEF Right

\* The digits of a number, and no other characters, are how it is written.
LEMMA DigitsExact ==
  ASSUME NEW base \in Bases, NEW v \in 0 .. Top(base, ConvBufSize - 1),
         NEW digit \in {Digit, UpperDigit}
  PROVE  LET w == Digits(v, base, digit) IN
           /\ Len(w) \in 1 .. ConvBufSize - 1 /\ \E T : w \in Seq(T)
           /\ Writes(w, v, base, digit)
           /\ \A chars \in Seq(STRING) : Writes(chars, v, base, digit) => chars = w
<1>1. PICK s : /\ s = Converted(base)[v] /\ IsNumeral(s, v, base) /\ Len(s) <= ConvBufSize - 1
               /\ \A t : IsNumeral(t, v, base) => t = s
  BY Numerals
<1>2. s \in Seq(0 .. base - 1) /\ Len(s) \in 1 .. ConvBufSize - 1 /\ s \in [1 .. Len(s) -> 0 .. base - 1]
  <2>1. s \in Seq(0 .. base - 1) /\ s # << >>
    BY <1>1 DEF IsNumeral
  <2>2. Len(s) \in Nat /\ Len(s) # 0 /\ s \in [1 .. Len(s) -> 0 .. base - 1]
    BY <2>1, EmptySeq, LenProperties
  <2>3. ConvBufSize \in Nat
    BY PrintfAssumption
  <2> QED BY <1>1, <2>1, <2>2, <2>3
<1>3. PICK n \in 1 .. ConvBufSize - 1 : n = Len(s)
  BY <1>2
<1>4. ASSUME NEW d \in 0 .. base - 1
      PROVE  \A e \in 0 .. base - 1 : digit[e + 1] = digit[d + 1] => e = d
  <2>1. d \in 0 .. 15 /\ \A e \in 0 .. base - 1 : e \in 0 .. 15
    BY DEF Bases
  <2>2. \A e \in 0 .. 15 : \A f \in 0 .. 15 :
          /\ (Digit[f + 1] = Digit[e + 1] => f = e)
          /\ (UpperDigit[f + 1] = UpperDigit[e + 1] => f = e)
    BY DEF Digit, UpperDigit
  <2> QED BY <2>1, <2>2
<1> DEFINE w == Digits(v, base, digit)
<1>5. w = [i \in 1 .. n |-> digit[s[i] + 1]]
  BY <1>1, <1>2, <1>3 DEF Digits
<1>6. DOMAIN w = 1 .. n /\ \A i \in 1 .. n : w[i] = digit[s[i] + 1]
  BY <1>5
<1> HIDE DEF w
<1>7. Len(w) \in 1 .. ConvBufSize - 1 /\ \E T : w \in Seq(T)
  <2> DEFINE T == {digit[s[i] + 1] : i \in 1 .. n}
  <2>1. n \in Nat /\ n \in 1 .. ConvBufSize - 1
    OBVIOUS
  <2>2. w \in [1 .. n -> T]
    BY <1>5
  <2> HIDE DEF T
  <2>3. w \in Seq(T) /\ Len(w) = n
    BY <2>1, <2>2
  <2> QED BY <2>1, <2>3
<1> DEFINE d(chars) == [i \in DOMAIN chars |-> CHOOSE e \in 0 .. base - 1 : digit[e + 1] = chars[i]]
<1>8. ASSUME NEW chars \in Seq(STRING), Writes(chars, v, base, digit)
      PROVE  chars = w
  <2>1. IsNumeral(d(chars), v, base) /\ \A i \in DOMAIN chars : chars[i] = digit[d(chars)[i] + 1]
    BY <1>8 DEF Writes
  <2>2. d(chars) = s
    BY <1>1, <2>1
  <2>3. DOMAIN d(chars) = DOMAIN chars
    OBVIOUS
  <2> HIDE DEF d
  <2>4. DOMAIN chars = 1 .. n
    BY <1>2, <1>3, <2>2, <2>3
  <2>5. chars = [i \in DOMAIN chars |-> chars[i]]
    OBVIOUS
  <2> QED BY <1>5, <2>1, <2>2, <2>4, <2>5
<1>9. Writes(w, v, base, digit)
  <2>1. DOMAIN w = 1 .. n
    BY <1>6
  <2>2. ASSUME NEW i \in 1 .. n
        PROVE  (CHOOSE e \in 0 .. base - 1 : digit[e + 1] = w[i]) = s[i]
    <3>1. s[i] \in 0 .. base - 1 /\ w[i] = digit[s[i] + 1]
      BY <1>2, <1>3, <1>6
    <3>2. \A e \in 0 .. base - 1 : digit[e + 1] = w[i] => e = s[i]
      BY <1>4, <3>1
    <3> QED BY <3>1, <3>2
  <2>3. d(w) = s
    <3>1. d(w) = [i \in 1 .. n |-> s[i]]
      BY <2>1, <2>2
    <3> QED BY <1>2, <1>3, <3>1
  <2>4. \A i \in DOMAIN w : w[i] = digit[d(w)[i] + 1]
    <3> HIDE DEF d
    <3> QED BY <1>6, <2>1, <2>3
  <2> QED BY <1>1, <2>3, <2>4 DEF Writes
<1> QED BY <1>7, <1>8, <1>9 DEF w

\* Below a power of two is room for a digit more.
LEMMA PowerOrder ==
  ASSUME NEW a \in Nat, NEW b \in Nat, a <= b
  PROVE  2 ^ a <= 2 ^ b /\ (a < b => 2 ^ a < 2 ^ b)
<1>1. IsFiniteSet(SUBSET (1 .. b)) /\ Cardinality(SUBSET (1 .. b)) = 2 ^ b
      /\ IsFiniteSet(SUBSET (1 .. a)) /\ Cardinality(SUBSET (1 .. a)) = 2 ^ a
  <2>1. IsFiniteSet(1 .. b) /\ Cardinality(1 .. b) = b /\ IsFiniteSet(1 .. a) /\ Cardinality(1 .. a) = a
    BY FS_Interval
  <2> QED BY <2>1, FS_SUBSET
<1>2. SUBSET (1 .. a) \subseteq SUBSET (1 .. b)
  OBVIOUS
<1>3. a < b => SUBSET (1 .. a) # SUBSET (1 .. b)
  <2> SUFFICES ASSUME a < b PROVE SUBSET (1 .. a) # SUBSET (1 .. b)
    OBVIOUS
  <2>1. {b} \in SUBSET (1 .. b) /\ {b} \notin SUBSET (1 .. a)
    OBVIOUS
  <2> QED BY <2>1
<1> DEFINE A == SUBSET (1 .. a)
           B == SUBSET (1 .. b)
<1> HIDE DEF A, B
<1>4. Cardinality(A) <= Cardinality(B) /\ (Cardinality(A) = Cardinality(B) => A = B)
  <2>1. IsFiniteSet(B) /\ A \in SUBSET B
    BY <1>1, <1>2 DEF A, B
  <2> QED BY <2>1, FS_Subset
<1>5. 2 ^ a \in Nat /\ 2 ^ b \in Nat
  BY PowerPositive
<1> QED BY <1>1, <1>3, <1>4, <1>5 DEF A, B

\* The buffer has room for the digits of a value of any type.
LEMMA SizeFits ==
  ASSUME NEW m \in Modifiers, NEW v \in 0 .. 2 ^ Bits[m] - 1, NEW base \in Bases
  PROVE  v \in 0 .. Top(base, ConvBufSize - 1)
<1>1. ConvBufSize - 1 \in Nat /\ Bits[m] \in Nat
  BY PrintfAssumption, BufferAssumption
<1>2. Top(base, ConvBufSize - 1) \in Nat /\ 2 ^ Bits[m] \in Nat
  BY <1>1, TopSteps, PowerPositive
<1>3. 2 ^ Bits[m] - 1 <= Top(base, ConvBufSize - 1)
  BY BufferAssumption DEF Bases, Top
<1> QED BY <1>2, <1>3

\* A value of a signed type, and its size, which its unsigned type holds.
LEMMA SignedRange ==
  ASSUME NEW v \in Int, NEW m \in Modifiers
  PROVE  LET n == Signed(v, Bits[m]) IN
           /\ n \in Int
           /\ \A k \in Nat : (n = k \/ n = -k) =>
                k \in 0 .. 2 ^ Bits[m] - 1 /\ Unsigned(k, Bits["j"]) = k
<1>1. Bits[m] \in Nat \ {0} /\ Bits["j"] \in Nat /\ Bits[m] <= Bits["j"]
  BY PrintfAssumption DEF Modifiers
<1>2. PICK b \in Nat \ {0} : b = Bits[m]
  BY <1>1
<1>3. PICK h \in Nat : h = 2 ^ (b - 1)
  BY PowerPositive
<1>4. PICK w \in Nat : w = 2 ^ b
  BY PowerPositive
<1>5. PICK l \in Nat : l = 2 ^ Bits["j"]
  BY <1>1, PowerPositive
<1>6. h < w /\ h > 0 /\ w <= l
  <2>1. b - 1 \in Nat /\ b - 1 < b /\ b <= Bits["j"]
    BY <1>1, <1>2
  <2>2. 2 ^ (b - 1) < 2 ^ b
    BY <2>1, PowerOrder
  <2>3. 2 ^ b <= 2 ^ Bits["j"]
    BY <1>1, <2>1, PowerOrder
  <2>4. h # 0
    BY <1>3, <2>1, PowerPositive
  <2> QED BY <1>3, <1>4, <1>5, <2>2, <2>3, <2>4
<1>7. Unsigned(v + h, b) \in 0 .. w - 1
  <2>1. v + h \in Int
    OBVIOUS
  <2> QED BY <1>4, <2>1, UnsignedRange
<1>8. Signed(v, b) = Unsigned(v + h, b) - h
  BY <1>3 DEF Signed
<1>9. PICK u \in 0 .. w - 1 : Signed(v, b) = u - h
  BY <1>7, <1>8
<1>10. ASSUME NEW k \in Nat, u - h = k \/ u - h = -k PROVE k \in 0 .. w - 1
  BY <1>6, <1>9, <1>10
<1>11. ASSUME NEW k \in 0 .. w - 1 PROVE Unsigned(k, Bits["j"]) = k
  <2>1. k \in Nat /\ k < l /\ l > 0
    BY <1>6, <1>11
  <2>2. k % l = k
    BY <2>1
  <2> QED BY <1>5, <2>2 DEF Unsigned
<1> QED BY <1>2, <1>4, <1>9, <1>10, <1>11

\* What is written of an unsigned number is what its conversion prints.
LEMMA UnsignedWritten ==
  ASSUME NEW m \in Modifiers, NEW v \in Int, NEW base \in Bases, NEW digit \in {Digit, UpperDigit}
  PROVE  LET w == OutputUint(m, base, digit, v) IN
           /\ Len(w) \in 1 .. ConvBufSize - 1 /\ Writes(w, Unsigned(v, Bits[m]), base, digit)
           /\ \A chars \in Seq(STRING) :
                Writes(chars, Unsigned(v, Bits[m]), base, digit) => chars = w
<1>1. Bits[m] \in Nat
  BY PrintfAssumption
<1>2. PICK u \in 0 .. 2 ^ Bits[m] - 1 : u = Unsigned(v, Bits[m])
  BY <1>1, UnsignedRange
<1>3. u \in 0 .. Top(base, ConvBufSize - 1)
  BY SizeFits
<1> QED BY <1>2, <1>3, DigitsExact DEF OutputUint

\* ... and of a signed one, behind its sign.
LEMMA SignedWritten ==
  ASSUME NEW m \in Modifiers, NEW v \in Int, m = "hh" => CharSigned, NEW k \in Nat,
         Signed(v, Bits[m]) = k \/ Signed(v, Bits[m]) = -k
  PROVE  /\ OutputInt(m, v) = SignOf(Signed(v, Bits[m])) \o Digits(k, 10, Digit)
         /\ \E T : Digits(k, 10, Digit) \in Seq(T)
         /\ Len(Digits(k, 10, Digit)) \in 1 .. ConvBufSize - 1
         /\ Writes(Digits(k, 10, Digit), k, 10, Digit)
         /\ \A chars \in Seq(STRING) : Writes(chars, k, 10, Digit) => chars = Digits(k, 10, Digit)
<1> DEFINE n == Signed(v, Bits[m])
<1>1. n \in Int /\ k \in 0 .. 2 ^ Bits[m] - 1 /\ Unsigned(k, Bits["j"]) = k
  BY SignedRange
<1>2. OutputInt(m, v) = SignOf(n) \o Digits(Unsigned(IF n < 0 THEN -n ELSE n, Bits["j"]), 10, Digit)
  BY DEF OutputInt
<1>3. (IF n < 0 THEN -n ELSE n) = k
  <2> HIDE DEF n
  <2>1. n = k \/ n = -k
    BY DEF n
  <2> QED BY <1>1, <2>1
<1>4. OutputInt(m, v) = SignOf(n) \o Digits(k, 10, Digit)
  BY <1>1, <1>2, <1>3
<1>5. k \in 0 .. Top(10, ConvBufSize - 1)
  BY <1>1, SizeFits DEF Bases
<1> QED BY <1>4, <1>5, DigitsExact DEF Bases

LEMMA HeadAndTail ==
  ASSUME NEW T, NEW s \in Seq(T), s # << >>
  PROVE  Tail(s) \in Seq(T) /\ s = <<s[1]>> \o Tail(s)
<1>1. Len(s) \in Nat /\ Len(s) > 0
  BY LenProperties, EmptySeq
<1>2. 1 \in 1 .. Len(s) /\ Len(s) \in 1 .. Len(s)
  BY <1>1
<1>3. SubSeq(s, 1, Len(s)) = <<s[1]>> \o SubSeq(s, 1 + 1, Len(s))
  BY <1>2, SubSeqRecursiveFirst
<1>4. SubSeq(s, 1, Len(s)) = s
  BY SubSeqFull
<1>5. Tail(s) = SubSeq(s, 2, Len(s)) /\ Tail(s) \in Seq(T)
  BY TailIsSubSeq, HeadTailProperties
<1> QED BY <1>3, <1>4, <1>5

\* Division has one quotient and one rest, whatever the divisor.
LEMMA RestUnique ==
  ASSUME NEW w \in Nat \ {0}, NEW a \in Int, NEW p \in Int, NEW r \in 0 .. w - 1, a = w * p + r
  PROVE  a % w = r
<1>1. PICK o \in Int, s \in 0 .. w - 1 : s = a % w /\ a = w * o + s
  OBVIOUS
<1>2. w * p + r = w * o + s
  BY <1>1
<1>3. CASE o = p
  BY <1>1, <1>2, <1>3
<1>4. CASE o < p
  <2>1. PICK d \in Nat \ {0} : p = o + d
    BY <1>4
  <2>2. w * p = w * o + w * d /\ w * d >= w
    BY <2>1
  <2>3. w * o \in Int /\ w * p \in Int /\ w * d \in Int
    BY <2>1
  <2> QED BY <1>2, <2>2, <2>3
<1>5. CASE p < o
  <2>1. PICK d \in Nat \ {0} : o = p + d
    BY <1>5
  <2>2. w * o = w * p + w * d /\ w * d >= w
    BY <2>1
  <2>3. w * o \in Int /\ w * p \in Int /\ w * d \in Int
    BY <2>1
  <2> QED BY <1>2, <2>2, <2>3
<1> QED BY <1>3, <1>4, <1>5

\* A value that a signed type shows as not negative is the same in the unsigned type.
LEMMA SameSign ==
  ASSUME NEW v \in Int, NEW bits \in Nat \ {0}, Signed(v, bits) >= 0
  PROVE  Unsigned(v, bits) = Signed(v, bits)
<1>1. PICK h \in Nat : h = 2 ^ (bits - 1)
  BY PowerPositive
<1>2. PICK w \in Nat \ {0} : w = 2 ^ bits
  BY PowerPositive
<1>3. PICK r \in 0 .. w - 1, p \in Int : r = (v + h) % w /\ v + h = w * p + r
  <2>1. v + h \in Int
    OBVIOUS
  <2> QED BY <2>1
<1>4. Signed(v, bits) = r - h
  BY <1>1, <1>2, <1>3 DEF Signed, Unsigned
<1>5. r - h \in 0 .. w - 1
  BY <1>4
<1>6. v = w * p + (r - h)
  <2>1. w * p \in Int
    OBVIOUS
  <2> QED BY <1>3, <2>1
<1>7. v % w = r - h
  BY <1>5, <1>6, RestUnique
<1> QED BY <1>2, <1>4, <1>7 DEF Unsigned

\* output_int where plain char is unsigned.
LEMMA PlainCharWritten ==
  ASSUME NEW v \in Int, ~CharSigned
  PROVE  LET u == Unsigned(v, Bits["hh"]) IN
           /\ OutputInt("hh", v) = Digits(u, 10, Digit)
           /\ \A chars \in Seq(STRING) : Writes(chars, u, 10, Digit) => chars = Digits(u, 10, Digit)
<1>1. "hh" \in Modifiers /\ Bits["hh"] \in Nat /\ Bits["j"] \in Nat /\ Bits["hh"] <= Bits["j"]
  BY PrintfAssumption DEF Modifiers
<1>2. PICK u \in 0 .. 2 ^ Bits["hh"] - 1 : u = Unsigned(v, Bits["hh"])
  BY <1>1, UnsignedRange
<1>3. 2 ^ Bits["hh"] <= 2 ^ Bits["j"]
  BY <1>1, PowerOrder
<1>4. PICK w \in Nat : w = 2 ^ Bits["hh"]
  BY <1>1, PowerPositive
<1>5. PICK l \in Nat \ {0} : l = 2 ^ Bits["j"]
  BY <1>1, PowerPositive
<1>6. u \in Nat /\ u < l
  BY <1>2, <1>3, <1>4, <1>5
<1>7. u % l = u
  BY <1>6
<1>8. Unsigned(u, Bits["j"]) = u
  BY <1>5, <1>7 DEF Unsigned
<1>9. (IF u < 0 THEN -u ELSE u) = u /\ ~(u < 0)
  BY <1>6
<1>10. SignOf(u) = << >>
  BY <1>9 DEF SignOf
<1>11. OutputInt("hh", v) = SignOf(u) \o Digits(Unsigned(IF u < 0 THEN -u ELSE u, Bits["j"]), 10, Digit)
  BY <1>2 DEF OutputInt
<1>12. OutputInt("hh", v) = << >> \o Digits(u, 10, Digit)
  BY <1>8, <1>9, <1>10, <1>11
<1>13. u \in 0 .. Top(10, ConvBufSize - 1)
  BY <1>1, <1>2, SizeFits DEF Bases
<1>14. /\ \E T : Digits(u, 10, Digit) \in Seq(T)
       /\ \A chars \in Seq(STRING) : Writes(chars, u, 10, Digit) => chars = Digits(u, 10, Digit)
  BY <1>13, DigitsExact DEF Bases
<1>15. << >> \o Digits(u, 10, Digit) = Digits(u, 10, Digit)
  BY <1>14, ConcatEmptySeq
<1> QED BY <1>2, <1>12, <1>14, <1>15

\* A conversion prints what is expected: the unsigned char in the exception, ...
LEMMA PlainCharRight ==
  ASSUME NEW m \in Modifiers, NEW c \in Conversions, NEW v \in Int, NEW chars \in Seq(STRING),
         ~CharSigned, m = "hh", c \in {"d", "i"},
         \/ Signed(v, Bits[m]) < 0 /\ Writes(chars, Unsigned(v, Bits[m]), 10, Digit)
         \/ ~(Signed(v, Bits[m]) < 0) /\ Writes(chars, Signed(v, Bits[m]), 10, Digit)
  PROVE  Output(m, c, v) = chars
<1>1. Output(m, c, v) = OutputInt("hh", v)
  BY DEF Output
<1>2. Writes(chars, Unsigned(v, Bits[m]), 10, Digit)
  <2>1. CASE Signed(v, Bits[m]) < 0
    BY <2>1
  <2>2. CASE ~(Signed(v, Bits[m]) < 0)
    <3>1. Signed(v, Bits[m]) \in Int /\ Bits[m] \in Nat \ {0}
      BY SignedRange, PrintfAssumption
    <3>2. Signed(v, Bits[m]) >= 0
      BY <2>2, <3>1
    <3>3. Unsigned(v, Bits[m]) = Signed(v, Bits[m])
      BY <3>1, <3>2, SameSign
    <3> QED BY <2>2, <3>3
  <2> QED BY <2>1, <2>2
<1> QED BY <1>1, <1>2, PlainCharWritten

\* ... and otherwise what printf prints for its argument.
LEMMA OutputRight ==
  ASSUME NEW m \in Modifiers, NEW c \in Conversions, NEW v \in Int, NEW chars \in Seq(STRING),
         Conversion(m, c, v, chars)
  PROVE  Output(m, c, v) = chars
<1> DEFINE n == Signed(v, Bits[m])
           u == Unsigned(v, Bits[m])
<1>1. CASE /\ c \in {"d", "i"} /\ (m = "hh" => CharSigned)
           /\ IF n < 0 THEN chars # << >> /\ chars[1] = "-" /\ Writes(Tail(chars), -n, 10, Digit)
                       ELSE Writes(chars, n, 10, Digit)
  <2>1. Output(m, c, v) = OutputInt(m, v)
    BY <1>1 DEF Output
  <2>2. n \in Int
    BY SignedRange
  <2>3. CASE n < 0
    <3>1. PICK k \in Nat : n = -k /\ -n = k
      BY <2>2, <2>3
    <3>2. /\ chars # << >> /\ chars[1] = "-" /\ Writes(Tail(chars), k, 10, Digit)
          /\ SignOf(n) = <<"-">>
      BY <1>1, <2>3, <3>1 DEF SignOf
    <3> HIDE DEF n
    <3>3. Tail(chars) \in Seq(STRING) /\ chars = <<"-">> \o Tail(chars)
      BY <3>2, HeadAndTail
    <3>4. /\ OutputInt(m, v) = <<"-">> \o Digits(k, 10, Digit)
          /\ Tail(chars) = Digits(k, 10, Digit)
      <4>1. Signed(v, Bits[m]) = -k /\ (m = "hh" => CharSigned)
        BY <1>1, <3>1 DEF n
      <4>2. /\ OutputInt(m, v) = SignOf(Signed(v, Bits[m])) \o Digits(k, 10, Digit)
            /\ \A w \in Seq(STRING) : Writes(w, k, 10, Digit) => w = Digits(k, 10, Digit)
        BY <4>1, SignedWritten
      <4> QED BY <3>2, <3>3, <4>2 DEF n
    <3> QED BY <2>1, <3>3, <3>4
  <2>4. CASE ~(n < 0)
    <3>1. PICK k \in Nat : n = k
      BY <2>2, <2>4
    <3>2. Writes(chars, k, 10, Digit) /\ SignOf(n) = << >>
      BY <1>1, <2>4, <3>1 DEF SignOf
    <3>3. /\ OutputInt(m, v) = << >> \o Digits(k, 10, Digit)
          /\ chars = Digits(k, 10, Digit)
      <4> HIDE DEF n
      <4>1. Signed(v, Bits[m]) = k /\ (m = "hh" => CharSigned)
        BY <1>1, <3>1 DEF n
      <4>2. /\ OutputInt(m, v) = SignOf(Signed(v, Bits[m])) \o Digits(k, 10, Digit)
            /\ \A w \in Seq(STRING) : Writes(w, k, 10, Digit) => w = Digits(k, 10, Digit)
        BY <4>1, SignedWritten
      <4> QED BY <3>2, <4>2 DEF n
    <3> QED BY <2>1, <3>3, ConcatEmptySeq
  <2> QED BY <2>3, <2>4
<1>2. CASE c = "o" /\ Writes(chars, u, 8, Digit)
  <2>1. Output(m, c, v) = OutputUint(m, 8, Digit, v)
    BY <1>2 DEF Output
  <2> QED BY <1>2, <2>1, UnsignedWritten DEF Bases
<1>3. CASE c = "u" /\ Writes(chars, u, 10, Digit)
  <2>1. Output(m, c, v) = OutputUint(m, 10, Digit, v)
    BY <1>3 DEF Output
  <2> QED BY <1>3, <2>1, UnsignedWritten DEF Bases
<1>4. CASE c = "x" /\ Writes(chars, u, 16, Digit)
  <2>1. Output(m, c, v) = OutputUint(m, 16, Digit, v)
    BY <1>4 DEF Output
  <2> QED BY <1>4, <2>1, UnsignedWritten DEF Bases
<1>5. CASE c = "X" /\ Writes(chars, u, 16, UpperDigit)
  <2>1. Output(m, c, v) = OutputUint(m, 16, UpperDigit, v)
    BY <1>5 DEF Output
  <2> QED BY <1>5, <2>1, UnsignedWritten DEF Bases
<1>6. CASE c = "c" /\ chars = <<"char">>
  BY <1>6 DEF Output
<1>7. CASE c \in {"d", "i"} /\ m = "hh" /\ ~CharSigned
  <2>1. c \notin {"o", "u", "x", "X", "c"}
    BY <1>7
  <2>2. \/ n < 0 /\ Writes(chars, u, 10, Digit)
        \/ ~(n < 0) /\ Writes(chars, n, 10, Digit)
    BY <1>7, <2>1 DEF Conversion, Prints, PlainChar
  <2> QED BY <1>7, <2>2, PlainCharRight
<1>8. CASE ~(c \in {"d", "i"} /\ m = "hh" /\ ~CharSigned)
  <2>1. Prints(m, c, v, chars)
    BY <1>8 DEF Conversion, PlainChar
  <2> QED BY <1>1, <1>2, <1>3, <1>4, <1>5, <1>6, <1>8, <2>1 DEF Prints
<1> QED BY <1>7, <1>8

\* output_int, output_uint: no conversion of any argument in any length and base writes
\* in front of its buffer, not even the sign of the least value.
THEOREM ConversionsFit ==
  ASSUME NEW arg \in Int, NEW m \in Modifiers
  PROVE  /\ Len(OutputInt(m, arg)) \in 1 .. ConvBufSize
         /\ \A base \in Bases, digit \in {Digit, UpperDigit} :
              Len(OutputUint(m, base, digit, arg)) \in 1 .. ConvBufSize - 1
<1>1. /\ Bits[m] \in Nat \ {0} /\ Bits["j"] \in Nat \ {0} /\ "j" \in Modifiers
      /\ ConvBufSize \in Nat /\ ConvBufSize > 1
  BY PrintfAssumption, BufferAssumption DEF Modifiers
<1>2. ASSUME NEW v \in Int, NEW k \in Modifiers, NEW base \in Bases,
             NEW digit \in {Digit, UpperDigit}
      PROVE  /\ Len(Digits(Unsigned(v, Bits[k]), base, digit)) \in 1 .. ConvBufSize - 1
             /\ \E V : Digits(Unsigned(v, Bits[k]), base, digit) \in Seq(V)
  <2>1. Bits[k] \in Nat
    BY PrintfAssumption
  <2>2. PICK u \in 0 .. 2 ^ Bits[k] - 1 : u = Unsigned(v, Bits[k])
    BY <2>1, UnsignedRange
  <2>3. u \in 0 .. Top(base, ConvBufSize - 1)
    BY SizeFits
  <2> QED
    BY <2>2, <2>3, DigitsExact
<1>3. ASSUME NEW base \in Bases, NEW digit \in {Digit, UpperDigit}
      PROVE  Len(OutputUint(m, base, digit, arg)) \in 1 .. ConvBufSize - 1
  BY <1>2 DEF OutputUint
<1>4. Len(OutputInt(m, arg)) \in 1 .. ConvBufSize
  <2> DEFINE value == IF m = "hh" /\ ~CharSigned THEN Unsigned(arg, Bits[m])
                      ELSE Signed(arg, Bits[m])
             magnitude == IF value < 0 THEN -value ELSE value
             d == Digits(Unsigned(magnitude, Bits["j"]), 10, Digit)
  <2>1. value \in Int
    <3>1. Unsigned(arg, Bits[m]) \in Int
      <4>1. 2 ^ Bits[m] \in Nat
        BY <1>1, PowerPositive
      <4>2. Unsigned(arg, Bits[m]) \in 0 .. 2 ^ Bits[m] - 1
        BY <1>1, UnsignedRange
      <4> QED
        BY <4>1, <4>2
    <3> QED
      BY <1>1, <3>1, SignedType
  <2> HIDE DEF value
  <2>2. magnitude \in Int
    BY <2>1
  <2> HIDE DEF magnitude
  <2>3. Len(d) \in 1 .. ConvBufSize - 1 /\ \E V : d \in Seq(V)
    BY <1>1, <1>2, <2>2 DEF Bases
  <2> HIDE DEF d
  <2>4. PICK V : d \in Seq(V)
    BY <2>3
  <2> DEFINE W == V \cup {"-"}
  <2>5. SignOf(value) \in Seq(W) /\ Len(SignOf(value)) \in 0 .. 1 /\ d \in Seq(W)
    <3>1. d \in Seq(W)
      BY <2>4
    <3>2. /\ <<"-">> \in Seq(W) /\ Len(<<"-">>) = 1
          /\ << >> \in Seq(W) /\ Len(<< >>) = 0
      OBVIOUS
    <3>3. SignOf(value) = <<"-">> \/ SignOf(value) = << >>
      BY DEF SignOf
    <3> HIDE DEF W
    <3>4. CASE SignOf(value) = <<"-">>
      <4>1. SignOf(value) \in Seq(W) /\ Len(SignOf(value)) = 1
        BY ONLY <3>2, <3>4, Zenon
      <4> QED
        BY <3>1, <4>1
    <3>5. CASE SignOf(value) = << >>
      <4>1. SignOf(value) \in Seq(W) /\ Len(SignOf(value)) = 0
        BY ONLY <3>2, <3>5, Zenon
      <4> QED
        BY <3>1, <4>1
    <3> QED
      BY <3>3, <3>4, <3>5
  <2> HIDE DEF W
  <2>6. Len(SignOf(value) \o d) = Len(SignOf(value)) + Len(d)
    BY <2>5
  <2>7. Len(SignOf(value) \o d) \in 1 .. ConvBufSize
    <3>1. \A a \in 0 .. 1, b \in 1 .. ConvBufSize - 1 : a + b \in 1 .. ConvBufSize
      BY <1>1
    <3> QED
      BY <2>3, <2>5, <2>6, <3>1
  <2> QED
    BY <2>7 DEF OutputInt, value, magnitude, d
<1> QED
  BY <1>3, <1>4
\* convert_dec, convert_hex, convert_oct and their callers: every argument is written with
\* the digits of its value in its type, all of them and no 0 in front, and a signed one
\* behind its sign.
THEOREM ConversionsRight ==
  ASSUME NEW arg \in Int, NEW m \in Modifiers
  PROVE  /\ \A base \in Bases, digit \in {Digit, UpperDigit} :
              Writes(OutputUint(m, base, digit, arg), Unsigned(arg, Bits[m]), base, digit)
         /\ (m = "hh" => CharSigned) =>
              LET n == Signed(arg, Bits[m]) IN
                \E chars : /\ OutputInt(m, arg) = SignOf(n) \o chars
                           /\ Writes(chars, IF n < 0 THEN -n ELSE n, 10, Digit)
<1>1. ASSUME NEW base \in Bases, NEW digit \in {Digit, UpperDigit}
      PROVE  Writes(OutputUint(m, base, digit, arg), Unsigned(arg, Bits[m]), base, digit)
  BY UnsignedWritten
<1>2. ASSUME m = "hh" => CharSigned
      PROVE  LET n == Signed(arg, Bits[m]) IN
               \E chars : /\ OutputInt(m, arg) = SignOf(n) \o chars
                          /\ Writes(chars, IF n < 0 THEN -n ELSE n, 10, Digit)
  <2> DEFINE n == Signed(arg, Bits[m])
             k == IF n < 0 THEN -n ELSE n
  <2>1. n \in Int
    BY SignedRange
  <2> HIDE DEF n
  <2>2. k \in Nat /\ (n = k \/ n = -k)
    BY <2>1
  <2> HIDE DEF k
  <2>3. OutputInt(m, arg) = SignOf(n) \o Digits(k, 10, Digit) /\ Writes(Digits(k, 10, Digit), k, 10, Digit)
    BY <1>2, <2>2, SignedWritten DEF n
  <2> QED BY <2>3 DEF n, k
<1> QED BY <1>1, <1>2

-----------------------------------------------------------------------------
\* Where the scan is, while it goes on.
ScanInv ==
  /\ call \in Programs /\ mode \in {"text", "specifier", "done"}
  /\ at \in Nat /\ (mode # "done" => at <= Len(Fmt) + 1)

LEMMA ScanStep == ScanInv /\ [Scan]_scanVars => ScanInv'
<1> SUFFICES ASSUME ScanInv, [Scan]_scanVars PROVE ScanInv'
  OBVIOUS
<1>1. Len(Fmt) \in Nat
  BY ProgramsAssumption DEF ScanInv, Fmt
<1>2. call' = call /\ Len(Fmt)' = Len(Fmt)
  BY DEF Scan, scanVars, Text, Percent, End, Modifier, Unwritten, Convert, Literal, GiveUp, Fmt
<1>3. CASE UNCHANGED scanVars
  BY <1>2, <1>3 DEF ScanInv, scanVars
<1>4. CASE End \/ GiveUp
  BY <1>2, <1>4 DEF ScanInv, End, GiveUp
\* Every other step has a character of the format before it.
<1>5. CASE Text \/ Percent \/ Modifier \/ Unwritten \/ Convert \/ Literal
  <2>1. Char # "NUL" /\ at' = at + 1 /\ mode' \in {"text", "specifier"}
    BY <1>5 DEF ScanInv, Text, Percent, Modifier, Unwritten, Convert, Literal, Conversions
  <2>2. at <= Len(Fmt)
    BY <2>1 DEF Char
  <2> QED
    BY <1>1, <1>2, <2>1, <2>2 DEF ScanInv
<1> QED
  BY <1>3, <1>4, <1>5 DEF Scan

\* do_printf, parse_specifier: the scan never reads behind the NUL, whatever the format
\* and its arguments are.
THEOREM ScansInside == ScanSpec => []InsideTheFormat
<1>1. ScanInit => ScanInv
  BY ProgramsAssumption DEF ScanInit, ScanInv, Fmt
<1>2. ScanInv => InsideTheFormat
  BY DEF ScanInv, InsideTheFormat
<1> QED
  BY <1>1, <1>2, ScanStep, PTL DEF ScanSpec
-----------------------------------------------------------------------------
\* The letters of a length modifier, the modifiers that are read on the way to it, and
\* the one a letter makes of another.
Letters == [none |-> 0, hh |-> 2, h |-> 1, l |-> 1, ll |-> 2, j |-> 1, z |-> 1, t |-> 1]
Reached(m) == {"none", m} \cup (IF m = "hh" THEN {"h"} ELSE {}) \cup (IF m = "ll" THEN {"l"} ELSE {})
With(m, letter) == CASE letter = "h" -> H(m) [] letter = "l" -> L(m) [] OTHER -> letter

LEMMA Spelling ==
  ASSUME NEW m \in Modifiers, NEW conv, NEW r \in Reached(m)
  PROVE  LET s == Spelled(conv)[m]  k == Letters[r] IN
           /\ k \in 0 .. 2 /\ Len(s) = 2 + Letters[m] /\ s[1] = "%"
           /\ r = m => s[2 + k] = conv
           /\ r # m => /\ s[2 + k] \in {"h", "l", "j", "z", "t"}
                       /\ With(r, s[2 + k]) \in Reached(m)
                       /\ Letters[With(r, s[2 + k])] = k + 1
           /\ 2 + k \in 1 .. Len(s)
<1>1. CASE m = "none"
  BY <1>1 DEF Spelled, Letters, Reached, With, H, L
<1>2. CASE m = "hh"
  BY <1>2 DEF Spelled, Letters, Reached, With, H, L
<1>3. CASE m = "h"
  BY <1>3 DEF Spelled, Letters, Reached, With, H, L
<1>4. CASE m = "l"
  BY <1>4 DEF Spelled, Letters, Reached, With, H, L
<1>5. CASE m = "ll"
  BY <1>5 DEF Spelled, Letters, Reached, With, H, L
<1>6. CASE m = "j"
  BY <1>6 DEF Spelled, Letters, Reached, With, H, L
<1>7. CASE m = "z"
  BY <1>7 DEF Spelled, Letters, Reached, With, H, L
<1>8. CASE m = "t"
  BY <1>8 DEF Spelled, Letters, Reached, With, H, L
<1> QED BY <1>1, <1>2, <1>3, <1>4, <1>5, <1>6, <1>7, <1>8 DEF Modifiers

\* What lies between two cuts, of the format, the arguments and the output.
FmtPart(p, c, d) == SubSeq(p.fmt, c.fmt + 1, d.fmt)
ArgPart(p, c, d) == SubSeq(p.args, c.args + 1, d.args)
OutPart(p, c, d) == SubSeq(p.printed, c.printed + 1, d.printed)
Order(c, d) == c.args <= d.args /\ c.printed <= d.printed

IsPart(s, a, b, r) ==
  /\ Len(r) = (IF a <= b THEN b - a ELSE 0)
  /\ \A k \in 1 .. Len(r) : r[k] = s[a + k] /\ a + k <= Len(s)
  /\ a <= b => SubSeq(s, 1, a) \o r = SubSeq(s, 1, b)

LEMMA PartOf ==
  ASSUME NEW T, NEW s \in Seq(T), NEW a \in 0 .. Len(s), NEW b \in 0 .. Len(s)
  PROVE  SubSeq(s, a + 1, b) \in Seq(T) /\ IsPart(s, a, b, SubSeq(s, a + 1, b))
<1>1. PICK n \in Nat : n = Len(s)
  BY LenProperties
<1>2. a \in Int /\ b \in Int /\ \A i \in a + 1 .. b : s[i] \in T
  BY <1>1, ElementOfSeq
<1> DEFINE r == SubSeq(s, a + 1, b)
<1>3. /\ r \in Seq(T) /\ Len(r) = (IF a + 1 <= b THEN b - (a + 1) + 1 ELSE 0)
      /\ \A i \in 1 .. b - (a + 1) + 1 : r[i] = s[a + 1 + i - 1]
  <2>1. a + 1 \in Int
    BY <1>2
  <2> QED BY <1>2, <2>1, SubSeqProperties
<1> HIDE DEF r
<1>4. Len(r) = IF a <= b THEN b - a ELSE 0
  BY <1>2, <1>3
<1>5. ASSUME NEW k \in 1 .. Len(r) PROVE r[k] = s[a + k] /\ a + k <= Len(s)
  <2>1. k \in 1 .. b - (a + 1) + 1 /\ a + 1 + k - 1 = a + k /\ a + k <= n
    BY <1>1, <1>2, <1>4
  <2> QED BY <1>1, <1>3, <2>1
<1>6. ASSUME a <= b PROVE SubSeq(s, 1, a) \o r = SubSeq(s, 1, b)
  <2>1. 1 \in 1 .. Len(s) + 1 /\ a \in 1 - 1 .. Len(s) /\ b \in a .. Len(s)
    BY <1>1, <1>6
  <2> QED BY <2>1, ConcatAdjacentSubSeq DEF r
<1> QED BY <1>3, <1>4, <1>5, <1>6 DEF r, IsPart

LEMMA Parts ==
  ASSUME NEW p \in Programs, p.cuts # {}, NEW c \in p.cuts, NEW d \in p.cuts
  PROVE  LET f == FmtPart(p, c, d)  a == ArgPart(p, c, d)  o == OutPart(p, c, d) IN
           /\ Len(p.fmt) \in Nat /\ c.fmt \in 0 .. Len(p.fmt) /\ c.args \in Nat /\ c.printed \in Nat
           /\ f \in Seq(STRING) /\ a \in Seq(Int) /\ o \in Seq(STRING)
           /\ \A k \in 1 .. Len(f) : f[k] = p.fmt[c.fmt + k] /\ c.fmt + k <= Len(p.fmt)
           /\ \A k \in 1 .. Len(a) : a[k] = p.args[c.args + k] /\ c.args + k <= Len(p.args)
           /\ Len(f) > 0 => d.fmt = c.fmt + Len(f)
           /\ Order(c, d) => /\ d.args = c.args + Len(a) /\ d.printed = c.printed + Len(o)
                             /\ SubSeq(p.printed, 1, c.printed) \o o = SubSeq(p.printed, 1, d.printed)
<1>1. p.fmt \in Seq(STRING) /\ p.args \in Seq(Int) /\ p.printed \in Seq(STRING)
  BY ProgramsAssumption, ItemsAssumption
<1>2. /\ c.fmt \in 0 .. Len(p.fmt) /\ c.args \in 0 .. Len(p.args) /\ c.printed \in 0 .. Len(p.printed)
      /\ d.fmt \in 0 .. Len(p.fmt) /\ d.args \in 0 .. Len(p.args) /\ d.printed \in 0 .. Len(p.printed)
  BY ItemsAssumption
<1>3. Len(p.fmt) \in Nat /\ Len(p.args) \in Nat /\ Len(p.printed) \in Nat
  BY <1>1, LenProperties
<1> DEFINE f == FmtPart(p, c, d)
           a == ArgPart(p, c, d)
           o == OutPart(p, c, d)
<1>4. f \in Seq(STRING) /\ IsPart(p.fmt, c.fmt, d.fmt, f)
  BY <1>1, <1>2, PartOf DEF FmtPart
<1>5. a \in Seq(Int) /\ IsPart(p.args, c.args, d.args, a)
  BY <1>1, <1>2, PartOf DEF ArgPart
<1>6. o \in Seq(STRING) /\ IsPart(p.printed, c.printed, d.printed, o)
  BY <1>1, <1>2, PartOf DEF OutPart
<1> HIDE DEF f, a, o
<1>7. Len(f) > 0 => d.fmt = c.fmt + Len(f)
  BY <1>2, <1>3, <1>4 DEF IsPart
<1>8. ASSUME Order(c, d)
      PROVE  /\ d.args = c.args + Len(a) /\ d.printed = c.printed + Len(o)
             /\ SubSeq(p.printed, 1, c.printed) \o o = SubSeq(p.printed, 1, d.printed)
  <2>1. c.args <= d.args /\ c.printed <= d.printed
    BY <1>8 DEF Order
  <2>2. /\ Len(a) = d.args - c.args /\ Len(o) = d.printed - c.printed
        /\ SubSeq(p.printed, 1, c.printed) \o o = SubSeq(p.printed, 1, d.printed)
    BY <1>5, <1>6, <2>1 DEF IsPart
  <2>3. c.args \in Int /\ d.args \in Int /\ c.printed \in Int /\ d.printed \in Int
    BY <1>2, <1>3
  <2>4. d.args = c.args + Len(a) /\ d.printed = c.printed + Len(o)
    BY <2>2, <2>3
  <2> QED BY <2>2, <2>4
<1>9. c.args \in Nat /\ c.printed \in Nat
  BY <1>2, <1>3
<1> QED BY <1>2, <1>3, <1>4, <1>5, <1>6, <1>7, <1>8, <1>9 DEF f, a, o, IsPart

\* Everything up to a cut is printed.
Printed(c) ==
  next = c.args + 1 /\ out = SubSeq(call.printed, 1, c.printed) /\ count = c.printed

\* Of the specifier between two cuts the % and some letters of its modifier are scanned.
Begun(c, d) ==
  /\ Order(c, d)
  /\ \/ /\ FmtPart(call, c, d) = <<"%", "%">> /\ ArgPart(call, c, d) = << >>
        /\ OutPart(call, c, d) = <<"%">> /\ modifier = "none" /\ at = c.fmt + 2
     \/ \E m \in Modifiers, conv \in Conversions :
          /\ FmtPart(call, c, d) = Spelled(conv)[m] /\ Len(ArgPart(call, c, d)) = 1
          /\ Conversion(m, conv, ArgPart(call, c, d)[1], OutPart(call, c, d))
          /\ modifier \in Reached(m) /\ at = c.fmt + 2 + Letters[modifier]

\* Where the scan of a call is of which it is known what printf prints.
MatchInv ==
  /\ call \in Programs
  /\ call.cuts # {} =>
       /\ mode \in {"text", "specifier", "done"}
       /\ mode = "text" => \E c \in call.cuts : Printed(c) /\ at = c.fmt + 1
       /\ mode = "specifier" => \E c, d \in call.cuts : Printed(c) /\ Begun(c, d)
       /\ mode = "done" => out = call.printed /\ result = Len(call.printed)

LEMMA ReadPart ==
  ASSUME call \in Programs, call.cuts # {}, NEW c \in call.cuts, NEW d \in call.cuts,
         NEW k \in 1 .. Len(FmtPart(call, c, d)), at = c.fmt + k
  PROVE  Char = FmtPart(call, c, d)[k]
<1>1. FmtPart(call, c, d)[k] = call.fmt[c.fmt + k] /\ c.fmt + k <= Len(call.fmt)
  BY Parts
<1> QED BY <1>1 DEF Char, Fmt

\* At a cut the format ends, or an item begins.
LEMMA AtCut ==
  ASSUME call \in Programs, call.cuts # {}, NEW c \in call.cuts, at = c.fmt + 1
  PROVE  \/ Char = "NUL" /\ c.printed = Len(call.printed)
         \/ \E d \in call.cuts :
              /\ Order(c, d) /\ Item(FmtPart(call, c, d), ArgPart(call, c, d), OutPart(call, c, d))
              /\ Len(FmtPart(call, c, d)) > 0 /\ Char = FmtPart(call, c, d)[1]
<1>1. CASE c.fmt = Len(call.fmt) /\ c.printed = Len(call.printed)
  <2>1. Len(call.fmt) \in Nat
    BY Parts
  <2>2. ~(at <= Len(call.fmt))
    BY <1>1, <2>1
  <2> QED BY <1>1, <2>2 DEF Char, Fmt
<1>2. CASE \E d \in call.cuts :
             /\ c.args <= d.args /\ c.printed <= d.printed
             /\ Item(SubSeq(call.fmt, c.fmt + 1, d.fmt), SubSeq(call.args, c.args + 1, d.args),
                     SubSeq(call.printed, c.printed + 1, d.printed))
  <2>1. PICK d \in call.cuts :
           Order(c, d) /\ Item(FmtPart(call, c, d), ArgPart(call, c, d), OutPart(call, c, d))
    BY <1>2 DEF Order, FmtPart, ArgPart, OutPart
  <2>2. Len(FmtPart(call, c, d)) > 0
    <3> DEFINE f == FmtPart(call, c, d)
    <3>1. CASE Len(f) = 1
      BY <3>1
    <3>2. CASE f = <<"%", "%">>
      BY <3>2
    <3>3. ASSUME NEW m \in Modifiers, NEW conv, f = Spelled(conv)[m] PROVE Len(f) > 0
      <4>1. m \in Reached(m)
        BY DEF Reached
      <4>2. Len(Spelled(conv)[m]) = 2 + Letters[m] /\ Letters[m] \in 0 .. 2
        BY <4>1, Spelling
      <4> QED BY <3>3, <4>2
    <3> HIDE DEF f
    <3> QED BY <2>1, <3>1, <3>2, <3>3 DEF Item, f
  <2>3. 1 \in 1 .. Len(FmtPart(call, c, d))
    <3>1. FmtPart(call, c, d) \in Seq(STRING)
      BY Parts
    <3> QED BY <2>2, <3>1, LenProperties
  <2>4. Char = FmtPart(call, c, d)[1]
    BY <2>3, ReadPart
  <2> QED BY <2>1, <2>2, <2>4
<1> QED BY <1>1, <1>2, ItemsAssumption

\* An item of the format whose part of the output is printed.
LEMMA ToNextCut ==
  ASSUME call \in Programs, call.cuts # {}, NEW c \in call.cuts, NEW d \in call.cuts,
         Printed(c), Order(c, d), Len(FmtPart(call, c, d)) > 0, call' = call, mode' = "text",
         at' = c.fmt + Len(FmtPart(call, c, d)) + 1,
         next' = next + Len(ArgPart(call, c, d)),
         Emit(OutPart(call, c, d))
  PROVE  MatchInv'
<1>1. /\ c.fmt \in Nat /\ c.args \in Nat /\ c.printed \in Nat
      /\ d.fmt = c.fmt + Len(FmtPart(call, c, d)) /\ d.args = c.args + Len(ArgPart(call, c, d))
      /\ d.printed = c.printed + Len(OutPart(call, c, d))
      /\ SubSeq(call.printed, 1, c.printed) \o OutPart(call, c, d)
           = SubSeq(call.printed, 1, d.printed)
      /\ Len(ArgPart(call, c, d)) \in Nat
  <2>1. ArgPart(call, c, d) \in Seq(Int)
    BY Parts
  <2>2. Len(ArgPart(call, c, d)) \in Nat
    BY <2>1, LenProperties
  <2>3. Len(call.fmt) \in Nat /\ c.fmt \in 0 .. Len(call.fmt) /\ c.args \in Nat /\ c.printed \in Nat
    BY Parts
  <2>4. c.fmt \in Nat
    BY <2>3
  <2>5. d.fmt = c.fmt + Len(FmtPart(call, c, d))
    BY Parts
  <2>6. /\ d.args = c.args + Len(ArgPart(call, c, d)) /\ d.printed = c.printed + Len(OutPart(call, c, d))
        /\ SubSeq(call.printed, 1, c.printed) \o OutPart(call, c, d)
             = SubSeq(call.printed, 1, d.printed)
    BY Parts
  <2> QED BY <2>2, <2>3, <2>4, <2>5, <2>6
<1>2. at' = d.fmt + 1
  BY <1>1
<1>3. next' = d.args + 1
  BY <1>1 DEF Printed
<1>4. out' = SubSeq(call.printed, 1, d.printed) /\ count' = d.printed
  BY <1>1 DEF Printed, Emit
<1> QED BY <1>2, <1>3, <1>4 DEF MatchInv, Printed

LEMMA MatchText == MatchInv /\ call.cuts # {} /\ Text => MatchInv'
<1> SUFFICES ASSUME MatchInv, call.cuts # {}, Text PROVE MatchInv'
  OBVIOUS
<1>1. PICK c \in call.cuts : Printed(c) /\ at = c.fmt + 1
  BY DEF MatchInv, Text
<1>2. call \in Programs /\ Char # "NUL" /\ Char # "%"
  BY DEF MatchInv, Text
<1>3. PICK d \in call.cuts :
        /\ Order(c, d) /\ Item(FmtPart(call, c, d), ArgPart(call, c, d), OutPart(call, c, d))
        /\ Len(FmtPart(call, c, d)) > 0 /\ Char = FmtPart(call, c, d)[1]
  BY <1>1, <1>2, AtCut
<1> DEFINE f == FmtPart(call, c, d)
           a == ArgPart(call, c, d)
           o == OutPart(call, c, d)
<1>4. f # <<"%", "%">>
  BY <1>2, <1>3
<1>5. \A m \in Modifiers : \A conv : f # Spelled(conv)[m]
  <2> SUFFICES ASSUME NEW m \in Modifiers, NEW conv, f = Spelled(conv)[m] PROVE FALSE
    OBVIOUS
  <2>1. m \in Reached(m)
    BY DEF Reached
  <2>2. Spelled(conv)[m][1] = "%"
    BY <2>1, Spelling
  <2> QED BY <1>2, <1>3, <2>2
<1>6. Len(f) = 1 /\ a = << >> /\ o = f
  <2> HIDE DEF f, a, o
  <2> QED BY <1>3, <1>4, <1>5 DEF Item, f, a, o
<1>7. f = <<Char>>
  <2>1. f \in Seq(STRING)
    BY <1>2, Parts
  <2> HIDE DEF f
  <2>2. f = <<f[1]>>
    BY <1>6, <2>1
  <2> QED BY <1>3, <2>2 DEF f
<1>8. Emit(o) /\ at' = c.fmt + Len(f) + 1 /\ next' = next + Len(a) /\ call' = call /\ mode' = "text"
  <2>1. c.fmt \in Nat /\ c.args \in Nat
    BY <1>2, Parts
  <2>2. Emit(o)
    BY <1>6, <1>7 DEF Text
  <2>3. at' = c.fmt + Len(f) + 1
    BY <1>1, <1>6, <2>1 DEF Text
  <2>4. next' = next + Len(a)
    BY <1>1, <1>6, <2>1 DEF Text, Printed
  <2> QED BY <2>2, <2>3, <2>4 DEF Text
<1> QED BY <1>1, <1>2, <1>3, <1>8, ToNextCut

LEMMA MatchPercent == MatchInv /\ call.cuts # {} /\ Percent => MatchInv'
<1> SUFFICES ASSUME MatchInv, call.cuts # {}, Percent PROVE MatchInv'
  OBVIOUS
<1>1. PICK c \in call.cuts : Printed(c) /\ at = c.fmt + 1
  BY DEF MatchInv, Percent
<1>2. call \in Programs /\ Char = "%" /\ call' = call /\ mode' = "specifier"
      /\ modifier' = "none" /\ at' = at + 1
  BY DEF MatchInv, Percent
<1>3. PICK d \in call.cuts :
        /\ Order(c, d) /\ Item(FmtPart(call, c, d), ArgPart(call, c, d), OutPart(call, c, d))
        /\ Len(FmtPart(call, c, d)) > 0 /\ Char = FmtPart(call, c, d)[1]
  BY <1>1, <1>2, AtCut
<1>4. at' = c.fmt + 2 /\ at' = c.fmt + 2 + Letters["none"]
  <2>1. c.fmt \in Nat
    BY <1>2, Parts
  <2> QED BY <1>1, <1>2, <2>1 DEF Letters
<1>5. Printed(c)'
  BY <1>1 DEF Printed, Percent
<1>6. Begun(c, d)'
  <2> DEFINE f == FmtPart(call, c, d)
             a == ArgPart(call, c, d)
             o == OutPart(call, c, d)
  <2>1. f = f' /\ a = a' /\ o = o'
    BY <1>2
  <2> HIDE DEF f, a, o
  <2>2. CASE f = <<"%", "%">> /\ a = << >> /\ o = <<"%">>
    BY <1>2, <1>3, <1>4, <2>1, <2>2 DEF Begun, f, a, o
  <2>3. CASE \E m \in Modifiers, conv \in Conversions :
               f = Spelled(conv)[m] /\ Len(a) = 1 /\ Conversion(m, conv, a[1], o)
    <3>1. \A m : "none" \in Reached(m)
      BY DEF Reached
    <3> QED BY <1>2, <1>3, <1>4, <2>1, <2>3, <3>1 DEF Begun, f, a, o
  <2>4. CASE Len(f) = 1 /\ f[1] \notin {"%", "NUL"}
    BY <1>2, <1>3, <2>4 DEF f
  <2> QED BY <1>3, <2>2, <2>3, <2>4 DEF Item, f, a, o
<1> QED BY <1>2, <1>5, <1>6 DEF MatchInv

LEMMA MatchEnd == MatchInv /\ call.cuts # {} /\ End => MatchInv'
<1> SUFFICES ASSUME MatchInv, call.cuts # {}, End PROVE MatchInv'
  OBVIOUS
<1>1. PICK c \in call.cuts : Printed(c) /\ at = c.fmt + 1
  BY DEF MatchInv, End
<1>2. call \in Programs /\ Char = "NUL"
  BY DEF MatchInv, End
<1>3. c.printed = Len(call.printed)
  <2> SUFFICES ASSUME NEW d \in call.cuts,
                      Item(FmtPart(call, c, d), ArgPart(call, c, d), OutPart(call, c, d)),
                      Char = FmtPart(call, c, d)[1]
               PROVE  FALSE
    BY <1>1, <1>2, AtCut
  <2>1. ASSUME NEW m \in Modifiers, NEW conv, FmtPart(call, c, d) = Spelled(conv)[m] PROVE FALSE
    <3>1. m \in Reached(m)
      BY DEF Reached
    <3>2. Spelled(conv)[m][1] = "%"
      BY <3>1, Spelling
    <3> QED BY <1>2, <2>1, <3>2
  <2> DEFINE f == FmtPart(call, c, d)
  <2>2. f # <<"%", "%">> /\ f[1] \in {"%", "NUL"}
    <3>1. f[1] = "NUL"
      BY <1>2
    <3> HIDE DEF f
    <3> QED BY <3>1
  <2> QED BY <2>1, <2>2 DEF Item
<1>4. call.printed \in Seq(STRING)
  BY <1>2, ItemsAssumption
<1>5. out = call.printed /\ count = Len(call.printed)
  BY <1>1, <1>3, <1>4, SubSeqFull DEF Printed
<1> QED BY <1>2, <1>5 DEF MatchInv, End

LEMMA MatchModifier == MatchInv /\ call.cuts # {} /\ Modifier => MatchInv'
<1> SUFFICES ASSUME MatchInv, call.cuts # {}, Modifier PROVE MatchInv'
  OBVIOUS
<1>1. PICK c \in call.cuts, d \in call.cuts : Printed(c) /\ Begun(c, d)
  BY DEF MatchInv, Modifier
<1>2. /\ call \in Programs /\ Char \in {"h", "l", "j", "z", "t"} /\ call' = call /\ mode' = mode
      /\ mode = "specifier" /\ at' = at + 1 /\ modifier' = With(modifier, Char)
  BY DEF MatchInv, Modifier, With
<1>3. Printed(c)'
  BY <1>1 DEF Printed, Modifier
<1>4. c.fmt \in Nat
  BY <1>2, Parts
<1>5. ASSUME FmtPart(call, c, d) = <<"%", "%">>, at = c.fmt + 2 PROVE FALSE
  <2>1. 2 \in 1 .. Len(FmtPart(call, c, d)) /\ FmtPart(call, c, d)[2] = "%"
    BY <1>5
  <2>2. Char = "%"
    BY <1>2, <1>5, <2>1, ReadPart
  <2> QED BY <1>2, <2>2
<1>6. PICK m \in Modifiers, conv \in Conversions :
        /\ FmtPart(call, c, d) = Spelled(conv)[m] /\ Len(ArgPart(call, c, d)) = 1
        /\ Conversion(m, conv, ArgPart(call, c, d)[1], OutPart(call, c, d))
        /\ modifier \in Reached(m) /\ at = c.fmt + 2 + Letters[modifier]
  BY <1>1, <1>5 DEF Begun
<1>7. PICK k \in 0 .. 2 : k = Letters[modifier]
  BY <1>6, Spelling
<1>8. Char = Spelled(conv)[m][2 + k]
  <2>1. 2 + k \in 1 .. Len(Spelled(conv)[m])
    BY <1>6, <1>7, Spelling
  <2>2. at = c.fmt + (2 + k)
    BY <1>4, <1>6, <1>7
  <2>3. 2 + k \in 1 .. Len(FmtPart(call, c, d))
    BY <1>6, <2>1
  <2>4. Char = FmtPart(call, c, d)[2 + k]
    BY <1>2, <2>2, <2>3, ReadPart
  <2> QED BY <1>6, <2>4
<1>9. modifier # m
  <2>1. modifier = m => Char = conv
    BY <1>6, <1>7, <1>8, Spelling
  <2> QED BY <1>2, <2>1 DEF Conversions
<1>10. modifier' \in Reached(m) /\ Letters[modifier'] = k + 1
  BY <1>2, <1>6, <1>7, <1>8, <1>9, Spelling
<1>11. at' = c.fmt + 2 + Letters[modifier']
  BY <1>2, <1>4, <1>6, <1>7, <1>10
<1>12. Begun(c, d)'
  BY <1>1, <1>2, <1>6, <1>10, <1>11 DEF Begun
<1> QED BY <1>2, <1>3, <1>12 DEF MatchInv

\* A character of a specifier that is not one of its modifier is its conversion, or a %.
LEMMA AtConversion ==
  ASSUME MatchInv, call.cuts # {}, mode = "specifier", Char \notin {"h", "l", "j", "z", "t"}
  PROVE  \E c, d \in call.cuts :
           /\ Printed(c) /\ Order(c, d) /\ Len(FmtPart(call, c, d)) > 0
           /\ at + 1 = c.fmt + Len(FmtPart(call, c, d)) + 1
           /\ \/ /\ Char = "%" /\ ArgPart(call, c, d) = << >> /\ OutPart(call, c, d) = <<"%">>
              \/ /\ Char \in Conversions /\ Len(ArgPart(call, c, d)) = 1
                 /\ Conversion(modifier, Char, ArgPart(call, c, d)[1], OutPart(call, c, d))
                 /\ modifier \in Modifiers
<1>1. PICK c \in call.cuts, d \in call.cuts : Printed(c) /\ Begun(c, d)
  BY DEF MatchInv
<1>2. call \in Programs
  BY DEF MatchInv
<1>3. c.fmt \in Nat
  BY <1>2, Parts
<1>4. CASE /\ FmtPart(call, c, d) = <<"%", "%">> /\ ArgPart(call, c, d) = << >>
           /\ OutPart(call, c, d) = <<"%">> /\ at = c.fmt + 2
  <2>1. 2 \in 1 .. Len(FmtPart(call, c, d)) /\ FmtPart(call, c, d)[2] = "%" /\ Len(FmtPart(call, c, d)) = 2
    BY <1>4
  <2>2. Char = "%"
    BY <1>2, <1>4, <2>1, ReadPart
  <2>3. at + 1 = c.fmt + Len(FmtPart(call, c, d)) + 1 /\ Len(FmtPart(call, c, d)) > 0
    BY <1>3, <1>4, <2>1
  <2>4. Order(c, d)
    BY <1>1 DEF Begun
  <2> QED BY <1>1, <1>4, <2>2, <2>3, <2>4
<1>5. CASE \E m \in Modifiers, conv \in Conversions :
             /\ FmtPart(call, c, d) = Spelled(conv)[m] /\ Len(ArgPart(call, c, d)) = 1
             /\ Conversion(m, conv, ArgPart(call, c, d)[1], OutPart(call, c, d))
             /\ modifier \in Reached(m) /\ at = c.fmt + 2 + Letters[modifier]
  <2>1. PICK m \in Modifiers, conv \in Conversions :
             /\ FmtPart(call, c, d) = Spelled(conv)[m] /\ Len(ArgPart(call, c, d)) = 1
             /\ Conversion(m, conv, ArgPart(call, c, d)[1], OutPart(call, c, d))
             /\ modifier \in Reached(m) /\ at = c.fmt + 2 + Letters[modifier]
    BY <1>5
  <2>2. PICK k \in 0 .. 2 : k = Letters[modifier]
    BY <2>1, Spelling
  <2>3. Char = Spelled(conv)[m][2 + k]
    <3>1. 2 + k \in 1 .. Len(Spelled(conv)[m])
      BY <2>1, <2>2, Spelling
    <3>2. at = c.fmt + (2 + k)
      BY <1>3, <2>1, <2>2
    <3>3. 2 + k \in 1 .. Len(FmtPart(call, c, d))
      BY <2>1, <3>1
    <3>4. Char = FmtPart(call, c, d)[2 + k]
      BY <1>2, <3>2, <3>3, ReadPart
    <3> QED BY <2>1, <3>4
  <2>4. modifier = m /\ Char = conv
    <3>1. modifier # m => Spelled(conv)[m][2 + k] \in {"h", "l", "j", "z", "t"}
      BY <2>1, <2>2, Spelling
    <3>2. modifier = m
      BY <2>3, <3>1
    <3>3. Spelled(conv)[m][2 + k] = conv
      BY <2>1, <2>2, <3>2, Spelling
    <3> QED BY <2>3, <3>2, <3>3
  <2>5. Len(FmtPart(call, c, d)) = 2 + k
    BY <2>1, <2>2, <2>4, Spelling
  <2>6. Len(FmtPart(call, c, d)) > 0 /\ at + 1 = c.fmt + Len(FmtPart(call, c, d)) + 1
    BY <1>3, <2>1, <2>2, <2>5
  <2>7. Order(c, d)
    BY <1>1 DEF Begun
  <2> QED BY <1>1, <2>1, <2>4, <2>6, <2>7
<1> QED BY <1>1, <1>4, <1>5 DEF Begun

LEMMA MatchConvert == MatchInv /\ call.cuts # {} /\ Convert => MatchInv'
<1> SUFFICES ASSUME MatchInv, call.cuts # {}, Convert PROVE MatchInv'
  OBVIOUS
<1>1. /\ call \in Programs /\ mode = "specifier" /\ Char \in Conversions
      /\ Char \notin {"h", "l", "j", "z", "t", "%"} /\ call' = call /\ mode' = "text" /\ at' = at + 1
  BY DEF MatchInv, Convert, Conversions
<1>2. PICK c \in call.cuts, d \in call.cuts :
        /\ Printed(c) /\ Order(c, d) /\ Len(FmtPart(call, c, d)) > 0
        /\ at + 1 = c.fmt + Len(FmtPart(call, c, d)) + 1
        /\ Len(ArgPart(call, c, d)) = 1 /\ modifier \in Modifiers
        /\ Conversion(modifier, Char, ArgPart(call, c, d)[1], OutPart(call, c, d))
  BY <1>1, AtConversion
<1>3. PICK v \in Int : v = ArgPart(call, c, d)[1] /\ v = call.args[next] /\ next <= Len(call.args)
  <2>1. /\ ArgPart(call, c, d) \in Seq(Int) /\ c.args \in Nat
        /\ ArgPart(call, c, d)[1] = call.args[c.args + 1] /\ c.args + 1 <= Len(call.args)
    <3>1. 1 \in 1 .. Len(ArgPart(call, c, d))
      BY <1>2
    <3>2. \A k \in 1 .. Len(ArgPart(call, c, d)) :
            /\ ArgPart(call, c, d)[k] = call.args[c.args + k] /\ c.args + k <= Len(call.args)
      BY <1>1, Parts
    <3>3. ArgPart(call, c, d) \in Seq(Int) /\ c.args \in Nat
      BY <1>1, Parts
    <3> QED BY <3>1, <3>2, <3>3
  <2>2. ArgPart(call, c, d)[1] \in Int
    <3> DEFINE a == ArgPart(call, c, d)
    <3>1. a \in Seq(Int) /\ 1 \in 1 .. Len(a)
      BY <1>2, <2>1
    <3> HIDE DEF a
    <3>2. a[1] \in Int
      BY <3>1, ElementOfSeq
    <3> QED BY <3>2 DEF a
  <2> QED BY <1>2, <2>1, <2>2 DEF Printed
<1>4. ~NoCase(modifier, Char)
  BY <1>2 DEF Conversion
<1>5. Output(modifier, Char, v) = OutPart(call, c, d)
  <2>1. OutPart(call, c, d) \in Seq(STRING)
    BY <1>1, Parts
  <2> QED BY <1>1, <1>2, <1>3, <2>1, OutputRight
<1>6. Emit(Output(modifier, Char, v)) /\ next' = next + 1
  BY <1>3, <1>4 DEF Convert
<1> QED BY <1>1, <1>2, <1>5, <1>6, ToNextCut

LEMMA MatchLiteral == MatchInv /\ call.cuts # {} /\ Literal => MatchInv'
<1> SUFFICES ASSUME MatchInv, call.cuts # {}, Literal PROVE MatchInv'
  OBVIOUS
<1>1. /\ call \in Programs /\ mode = "specifier" /\ Char = "%" /\ Char \notin Conversions
      /\ call' = call /\ mode' = "text" /\ at' = at + 1 /\ next' = next /\ Emit(<<"%">>)
  BY DEF MatchInv, Literal, Conversions
<1>2. PICK c \in call.cuts, d \in call.cuts :
        /\ Printed(c) /\ Order(c, d) /\ Len(FmtPart(call, c, d)) > 0
        /\ at + 1 = c.fmt + Len(FmtPart(call, c, d)) + 1
        /\ ArgPart(call, c, d) = << >> /\ OutPart(call, c, d) = <<"%">>
  BY <1>1, AtConversion
<1>3. next' = next + Len(ArgPart(call, c, d))
  <2>1. c.args \in Nat
    BY <1>1, Parts
  <2> QED BY <1>1, <1>2, <2>1 DEF Printed
<1> QED BY <1>1, <1>2, <1>3, ToNextCut

\* Where it is known what printf prints, no conversion is one that is not written, and
\* the scan does not give up.
LEMMA MatchNoOther == MatchInv /\ call.cuts # {} => ~Unwritten /\ ~GiveUp
<1> SUFFICES ASSUME MatchInv, call.cuts # {}, Unwritten \/ GiveUp PROVE FALSE
  OBVIOUS
<1>1. mode = "specifier" /\ Char \notin {"h", "l", "j", "z", "t"} /\ Char \notin Conversions \cup {"%"}
  BY DEF Unwritten, GiveUp, Conversions
<1> QED BY <1>1, AtConversion

LEMMA MatchStep == MatchInv /\ [Scan]_scanVars => MatchInv'
<1> SUFFICES ASSUME MatchInv, [Scan]_scanVars PROVE MatchInv'
  OBVIOUS
<1>1. call' = call
  BY DEF Scan, scanVars, Text, Percent, End, Modifier, Unwritten, Convert, Literal, GiveUp
<1>2. CASE call.cuts = {}
  BY <1>1, <1>2 DEF MatchInv
<1>3. CASE call.cuts # {}
  <2>1. CASE UNCHANGED scanVars
    BY <2>1 DEF MatchInv, scanVars, Printed, Begun
  <2> QED BY <1>3, <2>1, MatchText, MatchPercent, MatchEnd, MatchModifier, MatchConvert,
             MatchLiteral, MatchNoOther DEF Scan
<1> QED BY <1>2, <1>3

LEMMA MatchInit == ScanInit => MatchInv
<1> SUFFICES ASSUME ScanInit, call.cuts # {} PROVE MatchInv
  BY DEF ScanInit, MatchInv
<1> DEFINE c == [fmt |-> 0, args |-> 0, printed |-> 0]
<1>1. c \in call.cuts /\ call.printed \in Seq(STRING) /\ call \in Programs
  BY ItemsAssumption DEF ScanInit
<1>2. SubSeq(call.printed, 1, 0) = << >>
  BY SubSeqEmpty
<1>3. Printed(c) /\ at = c.fmt + 1
  BY <1>2 DEF ScanInit, Printed
<1> QED BY <1>1, <1>3 DEF MatchInv, ScanInit

\* do_printf, parse_specifier, output_int, output_uint: a format of any length, made of
\* characters, %% and the conversions the code has with the lengths it has them for,
\* prints what printf prints for any arguments, and returns how much that was; but where
\* plain char is unsigned, %hhd and %hhi print a negative signed char as an unsigned one.
THEOREM PrintsAsPrintf == ScanSpec => []MatchesPrintf
<1>1. MatchInv => MatchesPrintf
  BY DEF MatchInv, MatchesPrintf
<1> QED BY <1>1, MatchInit, MatchStep, PTL DEF ScanSpec
=============================================================================
