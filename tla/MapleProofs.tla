---------------------------- MODULE MapleProofs -----------------------------
(***************************************************************************)
(* The earlier firmware, for every set of frames, every size of the buffer *)
(* and every number of ticks: what the main loop shares with the timer     *)
(* interrupt is never seen half done, and the handlers get the frames of   *)
(* the host as they were sent.                                             *)
(***************************************************************************)
EXTENDS Maple, TLAPS, SequenceTheorems

\* Interrupts are masked exactly while the main loop is between two accesses that
\* belong together.
MaskInv == masked <=> pc \in {"gains", "copying"}

\* The angles are those of the sensor data; a copy under way is of the data as it is.
CopyInv ==
  /\ angles = sd
  /\ pc = "copying" => localSd = sd
  /\ TelemetryOfOneTick

\* The quaternion was reset for the gains, except between the two assignments.
GainsInv == pc # "gains" => gains = resetFor

IInv == MaskInv /\ CopyInv /\ GainsInv
-----------------------------------------------------------------------------
\* The firmware begins in the invariant.
LEMMA InitInv == Init => IInv
BY DEF Init, IInv, MaskInv, CopyInv, GainsInv, TelemetryOfOneTick

\* A tick only comes while the loop is in neither section, and takes the angles from
\* the data it reads.
LEMMA TimerInv ==
  ASSUME IInv, Timer
  PROVE  IInv'
<1> USE DEF IInv, Timer, locals, estimator, parser
<1>1. pc \notin {"gains", "copying"}
  BY DEF MaskInv
<1>2. MaskInv'
  BY DEF MaskInv
<1>3. CopyInv'
  BY <1>1 DEF CopyInv, TelemetryOfOneTick
<1>4. GainsInv'
  BY DEF GainsInv
<1> QED
  BY <1>2, <1>3, <1>4

\* A frame enters the mask with the gains command and in no other way.
LEMMA TakeInv ==
  ASSUME IInv, Take
  PROVE  IInv'
<1> USE DEF IInv, Take, Go, Mask, shared, locals
<1>1. CASE pc' = "gains"
  <2>1. MaskInv'
    BY <1>1 DEF MaskInv
  <2>2. CopyInv'
    BY <1>1 DEF CopyInv, TelemetryOfOneTick
  <2> QED
    BY <1>1, <2>1, <2>2 DEF GainsInv
<1>2. CASE pc' # "gains"
  <2>1. pc' \in {"copy", "process"} /\ UNCHANGED <<masked, gains>>
    BY <1>2
  <2>2. MaskInv' /\ GainsInv'
    BY <2>1 DEF MaskInv, GainsInv
  <2>3. CopyInv'
    BY <2>1 DEF CopyInv, TelemetryOfOneTick
  <2> QED
    BY <2>2, <2>3
<1> QED
  BY <1>1, <1>2

\* Every other statement of the main loop.
LEMMA MainInv ==
  ASSUME IInv, Main
  PROVE  IInv'
<1> USE DEF IInv, MaskInv, CopyInv, GainsInv, TelemetryOfOneTick, Go, Mask,
            shared, locals, estimator, parser
<1>1. CASE Idle
  BY <1>1 DEF Idle
<1>2. CASE Take
  BY <1>2, TakeInv
<1>3. CASE Reset
  BY <1>3 DEF Reset
<1>4. CASE CopyData
  BY <1>4 DEF CopyData
<1>5. CASE CopyAngles
  BY <1>5 DEF CopyAngles
<1>6. CASE Telemetry
  BY <1>6 DEF Telemetry
<1> QED
  BY <1>1, <1>2, <1>3, <1>4, <1>5, <1>6 DEF Main

\* No step leaves the invariant.
LEMMA StepKeepsInv ==
  ASSUME IInv, [Next]_vars
  PROVE  IInv'
<1> USE DEF shared, locals, estimator, parser
<1>1. CASE Timer
  BY <1>1, TimerInv
<1>2. CASE Send
  BY <1>2 DEF Send, IInv, MaskInv, CopyInv, GainsInv, TelemetryOfOneTick
<1>3. CASE Arrive
  BY <1>3 DEF Arrive, IInv, MaskInv, CopyInv, GainsInv, TelemetryOfOneTick
<1>4. CASE Main
  BY <1>4, MainInv
<1>5. CASE UNCHANGED vars
  BY <1>5 DEF vars, IInv, MaskInv, CopyInv, GainsInv, TelemetryOfOneTick
<1> QED
  BY <1>1, <1>2, <1>3, <1>4, <1>5 DEF Next

\* The angles of a telemetry pair are those of the data sent with them, wherever the
\* timer interrupt falls.
THEOREM TelemetryConsistent == Spec => []TelemetryOfOneTick
<1>1. IInv => TelemetryOfOneTick
  BY DEF IInv, CopyInv
<1> QED
  BY InitInv, StepKeepsInv, <1>1, PTL DEF Spec

\* No tick runs the estimator with new gains on the old quaternion.
THEOREM EstimatorConsistent == Spec => []EstimatorWhole
<1>1. IInv => EstimatorWhole
  BY DEF IInv, MaskInv, GainsInv, EstimatorWhole
<1> QED
  BY InitInv, StepKeepsInv, <1>1, PTL DEF Spec
-----------------------------------------------------------------------------
\* The frames.

\* The frames of s behind the first h stand in these bytes, each behind its position;
\* what is in front of the bytes has been taken.
Laid(pos, bytes, h, s) ==
  /\ pos \in [h + 1 .. Len(s) + 1 -> Int]
  /\ pos[Len(s) + 1] = Len(bytes)
  /\ \A k \in h + 1 .. Len(s) : pos[k] <= Len(bytes) /\ pos[k + 1] = pos[k] + Len(s[k])
  /\ \A k \in h + 1 .. Len(s) : \A j \in 1 .. Len(s[k]) :
       pos[k] + j >= 1 => bytes[pos[k] + j] = s[k][j]

\* The bytes on their way and in the receive buffer are the frames sent and not yet
\* handled, from where the parser stands.
StreamInv ==
  \E pos : /\ Laid(pos, rx \o line, Len(handled), sent)
           /\ pos[Len(handled) + 1] = IF bufI = -1 THEN 0 ELSE -(bufI + 1)

\* In a frame, cmd_buf holds what was taken of it.
BufferInv ==
  bufI # -1 =>
    /\ Len(handled) < Len(sent) /\ len = sent[Len(handled) + 1][1]
    /\ bufI \in 0 .. len /\ left = len + 1 - bufI
    /\ \A i \in 1 .. bufI : buf[i] = sent[Len(handled) + 1][i + 1]

HandledInv ==
  /\ Len(handled) <= Len(sent)
  /\ \A i \in 1 .. Len(handled) : handled[i] = sent[i]

BytesOK ==
  /\ rx \in Seq(Nat) /\ line \in Seq(Nat)
  /\ sent \in Seq(Frames) /\ handled \in Seq(Seq(Nat))
  /\ bufI \in Int /\ len \in Nat /\ left \in Nat /\ buf \in [1 .. BufLen -> Nat]

FrameInv == BytesOK /\ StreamInv /\ BufferInv /\ HandledInv
-----------------------------------------------------------------------------
LEMMA FrameFacts ==
  ASSUME NEW f \in Frames
  PROVE  f \in Seq(Nat) /\ f[1] \in Nat /\ Len(f) = f[1] + 2 /\ f[1] < BufLen /\ BufLen \in Nat
BY MapleAssumption, ElementOfSeq

\* Three strings put behind each other, a byte put in front of a string, and the
\* first bytes of a buffer.
Groups(x, y, z) == (x \o y) \o z = x \o (y \o z)
LEMMA Grouped == \A T : \A x, y, z \in Seq(T) : Groups(x, y, z)
BY ConcatAssociative DEF Groups

LEMMA Prepended ==
  ASSUME NEW x \in Nat, NEW y \in Seq(Nat)
  PROVE  /\ <<x>> \o y \in Seq(Nat) /\ Len(<<x>> \o y) = Len(y) + 1
         /\ (<<x>> \o y)[1] = x
         /\ \A i \in 1 .. Len(y) : (<<x>> \o y)[i + 1] = y[i]
<1>1. <<x>> \in Seq(Nat) /\ Len(<<x>>) = 1 /\ <<x>>[1] = x /\ Len(y) \in Nat
  OBVIOUS
<1> DEFINE z == <<x>>
<1> HIDE DEF z
<1>2. /\ z \o y \in Seq(Nat) /\ Len(z \o y) = Len(z) + Len(y)
      /\ \A i \in 1 .. Len(z) + Len(y) : (z \o y)[i] = IF i <= Len(z) THEN z[i] ELSE y[i - Len(z)]
  BY <1>1, ConcatProperties DEF z
<1>3. Len(z) = 1 /\ z[1] = x
  BY <1>1 DEF z
<1>4. Len(z \o y) = Len(y) + 1 /\ (z \o y)[1] = x
  BY <1>1, <1>2, <1>3
<1>5. ASSUME NEW i \in 1 .. Len(y) PROVE (z \o y)[i + 1] = y[i]
  <2>1. i + 1 \in 1 .. Len(z) + Len(y) /\ ~(i + 1 <= Len(z)) /\ i + 1 - Len(z) = i
    BY <1>1, <1>3
  <2> QED
    BY <1>2, <2>1
<1> QED
  BY <1>2, <1>4, <1>5 DEF z

LEMMA FirstOf ==
  ASSUME NEW g, NEW n \in Nat, \A i \in 1 .. n : g[i] \in Nat
  PROVE  /\ SubSeq(g, 1, n) \in Seq(Nat) /\ Len(SubSeq(g, 1, n)) = n
         /\ \A i \in 1 .. n : SubSeq(g, 1, n)[i] = g[i]
<1>1. /\ SubSeq(g, 1, n) \in Seq(Nat)
      /\ Len(SubSeq(g, 1, n)) = IF 1 <= n THEN n - 1 + 1 ELSE 0
  BY SubSeqProperties
<1>2. \A i \in 1 .. n - 1 + 1 : SubSeq(g, 1, n)[i] = g[1 + i - 1]
  BY SubSeqProperties
<1>3. ASSUME NEW i \in 1 .. n PROVE SubSeq(g, 1, n)[i] = g[i]
  <2>1. i \in 1 .. n - 1 + 1 /\ 1 + i - 1 = i
    OBVIOUS
  <2> QED
    BY <1>2, <2>1
<1>4. Len(SubSeq(g, 1, n)) = n
  BY <1>1
<1> QED
  BY <1>1, <1>3, <1>4

\* One more frame behind the bytes.
LEMMA LaidAppend ==
  ASSUME NEW pos, NEW bytes \in Seq(Nat), NEW s \in Seq(Frames), NEW h \in 0 .. Len(s),
         NEW f \in Frames, Laid(pos, bytes, h, s)
  PROVE  \E p : Laid(p, bytes \o f, h, Append(s, f)) /\ p[h + 1] = pos[h + 1]
<1> DEFINE p == [k \in h + 1 .. Len(s) + 2 |->
                   IF k = Len(s) + 2 THEN Len(bytes) + Len(f) ELSE pos[k]]
           t == Append(s, f)
           all == bytes \o f
<1>1. Len(s) \in Nat /\ Len(t) = Len(s) + 1 /\ t[Len(s) + 1] = f
  OBVIOUS
<1>2. \A k \in 1 .. Len(s) : t[k] = s[k] /\ s[k] \in Frames
  BY ElementOfSeq
<1>3. /\ Len(all) = Len(bytes) + Len(f) /\ Len(bytes) \in Nat /\ Len(f) \in Nat
      /\ \A i \in 1 .. Len(bytes) : all[i] = bytes[i]
      /\ \A i \in 1 .. Len(f) : all[Len(bytes) + i] = f[i]
  <2>1. f \in Seq(Nat)
    BY FrameFacts
  <2> QED
    BY <2>1, ConcatProperties
<1> HIDE DEF t, all
<1>4. /\ pos \in [h + 1 .. Len(s) + 1 -> Int] /\ pos[Len(s) + 1] = Len(bytes)
      /\ \A k \in h + 1 .. Len(s) : pos[k] <= Len(bytes) /\ pos[k + 1] = pos[k] + Len(s[k])
      /\ \A k \in h + 1 .. Len(s) : \A j \in 1 .. Len(s[k]) :
           pos[k] + j >= 1 => bytes[pos[k] + j] = s[k][j]
  BY DEF Laid
<1>5. p \in [h + 1 .. Len(t) + 1 -> Int] /\ p[Len(t) + 1] = Len(all)
  BY <1>1, <1>3, <1>4
<1>6. /\ p[h + 1] = pos[h + 1] /\ p[Len(s) + 2] = Len(bytes) + Len(f)
      /\ \A k \in h + 1 .. Len(s) + 1 : p[k] = pos[k]
  BY <1>1
<1> HIDE DEF p
<1>7. ASSUME NEW k \in h + 1 .. Len(t)
      PROVE  /\ p[k] <= Len(all) /\ p[k + 1] = p[k] + Len(t[k])
             /\ \A j \in 1 .. Len(t[k]) : p[k] + j >= 1 => all[p[k] + j] = t[k][j]
  <2>1. CASE k = Len(s) + 1
    <3>1. p[k] = Len(bytes) /\ p[k + 1] = Len(bytes) + Len(f) /\ t[k] = f
      BY <1>1, <1>4, <1>6, <2>1
    <3>2. ASSUME NEW j \in 1 .. Len(t[k]) PROVE all[p[k] + j] = t[k][j]
      <4>1. j \in 1 .. Len(f) /\ p[k] + j = Len(bytes) + j /\ t[k][j] = f[j]
        BY <3>1
      <4> QED
        BY <1>3, <4>1
    <3>3. p[k] <= Len(all) /\ p[k + 1] = p[k] + Len(t[k])
      BY <1>3, <3>1
    <3> QED
      BY <3>2, <3>3
  <2>2. CASE k # Len(s) + 1
    <3>1. /\ k \in h + 1 .. Len(s) /\ k + 1 \in h + 1 .. Len(s) + 1 /\ t[k] = s[k]
          /\ p[k] = pos[k] /\ p[k + 1] = pos[k + 1] /\ pos[k] \in Int
      <4>1. k \in h + 1 .. Len(s) /\ k + 1 \in h + 1 .. Len(s) + 1
        BY <1>1, <2>2
      <4>2. k \in h + 1 .. Len(s) + 1 /\ k \in 1 .. Len(s)
        BY <1>1, <4>1
      <4>3. pos[k] \in Int
        BY <1>4, <4>2
      <4>4. p[k] = pos[k] /\ p[k + 1] = pos[k + 1]
        BY <1>6, <4>1, <4>2
      <4> QED
        BY <1>2, <4>1, <4>2, <4>3, <4>4
    <3>2. pos[k + 1] <= Len(bytes)
      <4>1. CASE k = Len(s)
        BY <1>3, <1>4, <4>1
      <4>2. CASE k # Len(s)
        <5>1. k + 1 \in h + 1 .. Len(s)
          BY <1>1, <3>1, <4>2
        <5> QED
          BY <1>4, <5>1
      <4> QED
        BY <4>1, <4>2
    <3>3. pos[k] <= Len(bytes) /\ pos[k + 1] = pos[k] + Len(s[k])
      BY <1>4, <3>1
    <3>4. ASSUME NEW j \in 1 .. Len(t[k]), p[k] + j >= 1 PROVE all[p[k] + j] = t[k][j]
      <4>1. pos[k] + j \in 1 .. Len(bytes)
        <5>1. /\ pos[k] \in Int /\ pos[k] + j >= 1 /\ j \in 1 .. Len(s[k])
              /\ pos[k] + Len(s[k]) <= Len(bytes) /\ Len(bytes) \in Nat
          <6>1. pos[k] \in Int /\ pos[k] + j >= 1 /\ j \in 1 .. Len(s[k])
            BY <3>1, <3>4
          <6>2. pos[k] + Len(s[k]) <= Len(bytes)
            BY <3>2, <3>3
          <6> QED
            BY <1>3, <6>1, <6>2
        <5>2. Len(s[k]) \in Nat
          <6>1. s[k] \in Frames
            BY <1>1, <1>2, <3>1
          <6>2. s[k] \in Seq(Nat)
            BY <6>1, FrameFacts
          <6> QED
            BY <6>2, LenProperties
        <5> QED
          BY <5>1, <5>2
      <4>2. bytes[pos[k] + j] = s[k][j]
        BY <1>4, <3>1, <3>4, <4>1
      <4> QED
        BY <1>3, <3>1, <4>1, <4>2
    <3> QED
      BY <1>3, <3>1, <3>3, <3>4
  <2> QED
    BY <2>1, <2>2
<1>8. Laid(p, all, h, t)
  BY <1>5, <1>7 DEF Laid
<1> QED
  BY <1>6, <1>8 DEF all, t

\* The first c bytes are taken.
LEMMA LaidTaken ==
  ASSUME NEW pos, NEW bytes \in Seq(Nat), NEW s \in Seq(Frames), NEW h \in 0 .. Len(s),
         NEW c \in 0 .. Len(bytes), Laid(pos, bytes, h, s)
  PROVE  \E p : /\ Laid(p, SubSeq(bytes, c + 1, Len(bytes)), h, s)
                /\ \A k \in h + 1 .. Len(s) + 1 : p[k] = pos[k] - c
<1> DEFINE p == [k \in h + 1 .. Len(s) + 1 |-> pos[k] - c]
           rest == SubSeq(bytes, c + 1, Len(bytes))
<1>1. pos \in [h + 1 .. Len(s) + 1 -> Int] /\ pos[Len(s) + 1] = Len(bytes)
  BY DEF Laid
<1>2. \A k \in h + 1 .. Len(s) : pos[k] <= Len(bytes) /\ pos[k + 1] = pos[k] + Len(s[k])
  BY DEF Laid
<1>3. \A k \in h + 1 .. Len(s) : \A j \in 1 .. Len(s[k]) :
        pos[k] + j >= 1 => bytes[pos[k] + j] = s[k][j]
  BY DEF Laid
<1>4. Len(bytes) \in Nat /\ Len(s) \in Nat /\ c \in Nat
  OBVIOUS
<1>5. Len(rest) = Len(bytes) - c /\ \A i \in 1 .. Len(bytes) - c : rest[i] = bytes[c + i]
  <2>1. \A i \in c + 1 .. Len(bytes) : bytes[i] \in Nat
    BY <1>4, ElementOfSeq
  <2>2. /\ Len(rest) = IF c + 1 <= Len(bytes) THEN Len(bytes) - (c + 1) + 1 ELSE 0
        /\ \A i \in 1 .. Len(bytes) - (c + 1) + 1 : rest[i] = bytes[c + 1 + i - 1]
    BY <1>4, <2>1, SubSeqProperties
  <2> HIDE DEF rest
  <2>4. Len(rest) = IF c + 1 <= Len(bytes) THEN Len(bytes) - (c + 1) + 1 ELSE 0
    BY <2>2
  <2>5. Len(rest) = Len(bytes) - c
    BY <1>4, <2>4
  <2>3. ASSUME NEW i \in 1 .. Len(bytes) - c PROVE rest[i] = bytes[c + i]
    <3>1. i \in 1 .. Len(bytes) - (c + 1) + 1 /\ c + 1 + i - 1 = c + i
      BY <1>4
    <3> QED
      BY <2>2, <3>1
  <2> QED
    BY <2>3, <2>5
<1>6. p \in [h + 1 .. Len(s) + 1 -> Int] /\ \A k \in h + 1 .. Len(s) + 1 : p[k] = pos[k] - c
  BY <1>1, <1>4
<1> HIDE DEF p, rest
<1>7. p[Len(s) + 1] = Len(rest)
  <2>1. Len(s) + 1 \in h + 1 .. Len(s) + 1
    BY <1>4
  <2> QED
    BY <1>1, <1>5, <1>6, <2>1
<1>8. ASSUME NEW k \in h + 1 .. Len(s)
      PROVE  /\ p[k] <= Len(rest) /\ p[k + 1] = p[k] + Len(s[k])
             /\ \A j \in 1 .. Len(s[k]) : p[k] + j >= 1 => rest[p[k] + j] = s[k][j]
  <2>1. /\ p[k] = pos[k] - c /\ p[k + 1] = pos[k + 1] - c /\ pos[k] \in Int /\ pos[k + 1] \in Int
        /\ pos[k] <= Len(bytes) /\ pos[k + 1] = pos[k] + Len(s[k]) /\ Len(s[k]) \in Nat
    <3>1. s[k] \in Seq(Nat)
      BY <1>4, ElementOfSeq, FrameFacts
    <3>2. k \in h + 1 .. Len(s) + 1 /\ k + 1 \in h + 1 .. Len(s) + 1
      BY <1>4
    <3>3. Len(s[k]) \in Nat
      BY <3>1, LenProperties
    <3>4. p[k] = pos[k] - c /\ p[k + 1] = pos[k + 1] - c
      BY <1>6, <3>2
    <3>5. pos[k] \in Int /\ pos[k + 1] \in Int
      BY <1>1, <3>2
    <3> QED
      BY <1>2, <3>3, <3>4, <3>5
  <2>2. pos[k + 1] <= Len(bytes)
    <3>1. CASE k = Len(s)
      BY <1>1, <1>4, <3>1
    <3>2. CASE k # Len(s)
      <4>1. k + 1 \in h + 1 .. Len(s)
        BY <1>4, <3>2
      <4> QED
        BY <1>2, <4>1
    <3> QED
      BY <3>1, <3>2
  <2>3. ASSUME NEW j \in 1 .. Len(s[k]), p[k] + j >= 1 PROVE rest[p[k] + j] = s[k][j]
    <3>1. pos[k] + j >= 1
      BY <1>4, <2>1, <2>3
    <3>2. bytes[pos[k] + j] = s[k][j]
      BY <1>3, <3>1
    <3>3. pos[k] + j <= Len(bytes) /\ j \in Nat
      <4>1. /\ pos[k] \in Int /\ Len(s[k]) \in Nat /\ Len(bytes) \in Nat
            /\ pos[k] + Len(s[k]) <= Len(bytes) /\ j \in 1 .. Len(s[k])
        BY <1>4, <2>1, <2>2
      <4> QED
        BY <4>1
    <3>4. p[k] = pos[k] - c /\ pos[k] \in Int /\ c \in Nat /\ Len(bytes) \in Nat
      BY <1>4, <2>1
    <3>5. p[k] + j \in 1 .. Len(bytes) - c
      BY <2>3, <3>3, <3>4
    <3>6. c + (p[k] + j) = pos[k] + j
      BY <3>3, <3>4
    <3>7. rest[p[k] + j] = bytes[c + (p[k] + j)]
      BY <1>5, <3>5
    <3> QED
      BY <3>2, <3>6, <3>7
  <2>4. Len(rest) = Len(bytes) - c
    BY <1>5
  <2>5. p[k] <= Len(rest) /\ p[k + 1] = p[k] + Len(s[k])
    <3>1. /\ p[k] = pos[k] - c /\ p[k + 1] = pos[k] + Len(s[k]) - c /\ pos[k] \in Int
          /\ pos[k] <= Len(bytes) /\ Len(s[k]) \in Nat
      BY <2>1
    <3> QED
      BY <1>4, <2>4, <3>1
  <2> QED
    BY <2>3, <2>5
<1>9. Laid(p, rest, h, s)
  BY <1>6, <1>7, <1>8 DEF Laid
<1> QED
  BY <1>6, <1>9 DEF rest

\* The first of the frames is handled.
LEMMA LaidHandled ==
  ASSUME NEW pos, NEW bytes \in Seq(Nat), NEW s \in Seq(Frames), NEW h \in 0 .. Len(s),
         h < Len(s), Laid(pos, bytes, h, s)
  PROVE  \E p : /\ Laid(p, bytes, h + 1, s)
                /\ p[h + 2] = pos[h + 1] + Len(s[h + 1])
<1> DEFINE p == [k \in h + 2 .. Len(s) + 1 |-> pos[k]]
<1>1. Len(s) \in Nat /\ h + 1 + 1 = h + 2
  OBVIOUS
<1>2. /\ pos \in [h + 1 .. Len(s) + 1 -> Int] /\ pos[Len(s) + 1] = Len(bytes)
      /\ \A k \in h + 1 .. Len(s) : pos[k] <= Len(bytes) /\ pos[k + 1] = pos[k] + Len(s[k])
      /\ \A k \in h + 1 .. Len(s) : \A j \in 1 .. Len(s[k]) :
           pos[k] + j >= 1 => bytes[pos[k] + j] = s[k][j]
  BY DEF Laid
<1>3. p \in [h + 2 .. Len(s) + 1 -> Int] /\ \A k \in h + 2 .. Len(s) + 1 : p[k] = pos[k]
  BY <1>1, <1>2
<1> HIDE DEF p
<1>4. p[h + 2] = pos[h + 1] + Len(s[h + 1])
  <2>1. h + 1 \in h + 1 .. Len(s) /\ h + 2 \in h + 2 .. Len(s) + 1
    BY <1>1
  <2>2. pos[h + 1 + 1] = pos[h + 1] + Len(s[h + 1])
    BY <1>2, <2>1
  <2> QED
    BY <1>1, <1>3, <2>1, <2>2
<1>5. p[Len(s) + 1] = Len(bytes)
  BY <1>1, <1>2, <1>3
<1>6. ASSUME NEW k \in h + 2 .. Len(s)
      PROVE  /\ p[k] <= Len(bytes) /\ p[k + 1] = p[k] + Len(s[k])
             /\ \A j \in 1 .. Len(s[k]) : p[k] + j >= 1 => bytes[p[k] + j] = s[k][j]
  <2>1. p[k] = pos[k] /\ p[k + 1] = pos[k + 1] /\ k \in h + 1 .. Len(s)
    BY <1>1, <1>3
  <2> QED
    BY <1>2, <2>1
<1>7. Laid(p, bytes, h + 1, s)
  BY <1>1, <1>3, <1>5, <1>6 DEF Laid
<1> QED
  BY <1>4, <1>7
-----------------------------------------------------------------------------
LEMMA FrameInit == Init => FrameInv
<1> SUFFICES ASSUME Init PROVE FrameInv
  OBVIOUS
<1>1. BytesOK
  BY MapleAssumption DEF Init, BytesOK
<1>2. StreamInv
  <2> DEFINE p == [k \in 0 + 1 .. 0 + 1 |-> 0]
  <2>1. rx \o line = << >> /\ Len(<< >>) = 0 /\ handled = << >> /\ sent = << >> /\ bufI = -1
    BY DEF Init
  <2>2. p[1] = 0 /\ Laid(p, << >>, 0, << >>)
    BY <2>1 DEF Laid
  <2> QED
    BY <2>1, <2>2 DEF StreamInv
<1>3. BufferInv /\ HandledInv
  BY DEF Init, BufferInv, HandledInv
<1> QED
  BY <1>1, <1>2, <1>3 DEF FrameInv

\* Steps that touch neither bytes nor parser.
LEMMA FrameSame ==
  ASSUME FrameInv, UNCHANGED <<line, rx, parser, sent, handled>>
  PROVE  FrameInv'
BY DEF FrameInv, BytesOK, StreamInv, BufferInv, HandledInv, parser

LEMMA FrameSend ==
  ASSUME FrameInv, Send
  PROVE  FrameInv'
<1>1. PICK f \in Frames : sent' = Append(sent, f) /\ line' = line \o f
  BY DEF Send
<1>2. UNCHANGED <<rx, bufI, left, len, buf, handled>>
  BY DEF Send, parser
<1>3. BytesOK /\ f \in Seq(Nat)
  BY FrameFacts DEF FrameInv
<1>4. /\ Len(sent) \in Nat /\ Len(handled) \in Nat /\ Len(sent') = Len(sent) + 1
      /\ \A i \in 1 .. Len(sent) : sent'[i] = sent[i]
  BY <1>1, <1>3 DEF BytesOK
<1>5. BytesOK'
  BY <1>1, <1>2, <1>3 DEF BytesOK
<1>6. StreamInv'
  <2>1. PICK pos : /\ Laid(pos, rx \o line, Len(handled), sent)
                   /\ pos[Len(handled) + 1] = IF bufI = -1 THEN 0 ELSE -(bufI + 1)
    BY DEF FrameInv, StreamInv
  <2>2. rx \o line \in Seq(Nat) /\ Len(handled) \in 0 .. Len(sent)
    BY <1>3, <1>4 DEF BytesOK, FrameInv, HandledInv
  <2>3. \E p : /\ Laid(p, (rx \o line) \o f, Len(handled), Append(sent, f))
               /\ p[Len(handled) + 1] = pos[Len(handled) + 1]
    BY <1>3, <2>1, <2>2, LaidAppend DEF BytesOK
  <2>4. (rx \o line) \o f = rx' \o line'
    <3>1. (rx \o line) \o f = rx \o (line \o f)
      <4>1. rx \in Seq(Nat) /\ line \in Seq(Nat) /\ f \in Seq(Nat)
        BY <1>3 DEF BytesOK
      <4>2. Groups(rx, line, f)
        BY <4>1, Grouped
      <4> QED
        BY <4>2 DEF Groups
    <3> QED
      BY <1>1, <1>2, <3>1
  <2> QED
    BY <1>1, <1>2, <2>1, <2>3, <2>4 DEF StreamInv
<1>7. HandledInv'
  BY <1>2, <1>4 DEF FrameInv, HandledInv
<1>8. BufferInv'
  <2> SUFFICES ASSUME bufI # -1
               PROVE  /\ Len(handled) < Len(sent') /\ len = sent'[Len(handled) + 1][1]
                      /\ bufI \in 0 .. len /\ left = len + 1 - bufI
                      /\ \A i \in 1 .. bufI : buf[i] = sent'[Len(handled) + 1][i + 1]
    BY <1>2 DEF BufferInv
  <2>1. /\ Len(handled) < Len(sent) /\ len = sent[Len(handled) + 1][1]
        /\ bufI \in 0 .. len /\ left = len + 1 - bufI
        /\ \A i \in 1 .. bufI : buf[i] = sent[Len(handled) + 1][i + 1]
    BY DEF FrameInv, BufferInv
  <2>2. sent'[Len(handled) + 1] = sent[Len(handled) + 1]
    BY <1>4, <2>1
  <2> QED
    BY <1>4, <2>1, <2>2
<1> QED
  BY <1>5, <1>6, <1>7, <1>8 DEF FrameInv

LEMMA FrameArrive ==
  ASSUME FrameInv, Arrive
  PROVE  FrameInv'
<1>1. /\ line # << >> /\ rx' = Append(rx, Head(line)) /\ line' = Tail(line)
      /\ UNCHANGED <<bufI, left, len, buf, sent, handled>>
  BY DEF Arrive, parser
<1>2. BytesOK
  BY DEF FrameInv
<1>3. /\ Head(line) \in Nat /\ Tail(line) \in Seq(Nat) /\ line = <<Head(line)>> \o Tail(line)
  BY <1>1, <1>2 DEF BytesOK
<1>4. rx' \o line' = rx \o line
  <2>1. rx' = rx \o <<Head(line)>> /\ <<Head(line)>> \in Seq(Nat)
    BY <1>1, <1>2, <1>3 DEF BytesOK
  <2>2. (rx \o <<Head(line)>>) \o Tail(line) = rx \o (<<Head(line)>> \o Tail(line))
    <3>1. rx \in Seq(Nat) /\ <<Head(line)>> \in Seq(Nat) /\ Tail(line) \in Seq(Nat)
      BY <1>2, <1>3 DEF BytesOK
    <3>2. Groups(rx, <<Head(line)>>, Tail(line))
      BY <3>1, Grouped
    <3> QED
      BY <3>2 DEF Groups
  <2> QED
    BY <1>1, <1>3, <2>1, <2>2
<1>5. BytesOK'
  BY <1>1, <1>2, <1>3 DEF BytesOK
<1>6. StreamInv'
  BY <1>1, <1>4 DEF FrameInv, StreamInv
<1>7. BufferInv' /\ HandledInv'
  BY <1>1 DEF FrameInv, BufferInv, HandledInv
<1> QED
  BY <1>5, <1>6, <1>7 DEF FrameInv
-----------------------------------------------------------------------------
\* command_process: the names of Take.
Fresh == bufI = -1
Bytes == IF Fresh THEN Tail(rx) ELSE rx
Size == IF Fresh THEN Head(rx) ELSE len
Rest == IF Fresh THEN Size + 1 ELSE left
At == IF Fresh THEN 0 ELSE bufI
Count == Wanted(Len(Bytes), Rest)
NewBuf == Filled(Bytes, At, Count)

LEMMA TakeSteps ==
  ASSUME Take
  PROVE  /\ rx # << >> /\ rx' = SubSeq(Bytes, Count + 1, Len(Bytes))
         /\ buf' = NewBuf /\ left' = Rest - Count /\ len' = Size
         /\ IF Rest = Count
            THEN bufI' = -1 /\ handled' = Append(handled, <<Size>> \o SubSeq(NewBuf, 1, Size + 1))
            ELSE bufI' = At + Count /\ handled' = handled
         /\ UNCHANGED <<line, sent>>
BY DEF Take, Fresh, Bytes, Size, Rest, At, Count, NewBuf

\* The frame being taken is the first one not handled; what is in the receive buffer goes
\* on with it.
LEMMA TakeFrame ==
  ASSUME FrameInv, Take
  PROVE  /\ Len(handled) \in Nat /\ Len(sent) \in Nat /\ Len(handled) < Len(sent)
         /\ sent[Len(handled) + 1] \in Frames
         /\ Bytes \in Seq(Nat) /\ Len(Bytes) \in Nat
         /\ Size = sent[Len(handled) + 1][1] /\ Size \in Nat /\ Size + 1 <= BufLen /\ BufLen \in Nat
         /\ At \in 0 .. Size /\ Rest = Size + 1 - At
         /\ Count \in Nat /\ Count <= Rest /\ Count <= Len(Bytes)
         /\ \A i \in 1 .. At : buf[i] = sent[Len(handled) + 1][i + 1]
         /\ \A i \in 1 .. Count : Bytes[i] = sent[Len(handled) + 1][At + i + 1]
<1> DEFINE h == Len(handled)
           f == sent[h + 1]
           all == rx \o line
<1>1. BytesOK /\ rx # << >>
  BY TakeSteps DEF FrameInv
<1>2. /\ h \in Nat /\ Len(sent) \in Nat /\ h <= Len(sent) /\ Len(rx) \in Nat \ {0}
      /\ Len(line) \in Nat /\ all \in Seq(Nat) /\ Len(all) = Len(rx) + Len(line)
  BY <1>1 DEF FrameInv, HandledInv, BytesOK
<1>3. \A i \in 1 .. Len(rx) : all[i] = rx[i] /\ rx[i] \in Nat
  BY <1>1, <1>2, ConcatProperties, ElementOfSeq DEF BytesOK
<1>4. PICK pos : /\ Laid(pos, all, h, sent)
                 /\ pos[h + 1] = IF Fresh THEN 0 ELSE -(bufI + 1)
  BY DEF FrameInv, StreamInv, Fresh
<1> HIDE DEF h, all
<1>5. h < Len(sent)
  <2>1. CASE ~Fresh
    BY <2>1 DEF FrameInv, BufferInv, Fresh, h
  <2>2. CASE Fresh
    <3>1. pos[h + 1] = 0 /\ pos[Len(sent) + 1] = Len(all) /\ Len(all) # 0
      BY <1>2, <1>4, <2>2 DEF Laid
    <3> QED
      BY <1>2, <3>1
  <2> QED
    BY <2>1, <2>2
<1>6. f \in Frames /\ f[1] \in Nat /\ Len(f) = f[1] + 2 /\ f[1] < BufLen /\ BufLen \in Nat
  <2>1. f \in Frames
    BY <1>1, <1>2, <1>5, ElementOfSeq DEF BytesOK
  <2> QED
    BY <2>1, FrameFacts
<1>7. \A j \in 1 .. Len(f) : pos[h + 1] + j >= 1 => all[pos[h + 1] + j] = f[j]
  <2>1. h + 1 \in h + 1 .. Len(sent)
    BY <1>2, <1>5
  <2> QED
    BY <1>4, <2>1 DEF Laid
<1> HIDE DEF f
<1>8. Size = f[1]
  <2>1. CASE Fresh
    <3>1. pos[h + 1] = 0 /\ 1 \in 1 .. Len(f)
      BY <1>4, <1>6, <2>1
    <3>2. all[1] = f[1]
      BY <1>7, <3>1
    <3>3. Head(rx) = rx[1]
      BY <1>1
    <3> QED
      BY <1>2, <1>3, <2>1, <3>2, <3>3 DEF Size
  <2>2. CASE ~Fresh
    BY <2>2 DEF Size, FrameInv, BufferInv, Fresh, f, h
  <2> QED
    BY <2>1, <2>2
<1>9. At \in 0 .. Size /\ Rest = Size + 1 - At /\ \A i \in 1 .. At : buf[i] = f[i + 1]
  <2>1. CASE Fresh
    BY <1>6, <1>8, <2>1 DEF At, Rest
  <2>2. CASE ~Fresh
    BY <2>2 DEF At, Rest, Size, FrameInv, BufferInv, Fresh, f, h
  <2> QED
    BY <2>1, <2>2
<1>10. Bytes \in Seq(Nat) /\ Len(Bytes) \in Nat
  BY <1>1 DEF Bytes, BytesOK
<1>11. Count \in Nat /\ Count <= Rest /\ Count <= Len(Bytes)
  <2>1. Rest \in Nat /\ Len(Bytes) \in Nat
    BY <1>6, <1>8, <1>9, <1>10
  <2>2. Count = Wanted(Len(Bytes), Rest)
    BY DEF Count
  <2> QED
    BY <2>1, <2>2 DEF Wanted
<1>12. ASSUME NEW i \in 1 .. Count PROVE Bytes[i] = f[At + i + 1]
  <2>1. At + i + 1 \in 1 .. Len(f) /\ i \in 1 .. Len(Bytes) /\ i \in Nat \ {0}
    <3>1. /\ Size \in Nat /\ At \in 0 .. Size /\ Len(f) = Size + 2 /\ Rest = Size + 1 - At
      BY <1>6, <1>8, <1>9
    <3>2. i \in Nat \ {0} /\ i <= Rest /\ i <= Len(Bytes)
      <4>1. Rest \in Nat
        BY <3>1
      <4> QED
        BY <1>10, <1>11, <4>1
    <3> QED
      BY <1>10, <3>1, <3>2
  <2>2. CASE Fresh
    <3>1. pos[h + 1] = 0 /\ At = 0 /\ Bytes = Tail(rx)
      BY <1>4, <2>2 DEF At, Bytes
    <3>2. all[i + 1] = f[i + 1]
      BY <1>7, <2>1, <3>1
    <3>3. Tail(rx)[i] = rx[i + 1] /\ i + 1 \in 1 .. Len(rx)
      BY <1>1, <1>2, <2>1, <3>1, HeadTailProperties DEF BytesOK
    <3>4. Bytes[i] = f[i + 1]
      BY <1>3, <3>1, <3>2, <3>3
    <3> QED
      BY <2>1, <3>1, <3>4
  <2>3. CASE ~Fresh
    <3>1. pos[h + 1] = -(At + 1) /\ Bytes = rx /\ At \in Nat
      BY <1>4, <1>9, <2>3 DEF At, Bytes
    <3>2. pos[h + 1] + (At + i + 1) = i
      BY <2>1, <3>1
    <3>3. all[i] = f[At + i + 1]
      BY <1>7, <2>1, <3>2
    <3> QED
      BY <1>3, <2>1, <3>1, <3>3
  <2> QED
    BY <2>2, <2>3
<1>13. Size \in Nat /\ Size + 1 <= BufLen
  BY <1>6, <1>8
<1> QED
  BY <1>2, <1>5, <1>6, <1>8, <1>9, <1>10, <1>11, <1>12, <1>13 DEF f, h

\* The bytes taken are the first ones there, and the length if the frame is new.
LEMMA TakeBytes ==
  ASSUME FrameInv, Take
  PROVE  LET all == rx \o line
             c == Count + (IF Fresh THEN 1 ELSE 0)
         IN /\ c \in 0 .. Len(all) /\ all \in Seq(Nat)
            /\ rx' \o line' = SubSeq(all, c + 1, Len(all)) /\ rx' \in Seq(Nat)
<1> DEFINE all == rx \o line
           d == IF Fresh THEN 1 ELSE 0
           c == Count + d
           rest == SubSeq(all, c + 1, Len(all))
<1>1. rx \in Seq(Nat) /\ line \in Seq(Nat) /\ rx # << >> /\ line' = line
  BY TakeSteps DEF FrameInv, BytesOK
<1>2. /\ Len(rx) \in Nat \ {0} /\ Len(line) \in Nat /\ d \in {0, 1}
      /\ all \in Seq(Nat) /\ Len(all) = Len(rx) + Len(line)
      /\ \A i \in 1 .. Len(rx) + Len(line) :
           all[i] = IF i <= Len(rx) THEN rx[i] ELSE line[i - Len(rx)]
  BY <1>1, ConcatProperties
<1>3. /\ Bytes \in Seq(Nat) /\ Len(Bytes) = Len(rx) - d
      /\ \A i \in 1 .. Len(Bytes) : Bytes[i] = rx[i + d]
  <2>1. CASE Fresh
    BY <1>1, <2>1, HeadTailProperties DEF Bytes
  <2>2. CASE ~Fresh
    BY <1>1, <2>2 DEF Bytes
  <2> QED
    BY <2>1, <2>2
<1>4. Count \in Nat /\ Count <= Len(Bytes)
  BY TakeFrame
<1> HIDE DEF all, d
<1>5. c \in 0 .. Len(all) /\ c \in Nat
  BY <1>2, <1>3, <1>4
<1>6. /\ rx' \in Seq(Nat) /\ Len(rx') = Len(Bytes) - Count
      /\ \A i \in 1 .. Len(Bytes) - Count : rx'[i] = Bytes[Count + i]
  <2>1. rx' = SubSeq(Bytes, Count + 1, Len(Bytes))
    BY TakeSteps
  <2>2. \A i \in Count + 1 .. Len(Bytes) : Bytes[i] \in Nat
    BY <1>3, <1>4, ElementOfSeq
  <2>3. Count + 1 \in Int /\ Len(Bytes) \in Int
    BY <1>3, <1>4
  <2>4. /\ rx' \in Seq(Nat)
        /\ Len(rx') = IF Count + 1 <= Len(Bytes) THEN Len(Bytes) - (Count + 1) + 1 ELSE 0
        /\ \A i \in 1 .. Len(Bytes) - (Count + 1) + 1 : rx'[i] = Bytes[Count + 1 + i - 1]
    BY <2>1, <2>2, <2>3, SubSeqProperties
  <2>5. ASSUME NEW i \in 1 .. Len(Bytes) - Count PROVE rx'[i] = Bytes[Count + i]
    <3>1. i \in 1 .. Len(Bytes) - (Count + 1) + 1 /\ Count + 1 + i - 1 = Count + i
      BY <1>4, <2>3
    <3> QED
      BY <2>4, <3>1
  <2> QED
    BY <1>4, <2>3, <2>4, <2>5
<1>7. /\ rest \in Seq(Nat) /\ Len(rest) = Len(all) - c
      /\ \A i \in 1 .. Len(all) - c : rest[i] = all[c + i]
  <2>1. \A i \in c + 1 .. Len(all) : all[i] \in Nat
    BY <1>2, <1>5, ElementOfSeq
  <2>2. c + 1 \in Int /\ Len(all) \in Int
    BY <1>2, <1>5
  <2>3. /\ rest \in Seq(Nat)
        /\ Len(rest) = IF c + 1 <= Len(all) THEN Len(all) - (c + 1) + 1 ELSE 0
        /\ \A i \in 1 .. Len(all) - (c + 1) + 1 : rest[i] = all[c + 1 + i - 1]
    BY <2>1, <2>2, SubSeqProperties
  <2> HIDE DEF rest, c
  <2>4. ASSUME NEW i \in 1 .. Len(all) - c PROVE rest[i] = all[c + i]
    <3>1. i \in 1 .. Len(all) - (c + 1) + 1 /\ c + 1 + i - 1 = c + i
      BY <1>5, <2>2
    <3> QED
      BY <2>3, <3>1
  <2> QED
    BY <1>5, <2>2, <2>3, <2>4
<1> DEFINE now == rx' \o line'
<1>8. /\ now \in Seq(Nat) /\ Len(now) = Len(rx') + Len(line)
      /\ \A i \in 1 .. Len(rx') + Len(line) :
           now[i] = IF i <= Len(rx') THEN rx'[i] ELSE line[i - Len(rx')]
  BY <1>1, <1>6, ConcatProperties
<1> HIDE DEF rest, now
<1>9. Len(now) = Len(rest)
  BY <1>2, <1>3, <1>4, <1>6, <1>7, <1>8
<1>10. ASSUME NEW i \in 1 .. Len(now) PROVE now[i] = rest[i]
  <2>1. i \in 1 .. Len(all) - c /\ c + i \in 1 .. Len(rx) + Len(line) /\ i \in Nat
    <3>1. Len(all) = Len(rx) + Len(line) /\ Len(rx) \in Nat /\ Len(line) \in Nat /\ c \in Nat
      BY <1>2, <1>5
    <3>2. Len(now) = Len(all) - c
      BY <1>7, <1>9
    <3> HIDE DEF c
    <3> QED
      BY <3>1, <3>2
  <2>2. rest[i] = all[c + i]
    BY <1>7, <2>1
  <2>3. CASE i <= Len(rx')
    <3>1. i \in 1 .. Len(Bytes) - Count /\ Count + i \in 1 .. Len(Bytes)
      BY <1>3, <1>4, <1>6, <2>1, <2>3
    <3>2. now[i] = Bytes[Count + i] /\ Bytes[Count + i] = rx[Count + i + d]
      BY <1>3, <1>6, <1>8, <2>3, <3>1
    <3>3. c + i <= Len(rx) /\ Count + i + d = c + i
      BY <1>2, <1>3, <1>4, <3>1
    <3>4. all[c + i] = rx[c + i]
      BY <1>2, <2>1, <3>3
    <3> QED
      BY <2>2, <3>2, <3>3, <3>4
  <2>4. CASE ~(i <= Len(rx'))
    <3>1. now[i] = line[i - Len(rx')]
      BY <1>8, <2>4
    <3>2. PICK j \in 1 .. Len(rx) + Len(line) : j = c + i
      BY <2>1
    <3>3. ~(j <= Len(rx)) /\ j - Len(rx) = i - Len(rx')
      BY <1>2, <1>3, <1>4, <1>6, <2>1, <2>4, <3>2
    <3>4. all[j] = line[j - Len(rx)]
      BY <1>2, <3>3
    <3>5. rest[i] = all[j]
      BY <2>2, <3>2
    <3> QED
      BY <3>1, <3>3, <3>4, <3>5
  <2> QED
    BY <2>3, <2>4
<1>11. now = rest
  BY <1>7, <1>8, <1>9, <1>10, SeqEqual
<1> QED
  BY <1>2, <1>5, <1>6, <1>11 DEF all, d, rest, now

\* cmd_buf afterwards.
LEMMA TakeBuffer ==
  ASSUME FrameInv, Take
  PROVE  /\ NewBuf \in [1 .. BufLen -> Nat] /\ At + Count <= Size + 1
         /\ \A i \in 1 .. At + Count : NewBuf[i] = sent[Len(handled) + 1][i + 1]
<1> DEFINE f == sent[Len(handled) + 1]
<1>1. /\ Size \in Nat /\ Size + 1 <= BufLen /\ BufLen \in Nat
      /\ At \in 0 .. Size /\ Rest = Size + 1 - At
      /\ Count \in Nat /\ Count <= Rest /\ Count <= Len(Bytes)
      /\ Bytes \in Seq(Nat) /\ Len(Bytes) \in Nat
  BY TakeFrame
<1>2. /\ \A i \in 1 .. At : buf[i] = f[i + 1]
      /\ \A i \in 1 .. Count : Bytes[i] = f[At + i + 1]
  BY TakeFrame
<1> HIDE DEF f
<1>3. buf \in [1 .. BufLen -> Nat]
  BY DEF FrameInv, BytesOK
<1>4. NewBuf = [i \in 1 .. BufLen |-> IF i \in At + 1 .. At + Count THEN Bytes[i - At] ELSE buf[i]]
  BY <1>3 DEF NewBuf, Filled
<1>5. ASSUME NEW i \in 1 .. BufLen
      PROVE  (IF i \in At + 1 .. At + Count THEN Bytes[i - At] ELSE buf[i]) \in Nat
  <2>1. CASE i \in At + 1 .. At + Count
    <3>1. i - At \in 1 .. Len(Bytes)
      BY <1>1, <2>1
    <3> QED
      BY <1>1, <2>1, <3>1, ElementOfSeq
  <2>2. CASE i \notin At + 1 .. At + Count
    BY <1>3, <2>2
  <2> QED
    BY <2>1, <2>2
<1>6. NewBuf \in [1 .. BufLen -> Nat]
  BY <1>4, <1>5
<1>7. ASSUME NEW i \in 1 .. At + Count PROVE NewBuf[i] = f[i + 1]
  <2>1. i \in 1 .. BufLen
    BY <1>1
  <2>2. CASE i \in At + 1 .. At + Count
    <3>1. i - At \in 1 .. Count /\ At + (i - At) + 1 = i + 1
      BY <1>1, <2>2
    <3>2. NewBuf[i] = Bytes[i - At]
      BY <1>4, <2>1, <2>2
    <3> QED
      BY <1>2, <3>1, <3>2
  <2>3. CASE i \notin At + 1 .. At + Count
    <3>1. i \in 1 .. At
      BY <1>1, <2>3
    <3> QED
      BY <1>2, <1>4, <2>1, <2>3, <3>1
  <2> QED
    BY <2>2, <2>3
<1>8. At + Count <= Size + 1
  BY <1>1
<1> QED
  BY <1>6, <1>7, <1>8 DEF f

\* The parser stands in the middle of the frame, or behind it and has handled it.
LEMMA FrameTake ==
  ASSUME FrameInv, Take
  PROVE  FrameInv'
<1> DEFINE h == Len(handled)
           f == sent[h + 1]
           all == rx \o line
           d == IF Fresh THEN 1 ELSE 0
           c == Count + d
           e == <<Size>> \o SubSeq(NewBuf, 1, Size + 1)
<1>1. BytesOK
  BY DEF FrameInv
<1>2. /\ buf' = NewBuf /\ left' = Rest - Count /\ len' = Size
      /\ Rest = Count => bufI' = -1 /\ handled' = Append(handled, e)
      /\ Rest # Count => bufI' = At + Count /\ handled' = handled
      /\ line' = line /\ sent' = sent
  BY TakeSteps
<1>3. /\ h \in Nat /\ Len(sent) \in Nat /\ h < Len(sent)
      /\ Size = f[1] /\ Size \in Nat /\ Size + 1 <= BufLen
      /\ At \in 0 .. Size /\ Rest = Size + 1 - At
      /\ Count \in Nat /\ Count <= Rest
  BY TakeFrame
<1>4. /\ NewBuf \in [1 .. BufLen -> Nat]
      /\ \A i \in 1 .. At + Count : NewBuf[i] = f[i + 1]
  BY TakeBuffer
<1>5. f \in Frames /\ f \in Seq(Nat) /\ Len(f) = Size + 2 /\ BufLen \in Nat
  BY <1>3, TakeFrame, FrameFacts
<1>6. /\ c \in 0 .. Len(all) /\ all \in Seq(Nat)
      /\ rx' \o line' = SubSeq(all, c + 1, Len(all)) /\ rx' \in Seq(Nat)
  BY TakeBytes
<1>7. PICK pos : /\ Laid(pos, all, h, sent)
                 /\ pos[h + 1] = IF Fresh THEN 0 ELSE -(bufI + 1)
  BY DEF FrameInv, StreamInv, Fresh
<1>8. pos[h + 1] - c = -(At + Count + 1) /\ pos[h + 1] \in Int
  <2>1. bufI \in Int
    BY <1>1 DEF BytesOK
  <2> QED
    BY <1>3, <1>7, <2>1 DEF At
<1>9. d \in {0, 1} /\ c \in Nat
  BY <1>3
<1> HIDE DEF h, f, all, d, c, e
<1>10. sent \in Seq(Frames) /\ h \in 0 .. Len(sent)
  BY <1>1, <1>3 DEF BytesOK
<1>11. PICK p : /\ Laid(p, rx' \o line', h, sent)
                /\ p[h + 1] = -(At + Count + 1)
  <2>1. PICK p : /\ Laid(p, SubSeq(all, c + 1, Len(all)), h, sent)
                 /\ \A k \in h + 1 .. Len(sent) + 1 : p[k] = pos[k] - c
    BY <1>6, <1>7, <1>10, LaidTaken
  <2>2. p[h + 1] = pos[h + 1] - c
    BY <1>3, <2>1
  <2> QED
    BY <1>6, <1>8, <2>1, <2>2
<1>12. /\ Size \in Nat /\ At \in Nat /\ At <= Size /\ Rest = Size + 1 - At
       /\ Count \in Nat /\ Count <= Rest
  BY <1>3
<1>13. rx' \in Seq(Nat) /\ line' \in Seq(Nat) /\ sent' \in Seq(Frames)
  BY <1>1, <1>2, <1>6 DEF BytesOK
<1>14. len' \in Nat /\ left' \in Nat /\ buf' \in [1 .. BufLen -> Nat]
  <2>1. Rest - Count \in Nat
    BY <1>12
  <2> QED
    BY <1>2, <1>4, <1>12, <2>1
<1>15. CASE Rest # Count
  <2>1. bufI' = At + Count /\ handled' = handled
    BY <1>2, <1>15
  <2>2. bufI' = At + Count /\ handled' = handled /\ bufI' \in 0 .. Size /\ bufI' # -1
    BY <1>15, <1>12, <2>1
  <2>3. BytesOK'
    BY <1>1, <1>13, <1>14, <2>2 DEF BytesOK
  <2>4. StreamInv'
    BY <1>2, <1>11, <2>2 DEF StreamInv, h
  <2>5. /\ Len(handled') < Len(sent') /\ len' = sent'[Len(handled') + 1][1]
        /\ bufI' \in 0 .. len' /\ left' = len' + 1 - bufI'
    <3>1. Len(handled') < Len(sent') /\ len' = sent'[Len(handled') + 1][1]
      BY <1>2, <1>3, <2>2 DEF h, f
    <3>2. left' = len' + 1 - bufI'
      BY <1>2, <1>12, <2>2
    <3> QED
      BY <1>2, <2>2, <3>1, <3>2
  <2>6. \A i \in 1 .. bufI' : buf'[i] = sent'[Len(handled') + 1][i + 1]
    BY <1>2, <1>4, <2>2 DEF h, f
  <2>7. HandledInv'
    BY <1>2, <2>2 DEF FrameInv, HandledInv
  <2>8. BufferInv'
    BY <2>5, <2>6 DEF BufferInv
  <2> QED
    BY <2>3, <2>4, <2>7, <2>8 DEF FrameInv
<1>16. CASE Rest = Count
  <2>1. bufI' = -1 /\ handled' = Append(handled, e)
    BY <1>2, <1>16
  <2>2. bufI' = -1 /\ handled' = Append(handled, e) /\ At + Count = Size + 1
    BY <1>16, <1>12, <2>1
  <2>3. e = f
    <3> DEFINE tail == SubSeq(NewBuf, 1, Size + 1)
    <3>1. tail \in Seq(Nat) /\ Len(tail) = Size + 1 /\ \A i \in 1 .. Size + 1 : tail[i] = f[i + 1]
      <4>1. Size + 1 \in Nat /\ \A i \in 1 .. Size + 1 : i \in 1 .. BufLen /\ i \in 1 .. At + Count
        <5>1. Size \in Nat /\ BufLen \in Nat /\ Size + 1 <= BufLen /\ At + Count = Size + 1
          BY <1>3, <1>5, <2>2
        <5> QED
          BY <5>1
      <4>2. \A i \in 1 .. Size + 1 : NewBuf[i] \in Nat
        <5>1. NewBuf \in [1 .. BufLen -> Nat]
          BY <1>4
        <5> QED
          BY <4>1, <5>1
      <4>3. /\ tail \in Seq(Nat) /\ Len(tail) = Size + 1
            /\ \A i \in 1 .. Size + 1 : tail[i] = NewBuf[i]
        BY <4>1, <4>2, FirstOf
      <4> HIDE DEF tail
      <4> QED
        BY <1>4, <4>1, <4>3
    <3> HIDE DEF tail
    <3>2. /\ <<Size>> \o tail \in Seq(Nat) /\ Len(<<Size>> \o tail) = Size + 2
          /\ (<<Size>> \o tail)[1] = Size
          /\ \A i \in 1 .. Size + 1 : (<<Size>> \o tail)[i + 1] = tail[i]
      <4>1. Size \in Nat /\ tail \in Seq(Nat) /\ Len(tail) = Size + 1
        BY <1>3, <3>1
      <4> QED
        BY <4>1, Prepended
    <3>3. ASSUME NEW i \in 1 .. Size + 2 PROVE (<<Size>> \o tail)[i] = f[i]
      <4>1. CASE i = 1
        BY <1>3, <3>2, <4>1
      <4>2. CASE i # 1
        <5>1. PICK n \in 1 .. Size + 1 : n + 1 = i
          <6>1. i - 1 \in 1 .. Size + 1 /\ i - 1 + 1 = i
            BY <1>3, <4>2
          <6> QED
            BY <6>1
        <5> QED
          BY <3>1, <3>2, <5>1
      <4> QED
        BY <4>1, <4>2
    <3>4. <<Size>> \o tail = f
      BY <1>5, <3>2, <3>3, SeqEqual
    <3> QED
      BY <3>4 DEF e, tail
  <2>4. /\ Len(handled') = h + 1
        /\ \A i \in 1 .. h : handled'[i] = handled[i]
        /\ handled'[h + 1] = f /\ handled' \in Seq(Seq(Nat))
    BY <1>1, <1>5, <2>2, <2>3 DEF BytesOK, h
  <2>5. BytesOK'
    BY <1>13, <1>14, <2>2, <2>4 DEF BytesOK
  <2>6. StreamInv'
    <3>1. rx' \o line' \in Seq(Nat)
      BY <1>13, ConcatProperties
    <3>2. PICK q : Laid(q, rx' \o line', h + 1, sent) /\ q[h + 2] = p[h + 1] + Len(sent[h + 1])
      BY <1>3, <1>10, <1>11, <3>1, LaidHandled
    <3>3. q[h + 2] = 0 /\ h + 1 + 1 = h + 2
      <4>1. Len(sent[h + 1]) = Size + 2
        BY <1>5 DEF f
      <4>2. p[h + 1] = -(Size + 2)
        BY <1>11, <1>12, <2>2
      <4> QED
        BY <1>3, <1>12, <3>2, <4>1, <4>2
    <3> QED
      BY <1>2, <2>2, <2>4, <3>2, <3>3 DEF StreamInv
  <2>7. HandledInv'
    <3>1. \A i \in 1 .. h : handled[i] = sent[i]
      BY DEF FrameInv, HandledInv, h
    <3>2. ASSUME NEW i \in 1 .. h + 1 PROVE handled'[i] = sent[i]
      <4>1. CASE i = h + 1
        BY <2>4, <4>1 DEF f
      <4>2. CASE i # h + 1
        <5>1. i \in 1 .. h
          BY <1>3, <4>2
        <5> QED
          BY <2>4, <3>1, <5>1
      <4> QED
        BY <4>1, <4>2
    <3>3. Len(handled') <= Len(sent)
      BY <1>3, <2>4
    <3> QED
      BY <1>2, <2>4, <3>2, <3>3 DEF HandledInv
  <2>8. BufferInv'
    BY <2>2 DEF BufferInv
  <2> QED
    BY <2>5, <2>6, <2>7, <2>8 DEF FrameInv
<1> QED
  BY <1>15, <1>16

LEMMA FrameStep ==
  ASSUME FrameInv, [Next]_vars
  PROVE  FrameInv'
<1>1. CASE Timer \/ Idle \/ Reset \/ CopyData \/ CopyAngles \/ Telemetry \/ UNCHANGED vars
  <2>1. UNCHANGED <<line, rx, parser, sent, handled>>
    BY <1>1 DEF Timer, Idle, Reset, CopyData, CopyAngles, Telemetry, vars
  <2> QED
    BY <2>1, FrameSame
<1> QED
  BY <1>1, FrameSend, FrameArrive, FrameTake DEF Next, Main

\* command_process: the handlers get the frames of the host, whole, in order and once,
\* whatever the frames are and however the bytes trickle in.
THEOREM FramesArriveWhole == Spec => []FramesKept
<1>1. ASSUME FrameInv PROVE FramesKept
  <2>1. /\ Len(handled) \in Nat /\ Len(sent) \in Nat /\ Len(handled) <= Len(sent)
        /\ \A i \in 1 .. Len(handled) : handled[i] = sent[i] /\ sent[i] \in Frames
    BY <1>1, ElementOfSeq DEF FrameInv, BytesOK, HandledInv
  <2> DEFINE a == SubSeq(handled, 1, Len(handled))
             b == SubSeq(sent, 1, Len(handled))
  <2>2. /\ a \in Seq(Frames) /\ Len(a) = (IF 1 <= Len(handled) THEN Len(handled) - 1 + 1 ELSE 0)
        /\ \A i \in 1 .. Len(handled) - 1 + 1 : a[i] = handled[1 + i - 1]
    BY <2>1, SubSeqProperties
  <2>3. /\ b \in Seq(Frames) /\ Len(b) = (IF 1 <= Len(handled) THEN Len(handled) - 1 + 1 ELSE 0)
        /\ \A i \in 1 .. Len(handled) - 1 + 1 : b[i] = sent[1 + i - 1]
    BY <2>1, SubSeqProperties
  <2> HIDE DEF a, b
  <2>4. ASSUME NEW i \in 1 .. Len(a) PROVE a[i] = b[i]
    <3>1. i \in 1 .. Len(handled) /\ i \in 1 .. Len(handled) - 1 + 1 /\ 1 + i - 1 = i
      BY <2>1, <2>2
    <3> QED
      BY <2>1, <2>2, <2>3, <3>1
  <2>5. a = b
    BY <2>2, <2>3, <2>4, SeqEqual
  <2> QED
    BY <2>1, <2>5 DEF FramesKept, IsPrefix, a, b
<1> QED
  BY FrameInit, FrameStep, <1>1, PTL DEF Spec
-----------------------------------------------------------------------------
\* The types.

ParserOK == bufI \in -1 .. BufLen /\ left \in Nat /\ len \in Nat

LEMMA ParserTypes == FrameInv => ParserOK
<1> SUFFICES ASSUME FrameInv PROVE ParserOK
  OBVIOUS
<1>1. bufI \in Int /\ left \in Nat /\ len \in Nat /\ BufLen \in Nat
  BY MapleAssumption DEF FrameInv, BytesOK
<1>2. CASE bufI # -1
  <2>1. sent[Len(handled) + 1] \in Frames
    BY <1>2, ElementOfSeq DEF FrameInv, BufferInv, BytesOK
  <2>2. len < BufLen /\ bufI \in 0 .. len
    BY <1>2, <2>1, FrameFacts DEF FrameInv, BufferInv
  <2> QED
    BY <1>1, <2>2 DEF ParserOK
<1> QED
  BY <1>1, <1>2 DEF ParserOK

LEMMA TypeInit == Init => TypeOK
<1>1. None \in Data /\ 0 \in 0 .. Stamps - 1 /\ -1 \in -1 .. BufLen
  BY MapleAssumption DEF None, Data
<1>2. ASSUME Init
      PROVE  /\ pc = "process" /\ masked \in BOOLEAN /\ connected \in BOOLEAN
             /\ {sd, angles, localSd, lAngles} \subseteq Data
  BY <1>1, <1>2 DEF Init
<1>3. ASSUME Init
      PROVE  /\ magCounter \in 0 .. 7 /\ clock \in 0 .. Stamps - 1
             /\ bufI \in -1 .. BufLen /\ left \in Nat /\ len \in Nat
  BY <1>1, <1>3 DEF Init
<1> QED
  BY <1>2, <1>3 DEF TypeOK

LEMMA TypeStep ==
  ASSUME TypeOK, ParserOK', [Next]_vars
  PROVE  TypeOK'
<1>1. bufI' \in -1 .. BufLen /\ left' \in Nat /\ len' \in Nat
  BY DEF ParserOK
<1>2. CASE Timer
  <2>1. clock' \in 0 .. Stamps - 1 /\ magCounter' \in 0 .. 7
    BY <1>2, MapleAssumption DEF Timer, TypeOK
  <2>2. sd' \in Data
    <3>1. PICK failed : sd' = Read(failed, clock')
      BY <1>2 DEF Timer
    <3>2. sd.gyro \in 0 .. Stamps - 1 /\ sd.accel \in 0 .. Stamps - 1 /\ sd.mag \in 0 .. Stamps - 1
      BY DEF TypeOK, Data
    <3> QED
      BY <2>1, <3>1, <3>2 DEF Read, Data
  <2>3. angles' = sd' /\ UNCHANGED <<pc, masked, localSd, lAngles, connected>>
    BY <1>2 DEF Timer, locals
  <2> QED
    BY <1>1, <2>1, <2>2, <2>3 DEF TypeOK
<1>3. CASE Take
  <2>1. UNCHANGED <<sd, angles, localSd, lAngles, magCounter, clock>>
    BY <1>3 DEF Take, shared, locals
  <2>2. connected' \in BOOLEAN /\ masked' \in BOOLEAN
    BY <1>3 DEF Take, TypeOK, Mask
  <2>3. pc' \in {"process", "gains", "copy", "copying", "send"}
    BY <1>3 DEF Take, Go
  <2> QED
    BY <1>1, <2>1, <2>2, <2>3 DEF TypeOK
<1>4. CASE Send \/ Arrive \/ Idle \/ Reset \/ CopyData \/ CopyAngles \/ Telemetry \/ UNCHANGED vars
  <2>1. None \in Data
    BY MapleAssumption DEF None, Data
  <2> QED
    BY <1>1, <1>4, <2>1 DEF Send, Arrive, Idle, Reset, CopyData, CopyAngles, Telemetry, vars,
         TypeOK, Go, Mask, shared, locals, estimator
<1> QED
  BY <1>2, <1>3, <1>4 DEF Next, Main

\* quadcopter.c, command.c: the index into cmd_buf stays inside it, and the stamps and the
\* counter of the magnetometer in their ranges.
THEOREM TypeCorrect == Spec => []TypeOK
BY FrameInit, FrameStep, ParserTypes, TypeInit, TypeStep, PTL DEF Spec
=============================================================================
