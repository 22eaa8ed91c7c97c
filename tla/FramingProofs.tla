---------------------------- MODULE FramingProofs ----------------------------
(***************************************************************************)
(* Proofs about the two byte streams of the system, for frames of any kind *)
(* and any cut of the streams: CommandLink, between the host programs and  *)
(* the firmware, and Talk, between the ground station and the quadcopter.  *)
(*                                                                         *)
(* Both are the same argument: what the receiver has taken, what it holds  *)
(* and what is under way are together the bytes of the frames sent, in     *)
(* order.  So what stands at the front is the next frame, its length byte  *)
(* says where it ends, and cutting it off leaves the rest of the stream.   *)
(* The first part is about such streams: FlattenSeq, the bytes of a        *)
(* sequence of frames, is defined by recursion, and what it does to a      *)
(* sequence of any length is shown by induction (SetInduction).            *)
(***************************************************************************)
EXTENDS CommandLink, Talk, SequenceTheorems, FiniteSetTheorems, TLAPS

\* Induction over the naturals, for a set S instead of a predicate: were n not in S, adding
\* 1 would map the members of S up to n into themselves without 0, a smaller set.
LEMMA SetInduction ==
  ASSUME NEW S \in SUBSET Nat, 0 \in S, \A n \in S : n + 1 \in S
  PROVE  \A n \in Nat : n \in S
<1> SUFFICES ASSUME NEW n \in Nat, n \notin S PROVE FALSE
  OBVIOUS
<1> DEFINE A == (0 .. n) \cap S
           f == [k \in A |-> k + 1]
<1>1. IsFiniteSet(A)
  <2>1. IsFiniteSet(0 .. n)
    BY FS_Interval
  <2> QED BY <2>1, FS_Intersection
<1>2. 0 \in A
  OBVIOUS
<1>3. \A k \in A : k + 1 \in A \ {0}
  OBVIOUS
<1>4. f \in Injection(A, A \ {0})
  BY <1>3 DEF Injection, IsInjective
<1>5. /\ IsFiniteSet(A \ {0})
      /\ Cardinality(A \ {0}) = Cardinality(A) - 1
      /\ Cardinality(A) \in Nat
  BY <1>1, <1>2, FS_RemoveElement, FS_CardinalityType
<1>6. Cardinality(A) <= Cardinality(A \ {0})
  <2> HIDE DEF A, f
  <2> QED BY <1>4, <1>5, FS_Injection
<1> QED
  <2> HIDE DEF A, f
  <2> QED BY <1>5, <1>6

\* g holds the first n partial concatenations of s: what FlattenSeq computes.
IsFlat(s, g, n) ==
  /\ DOMAIN g = 1 .. n
  /\ \A i \in 1 .. n : g[i] = IF i = 1 THEN s[i] ELSE g[i - 1] \o s[i]

\* The partial concatenations depend on the elements concatenated alone.
LEMMA FlatUnique ==
  ASSUME NEW s, NEW t, NEW g, NEW h, NEW n \in Nat, NEW m \in Nat, n <= m,
         IsFlat(s, g, n), IsFlat(t, h, m), \A i \in 1 .. n : s[i] = t[i]
  PROVE  \A i \in 1 .. n : g[i] = h[i]
<1> DEFINE S == {i \in Nat : i \in 1 .. n => g[i] = h[i]}
<1>1. 0 \in S
  OBVIOUS
<1>2. ASSUME NEW i \in S PROVE i + 1 \in S
  <2> SUFFICES ASSUME NEW j \in 1 .. n, j = i + 1 PROVE g[j] = h[j]
    OBVIOUS
  <2>1. j \in 1 .. m /\ s[j] = t[j] /\ i \in Nat
    OBVIOUS
  <2>2. /\ g[j] = IF j = 1 THEN s[j] ELSE g[j - 1] \o s[j]
        /\ h[j] = IF j = 1 THEN t[j] ELSE h[j - 1] \o t[j]
    BY <2>1 DEF IsFlat
  <2>3. CASE j = 1
    BY <2>1, <2>2, <2>3
  <2>4. CASE j # 1
    <3>1. j - 1 = i /\ i \in 1 .. n
      BY <2>4
    <3>2. g[i] = h[i]
      BY <3>1
    <3> QED BY <2>1, <2>2, <2>4, <3>1, <3>2
  <2> QED BY <2>3, <2>4
<1>3. S \in SUBSET Nat
  OBVIOUS
<1> HIDE DEF S
<1>4. \A i \in Nat : i \in S
  BY <1>1, <1>2, <1>3, SetInduction
<1> QED BY <1>4 DEF S

\* There are such partial concatenations, for a sequence of any length.
LEMMA FlatExists ==
  ASSUME NEW T, NEW s \in Seq(Seq(T)), s # << >>
  PROVE  \E g \in [1 .. Len(s) -> Seq(T)] : IsFlat(s, g, Len(s))
<1> DEFINE S == {n \in Nat : n \in 1 .. Len(s) => \E g \in [1 .. n -> Seq(T)] : IsFlat(s, g, n)}
<1>1. 0 \in S
  OBVIOUS
<1>0. Len(s) \in Nat \ {0} /\ \A i \in 1 .. Len(s) : s[i] \in Seq(T)
  BY EmptySeq, ElementOfSeq
<1>2. ASSUME NEW n \in S PROVE n + 1 \in S
  <2> SUFFICES ASSUME n + 1 \in 1 .. Len(s)
               PROVE  \E g \in [1 .. n + 1 -> Seq(T)] : IsFlat(s, g, n + 1)
    OBVIOUS
  <2>0. n \in Nat /\ s[n + 1] \in Seq(T)
    BY <1>0
  <2>1. CASE n = 0
    <3> DEFINE h == [i \in 1 .. n + 1 |-> s[i]]
    <3>1. h \in [1 .. n + 1 -> Seq(T)] /\ IsFlat(s, h, n + 1)
      BY <2>0, <2>1 DEF IsFlat
    <3> QED BY <3>1
  <2>2. CASE n # 0
    <3>1. n \in 1 .. Len(s)
      BY <2>0, <2>2, <1>0
    <3>2. PICK g \in [1 .. n -> Seq(T)] : IsFlat(s, g, n)
      BY <3>1
    <3>3. g[n] \in Seq(T)
      BY <3>2, <2>0, <2>2
    <3>4. g[n] \o s[n + 1] \in Seq(T)
      BY <3>3, <2>0, ConcatProperties
    <3> DEFINE h == [i \in 1 .. n + 1 |-> IF i = n + 1 THEN g[n] \o s[n + 1] ELSE g[i]]
    <3>5. h \in [1 .. n + 1 -> Seq(T)]
      BY <3>2, <3>4, <2>0
    <3>6. ASSUME NEW i \in 1 .. n + 1
          PROVE  h[i] = IF i = 1 THEN s[i] ELSE h[i - 1] \o s[i]
      <4>1. CASE i = n + 1
        <5>1. i # 1 /\ i - 1 = n /\ n \in 1 .. n + 1 /\ n # n + 1
          BY <4>1, <2>2, <2>0
        <5>2. h[i - 1] = g[n]
          BY <5>1
        <5> QED BY <4>1, <5>1, <5>2
      <4>2. CASE i # n + 1
        <5>1. i \in 1 .. n
          BY <4>2, <2>0
        <5>2. g[i] = IF i = 1 THEN s[i] ELSE g[i - 1] \o s[i]
          BY <3>2, <5>1 DEF IsFlat
        <5>3. i # 1 => h[i - 1] = g[i - 1]
          BY <5>1, <2>0
        <5> QED BY <4>2, <5>1, <5>2, <5>3
      <4> QED BY <4>1, <4>2
    <3> HIDE DEF h
    <3> QED BY <3>5, <3>6 DEF IsFlat
  <2> QED BY <2>1, <2>2
<1>3. S \in SUBSET Nat
  OBVIOUS
<1> HIDE DEF S
<1>4. \A n \in Nat : n \in S
  BY <1>1, <1>2, <1>3, SetInduction
<1>5. Len(s) \in S /\ Len(s) \in 1 .. Len(s)
  BY <1>0, <1>4
<1> QED BY <1>5 DEF S

\* FlattenSeq is the last of the partial concatenations.
LEMMA FlatDef ==
  ASSUME NEW T, NEW s \in Seq(Seq(T)), s # << >>
  PROVE  \E g \in [1 .. Len(s) -> Seq(T)] : IsFlat(s, g, Len(s)) /\ FlattenSeq(s) = g[Len(s)]
<1> DEFINE G(g) == g = [i \in 1 .. Len(s) |-> IF i = 1 THEN s[i] ELSE g[i - 1] \o s[i]]
           c == CHOOSE g : G(g)
<1>0. Len(s) \in Nat \ {0}
  BY EmptySeq
<1>1. PICK g \in [1 .. Len(s) -> Seq(T)] : IsFlat(s, g, Len(s))
  BY FlatExists
<1>2. G(g)
  BY <1>1 DEF IsFlat
<1>3. G(c)
  BY <1>2
<1>4. FlattenSeq(s) = c[Len(s)]
  BY <1>0 DEF FlattenSeq
<1>5. IsFlat(s, c, Len(s))
  <2> HIDE DEF c
  <2> QED BY <1>3 DEF IsFlat
<1>6. \A i \in 1 .. Len(s) : c[i] = g[i]
  <2> HIDE DEF c, G
  <2> QED BY <1>0, <1>1, <1>5, FlatUnique
<1>7. Len(s) \in 1 .. Len(s)
  BY <1>0
<1> HIDE DEF c, G
<1> QED BY <1>1, <1>4, <1>6, <1>7

\* Induction over a sequence, for a set P that holds what is shown of the sequences.
LEMMA SeqInduction ==
  ASSUME NEW T, NEW P \in SUBSET Seq(T), << >> \in P,
         \A s \in P, e \in T : Append(s, e) \in P
  PROVE  \A s \in Seq(T) : s \in P
<1> DEFINE S == {n \in Nat : \A s \in Seq(T) : Len(s) = n => s \in P}
<1>1. 0 \in S
  BY EmptySeq
<1>2. ASSUME NEW n \in S PROVE n + 1 \in S
  <2> SUFFICES ASSUME NEW s \in Seq(T), Len(s) = n + 1 PROVE s \in P
    OBVIOUS
  <2>1. n \in Nat /\ s # << >>
    BY EmptySeq
  <2>2. PICK u \in Seq(T), e \in T : s = Append(u, e)
    BY <2>1, SequenceEmptyOrAppend
  <2>3. Len(u) = n
    BY <2>1, <2>2, AppendProperties, LenProperties
  <2>4. u \in P
    BY <2>3
  <2> QED BY <2>2, <2>4
<1>3. S \in SUBSET Nat
  OBVIOUS
<1> HIDE DEF S
<1>4. \A n \in Nat : n \in S
  BY <1>1, <1>2, <1>3, SetInduction
<1>5. SUFFICES ASSUME NEW s \in Seq(T) PROVE s \in P
  OBVIOUS
<1>6. Len(s) \in S
  BY <1>4, LenProperties
<1> QED BY <1>6 DEF S

\* Concatenation is associative.
Grouped(x, y, z) == (x \o y) \o z = x \o (y \o z)

LEMMA Assoc == \A T : \A x, y, z \in Seq(T) : Grouped(x, y, z)
BY ConcatAssociative DEF Grouped

\* A sequence cut into its first n elements and the others.
Split(T, s, n) ==
  /\ SubSeq(s, 1, n) \in Seq(T) /\ Len(SubSeq(s, 1, n)) = n
  /\ SubSeq(s, n + 1, Len(s)) \in Seq(T) /\ Len(SubSeq(s, n + 1, Len(s))) = Len(s) - n
  /\ s = SubSeq(s, 1, n) \o SubSeq(s, n + 1, Len(s))

LEMMA SplitAt == \A T : \A s \in Seq(T) : \A n \in 0 .. Len(s) : Split(T, s, n)
<1> SUFFICES ASSUME NEW T, NEW s \in Seq(T), NEW n \in 0 .. Len(s) PROVE Split(T, s, n)
  OBVIOUS
<1>1. Len(s) \in Nat /\ \A i \in 1 .. Len(s) : s[i] \in T
  BY ElementOfSeq, LenProperties
<1>2. SubSeq(s, 1, n) \in Seq(T) /\ Len(SubSeq(s, 1, n)) = n
  BY <1>1, SubSeqProperties
<1>3. /\ SubSeq(s, n + 1, Len(s)) \in Seq(T)
      /\ Len(SubSeq(s, n + 1, Len(s))) = Len(s) - n
  BY <1>1, SubSeqProperties
<1>4. SubSeq(s, 1, n) \o SubSeq(s, n + 1, Len(s)) = SubSeq(s, 1, Len(s))
  <2>1. 1 \in 1 .. Len(s) + 1 /\ n \in 1 - 1 .. Len(s) /\ Len(s) \in n .. Len(s)
    BY <1>1
  <2> QED BY <2>1, ConcatAdjacentSubSeq
<1>5. SubSeq(s, 1, Len(s)) = s
  BY SubSeqFull
<1> QED BY <1>2, <1>3, <1>4, <1>5 DEF Split

\* One stream cut in two ways at the same place has the same parts.
LEMMA CutFirst ==
  ASSUME NEW T, NEW a \in Seq(T), NEW b \in Seq(T), NEW f \in Seq(T), NEW r \in Seq(T),
         a \o b = f \o r, Len(a) = Len(f)
  PROVE  a = f /\ b = r
<1>1. \A i \in 1 .. Len(a) : a[i] = (a \o b)[i] /\ f[i] = (f \o r)[i]
  BY ConcatProperties, LenProperties
<1>2. a = f
  <2>1. \A i \in 1 .. Len(a) : a[i] = f[i]
    BY <1>1
  <2> QED BY <2>1, SeqEqual
<1>3. a \o b = a \o r
  BY <1>2
<1> QED BY <1>2, <1>3, ConcatSimplifications

\* FlattenSeq, the bytes of a sequence of frames: of none of them, ...
LEMMA FlatEmpty == FlattenSeq(<< >>) = << >>
BY DEF FlattenSeq

\* ... it is a string, ...
LEMMA FlatType ==
  ASSUME NEW T, NEW s \in Seq(Seq(T))
  PROVE  FlattenSeq(s) \in Seq(T)
<1>1. CASE s = << >>
  BY <1>1, FlatEmpty, EmptySeq
<1>2. CASE s # << >>
  <2>1. PICK g \in [1 .. Len(s) -> Seq(T)] : FlattenSeq(s) = g[Len(s)]
    BY <1>2, FlatDef
  <2>2. Len(s) \in 1 .. Len(s)
    BY <1>2, EmptySeq
  <2> QED BY <2>1, <2>2
<1> QED BY <1>1, <1>2

\* ... of one more frame at the end, ...
LEMMA FlatAppend ==
  ASSUME NEW T, NEW s \in Seq(Seq(T)), NEW f \in Seq(T)
  PROVE  FlattenSeq(Append(s, f)) = FlattenSeq(s) \o f
<1> DEFINE a == Append(s, f)
           n == Len(s)
<1>1. /\ a \in Seq(Seq(T)) /\ a # << >> /\ Len(a) = n + 1 /\ n \in Nat
      /\ \A i \in 1 .. n : a[i] = s[i]
      /\ a[n + 1] = f
  BY AppendProperties, LenProperties
<1> HIDE DEF a
<1>2. PICK h : IsFlat(a, h, n + 1) /\ FlattenSeq(a) = h[n + 1]
  BY <1>1, FlatDef
<1>3. PICK m \in Nat : m = n + 1
  BY <1>1
<1>4. h[m] = IF m = 1 THEN a[m] ELSE h[m - 1] \o a[m]
  <2>1. m \in 1 .. n + 1
    BY <1>1, <1>3
  <2> QED BY <1>2, <2>1 DEF IsFlat
<1>5. CASE s = << >>
  <2>1. n = 0
    BY <1>5
  <2>2. FlattenSeq(a) = f
    BY <1>1, <1>2, <1>3, <1>4, <2>1
  <2> QED BY <1>5, <2>2, FlatEmpty, ConcatEmptySeq DEF a
<1>6. CASE s # << >>
  <2>1. n \in 1 .. n /\ m # 1 /\ m - 1 = n
    BY <1>1, <1>3, <1>6, EmptySeq
  <2>2. PICK g : IsFlat(s, g, n) /\ FlattenSeq(s) = g[n]
    BY <1>6, FlatDef
  <2>3. \A i \in 1 .. n : s[i] = a[i]
    BY <1>1
  <2>4. \A i \in 1 .. n : g[i] = h[i]
    <3> HIDE DEF n
    <3>1. n <= m
      BY <1>1, <1>3
    <3>2. IsFlat(s, g, n) /\ IsFlat(a, h, m)
      BY <1>2, <1>3, <2>2
    <3>3. n \in Nat /\ m \in Nat /\ \A i \in 1 .. n : s[i] = a[i]
      BY <1>1, <2>3
    <3> QED BY <2>3, <3>1, <3>2, <3>3, FlatUnique
  <2>5. h[m] = h[n] \o f
    BY <1>1, <1>3, <1>4, <2>1
  <2> QED BY <1>2, <1>3, <2>1, <2>2, <2>4, <2>5 DEF a
<1> QED BY <1>5, <1>6

\* ... of two sequences, ...
LEMMA FlatConcat ==
  ASSUME NEW T, NEW s \in Seq(Seq(T)), NEW t \in Seq(Seq(T))
  PROVE  FlattenSeq(s \o t) = FlattenSeq(s) \o FlattenSeq(t)
<1> DEFINE P == {u \in Seq(Seq(T)) : FlattenSeq(s \o u) = FlattenSeq(s) \o FlattenSeq(u)}
<1>0. FlattenSeq(s) \in Seq(T)
  BY FlatType
<1>1. << >> \in P
  BY <1>0, FlatEmpty, ConcatEmptySeq, EmptySeq
<1>2. ASSUME NEW u \in P, NEW e \in Seq(T) PROVE Append(u, e) \in P
  <2>1. u \in Seq(Seq(T)) /\ FlattenSeq(s \o u) = FlattenSeq(s) \o FlattenSeq(u)
    OBVIOUS
  <2>2. Append(u, e) \in Seq(Seq(T)) /\ s \o u \in Seq(Seq(T)) /\ FlattenSeq(u) \in Seq(T)
    BY <2>1, AppendProperties, ConcatProperties, FlatType
  <2>3. s \o Append(u, e) = Append(s \o u, e)
    <3>1. Append(u, e) = u \o <<e>> /\ Append(s \o u, e) = (s \o u) \o <<e>>
      BY <2>1, <2>2, AppendIsConcat
    <3>2. <<e>> \in Seq(Seq(T))
      OBVIOUS
    <3>3. Grouped(s, u, <<e>>)
      BY <2>1, <3>2, Assoc
    <3> QED BY <3>1, <3>3 DEF Grouped
  <2>4. FlattenSeq(Append(u, e)) = FlattenSeq(u) \o e
        /\ FlattenSeq(Append(s \o u, e)) = FlattenSeq(s \o u) \o e
    BY <2>1, <2>2, FlatAppend
  <2>5. (FlattenSeq(s) \o FlattenSeq(u)) \o e = FlattenSeq(s) \o (FlattenSeq(u) \o e)
    <3>1. Grouped(FlattenSeq(s), FlattenSeq(u), e)
      BY <1>0, <2>2, Assoc
    <3> QED BY <3>1 DEF Grouped
  <2> QED BY <2>1, <2>2, <2>3, <2>4, <2>5
<1>3. P \in SUBSET Seq(Seq(T))
  OBVIOUS
<1> HIDE DEF P
<1>4. t \in P
  BY <1>1, <1>2, <1>3, SeqInduction
<1> QED BY <1>4 DEF P

\* ... of one frame, ...
LEMMA FlatOne ==
  ASSUME NEW T, NEW f \in Seq(T)
  PROVE  FlattenSeq(<<f>>) = f
<1>1. << >> \in Seq(Seq(T)) /\ <<f>> = Append(<< >>, f)
  OBVIOUS
<1>2. FlattenSeq(Append(<< >>, f)) = FlattenSeq(<< >>) \o f
  BY <1>1, FlatAppend
<1> QED BY <1>1, <1>2, FlatEmpty, ConcatEmptySeq

\* ... beginning with the first frame, ...
LEMMA FlatFirst ==
  ASSUME NEW T, NEW s \in Seq(Seq(T)), s # << >>
  PROVE  FlattenSeq(s) = Head(s) \o FlattenSeq(Tail(s))
<1>1. Head(s) \in Seq(T) /\ Tail(s) \in Seq(Seq(T))
  BY HeadTailProperties
<1>2. <<Head(s)>> \in Seq(Seq(T))
  BY <1>1
<1>3. s = <<Head(s)>> \o Tail(s)
  <2>1. s = SubSeq(s, 1, Len(s))
    BY SubSeqFull
  <2>2. Len(s) \in 1 .. Len(s) /\ 1 \in 1 .. Len(s)
    BY EmptySeq
  <2>3. SubSeq(s, 1, Len(s)) = <<s[1]>> \o SubSeq(s, 1 + 1, Len(s))
    BY <2>2, SubSeqRecursiveFirst
  <2> QED BY <2>1, <2>3, TailIsSubSeq
<1>4. FlattenSeq(<<Head(s)>> \o Tail(s)) = FlattenSeq(<<Head(s)>>) \o FlattenSeq(Tail(s))
  BY <1>1, <1>2, FlatConcat
<1>5. FlattenSeq(<<Head(s)>>) = Head(s)
  BY <1>1, FlatOne
<1> QED BY <1>3, <1>4, <1>5

\* ... and of frames that are written in parts.
LEMMA FlatFlat ==
  ASSUME NEW T, NEW ss \in Seq(Seq(Seq(T)))
  PROVE  FlattenSeq(FlattenSeq(ss)) = FlattenSeq([i \in 1 .. Len(ss) |-> FlattenSeq(ss[i])])
<1> DEFINE Each(s) == [i \in 1 .. Len(s) |-> FlattenSeq(s[i])]
           P == {s \in Seq(Seq(Seq(T))) : FlattenSeq(FlattenSeq(s)) = FlattenSeq(Each(s))}
<1>1. << >> \in P
  <2>1. Each(<< >>) = << >>
    OBVIOUS
  <2> QED BY <2>1, FlatEmpty, EmptySeq
<1>2. ASSUME NEW s \in P, NEW e \in Seq(Seq(T)) PROVE Append(s, e) \in P
  <2>1. s \in Seq(Seq(Seq(T))) /\ FlattenSeq(FlattenSeq(s)) = FlattenSeq(Each(s))
    OBVIOUS
  <2>2. /\ Append(s, e) \in Seq(Seq(Seq(T))) /\ Len(Append(s, e)) = Len(s) + 1
        /\ Len(s) \in Nat /\ Append(s, e)[Len(s) + 1] = e
        /\ \A i \in 1 .. Len(s) : Append(s, e)[i] = s[i] /\ s[i] \in Seq(Seq(T))
    BY <2>1, AppendProperties, LenProperties, ElementOfSeq
  <2>3. FlattenSeq(e) \in Seq(T) /\ \A i \in 1 .. Len(s) : FlattenSeq(s[i]) \in Seq(T)
    BY <2>2, FlatType
  <2>4. Each(s) \in Seq(Seq(T)) /\ Len(Each(s)) = Len(s)
    BY <2>2, <2>3
  <2>5. Each(Append(s, e)) = Append(Each(s), FlattenSeq(e))
    BY <2>2, <2>4
  <2>6. FlattenSeq(Each(Append(s, e))) = FlattenSeq(Each(s)) \o FlattenSeq(e)
    BY <2>3, <2>4, <2>5, FlatAppend
  <2>7. FlattenSeq(Append(s, e)) = FlattenSeq(s) \o e /\ FlattenSeq(s) \in Seq(Seq(T))
    BY <2>1, FlatAppend, FlatType
  <2>8. FlattenSeq(FlattenSeq(s) \o e) = FlattenSeq(FlattenSeq(s)) \o FlattenSeq(e)
    BY <2>7, FlatConcat
  <2> QED BY <2>1, <2>2, <2>6, <2>7, <2>8
<1>3. P \in SUBSET Seq(Seq(Seq(T)))
  OBVIOUS
<1> HIDE DEF P
<1>4. ss \in P
  BY <1>1, <1>2, <1>3, SeqInduction
<1> QED BY <1>4 DEF P

\* A string is a prefix of every string it begins.
LEMMA IsPrefixOf ==
  ASSUME NEW D, NEW s \in Seq(D), NEW u \in Seq(D)
  PROVE  IsPrefix(s, s \o u)
<1>1. /\ s \o u \in Seq(D) /\ Len(s \o u) = Len(s) + Len(u)
      /\ \A i \in 1 .. Len(s) + Len(u) : (s \o u)[i] = IF i <= Len(s) THEN s[i] ELSE u[i - Len(s)]
      /\ Len(s) \in Nat /\ Len(u) \in Nat
  BY ConcatProperties, LenProperties
<1>2. SubSeq(s, 1, Len(s)) = s
  BY SubSeqFull
<1>3. SubSeq(s \o u, 1, Len(s)) = s
  <2> DEFINE w == s \o u
  <2>1. Len(s) \in 0 .. Len(w) /\ w \in Seq(D)
    BY <1>1
  <2> HIDE DEF w
  <2>2. /\ SubSeq(w, 1, Len(s)) \in Seq(D) /\ Len(SubSeq(w, 1, Len(s))) = Len(s)
        /\ w = SubSeq(w, 1, Len(s)) \o SubSeq(w, Len(s) + 1, Len(w))
        /\ SubSeq(w, Len(s) + 1, Len(w)) \in Seq(D)
    <3>1. Split(D, w, Len(s))
      BY <2>1, SplitAt
    <3> QED BY <2>1, <3>1 DEF Split
  <2>3. SubSeq(w, 1, Len(s)) \o SubSeq(w, Len(s) + 1, Len(w)) = s \o u
    BY <2>2 DEF w
  <2> QED BY <2>2, <2>3, CutFirst DEF w
<1> QED BY <1>1, <1>2, <1>3 DEF IsPrefix

\* A sequence whose first elements are those of a is a and a rest.
LEMMA PrefixSplit ==
  ASSUME NEW D, NEW a \in Seq(D), NEW s \in Seq(D), Len(a) <= Len(s),
         \A i \in 1 .. Len(a) : a[i] = s[i]
  PROVE  /\ SubSeq(s, Len(a) + 1, Len(s)) \in Seq(D)
         /\ s = a \o SubSeq(s, Len(a) + 1, Len(s))
<1>1. Len(a) \in Nat /\ Len(s) \in Nat /\ Len(a) \in 0 .. Len(s)
  BY LenProperties
<1>2. /\ SubSeq(s, 1, Len(a)) \in Seq(D) /\ Len(SubSeq(s, 1, Len(a))) = Len(a)
      /\ SubSeq(s, Len(a) + 1, Len(s)) \in Seq(D)
      /\ s = SubSeq(s, 1, Len(a)) \o SubSeq(s, Len(a) + 1, Len(s))
  <2>1. Split(D, s, Len(a))
    BY <1>1, SplitAt
  <2> QED BY <1>1, <2>1 DEF Split
<1>3. SubSeq(s, 1, Len(a)) = a
  <2>1. \A i \in 1 .. Len(a) : s[i] \in D
    BY <1>1, ElementOfSeq
  <2>2. \A i \in 1 .. Len(a) - 1 + 1 : SubSeq(s, 1, Len(a))[i] = s[1 + i - 1]
    BY <1>1, <2>1, SubSeqProperties
  <2>3. \A i \in 1 .. Len(a) : SubSeq(s, 1, Len(a))[i] = a[i]
    BY <1>1, <2>2
  <2> QED BY <1>2, <2>3, SeqEqual
<1> QED BY <1>2, <1>3

\* What follows a common beginning is the same.
LEMMA Cancel ==
  ASSUME NEW D, NEW a \in Seq(D), NEW b \in Seq(D), NEW r \in Seq(D), a \o b = a \o r
  PROVE  b = r
BY ConcatSimplifications
-----------------------------------------------------------------------------
\* A frame: the length of its payload, its command, its payload.
Frames == {f \in Seq(Byte) : Len(f) >= 2 /\ f[1] = Len(f) - 2}

\* Where command_process stands: it has read cmdI bytes of cmdLen + 1, or none.
ParserInv ==
  /\ cmdI = -1 => cmdBuf = << >>
  /\ cmdI # -1 =>
       /\ cmdI = Len(cmdBuf) /\ cmdLeft > 0 /\ cmdI + cmdLeft = FrameLeft(cmdLen)

\* Where command_send stands: something is left to write while it runs, and the room it
\* measured is still there, unless a stale position was stored.
SenderInv ==
  /\ mode \in {"idle", "hung"} => out = << >>
  /\ room >= 0 => /\ out # << >> /\ room <= Len(Head(out))
                  /\ astray \/ Len(rx) + room <= RxRoom

\* Where the program stands: a frame it has not begun to write is whole, and what its
\* ring calls looked at is still there, unless the rings were reset since.
HostInv ==
  /\ hOut # << >> /\ ~hBegun => hOut \in HostFrames
  /\ hRoom >= 0 => hOut # << >> /\ hRoom <= Len(hOut)
  /\ hRoom >= 0 /\ ~hStale => Len(tx) + hRoom <= TxRoom
  /\ hRoom >= 0 /\ hStale => torn
  /\ hGet # -1 => hOut = << >>
  /\ hGet >= 0 /\ ~astray => hGet <= Len(rx) /\ ~hStale
  /\ hStale => hRoom >= 0 \/ hGet >= 0

\* Only whole frames are under way, to the M3 those of the host programs.
FramesInv == toM3 \in Seq(HostFrames) /\ toHost \in Seq(Frames)

\* The strengthening of ConnectionAgrees: unless a restart made one of them forget, the two
\* are of one mind once all on its way is read.
ConnInv == ~astray /\ ~forgot => OneMind

M3Inv == ParserInv /\ SenderInv /\ FramesInv
LinkInv == /\ TypeOK /\ HostInv /\ M3Inv /\ CommandFraming /\ ReplyFraming
           /\ HangsOnlyWhenTorn /\ ConnInv
-----------------------------------------------------------------------------
\* What the frames are made of.
LEMMA FramesType ==
  /\ HostFrames \subseteq Frames /\ Frames \subseteq Seq(Byte)
  /\ Seq(HostFrames) \subseteq Seq(Seq(Byte)) /\ Seq(Frames) \subseteq Seq(Seq(Byte))
  /\ \A f \in Frames : f # << >> /\ f[1] \in Byte /\ f[2] \in Byte /\ Len(f) \in Nat
<1>1. HostFrames \subseteq Frames
  BY FrameAssumption DEF Frames, Byte
<1>2. Frames \subseteq Seq(Byte)
  BY DEF Frames
<1>3. \A f \in Frames : f # << >> /\ f[1] \in Byte /\ f[2] \in Byte /\ Len(f) \in Nat
  BY RoomAssumption DEF Frames, Byte
<1>4. Seq(HostFrames) \subseteq Seq(Seq(Byte)) /\ Seq(Frames) \subseteq Seq(Seq(Byte))
  BY <1>1, <1>2, SeqMonotonic
<1> QED BY <1>1, <1>2, <1>3, <1>4

\* No bytes are no frames.
LEMMA FlatNothing ==
  ASSUME NEW s \in Seq(Frames)
  PROVE  FlattenSeq(s) = << >> => s = << >>
<1> SUFFICES ASSUME s # << >> PROVE FlattenSeq(s) # << >>
  OBVIOUS
<1>1. s \in Seq(Seq(Byte)) /\ Head(s) \in Frames /\ Tail(s) \in Seq(Seq(Byte))
  BY FramesType, HeadTailProperties
<1>2. Head(s) \in Seq(Byte) /\ Head(s) # << >> /\ FlattenSeq(Tail(s)) \in Seq(Byte)
  BY <1>1, FramesType, FlatType
<1>3. FlattenSeq(s) = Head(s) \o FlattenSeq(Tail(s))
  BY <1>1, FlatFirst
<1> QED BY <1>2, <1>3, ConcatSimplifications

\* The invariant holds when Linux is up, ...
LEMMA InitLink == Init => LinkInv
<1> SUFFICES ASSUME Init PROVE LinkInv
  OBVIOUS
<1>1. TypeOK
  <2>1. {hBegun, hBusy, hStale, hConnected, hDead, connected, torn, astray, forgot}
           \subseteq BOOLEAN
    BY DEF Init
  <2>2. /\ 0 \in Byte /\ 0 \in 0 .. Period - 1 /\ 0 \in -1 .. ByteMax + 1
        /\ 0 \in 0 .. ByteMax + 1 /\ -1 \in -1 .. RxRoom /\ MaxFrames \in 0 .. MaxFrames
        /\ 0 <= TxRoom /\ 0 <= RxRoom /\ -1 \in -1 .. TxRoom /\ -1 \in -2 .. RxRoom
        /\ 0 \in 0 .. MaxBoots
    BY RoomAssumption DEF Byte
  <2>3. /\ tx \in Seq(Byte) /\ Len(tx) <= TxRoom /\ rx \in Seq(Byte) /\ Len(rx) <= RxRoom
        /\ hOut \in Seq(Byte) /\ hIn \in Seq(Byte) /\ cmdBuf \in Seq(Byte)
        /\ out \in Seq(Seq(Byte)) /\ toM3 \in Seq(Seq(Byte)) /\ toHost \in Seq(Seq(Byte))
    BY <2>2, EmptySeq DEF Init
  <2>4. /\ hLeft \in 0 .. MaxFrames /\ hRoom \in -1 .. TxRoom /\ hGet \in -2 .. RxRoom
        /\ boots \in 0 .. MaxBoots /\ room \in -1 .. RxRoom
    BY <2>2 DEF Init
  <2>5. /\ mode \in {"off", "idle", "reply", "telemetry", "hung"}
        /\ cmdI \in -1 .. ByteMax + 1 /\ cmdLeft \in 0 .. ByteMax + 1 /\ cmdLen \in Byte
        /\ count \in 0 .. Period - 1
    <3>1. -1 \in -1 .. ByteMax + 1
      BY RoomAssumption
    <3> QED BY <2>2, <3>1 DEF Init
  <2> QED BY <2>1, <2>3, <2>4, <2>5 DEF TypeOK
<1>6. HostInv
  BY DEF Init, HostInv
<1>2. M3Inv
  BY EmptySeq DEF Init, M3Inv, ParserInv, SenderInv, FramesInv
<1>3. CommandFraming /\ ReplyFraming
  BY FlatEmpty DEF Init, CommandFraming, ReplyFraming, Parsed
<1>4. HangsOnlyWhenTorn
  BY DEF Init, HangsOnlyWhenTorn
<1>5. ConnInv
  <2>1. toHost = << >> /\ hConnected = connected
    BY DEF Init
  <2>2. DOMAIN toHost = {}
    BY <2>1
  <2> QED BY <2>1, <2>2 DEF ConnInv, OneMind
<1> QED BY <1>1, <1>2, <1>3, <1>4, <1>5, <1>6 DEF LinkInv

\* What the parser holds of a frame is a string.
LEMMA ParsedType == TypeOK => Parsed \in Seq(Byte)
<1> SUFFICES ASSUME TypeOK PROVE Parsed \in Seq(Byte)
  OBVIOUS
<1>1. <<cmdLen>> \in Seq(Byte) /\ cmdBuf \in Seq(Byte)
  BY DEF TypeOK
<1>2. <<cmdLen>> \o cmdBuf \in Seq(Byte)
  BY <1>1, ConcatProperties
<1> QED BY <1>2 DEF Parsed

\* ... and every action keeps it.  sendCommand packs a frame and starts writing.
LEMMA HostSendLink == ASSUME LinkInv, HostSend PROVE LinkInv'
<1> USE DEF LinkInv
<1>1. PICK f \in HostFrames : hOut' = f /\ toM3' = IF torn THEN toM3 ELSE Append(toM3, f)
  BY DEF HostSend
<1>2. f \in Seq(Byte) /\ toM3 \in Seq(HostFrames) /\ toM3 \in Seq(Seq(Byte))
  BY FramesType DEF M3Inv, FramesInv
<1>3. Append(toM3, f) \in Seq(HostFrames) /\ Append(toM3, f) \in Seq(Seq(Byte))
  BY <1>2, AppendProperties
<1>4. TypeOK'
  <2>1. hLeft' \in 0 .. MaxFrames /\ hBegun' = FALSE /\ hOut' \in Seq(Byte)
        /\ toM3' \in Seq(Seq(Byte))
    BY <1>1, <1>2, <1>3, RoomAssumption DEF TypeOK, HostSend
  <2>2. UNCHANGED <<tx, rx, hRoom, hIn, hBusy, hGet, hStale, hConnected, hDead, mode,
                    parser, connected, count, sender, boots, torn, astray, forgot>>
    BY DEF HostSend, reading, sender, links
  <2> QED BY <2>1, <2>2 DEF TypeOK, parser, sender
<1>5. M3Inv'
  BY <1>1, <1>2, <1>3 DEF HostSend, M3Inv, ParserInv, SenderInv, FramesInv, parser, sender
<1>8. HostInv'
  <2>1. hRoom < 0
    BY RoomAssumption DEF HostSend, HostInv, TypeOK
  <2> QED BY <1>1, <2>1 DEF HostSend, HostInv, reading, sender, links
<1>6. CommandFraming'
  <2> SUFFICES ASSUME ~torn' PROVE (Parsed \o tx \o hOut = FlattenSeq(toM3))'
    BY DEF CommandFraming
  <2>1. Parsed \o tx \o hOut = FlattenSeq(toM3) /\ hOut = << >> /\ toM3' = Append(toM3, f)
    BY <1>1 DEF CommandFraming, HostSend, links
  <2>2. Parsed \in Seq(Byte) /\ tx \in Seq(Byte) /\ Parsed \o tx \in Seq(Byte)
    BY ParsedType, ConcatProperties DEF TypeOK
  <2>3. Parsed \o tx = FlattenSeq(toM3)
    BY <2>1, <2>2, ConcatEmptySeq
  <2>4. FlattenSeq(Append(toM3, f)) = FlattenSeq(toM3) \o f
    BY <1>2, FlatAppend
  <2>5. Parsed' = Parsed /\ tx' = tx
    BY DEF HostSend, Parsed, parser
  <2> QED BY <1>1, <2>1, <2>3, <2>4, <2>5
<1>7. (ReplyFraming /\ HangsOnlyWhenTorn /\ ConnInv)'
  BY DEF HostSend, ReplyFraming, HangsOnlyWhenTorn, ConnInv, OneMind, reading, sender, links
<1> QED BY <1>4, <1>5, <1>6, <1>7, <1>8

\* ringbuf_write finds room for a part of the frame, ...
LEMMA HostMeasureLink == ASSUME LinkInv, HostMeasure PROVE LinkInv'
<1> USE DEF LinkInv
<1>1. /\ hOut # << >> /\ hRoom = -1 /\ hRoom' = MinOf(Len(hOut), TxRoom - Len(tx))
      /\ UNCHANGED <<tx, rx, hLeft, hOut, hBegun, reading, hStale, hConnected, hDead, mode,
                     parser, connected, count, sender, toM3, links>>
  BY DEF HostMeasure
<1>2. /\ Len(hOut) \in Nat /\ Len(tx) \in Nat /\ Len(tx) <= TxRoom
  BY LenProperties DEF TypeOK
<1>3. hRoom' \in 0 .. TxRoom /\ hRoom' <= Len(hOut) /\ Len(tx) + hRoom' <= TxRoom
  BY <1>1, <1>2, RoomAssumption DEF MinOf
<1>4. TypeOK'
  BY <1>1, <1>3 DEF TypeOK, reading, parser, sender, links
<1>5. HostInv'
  <2>1. ~hStale /\ hGet = -1
    BY <1>1 DEF HostInv
  <2> QED BY <1>1, <1>3, <2>1 DEF HostInv, reading, sender, links
<1>6. M3Inv'
  BY <1>1 DEF M3Inv, ParserInv, SenderInv, FramesInv, parser, sender
<1>7. (CommandFraming /\ ReplyFraming /\ HangsOnlyWhenTorn /\ ConnInv)'
  BY <1>1 DEF CommandFraming, Parsed, ReplyFraming, HangsOnlyWhenTorn, ConnInv, OneMind,
              reading, parser, sender, links
<1> QED BY <1>4, <1>5, <1>6, <1>7

\* ... and moves it into the ring: when the rings were reset in between, the frame is torn.
LEMMA HostStoreLink == ASSUME LinkInv, HostStore PROVE LinkInv'
<1> USE DEF LinkInv
<1> DEFINE n == hRoom
           a == SubSeq(hOut, 1, n)
           b == SubSeq(hOut, n + 1, Len(hOut))
<1>1. /\ n \in 0 .. Len(hOut) /\ hOut # << >> /\ tx \in Seq(Byte) /\ hOut \in Seq(Byte)
      /\ Len(tx) \in Nat /\ hStale \in BOOLEAN /\ (~hStale => Len(tx) + n <= TxRoom)
      /\ hGet = -1 /\ (hStale => torn)
  <2>1. n \in Int /\ tx \in Seq(Byte) /\ hOut \in Seq(Byte) /\ hStale \in BOOLEAN
    BY RoomAssumption DEF TypeOK
  <2>2. Len(tx) \in Nat /\ Len(hOut) \in Nat
    BY <2>1, LenProperties
  <2> QED BY <2>1, <2>2 DEF HostStore, HostInv
<1>2. /\ hOut' = b /\ hRoom' = -1 /\ hStale' = FALSE /\ hBegun' = (hBegun \/ hRoom > 0)
      /\ IF hStale THEN \E j \in Junk : Len(j) <= TxRoom /\ tx' = j ELSE tx' = tx \o a
      /\ UNCHANGED <<rx, hLeft, hIn, hBusy, hGet, hConnected, hDead, mode, parser, connected,
                     count, sender, toM3, boots, torn, forgot>>
  BY DEF HostStore, reading, links
<1> HIDE DEF n
<1>3. a \in Seq(Byte) /\ Len(a) = n /\ b \in Seq(Byte) /\ hOut = a \o b
  <2>1. Split(Byte, hOut, n)
    BY <1>1, SplitAt
  <2> QED BY <1>1, <2>1 DEF Split
<1>4. tx' \in Seq(Byte) /\ Len(tx') <= TxRoom
  <2>1. CASE hStale
    <3>1. PICK j \in Junk : Len(j) <= TxRoom /\ tx' = j
      BY <1>2, <2>1
    <3> QED BY <3>1, RoomAssumption DEF Byte
  <2>2. CASE ~hStale
    <3>1. tx \o a \in Seq(Byte) /\ Len(tx \o a) = Len(tx) + n
      BY <1>1, <1>3, ConcatProperties
    <3> QED BY <1>1, <1>2, <2>2, <3>1
  <2> QED BY <2>1, <2>2
<1>5. TypeOK'
  <2>1. -1 \in -1 .. TxRoom
    BY RoomAssumption
  <2>2. hBegun' \in {TRUE, FALSE} /\ hStale' \in {TRUE, FALSE}
    BY <1>2
  <2> QED BY <1>2, <1>3, <1>4, <2>1, <2>2 DEF TypeOK, parser, sender
<1>6. HostInv'
  <2>1. hOut' # << >> /\ ~hBegun' => hOut' = hOut /\ ~hBegun
    <3>1. ~hBegun' => n = 0 /\ ~hBegun
      <4>1. hRoom \in Int /\ hRoom >= 0
        BY RoomAssumption DEF HostStore, TypeOK
      <4>2. ~hBegun' => ~(hRoom > 0) /\ ~hBegun
        BY <1>2
      <4> QED BY <4>1, <4>2 DEF n
    <3>2. n = 0 => b = hOut
      <4> SUFFICES ASSUME n = 0 PROVE b = hOut
        OBVIOUS
      <4> HIDE DEF a, b
      <4>1. a = << >>
        BY <1>3, EmptySeq
      <4> QED BY <1>3, <4>1, ConcatEmptySeq
    <3> HIDE DEF a, b
    <3> QED BY <1>2, <3>1, <3>2
  <2> HIDE DEF a, b
  <2>2. ~hStale' /\ ~(hRoom' >= 0) /\ hGet' = -1 /\ UNCHANGED <<astray, torn, boots>>
    BY <1>1, <1>2 DEF sender
  <2>3. hOut' # << >> /\ ~hBegun' => hOut' \in HostFrames
    BY <2>1 DEF HostInv
  <2> QED BY <2>2, <2>3 DEF HostInv
<1>7. M3Inv'
  BY <1>2 DEF M3Inv, ParserInv, SenderInv, FramesInv, parser, sender
<1>8. CommandFraming'
  <2> SUFFICES ASSUME ~torn PROVE (Parsed \o tx \o hOut)' = FlattenSeq(toM3')
    BY <1>2 DEF CommandFraming
  <2>1. Parsed' = Parsed /\ toM3' = toM3 /\ tx' = tx \o a /\ hOut' = b
    BY <1>1, <1>2 DEF Parsed, parser
  <2> HIDE DEF a, b
  <2>2. /\ Parsed \in Seq(Byte) /\ tx \in Seq(Byte) /\ Parsed \o tx \in Seq(Byte)
        /\ a \in Seq(Byte) /\ b \in Seq(Byte) /\ hOut = a \o b
    BY <1>1, <1>3, ParsedType, ConcatProperties
  <2>3. Parsed \o (tx \o a) = (Parsed \o tx) \o a
    <3>1. Grouped(Parsed, tx, a)
      BY <2>2, Assoc
    <3> QED BY <3>1 DEF Grouped
  <2>4. ((Parsed \o tx) \o a) \o b = (Parsed \o tx) \o (a \o b)
    <3> DEFINE x == Parsed \o tx
    <3>1. x \in Seq(Byte) /\ a \in Seq(Byte) /\ b \in Seq(Byte)
      BY <2>2
    <3> HIDE DEF x
    <3>2. (x \o a) \o b = x \o (a \o b)
      <4>1. Grouped(x, a, b)
        BY <3>1, Assoc
      <4> QED BY <4>1 DEF Grouped
    <3> QED BY <3>2 DEF x
  <2> QED BY <2>1, <2>2, <2>3, <2>4 DEF CommandFraming
<1>9. (ReplyFraming /\ HangsOnlyWhenTorn /\ ConnInv)'
  BY <1>2 DEF ReplyFraming, HangsOnlyWhenTorn, ConnInv, OneMind, sender
<1> QED BY <1>5, <1>6, <1>7, <1>8, <1>9

\* recvCommand has its length byte.
LEMMA HostEnterRecvLink == ASSUME LinkInv, HostEnterRecv PROVE LinkInv'
<1> USE DEF LinkInv
<1>1. /\ hBusy' = TRUE
      /\ UNCHANGED <<tx, rx, hLeft, hOut, hBegun, hRoom, hIn, hGet, hStale, hConnected, hDead,
                     mode, parser, connected, count, sender, toM3, boots, torn, forgot>>
  BY DEF HostEnterRecv, writing, links
<1>2. TypeOK'
  BY <1>1 DEF TypeOK, parser, sender
<1>3. (HostInv /\ M3Inv)'
  BY <1>1 DEF HostInv, M3Inv, ParserInv, SenderInv, FramesInv, parser, sender
<1>4. (CommandFraming /\ ReplyFraming /\ HangsOnlyWhenTorn /\ ConnInv)'
  BY <1>1 DEF CommandFraming, Parsed, ReplyFraming, HangsOnlyWhenTorn, ConnInv, OneMind,
              parser, sender
<1> QED BY <1>2, <1>3, <1>4

\* ringbuf_read looks what is in the ring, ...
LEMMA HostLookLink == ASSUME LinkInv, HostLook PROVE LinkInv'
<1> USE DEF LinkInv
<1>1. /\ hOut = << >> /\ (hGet = -2 \/ hGet = -1) /\ hGet' = Len(rx)
      /\ UNCHANGED <<tx, rx, hLeft, hOut, hBegun, hRoom, hIn, hBusy, hStale, hConnected, hDead,
                     mode, parser, connected, count, sender, toM3, boots, torn, forgot>>
  BY DEF HostLook, writing, links
<1>2. hGet' \in 0 .. RxRoom
  BY <1>1, LenProperties, RoomAssumption DEF TypeOK
<1>3. TypeOK'
  BY <1>1, <1>2 DEF TypeOK, parser, sender
<1>4. HostInv'
  <2>1. ~(hGet >= 0) /\ ~(hRoom >= 0)
    BY <1>1 DEF HostInv
  <2>2. ~hStale
    BY <2>1 DEF HostInv
  <2> QED BY <1>1, <1>2, <2>1, <2>2 DEF HostInv, sender
<1>5. M3Inv'
  BY <1>1 DEF M3Inv, ParserInv, SenderInv, FramesInv, parser, sender
<1>6. (CommandFraming /\ ReplyFraming /\ HangsOnlyWhenTorn /\ ConnInv)'
  BY <1>1 DEF CommandFraming, Parsed, ReplyFraming, HangsOnlyWhenTorn, ConnInv, OneMind,
              parser, sender
<1> QED BY <1>3, <1>4, <1>5, <1>6

\* ... and moves it to the host: bytes of the same frames, unless the rings were reset in
\* between.
LEMMA HostTakeLink == ASSUME LinkInv, HostTake PROVE LinkInv'
<1> USE DEF LinkInv
<1> DEFINE n == hGet
           a == SubSeq(rx, 1, n)
           b == SubSeq(rx, n + 1, Len(rx))
<1>1. /\ n \in Nat /\ rx \in Seq(Byte) /\ hIn \in Seq(Byte) /\ Len(rx) \in Nat
      /\ Len(rx) <= RxRoom /\ hOut = << >> /\ (~astray => n <= Len(rx) /\ ~hStale)
      /\ ~(hRoom >= 0)
  <2>1. n \in Int /\ rx \in Seq(Byte) /\ hIn \in Seq(Byte) /\ Len(rx) <= RxRoom
    BY RoomAssumption DEF TypeOK
  <2>2. Len(rx) \in Nat
    BY <2>1, LenProperties
  <2> QED BY <2>1, <2>2 DEF HostTake, HostInv
<1>2. /\ IF hStale \/ n > Len(rx)
         THEN /\ \E j \in Junk : Len(j) = n /\ hIn' = hIn \o j
              /\ \E j \in Junk : Len(j) <= RxRoom /\ rx' = j
         ELSE hIn' = hIn \o a /\ rx' = b
      /\ hGet' \in {-2, -1} /\ hBusy' = (hBusy \/ n > 0) /\ hStale' = FALSE
      /\ UNCHANGED <<tx, hLeft, hOut, hBegun, hRoom, hConnected, hDead, mode, parser, connected,
                     count, sender, toM3, boots, torn, forgot>>
  BY DEF HostTake, writing, links
<1> HIDE DEF n
<1>3. ASSUME ~(hStale \/ n > Len(rx))
      PROVE  /\ a \in Seq(Byte) /\ b \in Seq(Byte) /\ rx = a \o b /\ Len(b) <= Len(rx)
             /\ hIn' = hIn \o a /\ rx' = b
  <2>1. n \in 0 .. Len(rx)
    BY <1>1, <1>3
  <2>2. Split(Byte, rx, n)
    BY <1>1, <2>1, SplitAt
  <2>3. hIn' = hIn \o a /\ rx' = b
    BY <1>2, <1>3
  <2>4. a \in Seq(Byte) /\ b \in Seq(Byte) /\ rx = a \o b /\ Len(b) = Len(rx) - n
    BY <2>2 DEF Split
  <2> HIDE DEF a, b
  <2> QED BY <1>1, <2>3, <2>4
<1>4. hIn' \in Seq(Byte) /\ rx' \in Seq(Byte) /\ Len(rx') <= RxRoom
  <2>1. CASE hStale \/ n > Len(rx)
    <3>1. PICK j \in Junk : hIn' = hIn \o j
      BY <1>2, <2>1
    <3>2. PICK k \in Junk : Len(k) <= RxRoom /\ rx' = k
      BY <1>2, <2>1
    <3>3. j \in Seq(Byte) /\ k \in Seq(Byte)
      BY RoomAssumption DEF Byte
    <3> QED BY <1>1, <3>1, <3>2, <3>3, ConcatProperties
  <2>2. CASE ~(hStale \/ n > Len(rx))
    <3> HIDE DEF a, b
    <3>1. /\ a \in Seq(Byte) /\ b \in Seq(Byte) /\ Len(b) <= Len(rx)
          /\ hIn' = hIn \o a /\ rx' = b
      BY <1>3, <2>2
    <3>2. hIn \o a \in Seq(Byte) /\ Len(b) \in Nat
      BY <1>1, <3>1, ConcatProperties, LenProperties
    <3> QED BY <1>1, <3>1, <3>2, RoomAssumption
  <2> QED BY <2>1, <2>2
<1>5. TypeOK'
  <2>1. hGet' \in -2 .. RxRoom
    BY <1>2, RoomAssumption
  <2>2. hBusy' \in {TRUE, FALSE} /\ hStale' \in {TRUE, FALSE}
    BY <1>2
  <2> QED BY <1>2, <1>4, <2>1, <2>2 DEF TypeOK, parser, sender
<1>6. HostInv'
  BY <1>1, <1>2 DEF HostInv, sender
<1>7. M3Inv'
  <2>1. ~astray => Len(rx') <= Len(rx) /\ Len(rx') \in Nat
    <3>1. ~astray => Len(b) <= Len(rx) /\ rx' = b
      <4>1. ~astray => ~(hStale \/ n > Len(rx))
        BY <1>1
      <4> HIDE DEF a, b
      <4> QED BY <1>3, <4>1
    <3>2. Len(rx') \in Nat
      BY <1>4, LenProperties
    <3> HIDE DEF a, b
    <3> QED BY <3>1, <3>2
  <2>2. room >= 0 /\ ~astray => Len(rx') + room <= RxRoom
    <3>1. room \in Int
      BY RoomAssumption DEF TypeOK
    <3> QED BY <1>1, <2>1, <3>1, RoomAssumption DEF M3Inv, SenderInv
  <2> QED BY <1>2, <2>2 DEF M3Inv, ParserInv, SenderInv, FramesInv, parser, sender
<1>8. ReplyFraming'
  <2> SUFFICES ASSUME ~astray PROVE (hIn \o rx \o FlattenSeq(out))' = FlattenSeq(toHost')
    BY <1>2 DEF ReplyFraming, sender
  <2>3. ~(hStale \/ n > Len(rx))
    BY <1>1
  <2> HIDE DEF a, b
  <2>1. /\ a \in Seq(Byte) /\ b \in Seq(Byte) /\ rx = a \o b /\ hIn' = hIn \o a /\ rx' = b
    BY <1>3, <2>3
  <2>2. hIn \o (a \o b) = (hIn \o a) \o b
    <3>1. Grouped(hIn, a, b)
      BY <1>1, <2>1, Assoc
    <3> QED BY <3>1 DEF Grouped
  <2> QED BY <1>2, <2>1, <2>2 DEF ReplyFraming, sender
<1>9. (CommandFraming /\ HangsOnlyWhenTorn /\ ConnInv)'
  BY <1>2 DEF CommandFraming, Parsed, HangsOnlyWhenTorn, ConnInv, OneMind, parser, sender
<1> QED BY <1>5, <1>6, <1>7, <1>8, <1>9

\* The frame recvCommand cuts off is the oldest one on the way.
LEMMA FrameCut ==
  ASSUME TypeOK, FramesInv, ReplyFraming, FrameRead, ~astray
  PROVE  /\ toHost # << >>
         /\ Head(toHost) = SubSeq(hIn, 1, FrameSize(hIn[1]))
         /\ SubSeq(hIn, FrameSize(hIn[1]) + 1, Len(hIn)) \o rx \o FlattenSeq(out)
              = FlattenSeq(Tail(toHost))
<1> DEFINE n == FrameSize(hIn[1])
           a == SubSeq(hIn, 1, n)
           b == SubSeq(hIn, n + 1, Len(hIn))
           c == FlattenSeq(out)
<1>1. /\ hIn \in Seq(Byte) /\ rx \in Seq(Byte) /\ c \in Seq(Byte)
      /\ hIn \o rx \o c = FlattenSeq(toHost)
  BY FlatType DEF TypeOK, ReplyFraming
<1>2. n \in 0 .. Len(hIn) /\ n >= 2 /\ n = hIn[1] + 2 /\ n \in Nat /\ hIn[1] \in Nat
  <2>1. hIn[1] \in Nat /\ Len(hIn) \in Nat
    BY <1>1, RoomAssumption DEF FrameRead, Byte
  <2> QED BY <2>1 DEF FrameRead, FrameSize
<1> HIDE DEF n
<1>3. /\ a \in Seq(Byte) /\ Len(a) = n /\ b \in Seq(Byte) /\ hIn = a \o b
  <2>1. Split(Byte, hIn, n)
    BY <1>1, <1>2, SplitAt
  <2> QED BY <1>1, <1>2, <2>1 DEF Split
<1>4. a[1] = hIn[1]
  BY <1>1, <1>2
<1> HIDE DEF a, b, c
<1>10. Len(a) \in Nat /\ Len(a) >= 2 /\ Len(a) = hIn[1] + 2 /\ hIn[1] \in Nat
  <2>1. Len(a) = n
    BY <1>3
  <2> QED BY <1>2, <2>1
<1>5. hIn \o rx \o c = a \o (b \o rx \o c) /\ b \o rx \o c \in Seq(Byte)
  <2>1. b \o rx \in Seq(Byte)
    BY <1>1, <1>3, ConcatProperties
  <2>2. b \o rx \o c \in Seq(Byte)
    BY <1>1, <2>1, ConcatProperties
  <2>3. (a \o b) \o rx = a \o (b \o rx)
    <3>1. Grouped(a, b, rx)
      BY <1>1, <1>3, Assoc
    <3> QED BY <3>1 DEF Grouped
  <2>4. (a \o (b \o rx)) \o c = a \o ((b \o rx) \o c)
    <3>1. Grouped(a, b \o rx, c)
      BY <1>1, <1>3, <2>1, Assoc
    <3> QED BY <3>1 DEF Grouped
  <2> QED BY <1>3, <2>2, <2>3, <2>4
<1>6. toHost # << >>
  <2>1. a # << >>
    BY <1>10
  <2>2. FlattenSeq(toHost) # << >>
    BY <1>1, <1>3, <1>5, <2>1, ConcatSimplifications
  <2> QED BY <2>2, FlatEmpty
<1> DEFINE f == Head(toHost)
           r == FlattenSeq(Tail(toHost))
<1>7. /\ f \in Frames /\ f \in Seq(Byte) /\ r \in Seq(Byte) /\ FlattenSeq(toHost) = f \o r
  <2>1. toHost \in Seq(Seq(Byte)) /\ f \in Frames /\ Tail(toHost) \in Seq(Frames)
    BY <1>6, FramesType, HeadTailProperties DEF FramesInv
  <2>2. Tail(toHost) \in Seq(Seq(Byte)) /\ f \in Seq(Byte)
    BY <2>1, FramesType
  <2> QED BY <1>6, <2>1, <2>2, FlatType, FlatFirst
<1> HIDE DEF f, r
<1>8. Len(a) = Len(f)
  <2> DEFINE u == b \o rx \o c
  <2>1. u \in Seq(Byte) /\ a \o u = f \o r
    BY <1>1, <1>5, <1>7
  <2> HIDE DEF u
  <2>2. (a \o u)[1] = a[1] /\ (f \o r)[1] = f[1]
    <3>1. 1 \in 1 .. Len(a) /\ 1 \in 1 .. Len(f)
      <4>1. Len(f) \in Nat /\ Len(f) >= 2
        BY <1>7, FramesType DEF Frames
      <4> QED BY <1>10, <4>1
    <3>2. 1 \in 1 .. Len(a) + Len(u) /\ 1 \in 1 .. Len(f) + Len(r)
      BY <1>3, <1>7, <2>1, <3>1, LenProperties
    <3> QED BY <1>3, <1>7, <2>1, <3>1, <3>2, ConcatProperties
  <2>3. f[1] = Len(f) - 2 /\ Len(f) \in Nat
    BY <1>7, FramesType DEF Frames
  <2>4. f[1] = hIn[1]
    BY <1>4, <2>1, <2>2
  <2> QED BY <1>10, <2>3, <2>4
<1>9. a = f /\ b \o rx \o c = r
  <2> DEFINE u == b \o rx \o c
  <2>1. u \in Seq(Byte) /\ a \o u = f \o r
    BY <1>1, <1>5, <1>7
  <2> HIDE DEF u
  <2>2. a = f /\ u = r
    BY <1>3, <1>7, <1>8, <2>1, CutFirst
  <2> QED BY <2>2 DEF u
<1> QED BY <1>6, <1>9 DEF a, b, c, f, r, n

\* recvCommand returns a frame, and the host acts on it.
LEMMA HostProcessLink == ASSUME LinkInv, HostProcess PROVE LinkInv'
<1> USE DEF LinkInv
<1>1. /\ FrameRead /\ hIn' = SubSeq(hIn, FrameSize(hIn[1]) + 1, Len(hIn))
      /\ toHost' = IF astray THEN toHost ELSE SubSeq(toHost, 2, Len(toHost))
      /\ hBusy' = FALSE /\ hGet = -1
      /\ UNCHANGED <<tx, rx, hLeft, hOut, hBegun, hRoom, hGet, hStale, mode, parser, connected,
                     count, out, room, astray, toM3, boots, torn, forgot>>
  BY DEF HostProcess, writing, links
<1>2. hIn' \in Seq(Byte) /\ hIn # << >> /\ hIn[1] \in Nat /\ Len(hIn) \in Nat
  <2>1. hIn \in Seq(Byte) /\ hIn[1] \in Nat /\ Len(hIn) \in Nat
    <3>1. hIn \in Seq(Byte) /\ Len(hIn) >= 1
      BY <1>1 DEF TypeOK, FrameRead
    <3>2. hIn[1] \in Byte /\ Len(hIn) \in Nat
      BY <3>1, ElementOfSeq, LenProperties
    <3> QED BY <3>1, <3>2, RoomAssumption DEF Byte
  <2>2. FrameSize(hIn[1]) \in 0 .. Len(hIn)
    BY <1>1, <2>1 DEF FrameRead, FrameSize
  <2>3. hIn # << >>
    BY <1>1, <2>1 DEF FrameRead
  <2>4. Split(Byte, hIn, FrameSize(hIn[1]))
    BY <1>1, <2>1, <2>2, <2>3, SplitAt
  <2> QED BY <1>1, <2>1, <2>2, <2>3, <2>4 DEF Split
<1>3. ASSUME ~astray PROVE ConnInv' /\ ReplyFraming' /\ toHost' \in Seq(Frames)
  <2>1. /\ toHost # << >> /\ toHost \in Seq(Frames) /\ hIn \in Seq(Byte)
        /\ Head(toHost) = SubSeq(hIn, 1, FrameSize(hIn[1]))
        /\ (hIn \o rx \o FlattenSeq(out))' = FlattenSeq(Tail(toHost))
    BY <1>1, <1>3, FrameCut DEF M3Inv, FramesInv, TypeOK
  <2>2. toHost' = Tail(toHost)
    BY <1>1, <1>3, <2>1, TailIsSubSeq
  <2>3. /\ Tail(toHost) \in Seq(Frames)
        /\ Len(Tail(toHost)) = Len(toHost) - 1 /\ Len(toHost) \in Nat \ {0}
        /\ DOMAIN toHost = 1 .. Len(toHost) /\ DOMAIN Tail(toHost) = 1 .. Len(toHost) - 1
        /\ \A i \in 1 .. Len(toHost) - 1 : Tail(toHost)[i] = toHost[i + 1]
    BY <2>1, HeadTailProperties, LenProperties, EmptySeq
  <2>4. toHost[1][2] = hIn[2]
    <3>1. Head(toHost)[2] = hIn[2]
      <4>1. hIn[1] \in Nat /\ 2 \in 1 .. FrameSize(hIn[1]) /\ FrameSize(hIn[1]) <= Len(hIn)
        BY <1>1, <1>2 DEF FrameRead, FrameSize
      <4>2. \A i \in 1 .. FrameSize(hIn[1]) : hIn[i] \in Byte
        BY <2>1, <4>1, ElementOfSeq DEF FrameSize
      <4>3. SubSeq(hIn, 1, FrameSize(hIn[1]))[2] = hIn[2]
        BY <4>1, <4>2, SubSeqProperties DEF FrameSize
      <4> QED BY <2>1, <4>3
    <3> QED BY <2>1, <3>1
  <2>5. hConnected' = IF Decides(toHost[1]) THEN hIn[2] = CmdConnect ELSE hConnected
    BY <2>4, FrameAssumption DEF HostProcess, Decides
  <2>6. ConnInv'
    <3> SUFFICES ASSUME OneMind PROVE OneMind'
      BY <1>1, <1>3 DEF ConnInv
    <3> DEFINE rest == Tail(toHost)
               k == Len(toHost)
    <3>1. rest = toHost' /\ connected' = connected
      BY <1>1, <2>2
    <3>2. ASSUME \A i \in DOMAIN rest : ~Decides(rest[i])
          PROVE  hConnected' = connected
      <4>1. \A j \in 2 .. k : ~Decides(toHost[j])
        <5> SUFFICES ASSUME NEW j \in 2 .. k PROVE ~Decides(toHost[j])
          OBVIOUS
        <5>1. j - 1 \in DOMAIN rest /\ rest[j - 1] = toHost[j]
          BY <2>3
        <5> QED BY <3>2, <5>1
      <4>2. 1 \in DOMAIN toHost /\ \A j \in DOMAIN toHost : j > 1 => ~Decides(toHost[j])
        BY <2>3, <4>1
      <4>3. CASE Decides(toHost[1])
        BY <2>4, <2>5, <4>2, <4>3 DEF OneMind
      <4>4. CASE ~Decides(toHost[1])
        <5>1. \A j \in DOMAIN toHost : ~Decides(toHost[j])
          BY <2>3, <4>2, <4>4
        <5> QED BY <2>5, <4>4, <5>1 DEF OneMind
      <4> QED BY <4>3, <4>4
    <3>3. ASSUME NEW i \in DOMAIN rest, Decides(rest[i]),
                 \A j \in DOMAIN rest : j > i => ~Decides(rest[j])
          PROVE  connected = (rest[i][2] = CmdConnect)
      <4>1. i \in 1 .. k - 1 /\ rest[i] = toHost[i + 1] /\ i + 1 \in DOMAIN toHost
        BY <2>3
      <4>2. ASSUME NEW j \in DOMAIN toHost, j > i + 1 PROVE ~Decides(toHost[j])
        <5>1. j - 1 \in DOMAIN rest /\ rest[j - 1] = toHost[j] /\ j - 1 > i
          BY <2>3, <4>1, <4>2
        <5> QED BY <3>3, <5>1
      <4> QED BY <3>3, <4>1, <4>2 DEF OneMind
    <3>4. \A f : Decides(f)' <=> Decides(f)
      BY DEF Decides
    <3> HIDE DEF rest
    <3> QED BY <3>1, <3>2, <3>3, <3>4 DEF OneMind, Decides
  <2>7. ReplyFraming'
    BY <2>1, <2>2 DEF ReplyFraming
  <2> QED BY <2>2, <2>3, <2>6, <2>7
<1>4. ASSUME astray PROVE ConnInv' /\ ReplyFraming' /\ toHost' \in Seq(Frames)
  BY <1>1, <1>4 DEF ConnInv, ReplyFraming, M3Inv, FramesInv
<1>5. ConnInv' /\ ReplyFraming' /\ toHost' \in Seq(Frames)
  BY <1>3, <1>4
<1>6. TypeOK'
  <2>1. toHost' \in Seq(Seq(Byte))
    BY <1>5, FramesType
  <2>2. {hBegun, hBusy, hStale, hConnected, hDead, connected, torn, astray, forgot}' \subseteq BOOLEAN
    <3>1. hBusy' \in BOOLEAN /\ hConnected' \in BOOLEAN /\ hDead' \in BOOLEAN
      BY DEF HostProcess, TypeOK
    <3> QED BY <1>1, <3>1 DEF TypeOK
  <2> QED BY <1>1, <1>2, <2>1, <2>2 DEF TypeOK, HostProcess, parser
<1>7. M3Inv'
  BY <1>1, <1>5 DEF M3Inv, ParserInv, SenderInv, FramesInv, parser
<1>9. HostInv'
  BY <1>1 DEF HostInv
<1>8. (CommandFraming /\ HangsOnlyWhenTorn)'
  BY <1>1 DEF CommandFraming, Parsed, HangsOnlyWhenTorn, parser
<1> QED BY <1>5, <1>6, <1>7, <1>8, <1>9

\* The M3 stops; what is in the rings stays.
LEMMA M3StopLink == ASSUME LinkInv, M3Stop PROVE LinkInv'
<1> USE DEF LinkInv
<1>1. /\ mode' = "off" /\ room' = -1
      /\ UNCHANGED <<tx, rx, host, parser, connected, count, out, toHost, astray, toM3, links>>
  BY DEF M3Stop
<1>2. TypeOK'
  <2>1. -1 \in -1 .. RxRoom
    BY RoomAssumption
  <2> QED BY <1>1, <2>1 DEF TypeOK, host, writing, reading, parser, links
<1>3. HostInv'
  BY <1>1 DEF HostInv, host, writing, reading, links
<1>4. M3Inv'
  BY <1>1 DEF M3Inv, ParserInv, SenderInv, FramesInv, parser
<1>5. (CommandFraming /\ ReplyFraming /\ HangsOnlyWhenTorn /\ ConnInv)'
  BY <1>1 DEF CommandFraming, Parsed, ReplyFraming, HangsOnlyWhenTorn, ConnInv, OneMind,
              host, writing, reading, parser, links
<1> QED BY <1>2, <1>3, <1>4, <1>5

\* What survives a start of the frames to the host is what it has read whole.
LEMMA ReadWhole ==
  ASSUME FramesInv, M3Boot, ~astray'
  PROVE  /\ ~astray /\ ~(hGet >= 0) /\ toHost' \in Seq(Frames)
         /\ \E k \in 0 .. Len(toHost) : toHost' = SubSeq(toHost, 1, k)
         /\ FlattenSeq(toHost') = hIn
<1> DEFINE k == CHOOSE i \in WholeRead : TRUE
<1>1. /\ ~astray /\ ~(hGet >= 0) /\ WholeRead # {} /\ toHost' = SubSeq(toHost, 1, k)
  BY DEF M3Boot, ParserReset
<1>2. k \in WholeRead
  BY <1>1
<1> HIDE DEF k
<1>3. k \in 0 .. Len(toHost) /\ FlattenSeq(SubSeq(toHost, 1, k)) = hIn
  BY <1>2 DEF WholeRead
<1>4. toHost \in Seq(Frames) /\ Len(toHost) \in Nat
  BY LenProperties DEF FramesInv
<1>5. toHost' \in Seq(Frames)
  <2>1. Split(Frames, toHost, k)
    BY <1>3, <1>4, SplitAt
  <2> QED BY <1>1, <1>3, <1>4, <2>1 DEF Split
<1> QED BY <1>1, <1>3, <1>5

\* The M3 starts: the rings are emptied, and with them part of a frame perhaps.
LEMMA M3BootLink == ASSUME LinkInv, M3Boot PROVE LinkInv'
<1> USE DEF LinkInv
<1>1. /\ mode' = "idle" /\ tx' = << >> /\ rx' = << >>
      /\ boots < MaxBoots /\ boots' = boots + 1
      /\ cmdI' = -1 /\ cmdLeft' = 0 /\ cmdLen' = 0 /\ cmdBuf' = << >>
      /\ (connected' = FALSE /\ count' = 0) \/ UNCHANGED <<connected, count>>
      /\ out' = << >> /\ room' = -1
      /\ hStale' = (hRoom >= 0 \/ hGet >= 0)
      /\ torn' = (hOut # << >> /\ (hBegun \/ hRoom >= 0))
      /\ toM3' = IF hOut = << >> \/ torn' THEN << >> ELSE <<hOut>>
      /\ astray' = (astray \/ hGet >= 0 \/ WholeRead = {})
      /\ astray' => toHost' = << >>
      /\ forgot' = ~OneMind'
      /\ UNCHANGED <<hLeft, hOut, hBegun, hRoom, hIn, hBusy, hGet, hConnected, hDead>>
  BY DEF M3Boot, ParserReset, writing, reading
<1>2. hOut \in Seq(Byte) /\ hIn \in Seq(Byte) /\ hRoom \in Int /\ hGet \in Int
  BY RoomAssumption DEF TypeOK
<1>3. ASSUME hOut # << >>, ~torn' PROVE hOut \in HostFrames
  BY <1>1, <1>3 DEF HostInv
<1>4. toM3' \in Seq(HostFrames) /\ toM3' \in Seq(Seq(Byte))
  BY <1>1, <1>3, FramesType
<1>5. toHost' \in Seq(Frames) /\ toHost' \in Seq(Seq(Byte))
  <2>1. toHost' \in Seq(Frames)
    BY <1>1, ReadWhole, EmptySeq DEF M3Inv
  <2> QED BY <2>1, FramesType
<1>6. TypeOK'
  <2>1. {hBegun, hBusy, hStale, hConnected, hDead, connected, torn, astray, forgot}' \subseteq BOOLEAN
    <3>1. /\ connected' \in BOOLEAN /\ torn' \in BOOLEAN /\ astray' \in BOOLEAN
          /\ hStale' \in BOOLEAN /\ forgot' \in BOOLEAN
      BY <1>1 DEF TypeOK
    <3> QED BY <1>1, <3>1 DEF TypeOK
  <2>2. /\ -1 \in -1 .. ByteMax + 1 /\ 0 \in 0 .. ByteMax + 1 /\ 0 \in Byte
        /\ 0 <= TxRoom /\ 0 <= RxRoom /\ -1 \in -1 .. RxRoom /\ boots' \in 0 .. MaxBoots
    BY <1>1, RoomAssumption DEF TypeOK, Byte
  <2>3. count' \in 0 .. Period - 1
    BY <1>1, RoomAssumption DEF TypeOK
  <2> QED BY <1>1, <1>4, <1>5, <2>1, <2>2, <2>3, EmptySeq DEF TypeOK
<1>7. HostInv'
  <2>1. hRoom >= 0 => hOut # << >> /\ torn'
    BY <1>1 DEF HostInv
  <2>2. hRoom >= 0 => hStale'
    BY <1>1
  <2>3. hGet >= 0 => astray'
    BY <1>1
  <2>4. hStale' => hRoom >= 0 \/ hGet >= 0
    BY <1>1
  <2> QED BY <1>1, <2>1, <2>2, <2>3, <2>4 DEF HostInv
<1>8. M3Inv'
  BY <1>1, <1>4, <1>5 DEF M3Inv, ParserInv, SenderInv, FramesInv
<1>9. CommandFraming'
  <2> SUFFICES ASSUME ~torn' PROVE (Parsed \o tx \o hOut = FlattenSeq(toM3))'
    BY DEF CommandFraming
  <2>1. Parsed' = << >> /\ tx' = << >> /\ hOut' = hOut
    BY <1>1 DEF Parsed
  <2>2. << >> \o << >> \o hOut = hOut
    BY <1>2, EmptySeq, ConcatEmptySeq
  <2>3. FlattenSeq(toM3') = hOut
    <3>1. CASE hOut = << >>
      BY <1>1, <3>1, FlatEmpty
    <3>2. CASE hOut # << >>
      BY <1>1, <1>2, <3>2, FlatOne
    <3> QED BY <3>1, <3>2
  <2> QED BY <2>1, <2>2, <2>3
<1>10. ReplyFraming'
  <2> SUFFICES ASSUME ~astray' PROVE (hIn \o rx \o FlattenSeq(out))' = FlattenSeq(toHost')
    BY DEF ReplyFraming
  <2>1. FlattenSeq(toHost') = hIn
    BY ReadWhole DEF M3Inv
  <2>2. (hIn \o << >>) \o << >> = hIn
    BY <1>2, EmptySeq, ConcatEmptySeq
  <2> QED BY <1>1, <2>1, <2>2, FlatEmpty
<1>11. (HangsOnlyWhenTorn /\ ConnInv)'
  BY <1>1 DEF HangsOnlyWhenTorn, ConnInv
<1> QED BY <1>6, <1>7, <1>8, <1>9, <1>10, <1>11

\* ringbuf_write measures the room for a part of a frame, ...
LEMMA MeasureRoomLink == ASSUME LinkInv, MeasureRoom PROVE LinkInv'
<1> USE DEF LinkInv
<1>1. /\ out # << >> /\ room' = MinOf(Len(Head(out)), RxRoom - Len(rx))
      /\ UNCHANGED <<tx, rx, host, mode, parser, connected, count, out, toHost, astray,
                     toM3, links>>
  BY DEF MeasureRoom
<1>2. Len(Head(out)) \in Nat /\ Len(rx) \in Nat /\ Len(rx) <= RxRoom
  BY <1>1, HeadTailProperties, LenProperties DEF TypeOK
<1>3. /\ room' \in 0 .. RxRoom /\ room' <= Len(Head(out)) /\ Len(rx) + room' <= RxRoom
  BY <1>1, <1>2, RoomAssumption DEF MinOf
<1>4. TypeOK'
  BY <1>1, <1>3 DEF TypeOK, host, writing, reading, parser, links
<1>5. M3Inv'
  BY <1>1, <1>3 DEF M3Inv, ParserInv, SenderInv, FramesInv, parser
<1>7. HostInv'
  BY <1>1 DEF HostInv, host, writing, reading, links
<1>6. (CommandFraming /\ ReplyFraming /\ HangsOnlyWhenTorn /\ ConnInv)'
  BY <1>1 DEF CommandFraming, ReplyFraming, Parsed, HangsOnlyWhenTorn, ConnInv, OneMind,
              parser, host, writing, reading, links
<1> QED BY <1>4, <1>5, <1>6, <1>7

\* ... and stores as much as fits; the host may only have made more room meanwhile.
LEMMA StoreRoomLink == ASSUME LinkInv, StoreRoom PROVE LinkInv'
<1> USE DEF LinkInv
<1> DEFINE h == Head(out)
           a == SubSeq(h, 1, room)
<1>1. /\ room >= 0 /\ out' = Tail(out) /\ room' = -1
      /\ IF Len(rx) + room <= RxRoom THEN rx' = rx \o a
         ELSE \E j \in Junk : Len(j) <= RxRoom /\ rx' = j
      /\ astray' = (astray \/ room < Len(h))
      /\ toHost' = IF astray' THEN << >> ELSE toHost
      /\ UNCHANGED <<tx, hLeft, hOut, hBegun, hRoom, hIn, hBusy, hGet, hStale, hConnected, hDead,
                     mode, parser, connected, count, toM3, boots, torn, forgot>>
  BY DEF StoreRoom, host, writing, reading, links
<1>2. /\ out \in Seq(Seq(Byte)) /\ out # << >> /\ h \in Seq(Byte) /\ Len(h) \in Nat
      /\ Tail(out) \in Seq(Seq(Byte)) /\ rx \in Seq(Byte) /\ hIn \in Seq(Byte)
      /\ room \in 0 .. Len(h) /\ Len(rx) \in Nat /\ (astray \/ Len(rx) + room <= RxRoom)
  <2>1. /\ out \in Seq(Seq(Byte)) /\ out # << >> /\ room <= Len(h)
        /\ astray \/ Len(rx) + room <= RxRoom
    BY <1>1 DEF TypeOK, M3Inv, SenderInv
  <2>2. h \in Seq(Byte) /\ Tail(out) \in Seq(Seq(Byte))
    BY <2>1, HeadTailProperties
  <2> HIDE DEF h
  <2>3. Len(h) \in Nat
    BY <2>2, LenProperties
  <2>4. room \in Int
    BY RoomAssumption DEF TypeOK
  <2> QED BY <1>1, <2>1, <2>2, <2>3, <2>4, LenProperties DEF TypeOK
<1> HIDE DEF h
<1>3. a \in Seq(Byte) /\ Len(a) = room
  <2>1. Split(Byte, h, room)
    BY <1>2, SplitAt
  <2> QED BY <1>2, <2>1 DEF Split
<1>11. rx \o a \in Seq(Byte) /\ Len(rx \o a) = Len(rx) + room
  BY <1>2, <1>3, ConcatProperties
<1>4. rx' \in Seq(Byte) /\ Len(rx') <= RxRoom
  <2>1. CASE Len(rx) + room <= RxRoom
    BY <1>1, <1>11, <2>1
  <2>2. CASE ~(Len(rx) + room <= RxRoom)
    <3>1. PICK j \in Junk : Len(j) <= RxRoom /\ rx' = j
      BY <1>1, <2>2
    <3> QED BY <3>1, RoomAssumption DEF Byte
  <2> QED BY <2>1, <2>2
<1>12. ASSUME ~astray PROVE rx' = rx \o a /\ Len(rx) <= Len(rx')
  <2>1. rx' = rx \o a
    BY <1>1, <1>2, <1>12
  <2> QED BY <1>2, <1>11, <2>1
<1>5. toHost' \in Seq(Frames) /\ toHost' \in Seq(Seq(Byte))
  BY <1>1, FramesType, EmptySeq DEF M3Inv, FramesInv
<1>6. TypeOK'
  <2>1. {hBegun, hBusy, hStale, hConnected, hDead, connected, torn, astray, forgot}' \subseteq BOOLEAN
    BY <1>1 DEF TypeOK
  <2>2. rx' \in Seq(Byte) /\ Len(rx') <= RxRoom /\ -1 \in -1 .. RxRoom
    BY <1>4, RoomAssumption
  <2> QED BY <1>1, <1>2, <1>5, <2>1, <2>2 DEF TypeOK, parser
<1>7. M3Inv'
  BY <1>1, <1>2, <1>5 DEF M3Inv, ParserInv, SenderInv, FramesInv, parser
<1>13. HostInv'
  <2>1. ~astray' => ~astray
    BY <1>1
  <2>2. hGet >= 0 /\ ~astray' => hGet <= Len(rx') /\ ~hStale
    <3>1. hGet \in Int /\ Len(rx') \in Nat
      BY <1>4, LenProperties, RoomAssumption DEF TypeOK
    <3> QED BY <1>2, <1>12, <2>1, <3>1 DEF HostInv
  <2> QED BY <1>1, <2>2 DEF HostInv
<1>8. ReplyFraming'
  <2> SUFFICES ASSUME ~astray' PROVE (hIn \o rx \o FlattenSeq(out))' = FlattenSeq(toHost)'
    BY DEF ReplyFraming
  <2> DEFINE r == FlattenSeq(Tail(out))
  <2>1. ~astray /\ room = Len(h) /\ toHost' = toHost /\ rx' = rx \o a
    <3>1. ~astray /\ ~(room < Len(h)) /\ toHost' = toHost
      BY <1>1, Zenon
    <3> QED BY <1>2, <1>12, <3>1
  <2>2. a = h
    BY <1>2, <2>1, SubSeqFull
  <2>3. r \in Seq(Byte) /\ FlattenSeq(out) = h \o r
    BY <1>2, FlatType, FlatFirst DEF h
  <2>4. hIn \o rx \o (h \o r) = FlattenSeq(toHost)
    BY <2>1, <2>3 DEF ReplyFraming
  <2> HIDE DEF r, a
  <2>5. hIn \in Seq(Byte) /\ rx \in Seq(Byte) /\ h \in Seq(Byte) /\ r \in Seq(Byte)
    BY <1>2, <2>3
  <2>6. hIn \o rx \in Seq(Byte)
    BY <2>5, ConcatProperties
  <2>7. hIn \o (rx \o h) = (hIn \o rx) \o h
    <3>1. Grouped(hIn, rx, h)
      BY <2>5, Assoc
    <3> QED BY <3>1 DEF Grouped
  <2>8. ((hIn \o rx) \o h) \o r = (hIn \o rx) \o (h \o r)
    <3> DEFINE x == hIn \o rx
    <3>1. x \in Seq(Byte) /\ h \in Seq(Byte) /\ r \in Seq(Byte)
      BY <2>5, <2>6
    <3> HIDE DEF x
    <3>2. (x \o h) \o r = x \o (h \o r)
      <4>1. Grouped(x, h, r)
        BY <3>1, Assoc
      <4> QED BY <4>1 DEF Grouped
    <3> QED BY <3>2 DEF x
  <2> QED BY <1>1, <2>1, <2>2, <2>4, <2>7, <2>8 DEF r
<1>9. (CommandFraming /\ HangsOnlyWhenTorn)'
  BY <1>1 DEF CommandFraming, Parsed, HangsOnlyWhenTorn, parser
<1>10. ConnInv'
  BY <1>1 DEF ConnInv, OneMind
<1> QED BY <1>6, <1>7, <1>8, <1>9, <1>10, <1>13

\* The end of a tick.
LEMMA EndTickLink == ASSUME LinkInv, EndTick PROVE LinkInv'
<1> USE DEF LinkInv
<1>1. /\ mode = "telemetry" /\ out = << >> /\ mode' = "idle" /\ count' = (count + 1) % Period
      /\ UNCHANGED <<tx, rx, host, parser, connected, sender, toM3, links>>
  BY DEF EndTick
<1>2. count' \in 0 .. Period - 1
  BY <1>1, RoomAssumption DEF TypeOK
<1>3. TypeOK'
  BY <1>1, <1>2 DEF TypeOK, host, writing, reading, parser, sender, links
<1>4. M3Inv'
  BY <1>1 DEF M3Inv, ParserInv, SenderInv, FramesInv, parser, sender
<1>6. HostInv'
  BY <1>1 DEF HostInv, host, writing, reading, sender, links
<1>5. (CommandFraming /\ ReplyFraming /\ HangsOnlyWhenTorn /\ ConnInv)'
  BY <1>1 DEF CommandFraming, ReplyFraming, Parsed, HangsOnlyWhenTorn, ConnInv, OneMind,
              parser, host, writing, reading, sender, links
<1> QED BY <1>3, <1>4, <1>5, <1>6

\* The parts command_send writes are the frame.
LEMMA WritesAreTheFrame ==
  ASSUME NEW f \in Frames
  PROVE  Writes(f) \in Seq(Seq(Byte)) /\ FlattenSeq(Writes(f)) = f
<1> DEFINE a == <<f[1]>>
           b == <<f[2]>>
           c == SubSeq(f, 3, Len(f))
<1>1. f \in Seq(Byte) /\ Len(f) \in Nat /\ Len(f) >= 2 /\ f[1] \in Byte /\ f[2] \in Byte
  BY FramesType DEF Frames
<1>2. /\ SubSeq(f, 1, 2) \in Seq(Byte) /\ Len(SubSeq(f, 1, 2)) = 2
      /\ c \in Seq(Byte) /\ Len(c) = Len(f) - 2 /\ f = SubSeq(f, 1, 2) \o c
  <2>1. 2 \in 0 .. Len(f) /\ 2 + 1 = 3
    BY <1>1
  <2>2. Split(Byte, f, 2)
    BY <1>1, <2>1, SplitAt
  <2> QED BY <1>1, <2>1, <2>2 DEF Split
<1>3. /\ a \in Seq(Byte) /\ b \in Seq(Byte) /\ <<a>> \in Seq(Seq(Byte)) /\ <<b>> \in Seq(Seq(Byte))
      /\ <<a, b>> = Append(<<a>>, b) /\ <<a, b>> \in Seq(Seq(Byte))
  BY <1>1
<1>4. a \o b = SubSeq(f, 1, 2)
  BY <1>1, <1>2
<1>5. FlattenSeq(<<a, b>>) = a \o b
  <2>1. FlattenSeq(<<a>>) = a
    BY <1>3, FlatOne
  <2>2. FlattenSeq(Append(<<a>>, b)) = FlattenSeq(<<a>>) \o b
    BY <1>3, FlatAppend
  <2> QED BY <1>3, <2>1, <2>2
<1>6. CASE Len(f) = 2
  <2>1. Writes(f) = <<a, b>>
    BY <1>6 DEF Writes
  <2>2. c = << >>
    BY <1>2, <1>6, EmptySeq
  <2>3. f = SubSeq(f, 1, 2)
    BY <1>2, <2>2, ConcatEmptySeq
  <2> QED BY <1>3, <1>4, <1>5, <2>1, <2>3
<1>7. CASE Len(f) # 2
  <2> HIDE DEF a, b, c
  <2>1. Writes(f) = Append(<<a, b>>, c)
    BY <1>7 DEF Writes, a, b, c
  <2>2. Append(<<a, b>>, c) \in Seq(Seq(Byte))
    BY <1>2, <1>3, AppendProperties
  <2>3. FlattenSeq(Append(<<a, b>>, c)) = FlattenSeq(<<a, b>>) \o c
    BY <1>2, <1>3, FlatAppend
  <2> QED BY <1>2, <1>4, <1>5, <2>1, <2>2, <2>3
<1> QED BY <1>6, <1>7

\* A handler that sends leaves the frames it sends to be written, and under way.
LEMMA SendingLink ==
  ASSUME NEW fs \in Seq(Frames), Sending(fs), TypeOK, ReplyFraming, FramesInv, out = << >>,
         UNCHANGED <<hIn, rx, astray>>
  PROVE  /\ out' \in Seq(Seq(Byte)) /\ toHost' \in Seq(Frames) /\ ReplyFraming'
<1> DEFINE W == [i \in 1 .. Len(fs) |-> Writes(fs[i])]
           E == [i \in 1 .. Len(W) |-> FlattenSeq(W[i])]
<1>1. Len(fs) \in Nat /\ \A i \in 1 .. Len(fs) : fs[i] \in Frames
  BY LenProperties, ElementOfSeq
<1>2. \A i \in 1 .. Len(fs) : Writes(fs[i]) \in Seq(Seq(Byte)) /\ FlattenSeq(Writes(fs[i])) = fs[i]
  BY <1>1, WritesAreTheFrame
<1>3. W \in Seq(Seq(Seq(Byte))) /\ Len(W) = Len(fs) /\ \A i \in 1 .. Len(fs) : W[i] = Writes(fs[i])
  BY <1>1, <1>2
<1>4. E = fs
  <2>1. E = [i \in 1 .. Len(fs) |-> fs[i]]
    BY <1>2, <1>3
  <2>2. fs = [i \in 1 .. Len(fs) |-> fs[i]]
    BY <1>1, LenProperties
  <2> QED BY <2>1, <2>2
<1>5. FlattenSeq(FlattenSeq(W)) = FlattenSeq(E)
  BY <1>3, FlatFlat
<1>6. out' = FlattenSeq(W) /\ toHost' = IF astray THEN toHost ELSE toHost \o fs
  BY DEF Sending
<1> HIDE DEF W, E
<1>7. out' \in Seq(Seq(Byte))
  BY <1>3, <1>6, FlatType
<1>8. toHost \in Seq(Frames) /\ toHost \o fs \in Seq(Frames)
  BY ConcatProperties DEF FramesInv
<1>9. ReplyFraming'
  <2> SUFFICES ASSUME ~astray PROVE (hIn \o rx \o FlattenSeq(out))' = FlattenSeq(toHost)'
    BY DEF ReplyFraming
  <2>1. hIn \o rx \o << >> = FlattenSeq(toHost)
    BY FlatEmpty DEF ReplyFraming
  <2>2. hIn \o rx \in Seq(Byte)
    BY ConcatProperties DEF TypeOK
  <2>3. hIn \o rx = FlattenSeq(toHost)
    BY <2>1, <2>2, ConcatEmptySeq
  <2>4. fs \in Seq(Seq(Byte)) /\ toHost \in Seq(Seq(Byte))
    BY <1>8, FramesType
  <2>5. FlattenSeq(toHost \o fs) = FlattenSeq(toHost) \o FlattenSeq(fs)
    BY <2>4, FlatConcat
  <2> QED BY <1>4, <1>5, <1>6, <2>3, <2>5
<1> QED BY <1>6, <1>7, <1>8, <1>9

\* Frames that do not decide the connection leave it; one that does decides it.
LEMMA ConnectionKept ==
  ASSUME NEW fs \in Seq(Frames), ConnInv, FramesInv,
         toHost' = (IF astray THEN toHost ELSE toHost \o fs),
         UNCHANGED <<hConnected, astray>>,
         \/ connected' = connected /\ forgot' = forgot /\ \A i \in 1 .. Len(fs) : ~Decides(fs[i])
         \/ /\ Len(fs) = 1 /\ Decides(fs[1])
            /\ connected' = (fs[1][2] = CmdConnect)
  PROVE  ConnInv'
<1> DEFINE n == Len(toHost)
           k == Len(fs)
           w == toHost \o fs
<1>1. SUFFICES ASSUME ~astray, ~forgot'
               PROVE  /\ (\A i \in DOMAIN w : ~Decides(w[i])) => hConnected = connected'
                      /\ \A i \in DOMAIN w :
                           Decides(w[i]) /\ (\A j \in DOMAIN w : j > i => ~Decides(w[j]))
                             => connected' = (w[i][2] = CmdConnect)
  BY DEF ConnInv, OneMind, Decides
<1>2. /\ n \in Nat /\ k \in Nat /\ DOMAIN toHost = 1 .. n /\ DOMAIN w = 1 .. n + k
      /\ \A i \in 1 .. n + k : w[i] = IF i <= n THEN toHost[i] ELSE fs[i - n]
  BY ConcatProperties, LenProperties DEF FramesInv
<1> HIDE DEF n, k, w
<1>3. ASSUME ~forgot
      PROVE
      /\ (\A i \in 1 .. n : ~Decides(toHost[i])) => hConnected = connected
      /\ \A i \in 1 .. n :
           Decides(toHost[i]) /\ (\A j \in 1 .. n : j > i => ~Decides(toHost[j]))
             => connected = (toHost[i][2] = CmdConnect)
  BY <1>1, <1>2, <1>3 DEF ConnInv, OneMind
<1>4. CASE connected' = connected /\ forgot' = forgot /\ \A i \in 1 .. k : ~Decides(fs[i])
  <2>1. \A i \in 1 .. n + k : i > n => ~Decides(w[i])
    <3> SUFFICES ASSUME NEW i \in 1 .. n + k, i > n PROVE ~Decides(w[i])
      OBVIOUS
    <3>1. i - n \in 1 .. k /\ w[i] = fs[i - n]
      BY <1>2
    <3> QED BY <1>4, <3>1
  <2>2. \A i \in 1 .. n : i \in 1 .. n + k /\ w[i] = toHost[i]
    BY <1>2
  <2>3. ASSUME NEW i \in 1 .. n + k, Decides(w[i]),
               \A j \in 1 .. n + k : j > i => ~Decides(w[j])
        PROVE  connected = (w[i][2] = CmdConnect)
    <3>1. i \in 1 .. n /\ w[i] = toHost[i]
      BY <1>2, <2>1, <2>3
    <3>2. \A j \in 1 .. n : j > i => ~Decides(toHost[j])
      BY <2>2, <2>3
    <3> QED BY <1>1, <1>3, <1>4, <2>3, <3>1, <3>2
  <2>4. ASSUME \A i \in 1 .. n + k : ~Decides(w[i]) PROVE hConnected = connected
    BY <1>1, <1>3, <1>4, <2>2, <2>4
  <2> QED BY <1>2, <1>4, <2>3, <2>4
<1>5. CASE k = 1 /\ Decides(fs[1]) /\ connected' = (fs[1][2] = CmdConnect)
  <2>1. n + 1 \in 1 .. n + k /\ w[n + 1] = fs[1]
    <3>1. n + 1 \in 1 .. n + k /\ ~(n + 1 <= n) /\ n + 1 - n = 1
      BY <1>2, <1>5
    <3> QED BY <1>2, <3>1
  <2>2. ASSUME NEW i \in 1 .. n + k, Decides(w[i]),
               \A j \in 1 .. n + k : j > i => ~Decides(w[j])
        PROVE  i = n + 1
    <3>1. ~(n + 1 > i)
      BY <1>5, <2>1, <2>2
    <3> QED BY <1>2, <1>5, <3>1
  <2> QED BY <1>2, <1>5, <2>1, <2>2
<1> QED BY <1>4, <1>5 DEF k

\* A telemetry burst is of frames that do not decide the connection.
LEMMA TelemetryFrames ==
  ASSUME NEW b \in TelemetryByte
  PROVE  Burst(b) \in Seq(Frames) /\ \A i \in 1 .. Len(Burst(b)) : ~Decides(Burst(b)[i])
<1> DEFINE d == [j \in 1 .. TelemetryLen |-> b]
           fs == [i \in 1 .. Len(Telemetry) |-> Frame(Telemetry[i], d)]
<1>1. /\ Len(Telemetry) \in Nat
      /\ \A i \in 1 .. Len(Telemetry) :
           Telemetry[i] \in Byte /\ Telemetry[i] \notin {CmdConnect, CmdDisconnect}
  BY FrameAssumption, LenProperties, ElementOfSeq DEF Byte
<1>2. d \in Seq(Byte) /\ Len(d) \in Byte
  BY FrameAssumption, RoomAssumption DEF Byte
<1> HIDE DEF d
<1>3. ASSUME NEW i \in 1 .. Len(Telemetry)
      PROVE  Frame(Telemetry[i], d) \in Frames /\ ~Decides(Frame(Telemetry[i], d))
  <2> DEFINE h == <<Len(d), Telemetry[i]>>
             f == h \o d
  <2>1. h \in Seq(Byte) /\ Len(h) = 2 /\ h[1] = Len(d) /\ h[2] = Telemetry[i]
    BY <1>1, <1>2
  <2> HIDE DEF h
  <2>2. /\ f \in Seq(Byte) /\ Len(f) = 2 + Len(d)
        /\ \A j \in 1 .. Len(h) + Len(d) : f[j] = IF j <= Len(h) THEN h[j] ELSE d[j - Len(h)]
    BY <1>2, <2>1, ConcatProperties
  <2>3. Len(d) \in Nat
    BY <1>2, LenProperties
  <2>4. f[1] = Len(d) /\ f[2] = Telemetry[i] /\ Len(f) >= 2 /\ f[1] = Len(f) - 2
    BY <2>1, <2>2, <2>3
  <2> HIDE DEF f
  <2>5. f \in Frames /\ ~Decides(f)
    BY <1>1, <2>2, <2>4 DEF Frames, Decides
  <2> QED BY <2>5 DEF Frame, f, h
<1>4. fs \in Seq(Frames) /\ Len(fs) = Len(Telemetry)
      /\ \A i \in 1 .. Len(Telemetry) : fs[i] = Frame(Telemetry[i], d)
  BY <1>1, <1>3
<1> HIDE DEF fs
<1> QED BY <1>3, <1>4 DEF fs, d, Burst

\* The telemetry of a tick.
LEMMA SendTelemetryLink == ASSUME LinkInv, SendTelemetry PROVE LinkInv'
<1> USE DEF LinkInv
<1>1. /\ mode = "reply" /\ out = << >> /\ mode' = "telemetry"
      /\ UNCHANGED <<tx, rx, host, parser, connected, count, room, astray, toM3, links>>
  BY DEF SendTelemetry
<1>2. /\ out' \in Seq(Seq(Byte)) /\ toHost' \in Seq(Frames) /\ ReplyFraming' /\ ConnInv'
  <2>1. CASE connected /\ count = 0
    <3>1. PICK b \in TelemetryByte : Sending(Burst(b))
      BY <2>1 DEF SendTelemetry
    <3> DEFINE fs == Burst(b)
    <3>2. fs \in Seq(Frames) /\ \A i \in 1 .. Len(fs) : ~Decides(fs[i])
      BY TelemetryFrames
    <3> HIDE DEF fs
    <3>3. Sending(fs)
      BY <3>1 DEF fs
    <3>4. UNCHANGED <<hIn, rx, astray, hConnected, connected, forgot>> /\ FramesInv
      BY <1>1 DEF host, reading, links, M3Inv
    <3>5. /\ out' \in Seq(Seq(Byte)) /\ toHost' \in Seq(Frames) /\ ReplyFraming'
      BY <1>1, <3>2, <3>3, <3>4, SendingLink
    <3>6. toHost' = IF astray THEN toHost ELSE toHost \o fs
      BY <3>3 DEF Sending
    <3>7. ConnInv'
      BY <3>2, <3>4, <3>6, ConnectionKept
    <3> QED BY <3>5, <3>7
  <2>2. CASE ~(connected /\ count = 0)
    <3>1. UNCHANGED <<out, toHost>>
      BY <2>2 DEF SendTelemetry
    <3> QED BY <1>1, <3>1 DEF host, reading, links, TypeOK, M3Inv, FramesInv, ReplyFraming, ConnInv, OneMind
  <2> QED BY <2>1, <2>2
<1>3. TypeOK'
  BY <1>1, <1>2, FramesType DEF TypeOK, host, writing, reading, parser, links
<1>4. M3Inv'
  <2>1. room < 0
    BY <1>1, RoomAssumption DEF M3Inv, SenderInv, TypeOK
  <2> QED BY <1>1, <1>2, <2>1 DEF M3Inv, ParserInv, SenderInv, FramesInv, parser
<1>6. HostInv'
  BY <1>1 DEF HostInv, host, writing, reading, links
<1>5. (CommandFraming /\ HangsOnlyWhenTorn)'
  BY <1>1 DEF CommandFraming, Parsed, HangsOnlyWhenTorn, parser, host, writing, links
<1> QED BY <1>2, <1>3, <1>4, <1>5, <1>6

\* What one call of command_process takes from the ring: the length byte, unless it has
\* it, and bytes of the frame, of which some may stay missing.
LEMMA Take ==
  ASSUME LinkInv, CommandProcess, tx # << >>
  PROVE  \E len \in Byte, missing \in Nat, buf \in Seq(Byte), rest \in Seq(Byte) :
           /\ Parsed \o tx = (<<len>> \o buf) \o rest
           /\ Len(buf) + missing = FrameLeft(len) /\ Len(rest) <= Len(tx)
           /\ tx' = rest /\ cmdLeft' = missing
           /\ missing > 0 =>
                /\ cmdI' = Len(buf) /\ cmdBuf' = buf /\ cmdLen' = len /\ mode' = "reply"
                /\ UNCHANGED <<connected, out, toHost, toM3, forgot>>
           /\ missing = 0 =>
                /\ cmdI' = -1 /\ cmdBuf' = << >> /\ cmdLen' = 0
                /\ toM3' = (IF torn THEN toM3 ELSE Tail(toM3))
                /\ Dispatch(buf[1])
<1> USE DEF LinkInv
<1> DEFINE fresh == cmdI = -1
           avail == IF fresh THEN Len(tx) - 1 ELSE Len(tx)
           len == IF fresh THEN tx[1] ELSE cmdLen
           left == IF fresh THEN FrameLeft(len) ELSE cmdLeft
           n == MinOf(avail, left)
           taken == SubSeq(tx, Len(tx) - avail + 1, Len(tx) - avail + n)
           buf == IF fresh THEN taken ELSE cmdBuf \o taken
           rest == SubSeq(tx, Len(tx) - avail + n + 1, Len(tx))
<1>1. /\ tx' = rest /\ cmdLeft' = left - n
      /\ left > n =>
           /\ cmdI' = Len(buf) /\ cmdBuf' = buf /\ cmdLen' = len /\ mode' = "reply"
           /\ UNCHANGED <<connected, out, toHost, toM3, forgot>>
      /\ ~(left > n) =>
           /\ cmdI' = -1 /\ cmdBuf' = << >> /\ cmdLen' = 0
           /\ toM3' = (IF torn THEN toM3 ELSE Tail(toM3))
           /\ Dispatch(buf[1])
  BY Zenon DEF CommandProcess
<1>2. /\ tx \in Seq(Byte) /\ Len(tx) \in Nat /\ Len(tx) >= 1 /\ cmdBuf \in Seq(Byte)
      /\ tx[1] \in Byte /\ \A i \in 1 .. Len(tx) : tx[i] \in Byte
      /\ mode = "idle" /\ Byte \subseteq Nat
  <2>1. tx \in Seq(Byte) /\ Len(tx) \in Nat /\ Len(tx) >= 1 /\ cmdBuf \in Seq(Byte)
    BY EmptySeq DEF TypeOK
  <2>2. \A i \in 1 .. Len(tx) : tx[i] \in Byte
    BY <2>1, ElementOfSeq
  <2> QED BY <2>1, <2>2, RoomAssumption DEF CommandProcess, Byte
<1>3. CASE fresh
  <2>1. avail = Len(tx) - 1 /\ len = tx[1] /\ left = len + 1 /\ Len(tx) - avail = 1 /\ len \in Nat
    <3>1. avail = Len(tx) - 1 /\ len = tx[1] /\ left = FrameLeft(len)
      BY <1>3
    <3> HIDE DEF avail, len, left
    <3>2. len \in Nat
      BY <1>2, <3>1, Zenon
    <3>3. Len(tx) - avail = 1
      BY <1>2, <3>1
    <3> QED BY <3>1, <3>2, <3>3 DEF FrameLeft
  <2>2. n \in 0 .. avail /\ n <= left /\ n \in Nat
    BY <1>2, <2>1 DEF MinOf
  <2> HIDE DEF n, avail, left, len
  <2> DEFINE m == n + 1
  <2>3. m \in 1 .. Len(tx) /\ m \in 0 .. Len(tx)
    BY <1>2, <2>1, <2>2
  <2> HIDE DEF m
  <2>4. /\ SubSeq(tx, 1, m) \in Seq(Byte) /\ Len(SubSeq(tx, 1, m)) = m
        /\ SubSeq(tx, m + 1, Len(tx)) \in Seq(Byte)
        /\ Len(SubSeq(tx, m + 1, Len(tx))) = Len(tx) - m
        /\ tx = SubSeq(tx, 1, m) \o SubSeq(tx, m + 1, Len(tx))
    <3>1. Split(Byte, tx, m)
      BY <1>2, <2>3, SplitAt
    <3> QED BY <1>2, <2>3, <3>1 DEF Split
  <2>5. taken = SubSeq(tx, 2, m) /\ rest = SubSeq(tx, m + 1, Len(tx)) /\ buf = taken
    BY <1>3, <2>1, <2>2 DEF m
  <2> HIDE DEF taken, buf, rest
  <2>6. taken \in Seq(Byte) /\ Len(taken) = n
    <3>1. \A i \in 2 .. m : tx[i] \in Byte
      BY <1>2, <2>3
    <3>2. /\ SubSeq(tx, 2, m) \in Seq(Byte)
          /\ Len(SubSeq(tx, 2, m)) = IF 2 <= m THEN m - 2 + 1 ELSE 0
      BY <2>3, <3>1, SubSeqProperties
    <3> QED BY <2>2, <2>5, <3>2 DEF m
  <2>7. SubSeq(tx, 1, m) = <<len>> \o taken
    <3>1. 1 \in 1 .. Len(tx) /\ m \in 1 .. Len(tx)
      BY <1>2, <2>3
    <3>2. SubSeq(tx, 1, m) = <<tx[1]>> \o SubSeq(tx, 1 + 1, m)
      BY <1>2, <3>1, SubSeqRecursiveFirst
    <3>3. 1 + 1 = 2
      OBVIOUS
    <3> QED BY <2>1, <2>5, <3>2, <3>3
  <2>8. Parsed \o tx = (<<len>> \o buf) \o rest
    <3>1. Parsed = << >>
      BY <1>3 DEF Parsed
    <3>2. << >> \o tx = tx
      BY <1>2, ConcatEmptySeq
    <3> QED BY <2>4, <2>5, <2>7, <3>1, <3>2
  <2>9. /\ left - n \in Nat /\ (left > n <=> left - n > 0) /\ (~(left > n) <=> left - n = 0)
        /\ Len(buf) + (left - n) = FrameLeft(len) /\ Len(rest) <= Len(tx)
    <3>1. /\ left \in Nat /\ n \in Nat /\ n <= left /\ Len(buf) = n /\ left = FrameLeft(len)
      BY <2>1, <2>2, <2>5, <2>6 DEF FrameLeft
    <3>2. Len(rest) = Len(tx) - m /\ m \in Nat
      BY <2>3, <2>4, <2>5
    <3> QED BY <1>2, <3>1, <3>2
  <2>10. len \in Byte /\ buf \in Seq(Byte) /\ rest \in Seq(Byte)
    BY <1>2, <2>1, <2>4, <2>5, <2>6
  <2> QED BY <1>1, <2>8, <2>9, <2>10
<1>4. CASE ~fresh
  <2>1. /\ avail = Len(tx) /\ len = cmdLen /\ left = cmdLeft /\ Len(tx) - avail = 0
        /\ len \in Byte /\ left \in Nat
        /\ Len(cmdBuf) \in Nat /\ Len(cmdBuf) + left = FrameLeft(len)
    <3>1. avail = Len(tx) /\ len = cmdLen /\ left = cmdLeft
      BY <1>4
    <3>2. cmdLen \in Byte /\ cmdLeft \in Nat
      BY RoomAssumption DEF TypeOK
    <3>3. Len(cmdBuf) \in Nat /\ Len(cmdBuf) + cmdLeft = FrameLeft(cmdLen)
      BY <1>2, <1>4, LenProperties DEF M3Inv, ParserInv
    <3> HIDE DEF avail, len, left
    <3> QED BY <1>2, <3>1, <3>2, <3>3
  <2>2. n \in 0 .. Len(tx) /\ n <= left /\ n \in Nat
    BY <1>2, <2>1 DEF MinOf
  <2> HIDE DEF n, avail, left, len
  <2>3. taken = SubSeq(tx, 1, n) /\ rest = SubSeq(tx, n + 1, Len(tx)) /\ buf = cmdBuf \o taken
    BY <1>2, <1>4, <2>1, <2>2
  <2> HIDE DEF taken, buf, rest
  <2>4. /\ taken \in Seq(Byte) /\ Len(taken) = n /\ rest \in Seq(Byte)
        /\ Len(rest) = Len(tx) - n /\ tx = taken \o rest
    <3>1. Split(Byte, tx, n)
      BY <1>2, <2>2, <2>3, SplitAt
    <3> QED BY <1>2, <2>2, <2>3, <3>1 DEF Split
  <2>5. buf \in Seq(Byte) /\ Len(buf) = Len(cmdBuf) + n
    BY <1>2, <2>3, <2>4, ConcatProperties
  <2>6. Parsed \o tx = (<<len>> \o buf) \o rest
    <3>1. Parsed = <<len>> \o cmdBuf
      BY <1>2, <1>4, <2>1 DEF Parsed
    <3>2. /\ <<len>> \in Seq(Byte) /\ cmdBuf \in Seq(Byte) /\ taken \in Seq(Byte)
          /\ rest \in Seq(Byte)
      BY <1>2, <2>1, <2>4
    <3>3. <<len>> \o cmdBuf \in Seq(Byte)
      BY <3>2, ConcatProperties
    <3>4. (<<len>> \o cmdBuf) \o (taken \o rest) = ((<<len>> \o cmdBuf) \o taken) \o rest
      <4>1. Grouped(<<len>> \o cmdBuf, taken, rest)
        BY <3>2, <3>3, Assoc
      <4> QED BY <4>1 DEF Grouped
    <3>5. (<<len>> \o cmdBuf) \o taken = <<len>> \o (cmdBuf \o taken)
      <4>1. Grouped(<<len>>, cmdBuf, taken)
        BY <3>2, Assoc
      <4> QED BY <4>1 DEF Grouped
    <3> QED BY <2>3, <2>4, <3>1, <3>4, <3>5
  <2>7. /\ left - n \in Nat /\ (left > n <=> left - n > 0) /\ (~(left > n) <=> left - n = 0)
        /\ Len(buf) + (left - n) = FrameLeft(len) /\ Len(rest) <= Len(tx)
    BY <1>2, <2>1, <2>2, <2>4, <2>5
  <2> QED BY <1>1, <2>1, <2>4, <2>5, <2>6, <2>7
<1> QED BY <1>3, <1>4

\* The frame command_process hands over is the oldest one on its way.
LEMMA WholeFrame ==
  ASSUME LinkInv, ~torn,
         NEW len \in Byte, NEW buf \in Seq(Byte), NEW rest \in Seq(Byte),
         Parsed \o tx = (<<len>> \o buf) \o rest, Len(buf) = FrameLeft(len)
  PROVE  /\ toM3 # << >> /\ Head(toM3)[2] = buf[1]
         /\ rest \o hOut = FlattenSeq(Tail(toM3))
<1> USE DEF LinkInv
<1> DEFINE a == <<len>> \o buf
           u == rest \o hOut
<1>1. /\ hOut \in Seq(Byte) /\ toM3 \in Seq(HostFrames) /\ toM3 \in Seq(Frames)
      /\ toM3 \in Seq(Seq(Byte)) /\ Parsed \o tx \o hOut = FlattenSeq(toM3)
  BY FramesType, SeqMonotonic DEF TypeOK, M3Inv, FramesInv, CommandFraming
<1>2. /\ a \in Seq(Byte) /\ Len(a) = len + 2 /\ a[1] = len /\ a[2] = buf[1] /\ len \in Nat
  <2>1. <<len>> \in Seq(Byte) /\ Len(<<len>>) = 1 /\ len \in Nat /\ Len(buf) = len + 1
    BY RoomAssumption DEF Byte, FrameLeft
  <2>2. /\ a \in Seq(Byte) /\ Len(a) = 1 + Len(buf)
        /\ \A i \in 1 .. 1 + Len(buf) : a[i] = IF i <= 1 THEN <<len>>[i] ELSE buf[i - 1]
    BY <2>1, ConcatProperties
  <2> HIDE DEF a
  <2> QED BY <2>1, <2>2
<1> HIDE DEF a
<1>3. u \in Seq(Byte) /\ a \o u = FlattenSeq(toM3)
  <2>1. rest \in Seq(Byte) /\ hOut \in Seq(Byte) /\ a \in Seq(Byte)
    BY <1>1, <1>2
  <2>2. (a \o rest) \o hOut = a \o (rest \o hOut)
    <3>1. Grouped(a, rest, hOut)
      BY <2>1, Assoc
    <3> QED BY <3>1 DEF Grouped
  <2>3. u \in Seq(Byte)
    BY <2>1, ConcatProperties
  <2> QED BY <1>1, <2>2, <2>3 DEF a
<1> HIDE DEF u
<1>4. toM3 # << >>
  <2>1. FlattenSeq(toM3) # << >>
    <3>1. a # << >>
      BY <1>2
    <3> QED BY <1>2, <1>3, <3>1, ConcatSimplifications
  <2> QED BY <2>1, FlatEmpty
<1> DEFINE f == Head(toM3)
           r == FlattenSeq(Tail(toM3))
<1>5. f \in Frames /\ f \in Seq(Byte) /\ r \in Seq(Byte) /\ FlattenSeq(toM3) = f \o r
  <2>1. f \in Frames /\ Tail(toM3) \in Seq(Frames)
    BY <1>1, <1>4, HeadTailProperties
  <2>2. f \in Seq(Byte) /\ Tail(toM3) \in Seq(Seq(Byte))
    BY <2>1, FramesType
  <2> QED BY <1>1, <1>4, <2>1, <2>2, FlatType, FlatFirst
<1> HIDE DEF f, r
<1>6. Len(f) \in Nat /\ Len(f) >= 2 /\ f[1] = Len(f) - 2
  BY <1>5, FramesType DEF Frames
<1>7. Len(a) = Len(f)
  <2>1. (a \o u)[1] = a[1] /\ (f \o r)[1] = f[1]
    <3>1. 1 \in 1 .. Len(a) /\ 1 \in 1 .. Len(f)
      BY <1>2, <1>6
    <3>2. 1 \in 1 .. Len(a) + Len(u) /\ 1 \in 1 .. Len(f) + Len(r)
      BY <1>2, <1>3, <1>5, <1>6, <3>1, LenProperties
    <3> QED BY <1>2, <1>3, <1>5, <3>1, <3>2, ConcatProperties
  <2> QED BY <1>2, <1>3, <1>5, <1>6, <2>1
<1>8. a = f /\ u = r
  <2>1. a \o u = f \o r
    BY <1>3, <1>5
  <2> QED BY <1>2, <1>3, <1>5, <1>7, <2>1, CutFirst
<1> QED BY <1>2, <1>4, <1>8 DEF f, u, r

\* The handler of a command: only a command no host program sends hangs, which takes a
\* torn frame.
LEMMA DispatchLink ==
  ASSUME LinkInv, CommandProcess, NEW cmd \in Byte, Dispatch(cmd), ~torn => cmd < CmdLimit
  PROVE  /\ (mode' = "hung" => torn) /\ mode' \in {"reply", "hung"}
         /\ mode' = "hung" => out' = << >>
         /\ connected' \in BOOLEAN /\ forgot' \in BOOLEAN /\ out' \in Seq(Seq(Byte)) /\ toHost' \in Seq(Frames)
         /\ ReplyFraming' /\ ConnInv'
<1> USE DEF LinkInv
<1>1. /\ mode = "idle" /\ out = << >> /\ UNCHANGED <<rx, hIn, hConnected, astray, torn>>
      /\ FramesInv /\ ReplyFraming /\ TypeOK
  BY DEF CommandProcess, M3Inv, SenderInv, host, reading
<1>2. CASE cmd >= CmdLimit /\ mode' = "hung" /\ UNCHANGED <<connected, out, toHost, forgot>>
  <2>1. torn
    BY <1>2, FrameAssumption, RoomAssumption DEF Byte
  <2> QED BY <1>1, <1>2, <2>1 DEF TypeOK, FramesInv, ReplyFraming, ConnInv, OneMind
<1>3. CASE /\ cmd < CmdLimit /\ mode' = "reply" /\ connected' = ConnectedAfter(cmd)
           /\ forgot' = (forgot /\ cmd \notin {CmdConnect, CmdDisconnect})
           /\ IF cmd \in CmdQuiet THEN UNCHANGED <<out, toHost>>
              ELSE Sending(<<Frame(IF cmd \in {CmdConnect, CmdDisconnect} THEN cmd
                                   ELSE CmdError, << >>)>>)
  <2>0. connected' \in BOOLEAN /\ forgot' \in BOOLEAN
    BY <1>3 DEF ConnectedAfter, TypeOK
  <2>1. CASE cmd \in CmdQuiet
    <3>1. cmd # CmdConnect /\ cmd # CmdDisconnect
      BY <2>1, FrameAssumption
    <3>2. connected' = connected /\ forgot' = forgot
      BY <1>3, <3>1 DEF ConnectedAfter, TypeOK
    <3> QED BY <1>1, <1>3, <2>0, <2>1, <3>2 DEF TypeOK, FramesInv, ReplyFraming, ConnInv, OneMind
  <2>2. CASE cmd \notin CmdQuiet
    <3> DEFINE c == IF cmd \in {CmdConnect, CmdDisconnect} THEN cmd ELSE CmdError
               f == Frame(c, << >>)
               fs == <<f>>
    <3>1. c \in Byte
      BY FrameAssumption DEF Byte
    <3> HIDE DEF c
    <3>2. f = <<0, c>> /\ f[2] = c /\ f \in Frames
      <4>1. <<0, c>> \in Seq(Byte)
        BY <3>1, RoomAssumption DEF Byte
      <4>2. f = <<0, c>>
        BY <4>1, ConcatEmptySeq DEF Frame
      <4>3. Len(<<0, c>>) = 2 /\ <<0, c>>[1] = 0 /\ <<0, c>>[2] = c
        OBVIOUS
      <4> HIDE DEF f
      <4> QED BY <4>1, <4>2, <4>3 DEF Frames
    <3> HIDE DEF f
    <3>3. fs \in Seq(Frames) /\ Len(fs) = 1 /\ fs[1] = f
      BY <3>2
    <3>4. Sending(fs)
      BY <1>3, <2>2 DEF fs, f, c
    <3> HIDE DEF fs
    <3>5. /\ out' \in Seq(Seq(Byte)) /\ toHost' \in Seq(Frames) /\ ReplyFraming'
      BY <1>1, <3>3, <3>4, SendingLink
    <3>6. toHost' = IF astray THEN toHost ELSE toHost \o fs
      BY <3>4 DEF Sending
    <3>7. \/ connected' = connected /\ forgot' = forgot /\ \A i \in 1 .. Len(fs) : ~Decides(fs[i])
          \/ /\ Len(fs) = 1 /\ Decides(fs[1])
             /\ connected' = (fs[1][2] = CmdConnect)
      <4>1. CASE cmd \in {CmdConnect, CmdDisconnect}
        <5>1. c = cmd /\ Decides(fs[1])
          BY <3>2, <3>3, <4>1 DEF c, Decides
        <5>2. connected' = (cmd = CmdConnect)
          BY <1>3, <4>1, FrameAssumption DEF ConnectedAfter
        <5> QED BY <3>2, <3>3, <5>1, <5>2
      <4>2. CASE cmd \notin {CmdConnect, CmdDisconnect}
        <5>1. c = CmdError /\ ~Decides(fs[1])
          BY <3>2, <3>3, <4>2, FrameAssumption DEF c, Decides
        <5>2. connected' = connected /\ forgot' = forgot
          BY <1>3, <4>2 DEF ConnectedAfter, TypeOK
        <5> QED BY <3>3, <5>1, <5>2
      <4> QED BY <4>1, <4>2
    <3>8. ConnInv'
      BY <1>1, <3>3, <3>6, <3>7, ConnectionKept
    <3> QED BY <1>3, <2>0, <3>5, <3>8
  <2> QED BY <2>1, <2>2
<1> QED BY <1>2, <1>3 DEF Dispatch

\* command_process, for a frame that is whole and for one that is not.
LEMMA CommandProcessLink == ASSUME LinkInv, CommandProcess PROVE LinkInv'
<1> USE DEF LinkInv
<1>1. /\ mode = "idle" /\ out = << >>
      /\ UNCHANGED <<rx, hLeft, hOut, hBegun, hRoom, hIn, hBusy, hGet, hStale, hConnected, hDead,
                     count, room, astray, torn, boots>>
  BY DEF CommandProcess, M3Inv, SenderInv, host, writing, reading
<1>2. CASE tx = << >>
  <2>1. mode' = "reply" /\ UNCHANGED <<tx, parser, connected, out, toHost, toM3, forgot>>
    BY <1>2 DEF CommandProcess
  <2>2. TypeOK'
    BY <1>1, <2>1 DEF TypeOK, parser
  <2>3. M3Inv'
    BY <1>1, <2>1 DEF M3Inv, ParserInv, SenderInv, FramesInv, parser
  <2>5. HostInv'
    BY <1>1, <2>1 DEF HostInv
  <2>4. (CommandFraming /\ ReplyFraming /\ HangsOnlyWhenTorn /\ ConnInv)'
    BY <1>1, <2>1 DEF CommandFraming, Parsed, ReplyFraming, HangsOnlyWhenTorn, ConnInv, OneMind, parser
  <2> QED BY <2>2, <2>3, <2>4, <2>5
<1>3. CASE tx # << >>
  <2>1. PICK len \in Byte, missing \in Nat, buf \in Seq(Byte), rest \in Seq(Byte) :
           /\ Parsed \o tx = (<<len>> \o buf) \o rest
           /\ Len(buf) + missing = FrameLeft(len) /\ Len(rest) <= Len(tx)
           /\ tx' = rest /\ cmdLeft' = missing
           /\ missing > 0 =>
                /\ cmdI' = Len(buf) /\ cmdBuf' = buf /\ cmdLen' = len /\ mode' = "reply"
                /\ UNCHANGED <<connected, out, toHost, toM3, forgot>>
           /\ missing = 0 =>
                /\ cmdI' = -1 /\ cmdBuf' = << >> /\ cmdLen' = 0
                /\ toM3' = (IF torn THEN toM3 ELSE Tail(toM3))
                /\ Dispatch(buf[1])
    BY <1>3, Take
  <2>2. /\ Len(buf) \in Nat /\ len \in Nat /\ len <= ByteMax
        /\ Len(buf) + missing = len + 1 /\ Len(rest) \in Nat /\ Len(rest) <= TxRoom
    <3>1. Len(buf) \in Nat /\ Len(rest) \in Nat /\ Len(tx) \in Nat /\ Len(tx) <= TxRoom
      BY LenProperties DEF TypeOK
    <3>2. len \in Nat /\ len <= ByteMax
      BY RoomAssumption DEF Byte
    <3> QED BY <2>1, <3>1, <3>2, RoomAssumption DEF FrameLeft
  <2>5. HostInv'
    <3>1. hRoom >= 0 /\ ~hStale => Len(tx') + hRoom <= TxRoom
      <4>1. Len(tx) \in Nat /\ hRoom \in Int /\ Len(tx') = Len(rest)
        BY <2>1, LenProperties, RoomAssumption DEF TypeOK
      <4> QED BY <2>1, <2>2, <4>1, RoomAssumption DEF HostInv
    <3> QED BY <1>1, <3>1 DEF HostInv
  <2>3. CASE missing > 0
    <3>1. /\ cmdI' = Len(buf) /\ cmdBuf' = buf /\ cmdLen' = len /\ mode' = "reply"
          /\ UNCHANGED <<connected, out, toHost, toM3, forgot>>
      BY <2>1, <2>3
    <3>2. TypeOK'
      <4>1. /\ cmdI' \in -1 .. ByteMax + 1 /\ cmdLeft' \in 0 .. ByteMax + 1
            /\ tx' \in Seq(Byte) /\ Len(tx') <= TxRoom
        BY <2>1, <2>2, <3>1, RoomAssumption
      <4> QED BY <1>1, <2>1, <3>1, <4>1 DEF TypeOK
    <3>3. M3Inv'
      <4>1. cmdI' # -1 /\ cmdI' + cmdLeft' = FrameLeft(cmdLen') /\ cmdLeft' > 0
        BY <2>1, <2>2, <2>3, <3>1
      <4> QED BY <1>1, <3>1, <4>1 DEF M3Inv, ParserInv, SenderInv, FramesInv, FrameLeft
    <3>4. CommandFraming'
      <4>1. Parsed' = <<len>> \o buf
        BY <2>2, <3>1 DEF Parsed
      <4> QED BY <1>1, <2>1, <3>1, <4>1 DEF CommandFraming
    <3>5. (ReplyFraming /\ HangsOnlyWhenTorn /\ ConnInv)'
      BY <1>1, <3>1 DEF ReplyFraming, HangsOnlyWhenTorn, ConnInv, OneMind
    <3> QED BY <2>5, <3>2, <3>3, <3>4, <3>5
  <2>4. CASE missing = 0
    <3>1. /\ cmdI' = -1 /\ cmdBuf' = << >> /\ cmdLen' = 0
          /\ toM3' = (IF torn THEN toM3 ELSE Tail(toM3))
          /\ Dispatch(buf[1])
      BY <2>1, <2>4
    <3>2. Len(buf) = FrameLeft(len) /\ buf[1] \in Byte
      <4>1. Len(buf) = len + 1 /\ 1 \in 1 .. Len(buf)
        BY <2>2, <2>4
      <4> QED BY <4>1, ElementOfSeq DEF FrameLeft
    <3>3. ASSUME ~torn
          PROVE  /\ toM3 # << >> /\ Head(toM3)[2] = buf[1]
                 /\ rest \o hOut = FlattenSeq(Tail(toM3))
      BY <2>1, <3>2, <3>3, WholeFrame
    <3>4. toM3 \in Seq(HostFrames)
      BY DEF M3Inv, FramesInv
    <3>5. ~torn => buf[1] < CmdLimit
      BY <3>3, <3>4, HeadTailProperties, FrameAssumption
    <3>6. /\ (mode' = "hung" => torn) /\ mode' \in {"reply", "hung"}
          /\ mode' = "hung" => out' = << >>
          /\ connected' \in BOOLEAN /\ forgot' \in BOOLEAN /\ out' \in Seq(Seq(Byte)) /\ toHost' \in Seq(Frames)
          /\ ReplyFraming' /\ ConnInv'
      BY <3>1, <3>2, <3>5, DispatchLink
    <3>7. toM3' \in Seq(HostFrames)
      BY <3>1, <3>3, <3>4, HeadTailProperties
    <3>8. TypeOK'
      <4>1. /\ cmdI' \in -1 .. ByteMax + 1 /\ cmdLeft' \in 0 .. ByteMax + 1 /\ cmdLen' \in Byte
            /\ tx' \in Seq(Byte) /\ Len(tx') <= TxRoom /\ cmdBuf' \in Seq(Byte)
        BY <2>1, <2>2, <2>4, <3>1, RoomAssumption, EmptySeq DEF Byte
      <4>2. toM3' \in Seq(Seq(Byte)) /\ toHost' \in Seq(Seq(Byte))
        BY <3>6, <3>7, FramesType
      <4>3. {hBegun, hBusy, hStale, hConnected, hDead, connected, torn, astray, forgot}' \subseteq BOOLEAN
        BY <1>1, <3>6 DEF TypeOK
      <4> QED BY <1>1, <3>6, <4>1, <4>2, <4>3 DEF TypeOK
    <3>9. M3Inv'
      <4>1. room < 0
        BY <1>1, RoomAssumption DEF M3Inv, SenderInv, TypeOK
      <4> QED BY <1>1, <3>1, <3>6, <3>7, <4>1 DEF M3Inv, ParserInv, SenderInv, FramesInv
    <3>10. CommandFraming'
      <4> SUFFICES ASSUME ~torn' PROVE (Parsed \o tx \o hOut = FlattenSeq(toM3))'
        BY DEF CommandFraming
      <4>1. Parsed' = << >> /\ tx' = rest /\ hOut' = hOut /\ toM3' = Tail(toM3)
        BY <1>1, <2>1, <3>1 DEF Parsed
      <4>2. << >> \o rest = rest
        BY ConcatEmptySeq
      <4> QED BY <1>1, <3>3, <4>1, <4>2
    <3>11. HangsOnlyWhenTorn'
      BY <1>1, <3>6 DEF HangsOnlyWhenTorn
    <3> QED BY <2>5, <3>6, <3>8, <3>9, <3>10, <3>11
  <2> QED BY <2>3, <2>4
<1> QED BY <1>2, <1>3

\* So every step keeps the invariant.
LEMMA NextLink == ASSUME LinkInv, [Next]_vars PROVE LinkInv'
<1>1. CASE HostSend
  BY <1>1, HostSendLink
<1>2. CASE HostWrite \/ HostRead
  BY <1>2, HostMeasureLink, HostStoreLink, HostEnterRecvLink, HostLookLink, HostTakeLink,
     HostProcessLink
  DEF HostWrite, HostRead
<1>3. CASE M3Stop \/ M3Boot
  BY <1>3, M3StopLink, M3BootLink
<1>4. CASE M3Step
  BY <1>4, CommandProcessLink, MeasureRoomLink, StoreRoomLink, SendTelemetryLink, EndTickLink
  DEF M3Step
<1>5. CASE UNCHANGED vars
  <2> USE DEF LinkInv, vars, host, writing, reading, parser, sender, links
  <2>1. TypeOK'
    BY <1>5 DEF TypeOK
  <2>2. M3Inv'
    BY <1>5 DEF M3Inv, ParserInv, SenderInv, FramesInv
  <2>4. HostInv'
    BY <1>5 DEF HostInv
  <2>3. (CommandFraming /\ ReplyFraming /\ HangsOnlyWhenTorn /\ ConnInv)'
    BY <1>5 DEF CommandFraming, Parsed, ReplyFraming, HangsOnlyWhenTorn, ConnInv, OneMind
  <2> QED BY <2>1, <2>2, <2>3, <2>4
<1> QED BY <1>1, <1>2, <1>3, <1>4, <1>5 DEF Next

\* The invariant of the link.
LEMMA LinkInvariant == Spec => []LinkInv
<1>1. LinkInv /\ [Next]_vars => LinkInv'
  BY NextLink
<1> QED BY InitLink, <1>1, PTL DEF Spec

\* Every variable keeps its type; no ring holds more than it has room for.
THEOREM TypeCorrect == Spec => []TypeOK
<1>1. LinkInv => TypeOK
  BY DEF LinkInv
<1> QED BY <1>1, LinkInvariant, PTL

\* Across restarts, command_process hands on exactly the frames the host sent and a restart
\* did not take, unless one tore a frame; and recvCommand returns exactly those the M3 sent,
\* unless command_send dropped a byte or a restart took bytes of a frame the host was
\* reading: in order, however the rings cut them (command.c, ringbuf.c, copter.py).
THEOREM Framed == Spec => []StreamsFramed
<1>1. LinkInv => StreamsFramed
  BY DEF LinkInv, StreamsFramed
<1> QED BY <1>1, LinkInvariant, PTL

\* With nothing under way, torn or astray, the host is connected exactly when the firmware
\* is, but for the time from a restart that made the firmware forget the connection to the
\* next connect or disconnect it handles (command.c, copter.py).
THEOREM ConnectionsAgree == Spec => []ConnectionAgrees
<1>1. ASSUME LinkInv PROVE ConnectionAgrees
  <2> SUFFICES ASSUME Quiet, ~astray, ~forgot PROVE hConnected = connected
    BY DEF ConnectionAgrees
  <2>1. /\ out = << >> /\ rx = << >> /\ hIn = << >> /\ toHost \in Seq(Frames)
        /\ hIn \o rx \o FlattenSeq(out) = FlattenSeq(toHost)
    BY <1>1 DEF LinkInv, M3Inv, SenderInv, FramesInv, ReplyFraming, Quiet
  <2>2. FlattenSeq(toHost) = << >>
    BY <2>1, FlatEmpty, ConcatEmptySeq, EmptySeq
  <2>3. DOMAIN toHost = {}
    <3>1. toHost = << >>
      BY <2>1, <2>2, FlatNothing
    <3> QED BY <3>1
  <2> QED BY <1>1, <2>3 DEF LinkInv, ConnInv, OneMind
<1>2. LinkInv => ConnectionAgrees
  BY <1>1
<1> QED BY <1>2, LinkInvariant, PTL
-----------------------------------------------------------------------------
\* A frame struct.unpack takes: telemetry has its length.
Readable(f) == f[2] \in Range(Telemetry) => f[1] = TelemetryLen

\* Only such frames are under way to the host.
DeadInv == ~astray => ~hDead /\ \A i \in DOMAIN toHost : Readable(toHost[i])

\* The first two bytes of a frame.
LEMMA FrameHead ==
  ASSUME NEW c \in Byte, NEW d \in Seq(Byte), Len(d) \in Byte
  PROVE  Frame(c, d)[1] = Len(d) /\ Frame(c, d)[2] = c
<1> DEFINE h == <<Len(d), c>>
<1>1. h \in Seq(Byte) /\ Len(h) = 2 /\ h[1] = Len(d) /\ h[2] = c /\ Len(d) \in Nat
  BY LenProperties
<1> HIDE DEF h
<1>2. \A j \in 1 .. Len(h) + Len(d) : (h \o d)[j] = IF j <= Len(h) THEN h[j] ELSE d[j - Len(h)]
  BY <1>1, ConcatProperties
<1> DEFINE w == h \o d
<1> HIDE DEF w
<1>3. ASSUME NEW j \in 1 .. 2 PROVE w[j] = h[j]
  <2>1. j \in 1 .. Len(h) + Len(d) /\ j <= Len(h)
    BY <1>1
  <2> QED BY <1>2, <2>1 DEF w
<1> QED BY <1>1, <1>3 DEF Frame, h, w

\* The firmware's answers are no telemetry.
LEMMA AnswerReadable ==
  ASSUME NEW c \in {CmdConnect, CmdDisconnect, CmdError}
  PROVE  Readable(Frame(c, << >>))
<1>1. c \in Byte /\ 0 \in Byte
  BY FrameAssumption, RoomAssumption DEF Byte
<1>2. Frame(c, << >>)[2] = c
  BY <1>1, FrameHead, EmptySeq
<1>3. c \notin Range(Telemetry)
  BY FrameAssumption, ElementOfSeq, LenProperties DEF Range
<1> QED BY <1>2, <1>3 DEF Readable

LEMMA TelemetryReadable ==
  ASSUME NEW b \in TelemetryByte, NEW i \in 1 .. Len(Telemetry)
  PROVE  Readable(Frame(Telemetry[i], [j \in 1 .. TelemetryLen |-> b]))
<1> DEFINE d == [j \in 1 .. TelemetryLen |-> b]
<1>1. Telemetry[i] \in Byte
  BY FrameAssumption, ElementOfSeq DEF Byte
<1>2. d \in Seq(Byte) /\ Len(d) = TelemetryLen /\ Len(d) \in Byte
  BY FrameAssumption, RoomAssumption DEF Byte
<1> HIDE DEF d
<1>3. Frame(Telemetry[i], d)[1] = TelemetryLen
  BY <1>1, <1>2, FrameHead
<1> QED BY <1>3 DEF Readable, d

\* More such frames leave only such frames under way.
LEMMA ReadableMore ==
  ASSUME NEW fs \in Seq(Frames), NEW ts \in Seq(Frames),
         \A i \in DOMAIN ts : Readable(ts[i]), \A i \in 1 .. Len(fs) : Readable(fs[i])
  PROVE  \A i \in DOMAIN (ts \o fs) : Readable((ts \o fs)[i])
<1> DEFINE w == ts \o fs
<1>1. /\ Len(ts) \in Nat /\ Len(fs) \in Nat /\ DOMAIN ts = 1 .. Len(ts)
      /\ DOMAIN w = 1 .. Len(ts) + Len(fs)
      /\ \A i \in 1 .. Len(ts) + Len(fs) : w[i] = IF i <= Len(ts) THEN ts[i] ELSE fs[i - Len(ts)]
  BY ConcatProperties, LenProperties
<1> HIDE DEF w
<1>2. ASSUME NEW i \in DOMAIN w PROVE Readable(w[i])
  <2>1. CASE i <= Len(ts)
    BY <1>1, <2>1
  <2>2. CASE ~(i <= Len(ts))
    <3>1. i - Len(ts) \in 1 .. Len(fs) /\ w[i] = fs[i - Len(ts)]
      BY <1>1, <2>2
    <3> QED BY <3>1
  <2> QED BY <2>1, <2>2
<1> QED BY <1>2 DEF w

LEMMA DeadStep == ASSUME LinkInv, DeadInv, [Next]_vars PROVE DeadInv'
<1>1. TypeOK /\ FramesInv /\ ReplyFraming /\ toHost \in Seq(Frames)
  BY DEF LinkInv, M3Inv, FramesInv
<1>2. SUFFICES ASSUME ~astray' PROVE ~hDead' /\ \A i \in DOMAIN toHost' : Readable(toHost'[i])
  BY DEF DeadInv, Readable
\* The steps that neither send nor receive a frame.
<1>3. CASE HostSend \/ HostWrite \/ HostEnterRecv \/ HostLook \/ HostTake \/ M3Stop
           \/ MeasureRoom \/ StoreRoom \/ EndTick \/ UNCHANGED vars
  <2>1. hDead' = hDead /\ (astray' = astray \/ StoreRoom)
    BY <1>3 DEF HostSend, HostWrite, HostMeasure, HostStore, HostEnterRecv, HostLook, HostTake,
                M3Stop, MeasureRoom, StoreRoom, EndTick, host, sender, vars
  <2>2. ~astray /\ toHost' = toHost
    <3>1. CASE StoreRoom
      <4>1. astray' = (astray \/ room < Len(Head(out))) /\ toHost' = IF astray' THEN << >> ELSE toHost
        BY <3>1 DEF StoreRoom
      <4>2. ~astray
        BY <1>2, <4>1, Zenon
      <4> QED BY <1>2, <4>1, <4>2
    <3>2. CASE ~StoreRoom
      <4>1. ~astray
        BY <1>2, <2>1, <3>2, Zenon
      <4> QED BY <1>3, <3>2, <4>1
          DEF HostSend, HostWrite, HostMeasure, HostStore, HostEnterRecv, HostLook, HostTake,
              M3Stop, MeasureRoom, EndTick, host, sender, vars
    <3> QED BY <3>1, <3>2
  <2> QED BY <2>1, <2>2 DEF DeadInv
\* A start leaves some of the frames that were under way.
<1>7. ASSUME M3Boot
      PROVE  ~hDead' /\ \A i \in DOMAIN toHost' : Readable(toHost'[i])
  <2>1. /\ ~astray /\ hDead' = hDead
        /\ \E k \in 0 .. Len(toHost) : toHost' = SubSeq(toHost, 1, k)
    BY <1>1, <1>2, <1>7, ReadWhole DEF M3Boot, ParserReset
  <2>2. PICK k \in 0 .. Len(toHost) : toHost' = SubSeq(toHost, 1, k)
    BY <2>1
  <2>3. Len(toHost) \in Nat /\ \A i \in 1 .. Len(toHost) : Readable(toHost[i])
    BY <1>1, <2>1, LenProperties DEF DeadInv
  <2>4. \A i \in DOMAIN toHost' : i \in 1 .. Len(toHost) /\ toHost'[i] = toHost[i]
    BY <1>1, <2>2, <2>3
  <2> QED BY <2>1, <2>3, <2>4 DEF DeadInv
<1>4. ASSUME HostProcess
      PROVE  ~hDead' /\ \A i \in DOMAIN toHost' : Readable(toHost'[i])
  <2>1. /\ ~astray /\ FrameRead /\ toHost' = SubSeq(toHost, 2, Len(toHost))
        /\ hDead' = (hIn[2] \in Range(Telemetry) /\ hIn[1] # TelemetryLen)
    BY <1>2, <1>4 DEF HostProcess
  <2>2. toHost # << >> /\ Head(toHost) = SubSeq(hIn, 1, FrameSize(hIn[1]))
    BY <1>1, <2>1, FrameCut
  <2>3. Head(toHost)[1] = hIn[1] /\ Head(toHost)[2] = hIn[2]
    <3>1. hIn \in Seq(Byte) /\ Len(hIn) \in Nat /\ Len(hIn) >= 2
      BY <1>1, <2>1, LenProperties DEF TypeOK, FrameRead
    <3>2. hIn[1] \in Nat
      BY <3>1, ElementOfSeq, RoomAssumption DEF Byte
    <3>3. FrameSize(hIn[1]) \in Nat /\ 2 <= FrameSize(hIn[1]) /\ FrameSize(hIn[1]) <= Len(hIn)
      BY <2>1, <3>2 DEF FrameRead, FrameSize
    <3>4. PICK n \in Nat : n = FrameSize(hIn[1])
      BY <3>3
    <3>5. \A i \in 1 .. n : hIn[i] \in Byte
      BY <3>1, <3>3, <3>4, ElementOfSeq
    <3>6. \A i \in 1 .. n - 1 + 1 : SubSeq(hIn, 1, n)[i] = hIn[1 + i - 1]
      BY <3>5, SubSeqProperties
    <3>7. 1 \in 1 .. n - 1 + 1 /\ 2 \in 1 .. n - 1 + 1 /\ 1 + 1 - 1 = 1 /\ 1 + 2 - 1 = 2
      BY <3>3, <3>4
    <3>8. SubSeq(hIn, 1, n)[1] = hIn[1] /\ SubSeq(hIn, 1, n)[2] = hIn[2]
      BY <3>6, <3>7
    <3> QED BY <2>2, <3>4, <3>8
  <2>4. /\ DOMAIN toHost = 1 .. Len(toHost) /\ Len(toHost) \in Nat \ {0}
        /\ Head(toHost) = toHost[1] /\ toHost' = Tail(toHost)
        /\ Len(Tail(toHost)) = Len(toHost) - 1 /\ DOMAIN Tail(toHost) = 1 .. Len(toHost) - 1
        /\ \A i \in 1 .. Len(toHost) - 1 : Tail(toHost)[i] = toHost[i + 1]
    BY <1>1, <2>1, <2>2, HeadTailProperties, TailIsSubSeq, LenProperties, EmptySeq
  <2>5. \A i \in 1 .. Len(toHost) : Readable(toHost[i])
    BY <2>1, <2>4 DEF DeadInv
  <2>6. ~hDead'
    <3>1. Readable(toHost[1])
      BY <2>4, <2>5
    <3> QED BY <2>1, <2>3, <2>4, <3>1 DEF Readable
  <2>7. ASSUME NEW i \in DOMAIN toHost' PROVE Readable(toHost'[i])
    <3>1. i + 1 \in 1 .. Len(toHost) /\ toHost'[i] = toHost[i + 1]
      BY <2>4
    <3> QED BY <2>5, <3>1
  <2> QED BY <2>6, <2>7
<1>5. ASSUME CommandProcess
      PROVE  ~hDead' /\ \A i \in DOMAIN toHost' : Readable(toHost'[i])
  <2>1. ~astray /\ hDead' = hDead
    BY <1>2, <1>5 DEF CommandProcess, host
  <2>2. \/ toHost' = toHost
        \/ \E c \in {CmdConnect, CmdDisconnect, CmdError} : toHost' = toHost \o <<Frame(c, << >>)>>
    <3>1. toHost' = toHost \/ \E cmd : Dispatch(cmd)
      BY <1>5 DEF CommandProcess
    <3>2. ASSUME NEW cmd, Dispatch(cmd), toHost' # toHost
          PROVE  \E c \in {CmdConnect, CmdDisconnect, CmdError} :
                   toHost' = toHost \o <<Frame(c, << >>)>>
      BY <2>1, <3>2 DEF Dispatch, Sending
    <3> QED BY <3>1, <3>2
  <2>3. ASSUME NEW c \in {CmdConnect, CmdDisconnect, CmdError},
               toHost' = toHost \o <<Frame(c, << >>)>>
        PROVE  \A i \in DOMAIN toHost' : Readable(toHost'[i])
    <3> DEFINE fs == <<Frame(c, << >>)>>
    <3>1. fs \in Seq(Frames) /\ Len(fs) = 1 /\ fs[1] = Frame(c, << >>)
      <4>1. Frame(c, << >>) \in Frames
        <5>1. c \in Byte /\ 0 \in Byte
          BY FrameAssumption, RoomAssumption DEF Byte
        <5>2. <<0, c>> \in Seq(Byte)
          BY <5>1
        <5>3. Frame(c, << >>) = <<0, c>>
          BY <5>2, ConcatEmptySeq DEF Frame
        <5>4. Len(<<0, c>>) = 2 /\ <<0, c>>[1] = 0
          OBVIOUS
        <5>5. PICK f \in Seq(Byte) : f = <<0, c>>
          BY <5>2
        <5>6. f \in Frames
          BY <5>4, <5>5 DEF Frames
        <5> QED BY <5>3, <5>5, <5>6
      <4> QED BY <4>1
    <3>2. \A i \in 1 .. Len(fs) : Readable(fs[i])
      BY <3>1, AnswerReadable
    <3> HIDE DEF fs
    <3>3. \A i \in DOMAIN toHost : Readable(toHost[i])
      BY <2>1 DEF DeadInv
    <3>4. toHost' = toHost \o fs
      BY <2>3 DEF fs
    <3> QED BY <1>1, <3>1, <3>2, <3>3, <3>4, ReadableMore
  <2> QED BY <2>1, <2>2, <2>3 DEF DeadInv
<1>6. ASSUME SendTelemetry
      PROVE  ~hDead' /\ \A i \in DOMAIN toHost' : Readable(toHost'[i])
  <2>1. ~astray /\ hDead' = hDead
    BY <1>2, <1>6 DEF SendTelemetry, host
  <2>2. toHost' = toHost \/ \E b \in TelemetryByte : toHost' = toHost \o Burst(b)
    BY <1>6, <2>1 DEF SendTelemetry, Sending
  <2>3. ASSUME NEW b \in TelemetryByte, toHost' = toHost \o Burst(b)
        PROVE  \A i \in DOMAIN toHost' : Readable(toHost'[i])
    <3>1. Burst(b) \in Seq(Frames)
      BY TelemetryFrames
    <3>2. \A i \in 1 .. Len(Burst(b)) : Readable(Burst(b)[i])
      <4>1. Len(Telemetry) \in Nat
        BY FrameAssumption, LenProperties
      <4>2. Len(Burst(b)) = Len(Telemetry)
        BY <4>1 DEF Burst
      <4> QED BY <4>2, TelemetryReadable DEF Burst
    <3>3. \A i \in DOMAIN toHost : Readable(toHost[i])
      BY <2>1 DEF DeadInv
    <3> QED BY <1>1, <2>3, <3>1, <3>2, <3>3, ReadableMore
  <2> QED BY <2>1, <2>2, <2>3 DEF DeadInv
<1> QED BY <1>3, <1>4, <1>5, <1>6, <1>7 DEF Next, HostRead, M3Step

\* Neither side is stopped by what the other sends: DASSERT(cmd < 128) needs a frame torn
\* by a restart (command.c), an exception of struct.unpack bytes that command_send dropped
\* or a restart took from a reader (copter.py).
THEOREM StopsBroken == Spec => []StopsOnlyWhenBroken
<1>1. Init => DeadInv
  BY DEF Init, DeadInv
<1>2. LinkInv /\ DeadInv /\ [Next]_vars => DeadInv'
  BY DeadStep
<1>3. LinkInv /\ DeadInv => StopsOnlyWhenBroken
  BY DEF LinkInv, DeadInv, StopsOnlyWhenBroken, DiesOnlyWhenAstray
<1> QED BY <1>1, <1>2, <1>3, LinkInvariant, PTL DEF Spec

\* The command command_process dispatches is that of the oldest frame sent and not yet
\* acted on; with a torn frame the history knows nothing.
THEOREM FirmwareActs == Spec => FirmwareActsOnOldest
<1>1. ASSUME LinkInv, CommandProcess, toM3' # toM3
      PROVE  toM3 # << >> /\ Dispatch(Head(toM3)[2]) /\ mode' = "reply" /\ toM3' = Tail(toM3)
  <2>1. tx # << >>
    BY <1>1 DEF CommandProcess
  <2>2. PICK len \in Byte, missing \in Nat, buf \in Seq(Byte), rest \in Seq(Byte) :
           /\ Parsed \o tx = (<<len>> \o buf) \o rest
           /\ Len(buf) + missing = FrameLeft(len)
           /\ missing > 0 => toM3' = toM3
           /\ missing = 0 =>
                /\ toM3' = (IF torn THEN toM3 ELSE Tail(toM3))
                /\ Dispatch(buf[1])
    BY <1>1, <2>1, Take
  <2>3. missing = 0 /\ ~torn
    BY <1>1, <2>2
  <2>4. Len(buf) = FrameLeft(len)
    BY <2>2, <2>3, LenProperties
  <2>5. toM3 # << >> /\ Head(toM3)[2] = buf[1]
    BY <1>1, <2>2, <2>3, <2>4, WholeFrame
  <2>6. buf[1] < CmdLimit /\ buf[1] \in Byte
    <3>1. toM3 \in Seq(HostFrames)
      BY <1>1 DEF LinkInv, M3Inv, FramesInv
    <3>2. Head(toM3) \in HostFrames
      BY <2>5, <3>1, HeadTailProperties
    <3>3. Head(toM3)[2] \in Byte
      <4>1. Head(toM3) \in Seq(Byte) /\ Len(Head(toM3)) >= 2
        BY <3>2, FrameAssumption DEF Byte
      <4>2. PICK f \in Seq(Byte) : f = Head(toM3) /\ Len(f) >= 2
        BY <4>1
      <4>3. Len(f) \in Nat /\ 2 \in 1 .. Len(f)
        BY <4>2, LenProperties
      <4>4. f[2] \in Byte
        BY <4>2, <4>3, ElementOfSeq
      <4> QED BY <4>2, <4>4
    <3> QED BY <2>5, <3>2, <3>3, FrameAssumption
  <2>7. mode' = "reply"
    BY <2>2, <2>3, <2>6, FrameAssumption, RoomAssumption DEF Dispatch, Byte
  <2> QED BY <2>2, <2>3, <2>5, <2>7
<1>2. LinkInv /\ [Next]_vars =>
        [CommandProcess /\ toM3' # toM3 =>
           toM3 # << >> /\ Dispatch(Head(toM3)[2]) /\ mode' = "reply" /\ toM3' = Tail(toM3)]_vars
  BY <1>1
<1> QED BY <1>2, LinkInvariant, PTL DEF Spec, FirmwareActsOnOldest

\* The frame recvCommand returns to copter.py is the oldest one the firmware sent, whole.
THEOREM HostActs == Spec => HostActsOnOldest
<1>1. ASSUME LinkInv, HostProcess, ~astray
      PROVE  /\ toHost # << >> /\ Head(toHost) = SubSeq(hIn, 1, FrameSize(hIn[1]))
             /\ toHost' = Tail(toHost)
  <2>1. FrameRead /\ toHost' = SubSeq(toHost, 2, Len(toHost))
    BY <1>1 DEF HostProcess
  <2>2. TypeOK /\ FramesInv /\ ReplyFraming
    BY <1>1 DEF LinkInv, M3Inv
  <2>3. toHost # << >> /\ Head(toHost) = SubSeq(hIn, 1, FrameSize(hIn[1]))
    BY <1>1, <2>1, <2>2, FrameCut
  <2>4. toHost' = Tail(toHost)
    BY <2>1, <2>2, <2>3, TailIsSubSeq DEF FramesInv
  <2> QED BY <2>3, <2>4
<1>2. LinkInv /\ [Next]_vars =>
        [HostProcess /\ ~astray =>
           /\ toHost # << >> /\ Head(toHost) = SubSeq(hIn, 1, FrameSize(hIn[1]))
           /\ toHost' = Tail(toHost)]_vars
  BY <1>1
<1> QED BY <1>2, LinkInvariant, PTL DEF Spec, HostActsOnOldest

\* What the two sides see of each other are queues of whole frames: Session, step by step.
\* It starts with none.
LEMMA SessionInit == Init => Queues!Init
BY DEF Init, Queues!Init

\* Nothing of a frame passes the rings: the queues stay as they are.
SessionSame == UNCHANGED <<toM3, toHost, connected, hConnected, torn, astray>>
SessionStep == Queues!Next \/ SessionSame

LEMMA QuietSteps ==
  ASSUME \/ HostWrite \/ HostEnterRecv \/ HostLook \/ HostTake
         \/ M3Stop \/ MeasureRoom \/ EndTick
  PROVE  SessionSame
BY DEF HostWrite, HostMeasure, HostStore, HostEnterRecv, HostLook, HostTake, M3Stop, MeasureRoom,
       EndTick, SessionSame, host, sender, links

\* sendCommand queues a frame; behind a torn one nothing is queued.
LEMMA SessionSend == ASSUME HostSend PROVE SessionStep
<1>1. UNCHANGED <<toHost, connected, hConnected, torn, astray>>
  BY DEF HostSend, sender, links
<1>2. \E f \in HostFrames : toM3' = IF torn THEN toM3 ELSE Append(toM3, f)
  BY DEF HostSend
<1>3. CASE torn
  BY <1>1, <1>2, <1>3 DEF SessionStep, SessionSame
<1>4. CASE ~torn
  BY <1>1, <1>2, <1>4 DEF SessionStep, Queues!Next, Queues!Send
<1> QED BY <1>3, <1>4

\* recvCommand takes the oldest frame off the other queue.
LEMMA SessionReceive == ASSUME LinkInv, HostProcess PROVE Queues!Receive
<1>1. /\ FrameRead /\ UNCHANGED <<toM3, connected, torn, astray>>
      /\ toHost' = IF astray THEN toHost ELSE SubSeq(toHost, 2, Len(toHost))
      /\ hConnected' = IF hIn[2] = CmdConnect THEN TRUE
                       ELSE IF hIn[2] = CmdDisconnect THEN FALSE ELSE hConnected
      /\ hConnected \in BOOLEAN /\ TypeOK /\ FramesInv /\ ReplyFraming
  BY DEF HostProcess, links, LinkInv, M3Inv, TypeOK
<1>2. CASE astray
  <2>1. hConnected' \in BOOLEAN
    BY <1>1
  <2> QED BY <1>1, <1>2, <2>1 DEF Queues!Receive
<1>3. CASE ~astray
  <2>1. toHost # << >> /\ Head(toHost) = SubSeq(hIn, 1, FrameSize(hIn[1]))
    BY <1>1, <1>3, FrameCut
  <2>2. toHost' = Tail(toHost)
    BY <1>1, <1>3, <2>1, TailIsSubSeq DEF FramesInv
  <2>3. hIn \in Seq(Byte) /\ hIn[1] \in Nat /\ FrameSize(hIn[1]) \in 2 .. Len(hIn)
    <3>1. hIn \in Seq(Byte) /\ Len(hIn) >= 2 /\ Len(hIn) >= FrameSize(hIn[1])
      BY <1>1 DEF TypeOK, FrameRead
    <3>2. hIn[1] \in Nat /\ Len(hIn) \in Nat
      BY <3>1, LenProperties, ElementOfSeq, RoomAssumption DEF Byte
    <3> QED BY <3>1, <3>2 DEF FrameSize
  <2>4. Head(toHost)[2] = hIn[2]
    <3>1. \A i \in 1 .. FrameSize(hIn[1]) : hIn[i] \in Byte
      BY <2>3, ElementOfSeq
    <3> QED BY <2>1, <2>3, <3>1, SubSeqProperties
  <2>5. hConnected' = (hIn[2] = CmdConnect \/ (hConnected /\ hIn[2] # CmdDisconnect))
    BY <1>1, FrameAssumption
  <2> QED BY <1>1, <1>3, <2>1, <2>2, <2>4, <2>5 DEF Queues!Receive
<1> QED BY <1>2, <1>3

\* A frame of which nothing is written is the last one sent.
LastInv == hOut # << >> /\ ~hBegun /\ ~torn => toM3 # << >> /\ toM3[Len(toM3)] = hOut

LEMMA LastStep == ASSUME LinkInv, LastInv, [Next]_vars PROVE LastInv'
<1>1. CASE HostSend
  <2>1. PICK f \in HostFrames : hOut' = f /\ toM3' = IF torn THEN toM3 ELSE Append(toM3, f)
    BY <1>1 DEF HostSend
  <2>2. torn' = torn /\ toM3 \in Seq(HostFrames)
    BY <1>1 DEF HostSend, links, LinkInv, M3Inv, FramesInv
  <2>3. /\ Append(toM3, f) # << >> /\ Append(toM3, f)[Len(Append(toM3, f))] = f
    BY <2>2, AppendProperties, LenProperties
  <2> QED BY <2>1, <2>2, <2>3 DEF LastInv
<1>2. CASE HostStore
  <2>1. /\ UNCHANGED <<toM3, torn>> /\ hBegun' = (hBegun \/ hRoom > 0) /\ hRoom >= 0
        /\ hOut' = SubSeq(hOut, hRoom + 1, Len(hOut))
    BY <1>2 DEF HostStore, links
  <2>2. hRoom \in Int /\ hOut \in Seq(Byte)
    BY RoomAssumption DEF LinkInv, TypeOK
  <2>3. hRoom = 0 => hOut' = hOut
    <3>1. SubSeq(hOut, 1, Len(hOut)) = hOut
      BY <2>2, SubSeqFull
    <3> QED BY <2>1, <3>1
  <2>4. ~hBegun' => ~hBegun /\ hRoom = 0
    <3>1. ~hBegun' => ~hBegun /\ ~(hRoom > 0)
      BY <2>1
    <3> QED BY <2>1, <2>2, <3>1
  <2>5. UNCHANGED <<toM3, torn>>
    BY <2>1
  <2> QED BY <2>3, <2>4, <2>5 DEF LastInv
<1>3. CASE M3Boot
  <2>1. /\ UNCHANGED <<hOut, hBegun>>
        /\ toM3' = IF hOut = << >> \/ torn' THEN << >> ELSE <<hOut>>
    BY <1>3 DEF M3Boot, ParserReset, writing
  <2> QED BY <2>1 DEF LastInv
<1>4. CASE CommandProcess
  <2>1. UNCHANGED <<hOut, hBegun, torn>>
    BY <1>4 DEF CommandProcess, host, writing
  <2>2. SUFFICES ASSUME hOut # << >>, ~hBegun, ~torn, toM3' # toM3
                 PROVE  toM3' # << >> /\ toM3'[Len(toM3')] = hOut
    BY <2>1 DEF LastInv
  <2>3. toM3 # << >> /\ toM3' = Tail(toM3) /\ toM3[Len(toM3)] = hOut
    BY <1>4, <2>2 DEF LastInv, CommandProcess
  <2>4. toM3 \in Seq(HostFrames)
    BY DEF LinkInv, M3Inv, FramesInv
  <2>5. Tail(toM3) # << >>
    <3>1. tx # << >>
      BY <1>4, <2>2 DEF CommandProcess
    <3>2. PICK len \in Byte, missing \in Nat, buf \in Seq(Byte), rest \in Seq(Byte) :
             /\ Parsed \o tx = (<<len>> \o buf) \o rest
             /\ Len(buf) + missing = FrameLeft(len)
             /\ missing > 0 => toM3' = toM3
      BY <1>4, <3>1, Take
    <3>3. Len(buf) = FrameLeft(len)
      BY <2>2, <3>2, LenProperties
    <3>4. rest \o hOut = FlattenSeq(Tail(toM3))
      BY <2>2, <3>2, <3>3, WholeFrame
    <3>5. rest \o hOut # << >>
      BY <2>2, <3>2, ConcatSimplifications DEF LinkInv, TypeOK
    <3> QED BY <3>4, <3>5, FlatEmpty
  <2>6. Len(toM3) \in Nat /\ Len(Tail(toM3)) = Len(toM3) - 1 /\ Len(Tail(toM3)) \in Nat \ {0}
        /\ \A i \in 1 .. Len(toM3) - 1 : Tail(toM3)[i] = toM3[i + 1]
    BY <2>3, <2>4, <2>5, HeadTailProperties, LenProperties, EmptySeq
  <2>7. Tail(toM3)[Len(Tail(toM3))] = toM3[Len(toM3)]
    <3>1. Len(toM3) - 1 \in 1 .. Len(toM3) - 1 /\ (Len(toM3) - 1) + 1 = Len(toM3)
      BY <2>6
    <3>2. Tail(toM3)[Len(toM3) - 1] = toM3[(Len(toM3) - 1) + 1]
      BY <2>6, <3>1
    <3> QED BY <2>6, <3>1, <3>2
  <2> QED BY <2>3, <2>5, <2>7
<1>5. CASE \/ HostMeasure \/ HostEnterRecv \/ HostLook \/ HostTake \/ HostProcess \/ M3Stop
           \/ MeasureRoom \/ StoreRoom \/ SendTelemetry \/ EndTick \/ UNCHANGED vars
  <2>1. UNCHANGED <<hOut, hBegun, torn, toM3>>
    BY <1>5 DEF HostMeasure, HostEnterRecv, HostLook, HostTake, HostProcess, M3Stop, MeasureRoom,
                StoreRoom, SendTelemetry, EndTick, vars, host, writing, links
  <2> QED BY <2>1 DEF LastInv
<1> QED BY <1>1, <1>2, <1>3, <1>4, <1>5 DEF Next, HostWrite, HostRead, M3Step

\* command_init loses every frame but one of which nothing is written yet, and those to the
\* program that it has not read.
LEMMA SessionStart == ASSUME LinkInv, LastInv, M3Boot PROVE Queues!Start
<1>1. /\ torn' = (hOut # << >> /\ (hBegun \/ hRoom >= 0))
      /\ toM3' = IF hOut = << >> \/ torn' THEN << >> ELSE <<hOut>>
      /\ connected' \in {FALSE, connected} /\ UNCHANGED hConnected
      /\ astray' = (astray \/ hGet >= 0 \/ WholeRead = {})
      /\ astray' => toHost' = << >>
  BY DEF M3Boot, ParserReset
<1>2. /\ torn \in BOOLEAN /\ torn' \in BOOLEAN /\ astray \in BOOLEAN /\ astray' \in BOOLEAN
      /\ FramesInv
  BY <1>1 DEF LinkInv, TypeOK, M3Inv
<1>3. \/ toM3' = << >> /\ torn' \in BOOLEAN
      \/ \E f \in HostFrames : /\ torn \/ (toM3 # << >> /\ f = toM3[Len(toM3)])
                               /\ toM3' = <<f>> /\ ~torn'
  <2>1. CASE hOut = << >> \/ torn'
    BY <1>1, <1>2, <2>1
  <2>2. CASE ~(hOut = << >> \/ torn')
    <3>1. hOut \in HostFrames /\ toM3' = <<hOut>> /\ ~torn'
      BY <1>1, <2>2 DEF LinkInv, HostInv
    <3>2. ASSUME ~torn PROVE toM3 # << >> /\ hOut = toM3[Len(toM3)]
      BY <1>1, <2>2, <3>2 DEF LastInv
    <3> QED BY <3>1, <3>2
  <2> QED BY <2>1, <2>2
<1>4. \/ \E k \in 0 .. Len(toHost) : toHost' = SubSeq(toHost, 1, k) /\ astray' = astray
      \/ toHost' = << >> /\ astray'
  <2>1. CASE astray'
    BY <1>1, <2>1
  <2>2. CASE ~astray'
    BY <1>2, <2>2, ReadWhole
  <2> QED BY <2>1, <2>2
<1> QED BY <1>1, <1>3, <1>4 DEF Queues!Start

\* command_send drops bytes: from then on the program's side promises nothing.
LEMMA SessionDrop == ASSUME LinkInv, StoreRoom PROVE SessionStep
<1>1. /\ astray' = (astray \/ room < Len(Head(out)))
      /\ toHost' = IF astray' THEN << >> ELSE toHost
      /\ UNCHANGED <<toM3, connected, hConnected, torn>>
  BY DEF StoreRoom, host, links
<1>2. astray \in BOOLEAN
  BY DEF LinkInv, TypeOK
<1>3. CASE astray'
  BY <1>1, <1>3 DEF SessionStep, Queues!Next, Queues!Drop
<1>4. CASE ~astray'
  <2>1. astray' = astray
    BY <1>1, <1>2, <1>4
  <2> QED BY <1>1, <1>4, <2>1 DEF SessionStep, SessionSame
<1> QED BY <1>3, <1>4

\* A tick reports the motors to a program that is connected.
LEMMA SessionReport == ASSUME LinkInv, SendTelemetry PROVE SessionStep
<1>1. UNCHANGED <<toM3, connected, hConnected, torn, astray>>
  BY DEF SendTelemetry, host, links
<1>2. CASE connected /\ count = 0 /\ ~astray
  <2>1. \E b \in TelemetryByte : toHost' = toHost \o Burst(b)
    BY <1>2 DEF SendTelemetry, Sending
  <2> QED BY <1>1, <1>2, <2>1 DEF SessionStep, Queues!Next, Queues!Report
<1>3. CASE ~(connected /\ count = 0 /\ ~astray)
  <2>1. toHost' = toHost
    BY <1>3 DEF SendTelemetry, Sending
  <2> QED BY <1>1, <2>1 DEF SessionStep, SessionSame
<1> QED BY <1>2, <1>3

\* A handler that knows its command, and what it answers.
LEMMA SessionHandle ==
  ASSUME NEW cmd \in Byte, Dispatch(cmd), cmd < CmdLimit, CmdLimit \in Int
  PROVE  Queues!Handle(cmd)
<1>1. /\ connected' = ConnectedAfter(cmd)
      /\ IF cmd \in CmdQuiet THEN UNCHANGED <<out, toHost>>
         ELSE Sending(<<Frame(IF cmd \in {CmdConnect, CmdDisconnect} THEN cmd
                              ELSE CmdError, << >>)>>)
  BY RoomAssumption DEF Dispatch, Byte
<1> DEFINE c == IF cmd \in {CmdConnect, CmdDisconnect} THEN cmd ELSE CmdError
<1>2. Frame(c, << >>) = <<0, c>>
  BY DEF Frame
<1>3. ASSUME cmd \notin CmdQuiet, ~astray
      PROVE  toHost' = Append(toHost, <<0, c>>)
  BY <1>1, <1>2, <1>3 DEF Sending
<1>4. ASSUME cmd \notin CmdQuiet, astray PROVE toHost' = toHost
  BY <1>1, <1>4 DEF Sending
<1>5. toHost' = IF astray \/ cmd \in CmdQuiet THEN toHost ELSE Append(toHost, <<0, c>>)
  BY <1>1, <1>3, <1>4
<1> QED BY <1>1, <1>5 DEF Queues!Handle, ConnectedAfter

\* command_process acts on the oldest frame sent, or has not got all of one.
LEMMA SessionAct == ASSUME LinkInv, CommandProcess PROVE SessionStep
<1>1. UNCHANGED <<hConnected, torn, astray>>
  BY DEF CommandProcess, host
<1>2. CASE tx = << >>
  BY <1>1, <1>2 DEF CommandProcess, SessionStep, SessionSame
<1>3. CASE tx # << >>
  <2>1. PICK len \in Byte, missing \in Nat, buf \in Seq(Byte), rest \in Seq(Byte) :
           /\ Parsed \o tx = (<<len>> \o buf) \o rest
           /\ Len(buf) + missing = FrameLeft(len)
           /\ missing > 0 => UNCHANGED <<connected, out, toHost, toM3, forgot>>
           /\ missing = 0 =>
                /\ toM3' = (IF torn THEN toM3 ELSE Tail(toM3))
                /\ Dispatch(buf[1])
    BY <1>3, Take
  <2>2. CASE missing > 0
    BY <1>1, <2>1, <2>2 DEF SessionStep, SessionSame
  <2>3. CASE missing = 0
    <3> DEFINE cmd == buf[1]
    <3>1. /\ toM3' = (IF torn THEN toM3 ELSE Tail(toM3)) /\ Dispatch(cmd)
          /\ Len(buf) = FrameLeft(len)
      BY <2>1, <2>3, LenProperties
    <3>2. cmd \in Byte
      <4>1. Len(buf) = len + 1 /\ len \in Nat
        BY <3>1, RoomAssumption DEF FrameLeft, Byte
      <4>2. 1 \in 1 .. Len(buf)
        BY <4>1
      <4> QED BY <4>2, ElementOfSeq
    <3>3. CmdLimit \in Int
      BY FrameAssumption
    <3>4. CASE ~torn
      <4>1. toM3 # << >> /\ Head(toM3)[2] = cmd
        BY <2>1, <3>1, <3>4, WholeFrame
      <4>2. toM3 \in Seq(HostFrames)
        BY DEF LinkInv, M3Inv, FramesInv
      <4>3. cmd < CmdLimit
        BY <4>1, <4>2, HeadTailProperties, FrameAssumption
      <4>4. Queues!Handle(Head(toM3)[2])
        BY <3>1, <3>2, <3>3, <4>1, <4>3, SessionHandle
      <4>5. Queues!Act
        BY <1>1, <3>1, <3>4, <4>1, <4>4 DEF Queues!Act
      <4> QED BY <4>5 DEF SessionStep, Queues!Next
    <3>5. CASE torn /\ cmd < CmdLimit
      <4>1. Queues!Handle(cmd)
        BY <3>1, <3>2, <3>3, <3>5, SessionHandle
      <4>2. Queues!Act
        BY <1>1, <3>1, <3>2, <3>5, <4>1 DEF Queues!Act
      <4> QED BY <4>2 DEF SessionStep, Queues!Next
    <3>6. CASE torn /\ ~(cmd < CmdLimit)
      <4>1. UNCHANGED <<connected, toHost, toM3>>
        BY <3>1, <3>6 DEF Dispatch
      <4> QED BY <1>1, <4>1 DEF SessionStep, SessionSame
    <3> QED BY <3>4, <3>5, <3>6
  <2> QED BY <2>1, <2>2, <2>3
<1> QED BY <1>2, <1>3

\* The link implements the session: for any frames, any sizes of the rings, any cut of the
\* writes and any number of restarts, each command is acted on once, in order, by its own
\* answer, or lost whole in a restart; until a reset tears a frame (command_init), or bytes
\* the host waits for are dropped by command_send or taken by a reset.
THEOREM SessionImplemented == Spec => ImplementsSession
<1>1. LinkInv /\ LastInv /\ [Next]_vars => SessionStep
  <2> SUFFICES ASSUME LinkInv, LastInv, [Next]_vars PROVE SessionStep
    OBVIOUS
  <2>1. CASE HostSend
    BY <2>1, SessionSend
  <2>2. CASE \/ HostWrite \/ HostEnterRecv \/ HostLook \/ HostTake
             \/ M3Stop \/ MeasureRoom \/ EndTick
    BY <2>2, QuietSteps DEF SessionStep
  <2>3. CASE HostProcess
    BY <2>3, SessionReceive DEF SessionStep, Queues!Next
  <2>4. CASE M3Boot
    BY <2>4, SessionStart DEF SessionStep, Queues!Next
  <2>5. CASE CommandProcess
    BY <2>5, SessionAct
  <2>6. CASE StoreRoom
    BY <2>6, SessionDrop
  <2>7. CASE SendTelemetry
    BY <2>7, SessionReport
  <2>8. CASE UNCHANGED vars
    BY <2>8 DEF vars, host, sender, links, SessionStep, SessionSame
  <2> QED BY <2>1, <2>2, <2>3, <2>4, <2>5, <2>6, <2>7, <2>8 DEF Next, HostRead, M3Step
<1>2. SessionStep => [Queues!Next]_<<toM3, toHost, connected, hConnected, torn, astray>>
  BY DEF SessionStep, SessionSame
<1>3. LinkInv /\ LastInv /\ [Next]_vars
        => [Queues!Next]_<<toM3, toHost, connected, hConnected, torn, astray>>
  BY <1>1, <1>2
<1>4. Init => LastInv
  BY DEF Init, LastInv
<1>5. LinkInv /\ LastInv /\ [Next]_vars => LastInv'
  BY LastStep
<1> QED BY SessionInit, <1>3, <1>4, <1>5, LinkInvariant, PTL DEF Spec, ImplementsSession, Queues!Spec
-----------------------------------------------------------------------------
\* The packets the clients make: a command of the copter, or a question.
Packets ==
  {p \in Seq(Nat) : /\ Len(p) >= 3 /\ p[3] = Len(p) - 3
                    /\ p[1] = COMMAND \/ (p[1] = GET_INFO /\ p[2] = GET_ANGLES)}

\* What the variables of Talk hold.
TalkTypes ==
  /\ conn \in [Clients -> {"off", "waiting", "open", "gone"}]
  /\ round \in [Clients -> Nat]
  /\ todo \in [Clients -> Seq(Packets)] /\ sent \in [Clients -> Seq(Packets)]
  /\ acted \in [Clients -> Seq(Packets)] /\ got \in [Clients -> Seq(Seq(Nat))]
  /\ cbuf \in [Clients -> Seq(Nat)] /\ sbuf \in [Clients -> Seq(Nat)]
  /\ toServer \in [Clients -> Seq(Nat)] /\ toClient \in [Clients -> Seq(Nat)]
  /\ q \in Seq(Clients) /\ cur \in Nat \ {0} /\ (at \in {"act", "write"} => cur <= Len(q))

\* What the server has seen of a client is, of a client that is still there, all it
\* sent, and of one that is gone the beginning.
Seen(c) == FlattenSeq(acted[c]) \o sbuf[c] \o toServer[c]
StreamInv(c) ==
  \E lost \in Seq(Nat) :
    Seen(c) \o lost = FlattenSeq(sent[c]) /\ (conn[c] # "gone" => lost = << >>)

\* The packets acted on are the first of those sent.
PrefixInv(c) ==
  Len(acted[c]) <= Len(sent[c]) /\ \A i \in 1 .. Len(acted[c]) : acted[c][i] = sent[c][i]

\* The answers to the packets acted on.
Answers(a) ==
  [i \in DOMAIN a |-> packet_pack(a[i][1], a[i][2],
                         IF a[i][1] = GET_INFO THEN <<0>> ELSE << >>)]
\* What a client has got, holds and is still sent are the answers, in order.
AnswerInv(c) ==
  at # "dead" =>
    FlattenSeq(got[c]) \o cbuf[c] \o toClient[c] = FlattenSeq(Answers(acted[c]))

TalkInv == TalkTypes /\ \A c \in Clients : StreamInv(c) /\ PrefixInv(c) /\ AnswerInv(c)
-----------------------------------------------------------------------------
\* What packets are made of.
LEMMA PacketsType ==
  /\ Packets \subseteq Seq(Nat) /\ Seq(Packets) \subseteq Seq(Seq(Nat))
  /\ \A p \in Packets : p[1] \in Nat /\ p[2] \in Nat /\ p[3] \in Nat /\ p # << >>
<1>1. Packets \subseteq Seq(Nat)
  BY DEF Packets
<1>2. Seq(Packets) \subseteq Seq(Seq(Nat))
  BY <1>1, SeqMonotonic
<1>3. \A p \in Packets : p[1] \in Nat /\ p[2] \in Nat /\ p[3] \in Nat /\ p # << >>
  BY DEF Packets
<1> QED BY <1>1, <1>2, <1>3

\* packet_pack, for the payloads used: none, and one unit.
LEMMA PackedShort ==
  ASSUME NEW c \in Nat, NEW s \in Nat, NEW d \in Nat
  PROVE  /\ packet_pack(c, s, << >>) = <<c, s, 0>>
         /\ packet_pack(c, s, <<d>>) = <<c, s, 1, d>>
<1>1. <<c, s, 0>> \in Seq(Nat)
  OBVIOUS
<1>2. <<c, s, 0>> \o << >> = <<c, s, 0>>
  BY <1>1, ConcatEmptySeq
<1>3. <<c, s, 1>> \o <<d>> = <<c, s, 1, d>>
  <2>1. <<d>> \in Seq(Nat) /\ <<c, s, 1>> \in Seq(Nat)
    OBVIOUS
  <2>2. <<c, s, 1>> \o <<d>> = Append(<<c, s, 1>>, d)
    BY <2>1, AppendIsConcat
  <2>3. Append(<<c, s, 1>>, d) = <<c, s, 1, d>>
    <3>1. /\ Append(<<c, s, 1>>, d) \in Seq(Nat) /\ Len(Append(<<c, s, 1>>, d)) = 4
          /\ \A i \in 1 .. 3 : Append(<<c, s, 1>>, d)[i] = <<c, s, 1>>[i]
          /\ Append(<<c, s, 1>>, d)[4] = d
      BY <2>1, AppendProperties
    <3>2. <<c, s, 1, d>> \in Seq(Nat) /\ Len(<<c, s, 1, d>>) = 4
      OBVIOUS
    <3>3. \A i \in 1 .. 4 : Append(<<c, s, 1>>, d)[i] = <<c, s, 1, d>>[i]
      <4>1. \A i \in 1 .. 4 : i = 4 \/ i \in 1 .. 3
        OBVIOUS
      <4>2. \A i \in 1 .. 3 : <<c, s, 1>>[i] = <<c, s, 1, d>>[i]
        <5>1. \A i \in 1 .. 3 : i = 1 \/ i = 2 \/ i = 3
          OBVIOUS
        <5> QED BY <5>1
      <4>3. <<c, s, 1, d>>[4] = d
        OBVIOUS
      <4> QED BY <3>1, <4>1, <4>2, <4>3
    <3>4. \A i \in 1 .. Len(Append(<<c, s, 1>>, d)) : Append(<<c, s, 1>>, d)[i] = <<c, s, 1, d>>[i]
      BY <3>1, <3>3
    <3> QED BY <3>1, <3>2, <3>4, SeqEqual
  <2> QED BY <2>2, <2>3
<1>4. Len(<< >>) = 0 /\ Len(<<d>>) = 1
  OBVIOUS
<1> QED BY <1>2, <1>3, <1>4 DEF packet_pack

\* What the clients pack are packets.
LEMMA PackedType ==
  ASSUME NEW s \in Nat, NEW d \in Nat
  PROVE  /\ packet_pack(COMMAND, s, << >>) \in Packets
         /\ packet_pack(COMMAND, s, <<d>>) \in Packets
         /\ packet_pack(GET_INFO, GET_ANGLES, << >>) \in Packets
<1>1. <<176, s, 0>> \in Packets
  BY DEF Packets, COMMAND
<1>2. <<176, s, 1, d>> \in Packets
  BY DEF Packets, COMMAND
<1>3. <<160, 1, 0>> \in Packets
  BY DEF Packets, GET_INFO, GET_ANGLES
<1>4. /\ packet_pack(176, s, << >>) = <<176, s, 0>>
      /\ packet_pack(176, s, <<d>>) = <<176, s, 1, d>>
  <2>1. 176 \in Nat
    OBVIOUS
  <2> QED BY <2>1, PackedShort
<1>5. packet_pack(160, 1, << >>) = <<160, 1, 0>>
  <2>1. 160 \in Nat /\ 1 \in Nat
    OBVIOUS
  <2> QED BY <2>1, PackedShort
<1> QED BY <1>5,  <1>1, <1>2, <1>3, <1>4 DEF COMMAND, GET_INFO, GET_ANGLES

\* The invariant holds before any client has started, ...
LEMMA TalkInitInv == TalkInit => TalkInv
<1> SUFFICES ASSUME TalkInit PROVE TalkInv
  OBVIOUS
<1>1. TalkTypes
  BY EmptySeq DEF TalkInit, TalkTypes
<1>2. ASSUME NEW c \in Clients PROVE StreamInv(c) /\ PrefixInv(c) /\ AnswerInv(c)
  <2>1. /\ acted[c] = << >> /\ sent[c] = << >> /\ sbuf[c] = << >> /\ toServer[c] = << >>
        /\ got[c] = << >> /\ cbuf[c] = << >> /\ toClient[c] = << >>
    BY DEF TalkInit
  <2>2. Seen(c) \o << >> = FlattenSeq(sent[c]) /\ << >> \in Seq(Nat)
    BY <2>1, FlatEmpty DEF Seen
  <2>3. StreamInv(c)
    BY <2>2 DEF StreamInv
  <2>4. Answers(acted[c]) = << >>
    BY <2>1 DEF Answers
  <2> QED BY <2>1, <2>3, <2>4, FlatEmpty DEF PrefixInv, AnswerInv
<1> QED BY <1>1, <1>2 DEF TalkInv

\* A packet and what is behind it are the buffer.
LEMMA CutPacket ==
  ASSUME NEW b \in Seq(Nat), WholeAt(b)
  PROVE  /\ Packet(b) \in Seq(Nat) /\ Rest(b) \in Seq(Nat)
         /\ Len(Packet(b)) = b[3] + 3 /\ b = Packet(b) \o Rest(b)
<1>1. Len(b) \in Nat /\ Len(b) >= 3 /\ Len(b) >= b[3] + 3
  BY DEF WholeAt
<1>2. b[3] \in Nat
  BY <1>1, ElementOfSeq
<1>3. b[3] + 3 \in 0 .. Len(b) /\ b[3] + 3 + 1 = b[3] + 4
  <2>1. ASSUME NEW n \in Nat, NEW l \in Nat, l >= n + 3
        PROVE  n + 3 \in 0 .. l /\ n + 3 + 1 = n + 4
    BY <2>1
  <2> QED BY <1>1, <1>2, <2>1
<1>4. Split(Nat, b, b[3] + 3)
  BY <1>3, SplitAt
<1> QED BY <1>3, <1>4 DEF Split, Packet, Rest

\* A step that leaves the streams of a client alone keeps its invariants.
LEMMA Untouched ==
  ASSUME NEW c \in Clients, TalkInv, at = "dead" => at' = "dead",
         conn[c] = "gone" <=> conn'[c] = "gone",
         sent'[c] = sent[c], acted'[c] = acted[c], sbuf'[c] = sbuf[c],
         toServer'[c] = toServer[c], got'[c] = got[c], cbuf'[c] = cbuf[c],
         toClient'[c] = toClient[c]
  PROVE  (StreamInv(c) /\ PrefixInv(c) /\ AnswerInv(c))'
<1>1. StreamInv(c)'
  BY DEF TalkInv, StreamInv, Seen
<1>2. PrefixInv(c)'
  BY DEF TalkInv, PrefixInv
<1>3. AnswerInv(c)'
  BY DEF TalkInv, AnswerInv, Answers
<1> QED BY <1>1, <1>2, <1>3

\* ... and every action keeps it.  A client connects and tunes.
LEMMA ConnectTalk == ASSUME TalkInv, NEW c \in Clients, Connect(c) PROVE TalkInv'
<1>1. TalkTypes'
  <2>1. packet_pack(COMMAND, TUNE, <<0>>) \in Packets
    BY PackedType DEF TUNE
  <2>2. <<packet_pack(COMMAND, TUNE, <<0>>)>> \in Seq(Packets)
    BY <2>1
  <2> HIDE DEF packet_pack
  <2> QED BY <2>2 DEF TalkInv, TalkTypes, Connect, server
<1>2. ASSUME NEW e \in Clients PROVE (StreamInv(e) /\ PrefixInv(e) /\ AnswerInv(e))'
  BY Untouched DEF TalkInv, TalkTypes, Connect, server
<1> QED BY <1>1, <1>2 DEF TalkInv

\* A round of main makes packets.
LEMMA RoundTalk == ASSUME TalkInv, NEW c \in Clients, Round(c) PROVE TalkInv'
<1>1. TalkTypes'
  <2>1. PICK now \in SUBSET Buttons :
          todo' = [todo EXCEPT ![c] =
            <<packet_pack(COMMAND, CONTROL, <<round[c]>>)>>
            \o (IF ARM \in now \ held[c] THEN <<packet_pack(COMMAND, ARM, << >>)>>
                ELSE << >>)
            \o (IF DISARM \in now \ held[c] THEN <<packet_pack(COMMAND, DISARM, << >>)>>
                ELSE << >>)
            \o <<packet_pack(GET_INFO, GET_ANGLES, << >>)>>]
    BY DEF Round
  <2> DEFINE a == <<packet_pack(COMMAND, CONTROL, <<round[c]>>)>>
             b == IF ARM \in now \ held[c] THEN <<packet_pack(COMMAND, ARM, << >>)>>
                  ELSE << >>
             d == IF DISARM \in now \ held[c]
                  THEN <<packet_pack(COMMAND, DISARM, << >>)>> ELSE << >>
             e == <<packet_pack(GET_INFO, GET_ANGLES, << >>)>>
  <2>2. round[c] \in Nat /\ CONTROL \in Nat /\ ARM \in Nat /\ DISARM \in Nat /\ 0 \in Nat
    BY DEF TalkInv, TalkTypes, CONTROL, ARM, DISARM
  <2>3. /\ packet_pack(COMMAND, CONTROL, <<round[c]>>) \in Packets
        /\ packet_pack(COMMAND, ARM, << >>) \in Packets
        /\ packet_pack(COMMAND, DISARM, << >>) \in Packets
        /\ packet_pack(GET_INFO, GET_ANGLES, << >>) \in Packets
    BY <2>2, PackedType
  <2>4. /\ a \in Seq(Packets) /\ b \in Seq(Packets)
        /\ d \in Seq(Packets) /\ e \in Seq(Packets)
    BY <2>3
  <2>5. todo' = [todo EXCEPT ![c] = a \o b \o d \o e]
    BY <2>1
  <2> HIDE DEF a, b, d, e
  <2>6. a \o b \o d \o e \in Seq(Packets)
    BY <2>4
  <2>7. todo' \in [Clients -> Seq(Packets)] /\ round' \in [Clients -> Nat]
    <3>1. todo \in [Clients -> Seq(Packets)] /\ round \in [Clients -> Nat]
      BY DEF TalkInv, TalkTypes
    <3>2. round' = [round EXCEPT ![c] = round[c] + 1] /\ round[c] + 1 \in Nat
      BY <2>2 DEF Round
    <3>3. todo' \in [Clients -> Seq(Packets)]
      BY <2>5, <2>6, <3>1
    <3>4. round' \in [Clients -> Nat]
      BY <3>1, <3>2
    <3> QED BY <3>3, <3>4
  <2> QED BY <2>7 DEF TalkInv, TalkTypes, Round, server
<1>2. ASSUME NEW e \in Clients PROVE (StreamInv(e) /\ PrefixInv(e) /\ AnswerInv(e))'
  BY Untouched DEF TalkInv, TalkTypes, Round, server
<1> QED BY <1>1, <1>2 DEF TalkInv

\* client.send puts a packet at the end of the stream.
LEMMA SendTalk == ASSUME TalkInv, NEW c \in Clients, Send(c) PROVE TalkInv'
<1> DEFINE p == Head(todo[c])
<1>1. /\ p \in Packets /\ p \in Seq(Nat) /\ Tail(todo[c]) \in Seq(Packets)
      /\ toServer[c] \in Seq(Nat) /\ sent[c] \in Seq(Packets) /\ acted[c] \in Seq(Packets)
      /\ sent[c] \in Seq(Seq(Nat)) /\ acted[c] \in Seq(Seq(Nat)) /\ sbuf[c] \in Seq(Nat)
  BY PacketsType, HeadTailProperties DEF TalkInv, TalkTypes, Send
<1>2. /\ toServer' = [toServer EXCEPT ![c] = toServer[c] \o p]
      /\ sent' = [sent EXCEPT ![c] = Append(sent[c], p)]
      /\ todo' = [todo EXCEPT ![c] = Tail(todo[c])]
  BY DEF Send
<1> HIDE DEF p
<1>3. toServer[c] \o p \in Seq(Nat) /\ Append(sent[c], p) \in Seq(Packets)
  BY <1>1
<1>4. TalkTypes'
  <2>1. /\ toServer' \in [Clients -> Seq(Nat)] /\ sent' \in [Clients -> Seq(Packets)]
        /\ todo' \in [Clients -> Seq(Packets)]
    BY <1>1, <1>2, <1>3 DEF TalkInv, TalkTypes
  <2>2. UNCHANGED <<conn, round, acted, got, cbuf, sbuf, toClient, q, cur, at>>
    BY DEF Send, server
  <2> QED BY <2>1, <2>2 DEF TalkInv, TalkTypes
<1>5. (StreamInv(c) /\ PrefixInv(c) /\ AnswerInv(c))'
  <2>1. /\ toServer'[c] = toServer[c] \o p /\ sent'[c] = Append(sent[c], p)
        /\ UNCHANGED <<conn, acted, sbuf, got, cbuf, toClient, at>>
    BY <1>2 DEF TalkInv, TalkTypes, Send, server
  <2>2. conn[c] # "gone"
    BY DEF Send, Alive
  <2>3. Seen(c) = FlattenSeq(sent[c])
    <3>1. PICK lost \in Seq(Nat) : Seen(c) \o lost = FlattenSeq(sent[c]) /\ lost = << >>
      BY <2>2 DEF TalkInv, StreamInv
    <3>2. Seen(c) \in Seq(Nat)
      BY <1>1, FlatType DEF Seen
    <3> QED BY <3>1, <3>2, ConcatEmptySeq
  <2>4. Seen(c)' = Seen(c) \o p
    <3> DEFINE x == FlattenSeq(acted[c]) \o sbuf[c]
    <3>1. x \in Seq(Nat)
      <4>1. FlattenSeq(acted[c]) \in Seq(Nat)
        BY <1>1, FlatType
      <4> QED BY <1>1, <4>1
    <3>2. Seen(c) = x \o toServer[c] /\ Seen(c)' = x \o (toServer[c] \o p)
      BY <2>1 DEF Seen
    <3> HIDE DEF x
    <3>3. x \in Seq(Nat) /\ toServer[c] \in Seq(Nat) /\ p \in Seq(Nat)
      BY <1>1, <3>1
    <3>4. (x \o toServer[c]) \o p = x \o (toServer[c] \o p)
      <4>1. Grouped(x, toServer[c], p)
        BY <3>3, Assoc
      <4> QED BY <4>1 DEF Grouped
    <3> QED BY <3>2, <3>4
  <2>5. FlattenSeq(sent[c])' = FlattenSeq(sent[c]) \o p
    BY <1>1, <2>1, FlatAppend
  <2>6. Seen(c)' = FlattenSeq(sent[c])' /\ Seen(c)' \in Seq(Nat)
    <3>1. FlattenSeq(sent[c]) \in Seq(Nat)
      BY <1>1, FlatType
    <3> QED BY <1>1, <2>3, <2>4, <2>5, <3>1
  <2>7. Seen(c)' \o << >> = FlattenSeq(sent[c])' /\ << >> \in Seq(Nat)
    BY <2>6, ConcatEmptySeq, EmptySeq
  <2>8. StreamInv(c)'
    BY <2>7 DEF StreamInv
  <2>9. PrefixInv(c)'
    <3>1. /\ Len(acted[c]) \in Nat /\ Len(sent[c]) \in Nat
          /\ Len(acted[c]) <= Len(sent[c])
          /\ \A i \in 1 .. Len(acted[c]) : acted[c][i] = sent[c][i]
      BY <1>1, LenProperties DEF TalkInv, PrefixInv
    <3>2. /\ Len(Append(sent[c], p)) = Len(sent[c]) + 1
          /\ \A i \in 1 .. Len(sent[c]) : Append(sent[c], p)[i] = sent[c][i]
      BY <1>1, AppendProperties
    <3> QED BY <2>1, <3>1, <3>2 DEF PrefixInv
  <2>10. AnswerInv(c)'
    BY <2>1 DEF TalkInv, AnswerInv, Answers
  <2> QED BY <2>8, <2>9, <2>10
<1>6. ASSUME NEW e \in Clients, e # c PROVE (StreamInv(e) /\ PrefixInv(e) /\ AnswerInv(e))'
  BY <1>2, <1>6, Untouched DEF TalkInv, TalkTypes, Send, server
<1> QED BY <1>4, <1>5, <1>6 DEF TalkInv

\* client.loop receives any part of the stream, and may cut a packet from it.
LEMMA LoopReceiveTalk == ASSUME TalkInv, NEW c \in Clients, LoopReceive(c) PROVE TalkInv'
<1>1. PICK n \in 1 .. Len(toClient[c]) :
        LET b == cbuf[c] \o SubSeq(toClient[c], 1, n) IN
        /\ toClient' = [toClient EXCEPT ![c] = SubSeq(toClient[c], n + 1, Len(toClient[c]))]
        /\ \/ /\ WholeAt(b)
              /\ got' = [got EXCEPT ![c] = Append(got[c], Packet(b))]
              /\ cbuf' = [cbuf EXCEPT ![c] = Rest(b)]
           \/ /\ cbuf' = [cbuf EXCEPT ![c] = b]
              /\ UNCHANGED got
  <2> HIDE DEF WholeAt, Packet, Rest
  <2> QED BY DEF LoopReceive
<1>2. UNCHANGED <<conn, round, todo, toServer, at, q, cur, sbuf, acted, sent>>
  BY DEF LoopReceive, server
<1> DEFINE r == SubSeq(toClient[c], 1, n)
           u == SubSeq(toClient[c], n + 1, Len(toClient[c]))
           b == cbuf[c] \o r
<1>3. /\ toClient[c] \in Seq(Nat) /\ cbuf[c] \in Seq(Nat) /\ got[c] \in Seq(Seq(Nat))
      /\ n \in 0 .. Len(toClient[c]) /\ acted[c] \in Seq(Packets)
  <2>1. /\ toClient[c] \in Seq(Nat) /\ cbuf[c] \in Seq(Nat) /\ got[c] \in Seq(Seq(Nat))
        /\ acted[c] \in Seq(Packets)
    BY DEF TalkInv, TalkTypes
  <2> QED BY <2>1
<1>4. r \in Seq(Nat) /\ u \in Seq(Nat) /\ toClient[c] = r \o u
  <2>1. Split(Nat, toClient[c], n)
    BY <1>3, SplitAt
  <2> QED BY <1>3, <2>1 DEF Split
<1>5. b \in Seq(Nat)
  BY <1>3, <1>4
<1>6. /\ toClient' = [toClient EXCEPT ![c] = u]
      /\ \/ /\ WholeAt(b)
            /\ got' = [got EXCEPT ![c] = Append(got[c], Packet(b))]
            /\ cbuf' = [cbuf EXCEPT ![c] = Rest(b)]
         \/ /\ cbuf' = [cbuf EXCEPT ![c] = b]
            /\ UNCHANGED got
  BY <1>1
<1>7. b \o u = cbuf[c] \o toClient[c]
  <2>1. cbuf[c] \in Seq(Nat) /\ r \in Seq(Nat) /\ u \in Seq(Nat) /\ toClient[c] = r \o u
    BY <1>3, <1>4
  <2> HIDE DEF r, u
  <2>2. (cbuf[c] \o r) \o u = cbuf[c] \o (r \o u)
    <3>1. Grouped(cbuf[c], r, u)
      BY <2>1, Assoc
    <3> QED BY <3>1 DEF Grouped
  <2> QED BY <2>1, <2>2
<1> HIDE DEF r, u, b
<1>8. WholeAt(b) =>
        Packet(b) \in Seq(Nat) /\ Rest(b) \in Seq(Nat) /\ b = Packet(b) \o Rest(b)
  BY <1>5, CutPacket
<1>9. TalkTypes' /\ got'[c] \in Seq(Seq(Nat)) /\ cbuf'[c] \in Seq(Nat)
  <2>1. Append(got[c], Packet(b)) \in Seq(Seq(Nat)) \/ UNCHANGED got
    BY <1>3, <1>6, <1>8
  <2>2. got' \in [Clients -> Seq(Seq(Nat))] /\ cbuf' \in [Clients -> Seq(Nat)]
    <3>1. got \in [Clients -> Seq(Seq(Nat))] /\ cbuf \in [Clients -> Seq(Nat)]
      BY DEF TalkInv, TalkTypes
    <3>2. got' \in [Clients -> Seq(Seq(Nat))]
      BY <1>6, <2>1, <3>1
    <3>3. cbuf' \in [Clients -> Seq(Nat)]
      BY <1>5, <1>6, <1>8, <3>1
    <3> QED BY <3>2, <3>3
  <2>3. toClient' \in [Clients -> Seq(Nat)]
    BY <1>4, <1>6 DEF TalkInv, TalkTypes
  <2> QED BY <1>2, <2>2, <2>3 DEF TalkInv, TalkTypes
<1>10. toClient'[c] = u
  BY <1>6 DEF TalkInv, TalkTypes
<1>11. FlattenSeq(got'[c]) \o cbuf'[c] \o u = FlattenSeq(got[c]) \o cbuf[c] \o toClient[c]
  <2> DEFINE g == FlattenSeq(got[c])
  <2>1. g \in Seq(Nat)
    BY <1>3, FlatType
  <2>2. (g \o b) \o u = g \o cbuf[c] \o toClient[c]
    <3> HIDE DEF g
    <3>1. (g \o b) \o u = g \o (b \o u)
      <4>1. Grouped(g, b, u)
        BY <1>4, <1>5, <2>1, Assoc
      <4> QED BY <4>1 DEF Grouped
    <3>2. (g \o cbuf[c]) \o toClient[c] = g \o (cbuf[c] \o toClient[c])
      <4>1. Grouped(g, cbuf[c], toClient[c])
        BY <1>3, <2>1, Assoc
      <4> QED BY <4>1 DEF Grouped
    <3> QED BY <1>7, <3>1, <3>2
  <2>3. CASE WholeAt(b) /\ got' = [got EXCEPT ![c] = Append(got[c], Packet(b))]
             /\ cbuf' = [cbuf EXCEPT ![c] = Rest(b)]
    <3>1. got'[c] = Append(got[c], Packet(b)) /\ cbuf'[c] = Rest(b)
      BY <2>3 DEF TalkInv, TalkTypes
    <3>2. FlattenSeq(got'[c]) = g \o Packet(b)
      BY <1>3, <1>8, <2>3, <3>1, FlatAppend
    <3>3. g \in Seq(Nat) /\ Packet(b) \in Seq(Nat) /\ Rest(b) \in Seq(Nat)
      BY <1>8, <2>1, <2>3
    <3> HIDE DEF g
    <3>4. (g \o Packet(b)) \o Rest(b) = g \o (Packet(b) \o Rest(b))
      <4>1. Grouped(g, Packet(b), Rest(b))
        BY <3>3, Assoc
      <4> QED BY <4>1 DEF Grouped
    <3>5. FlattenSeq(got'[c]) \o cbuf'[c] = g \o b
      BY <1>8, <2>3, <3>1, <3>2, <3>4
    <3> QED BY <2>2, <3>5 DEF g
  <2>4. CASE cbuf' = [cbuf EXCEPT ![c] = b] /\ UNCHANGED got
    <3>1. cbuf'[c] = b /\ got'[c] = got[c]
      BY <2>4 DEF TalkInv, TalkTypes
    <3> QED BY <2>2, <3>1
  <2> QED BY <1>6, <2>3, <2>4
<1>12. (StreamInv(c) /\ PrefixInv(c) /\ AnswerInv(c))'
  <2>1. StreamInv(c)'
    BY <1>2 DEF TalkInv, StreamInv, Seen
  <2>2. PrefixInv(c)'
    BY <1>2 DEF TalkInv, PrefixInv
  <2>3. AnswerInv(c)'
    BY <1>2, <1>10, <1>11 DEF TalkInv, AnswerInv, Answers
  <2> QED BY <2>1, <2>2, <2>3
<1>13. ASSUME NEW e \in Clients, e # c PROVE (StreamInv(e) /\ PrefixInv(e) /\ AnswerInv(e))'
  <2>1. got'[e] = got[e] /\ cbuf'[e] = cbuf[e] /\ toClient'[e] = toClient[e]
    BY <1>6, <1>13 DEF TalkInv, TalkTypes
  <2> QED BY <1>2, <2>1, Untouched
<1> QED BY <1>9, <1>12, <1>13 DEF TalkInv

\* A client is gone: what it sent last is delivered or lost.
LEMMA QuitTalk == ASSUME TalkInv, NEW c \in Clients, Quit(c) PROVE TalkInv'
<1>1. /\ conn[c] = "open" /\ conn' = [conn EXCEPT ![c] = "gone"]
      /\ \/ toServer' = [toServer EXCEPT ![c] = << >>]
         \/ toServer' = toServer
      /\ todo' = [todo EXCEPT ![c] = << >>]
      /\ UNCHANGED <<round, got, cbuf, toClient, at, q, cur, sbuf, acted, sent>>
  BY DEF Quit, server
<1>2. TalkTypes'
  <2>1. << >> \in Seq(Nat) /\ << >> \in Seq(Packets)
    BY EmptySeq
  <2>2. toServer' \in [Clients -> Seq(Nat)] /\ todo' \in [Clients -> Seq(Packets)]
    BY <1>1, <2>1 DEF TalkInv, TalkTypes
  <2>3. conn' \in [Clients -> {"off", "waiting", "open", "gone"}]
    BY <1>1 DEF TalkInv, TalkTypes
  <2> QED BY <1>1, <2>2, <2>3 DEF TalkInv, TalkTypes
<1>3. (StreamInv(c) /\ PrefixInv(c) /\ AnswerInv(c))'
  <2>1. conn'[c] = "gone" /\ (toServer'[c] = << >> \/ toServer'[c] = toServer[c])
    BY <1>1 DEF TalkInv, TalkTypes
  <2> DEFINE x == FlattenSeq(acted[c]) \o sbuf[c]
  <2>2. x \in Seq(Nat) /\ toServer[c] \in Seq(Nat)
    <3>1. acted[c] \in Seq(Seq(Nat)) /\ sbuf[c] \in Seq(Nat) /\ toServer[c] \in Seq(Nat)
      BY PacketsType DEF TalkInv, TalkTypes
    <3>2. FlattenSeq(acted[c]) \in Seq(Nat)
      BY <3>1, FlatType
    <3> QED BY <3>1, <3>2
  <2>3. Seen(c) = x \o toServer[c] /\ Seen(c)' = x \o toServer'[c]
    BY <1>1 DEF Seen
  <2>4. x \o toServer[c] = FlattenSeq(sent[c])
    <3>1. (x \o toServer[c]) \o << >> = FlattenSeq(sent[c])
      BY <1>1, <2>3 DEF TalkInv, StreamInv
    <3> HIDE DEF x
    <3> QED BY <2>2, <3>1
  <2>5. \E lost \in Seq(Nat) : (x \o toServer'[c]) \o lost = FlattenSeq(sent[c])
    <3> HIDE DEF x
    <3>1. CASE toServer'[c] = << >>
      <4>1. (x \o << >>) \o toServer[c] = FlattenSeq(sent[c])
        BY <2>2, <2>4
      <4> QED BY <2>2, <3>1, <4>1
    <3>2. CASE toServer'[c] = toServer[c]
      <4>1. (x \o toServer[c]) \o << >> = FlattenSeq(sent[c]) /\ << >> \in Seq(Nat)
        BY <2>2, <2>4
      <4> QED BY <3>2, <4>1
    <3> QED BY <2>1, <3>1, <3>2
  <2> HIDE DEF x
  <2>6. StreamInv(c)'
    BY <1>1, <2>1, <2>3, <2>5 DEF StreamInv
  <2>7. PrefixInv(c)'
    BY <1>1 DEF TalkInv, PrefixInv
  <2>8. AnswerInv(c)'
    BY <1>1 DEF TalkInv, AnswerInv, Answers
  <2> QED BY <2>6, <2>7, <2>8
<1>4. ASSUME NEW e \in Clients, e # c PROVE (StreamInv(e) /\ PrefixInv(e) /\ AnswerInv(e))'
  <2>1. conn'[e] = conn[e] /\ toServer'[e] = toServer[e]
    BY <1>1, <1>4 DEF TalkInv, TalkTypes
  <2> QED BY <1>1, <2>1, Untouched
<1> QED BY <1>2, <1>3, <1>4 DEF TalkInv

\* client.loop finds nothing.
LEMMA LoopNothingTalk == ASSUME TalkInv, NEW c \in Clients, LoopNothing(c) PROVE TalkInv'
<1>1. TalkTypes'
  BY DEF TalkInv, TalkTypes, LoopNothing, server
<1>2. ASSUME NEW e \in Clients PROVE (StreamInv(e) /\ PrefixInv(e) /\ AnswerInv(e))'
  BY Untouched DEF TalkInv, TalkTypes, LoopNothing, server
<1> QED BY <1>1, <1>2 DEF TalkInv


\* server.accept.
LEMMA AcceptTalk == ASSUME TalkInv, Accept PROVE TalkInv'
<1>1. UNCHANGED <<round, todo, got, cbuf, toServer, toClient, sbuf, acted, sent>>
  BY DEF Accept, client
<1>2. /\ cur' = 1 /\ at \in {"accept", "recv"} /\ at' = "copter"
      /\ \/ \E c \in Clients :
              conn[c] = "waiting" /\ conn' = [conn EXCEPT ![c] = "open"] /\ q' = Append(q, c)
         \/ UNCHANGED <<conn, q>>
  BY DEF Accept
<1>3. TalkTypes'
  <2>1. q' \in Seq(Clients) /\ cur' \in Nat \ {0}
    <3>1. q \in Seq(Clients)
      BY DEF TalkInv, TalkTypes
    <3>2. q' \in Seq(Clients)
      BY <1>2, <3>1
    <3> QED BY <1>2, <3>2
  <2>2. conn' \in [Clients -> {"off", "waiting", "open", "gone"}]
    BY <1>2 DEF TalkInv, TalkTypes
  <2> QED BY <1>1, <1>2, <2>1, <2>2 DEF TalkInv, TalkTypes
<1>4. ASSUME NEW e \in Clients PROVE (StreamInv(e) /\ PrefixInv(e) /\ AnswerInv(e))'
  <2>1. conn[e] = "gone" <=> conn'[e] = "gone"
    BY <1>2 DEF TalkInv, TalkTypes
  <2> QED BY <1>1, <1>2, <2>1, Untouched
<1> QED BY <1>3, <1>4 DEF TalkInv

\* quad.processCommand, and the write of a call on the copter, leave the streams alone.
LEMMA CopterTalk == ASSUME TalkInv, ProcessCommand \/ Write PROVE TalkInv'
<1>1. /\ at # "dead" /\ (at' \in {"act", "write"} => at = "act")
      /\ UNCHANGED <<conn, round, todo, got, cbuf, toServer, toClient, q, cur, sbuf, acted, sent>>
  BY DEF ProcessCommand, Write, client
<1>2. TalkTypes'
  BY <1>1 DEF TalkInv, TalkTypes
<1>3. ASSUME NEW e \in Clients PROVE (StreamInv(e) /\ PrefixInv(e) /\ AnswerInv(e))'
  BY <1>1, Untouched
<1> QED BY <1>2, <1>3 DEF TalkInv

\* server.loop receives any part of the stream of one connection.
LEMMA ReceiveTalk == ASSUME TalkInv, Receive PROVE TalkInv'
<1>1. /\ at = "recv" /\ cur <= Len(q) /\ at' = "act"
      /\ UNCHANGED <<conn, round, todo, got, cbuf, toClient, q, cur, acted, sent>>
  BY DEF Receive, client
<1>2. PICK c \in Clients : c = q[cur]
  <2>1. q \in Seq(Clients) /\ cur \in 1 .. Len(q)
    BY <1>1 DEF TalkInv, TalkTypes
  <2> QED BY <2>1, ElementOfSeq
<1>3. \/ \E n \in 1 .. Len(toServer[c]) :
           /\ sbuf' = [sbuf EXCEPT ![c] = sbuf[c] \o SubSeq(toServer[c], 1, n)]
           /\ toServer' = [toServer EXCEPT ![c] = SubSeq(toServer[c], n + 1, Len(toServer[c]))]
      \/ UNCHANGED <<sbuf, toServer>>
  BY <1>2 DEF Receive
<1>4. \A e \in Clients : e # c => sbuf'[e] = sbuf[e] /\ toServer'[e] = toServer[e]
  BY <1>3, <1>2 DEF TalkInv, TalkTypes
<1>5. /\ sbuf' \in [Clients -> Seq(Nat)] /\ toServer' \in [Clients -> Seq(Nat)]
      /\ sbuf'[c] \o toServer'[c] = sbuf[c] \o toServer[c]
  <2>1. CASE UNCHANGED <<sbuf, toServer>>
    BY <2>1 DEF TalkInv, TalkTypes
  <2>2. ASSUME NEW n \in 1 .. Len(toServer[c]),
               sbuf' = [sbuf EXCEPT ![c] = sbuf[c] \o SubSeq(toServer[c], 1, n)],
               toServer' = [toServer EXCEPT ![c] = SubSeq(toServer[c], n + 1, Len(toServer[c]))]
        PROVE  /\ sbuf' \in [Clients -> Seq(Nat)] /\ toServer' \in [Clients -> Seq(Nat)]
               /\ sbuf'[c] \o toServer'[c] = sbuf[c] \o toServer[c]
    <3> DEFINE r == SubSeq(toServer[c], 1, n)
               u == SubSeq(toServer[c], n + 1, Len(toServer[c]))
    <3>1. sbuf[c] \in Seq(Nat) /\ toServer[c] \in Seq(Nat) /\ n \in 0 .. Len(toServer[c])
      BY <1>2, <2>2 DEF TalkInv, TalkTypes
    <3>2. r \in Seq(Nat) /\ u \in Seq(Nat) /\ toServer[c] = r \o u
      <4>1. Split(Nat, toServer[c], n)
        BY <3>1, SplitAt
      <4> QED BY <3>1, <4>1 DEF Split
    <3>3. sbuf' = [sbuf EXCEPT ![c] = sbuf[c] \o r] /\ toServer' = [toServer EXCEPT ![c] = u]
      BY <2>2
    <3> HIDE DEF r, u
    <3>4. sbuf[c] \in Seq(Nat) /\ r \in Seq(Nat) /\ u \in Seq(Nat)
      BY <3>1, <3>2
    <3>5. (sbuf[c] \o r) \o u = sbuf[c] \o (r \o u)
      <4>1. Grouped(sbuf[c], r, u)
        BY <3>4, Assoc
      <4> QED BY <4>1 DEF Grouped
    <3>6. sbuf[c] \o r \in Seq(Nat)
      BY <3>4
    <3>7. sbuf' \in [Clients -> Seq(Nat)] /\ sbuf'[c] = sbuf[c] \o r
      BY <1>2, <3>3, <3>6 DEF TalkInv, TalkTypes
    <3>8. toServer' \in [Clients -> Seq(Nat)] /\ toServer'[c] = u
      BY <1>2, <3>3, <3>4 DEF TalkInv, TalkTypes
    <3> QED BY <3>2, <3>5, <3>7, <3>8
  <2> QED BY <1>3, <2>1, <2>2
<1>6. TalkTypes'
  BY <1>1, <1>5 DEF TalkInv, TalkTypes
<1>7. (StreamInv(c) /\ PrefixInv(c) /\ AnswerInv(c))'
  <2> DEFINE a == FlattenSeq(acted[c])
  <2>1. /\ a \in Seq(Nat) /\ sbuf[c] \in Seq(Nat) /\ toServer[c] \in Seq(Nat)
        /\ sbuf'[c] \in Seq(Nat) /\ toServer'[c] \in Seq(Nat)
    <3>1. acted[c] \in Seq(Seq(Nat)) /\ sbuf[c] \in Seq(Nat) /\ toServer[c] \in Seq(Nat)
      BY <1>2, PacketsType DEF TalkInv, TalkTypes
    <3>2. sbuf'[c] \in Seq(Nat) /\ toServer'[c] \in Seq(Nat)
      BY <1>2, <1>5
    <3>3. a \in Seq(Nat)
      BY <3>1, FlatType
    <3> QED BY <3>1, <3>2, <3>3
  <2>2. Seen(c) = a \o sbuf[c] \o toServer[c] /\ Seen(c)' = a \o sbuf'[c] \o toServer'[c]
    BY <1>1 DEF Seen
  <2> HIDE DEF a
  <2>3. (a \o sbuf[c]) \o toServer[c] = a \o (sbuf[c] \o toServer[c])
    <3>1. Grouped(a, sbuf[c], toServer[c])
      BY <2>1, Assoc
    <3> QED BY <3>1 DEF Grouped
  <2>4. (a \o sbuf'[c]) \o toServer'[c] = a \o (sbuf'[c] \o toServer'[c])
    <3>1. Grouped(a, sbuf'[c], toServer'[c])
      BY <2>1, Assoc
    <3> QED BY <3>1 DEF Grouped
  <2>5. Seen(c)' = Seen(c)
    BY <1>5, <2>2, <2>3, <2>4
  <2>7. StreamInv(c)'
    BY <1>1, <1>2, <2>5 DEF TalkInv, StreamInv
  <2>8. PrefixInv(c)'
    BY <1>1, <1>2 DEF TalkInv, PrefixInv
  <2>9. AnswerInv(c)'
    BY <1>1, <1>2 DEF TalkInv, AnswerInv, Answers
  <2> QED BY <2>7, <2>8, <2>9
<1>8. ASSUME NEW e \in Clients, e # c PROVE (StreamInv(e) /\ PrefixInv(e) /\ AnswerInv(e))'
  BY <1>1, <1>4, <1>8, Untouched
<1> QED BY <1>6, <1>7, <1>8 DEF TalkInv

\* server.loop goes to the next connection.
LEMMA PassTalk == ASSUME TalkInv, Pass PROVE TalkInv'
<1>1. /\ at = "act" /\ at' = "recv" /\ cur' = cur + 1
      /\ UNCHANGED <<conn, round, todo, got, cbuf, toServer, toClient, q, sbuf, acted, sent>>
  BY DEF Pass, client
<1>2. TalkTypes'
  <2>1. cur' \in Nat \ {0} /\ at' # "act"
    <3>1. cur \in Nat \ {0}
      BY DEF TalkInv, TalkTypes
    <3> QED BY <1>1, <3>1
  <2> QED BY <1>1, <2>1 DEF TalkInv, TalkTypes
<1>3. ASSUME NEW e \in Clients PROVE (StreamInv(e) /\ PrefixInv(e) /\ AnswerInv(e))'
  BY <1>1, Untouched
<1> QED BY <1>2, <1>3 DEF TalkInv


\* The packet action_callback is called with is the next one the client sent: it begins
\* where the last one ended, and its third byte says how long it is.
LEMMA NextPacket ==
  ASSUME TalkInv, NEW c \in Clients, WholeAt(sbuf[c])
  PROVE  /\ Len(acted[c]) < Len(sent[c])
         /\ Packet(sbuf[c]) = sent[c][Len(acted[c]) + 1]
         /\ Packet(sbuf[c]) \in Packets
<1> DEFINE n == Len(acted[c])
           R == SubSeq(sent[c], n + 1, Len(sent[c]))
           p == Packet(sbuf[c])
<1>1. /\ acted[c] \in Seq(Packets) /\ sent[c] \in Seq(Packets) /\ sbuf[c] \in Seq(Nat)
      /\ acted[c] \in Seq(Seq(Nat)) /\ sent[c] \in Seq(Seq(Nat)) /\ toServer[c] \in Seq(Nat)
      /\ n \in Nat /\ Len(sent[c]) \in Nat /\ n <= Len(sent[c])
      /\ \A i \in 1 .. n : acted[c][i] = sent[c][i]
  BY PacketsType DEF TalkInv, TalkTypes, PrefixInv
<1>2. R \in Seq(Packets) /\ R \in Seq(Seq(Nat)) /\ sent[c] = acted[c] \o R
  <2>1. R \in Seq(Packets) /\ sent[c] = acted[c] \o R
    BY <1>1, PrefixSplit
  <2> QED BY <2>1, PacketsType
<1>3. PICK lost \in Seq(Nat) : Seen(c) \o lost = FlattenSeq(sent[c])
  BY DEF TalkInv, StreamInv
<1>4. /\ FlattenSeq(acted[c]) \in Seq(Nat) /\ FlattenSeq(R) \in Seq(Nat)
      /\ FlattenSeq(sent[c]) = FlattenSeq(acted[c]) \o FlattenSeq(R)
  <2>1. FlattenSeq(acted[c] \o R) = FlattenSeq(acted[c]) \o FlattenSeq(R)
    BY <1>1, <1>2, FlatConcat
  <2>2. FlattenSeq(acted[c]) \in Seq(Nat) /\ FlattenSeq(R) \in Seq(Nat)
    BY <1>1, <1>2, FlatType
  <2> HIDE DEF R
  <2> QED BY <1>2, <2>1, <2>2
<1>5. /\ p \in Seq(Nat) /\ Rest(sbuf[c]) \in Seq(Nat)
      /\ Len(p) = sbuf[c][3] + 3 /\ sbuf[c] = p \o Rest(sbuf[c])
  BY <1>1, CutPacket
<1> DEFINE u == Rest(sbuf[c]) \o (toServer[c] \o lost)
<1>6. u \in Seq(Nat)
  BY <1>1, <1>5
<1>7. FlattenSeq(R) = p \o u
  <2> DEFINE a == FlattenSeq(acted[c])
             t == Rest(sbuf[c])
             r == FlattenSeq(R)
             w == toServer[c]
             b == p \o t
             x == a \o b
             y == w \o lost
  <2>1. /\ a \in Seq(Nat) /\ r \in Seq(Nat) /\ t \in Seq(Nat) /\ p \in Seq(Nat)
        /\ w \in Seq(Nat) /\ lost \in Seq(Nat) /\ sbuf[c] = b
        /\ ((a \o sbuf[c]) \o w) \o lost = a \o r
    BY <1>1, <1>3, <1>4, <1>5 DEF Seen
  <2> HIDE DEF a, t, r, p, R, w
  <2>2. x \in Seq(Nat) /\ w \in Seq(Nat) /\ lost \in Seq(Nat)
    BY <2>1
  <2>3. a \in Seq(Nat) /\ b \in Seq(Nat) /\ y \in Seq(Nat)
    BY <2>1
  <2>4. p \in Seq(Nat) /\ t \in Seq(Nat) /\ y \in Seq(Nat)
    BY <2>1
  <2>5. (x \o w) \o lost = x \o (w \o lost)
    <3>1. Grouped(x, w, lost)
      BY <2>2, Assoc
    <3> QED BY <3>1 DEF Grouped
  <2>6. (a \o b) \o y = a \o (b \o y)
    <3>1. Grouped(a, b, y)
      BY <2>3, Assoc
    <3> QED BY <3>1 DEF Grouped
  <2>7. (p \o t) \o y = p \o (t \o y)
    <3>1. Grouped(p, t, y)
      BY <2>4, Assoc
    <3> QED BY <3>1 DEF Grouped
  <2>8. b \o y \in Seq(Nat) /\ a \o (b \o y) = a \o r
    <3>1. b \o y \in Seq(Nat)
      BY <2>3
    <3>2. (x \o w) \o lost = a \o r
      <4> HIDE DEF b
      <4> QED BY <2>1
    <3>3. (a \o b) \o y = a \o r
      BY <2>5, <3>2
    <3>4. a \o (b \o y) = a \o r
      <4> HIDE DEF b, y
      <4> QED BY <2>6, <3>3
    <3> HIDE DEF b, y
    <3> QED BY <3>1, <3>4
  <2>9. b \o y = r
    <3> HIDE DEF x, b, y
    <3> QED BY <2>1, <2>8, Cancel
  <2> QED BY <2>7, <2>9 DEF t, r, w
<1>8. Len(sbuf[c]) >= 3 /\ Len(p) >= 3 /\ Len(p) \in Nat /\ sbuf[c][3] = p[3]
  <2>1. Len(sbuf[c]) >= 3 /\ Len(sbuf[c]) \in Nat
    BY <1>1 DEF WholeAt
  <2>2. sbuf[c][3] \in Nat
    BY <1>1, <2>1, ElementOfSeq
  <2>3. Len(p) \in Nat /\ Len(p) >= 3
    BY <1>5, <2>2
  <2>4. Len(Rest(sbuf[c])) \in Nat
    BY <1>5, LenProperties
  <2> HIDE DEF p
  <2>5. (p \o Rest(sbuf[c]))[3] = p[3]
    BY <1>5, <2>3, <2>4, ConcatProperties
  <2> QED BY <1>5, <2>1, <2>3, <2>5
<1>9. R # << >>
  <2>1. Len(p \o u) = Len(p) + Len(u) /\ Len(u) \in Nat
    BY <1>5, <1>6, ConcatProperties, LenProperties
  <2>2. p \o u # << >>
    <3> HIDE DEF p, u
    <3> QED BY <1>8, <2>1
  <2> HIDE DEF R, p, u
  <2> QED BY <1>7, <2>2, FlatEmpty
<1>10. /\ Head(R) \in Packets /\ Tail(R) \in Seq(Packets) /\ Tail(R) \in Seq(Seq(Nat))
       /\ Head(R) \in Seq(Nat) /\ FlattenSeq(Tail(R)) \in Seq(Nat)
       /\ p \o u = Head(R) \o FlattenSeq(Tail(R))
  <2> HIDE DEF R, p, u
  <2>1. Head(R) \in Packets /\ Tail(R) \in Seq(Packets)
    BY <1>2, <1>9, HeadTailProperties
  <2>2. Head(R) \in Seq(Nat) /\ Tail(R) \in Seq(Seq(Nat))
    BY <2>1, PacketsType
  <2>3. FlattenSeq(Tail(R)) \in Seq(Nat)
    BY <2>2, FlatType
  <2>4. FlattenSeq(R) = Head(R) \o FlattenSeq(Tail(R))
    BY <1>2, <1>9, FlatFirst
  <2> QED BY <1>7, <2>1, <2>2, <2>3, <2>4
<1>11. p = Head(R)
  <2> DEFINE h == Head(R)
             v == FlattenSeq(Tail(R))
  <2>1. h \in Packets /\ h \in Seq(Nat) /\ v \in Seq(Nat) /\ p \o u = h \o v
    BY <1>10
  <2> HIDE DEF h, v, p, u
  <2>2. Len(h) \in Nat /\ Len(h) >= 3 /\ h[3] = Len(h) - 3
    BY <2>1 DEF Packets
  <2>3. Len(u) \in Nat /\ Len(v) \in Nat
    BY <1>6, <2>1, LenProperties
  <2>4. (p \o u)[3] = p[3]
    BY <1>5, <1>6, <1>8, <2>3, ConcatProperties
  <2>5. (h \o v)[3] = h[3]
    BY <2>1, <2>2, <2>3, ConcatProperties
  <2>6. Len(p) = Len(h)
    BY <1>5, <1>8, <2>1, <2>2, <2>4, <2>5
  <2>7. p = h
    BY <1>5, <1>6, <2>1, <2>6, CutFirst
  <2> QED BY <2>7 DEF h
<1>12. n < Len(sent[c]) /\ Head(R) = sent[c][n + 1]
  <2>1. n < Len(sent[c])
    <3> SUFFICES ASSUME ~(n < Len(sent[c])) PROVE FALSE
      OBVIOUS
    <3>1. R = << >>
      <4>1. n + 1 \in Int /\ Len(sent[c]) \in Int /\ Len(sent[c]) < n + 1
        BY <1>1
      <4> QED BY <4>1, SubSeqEmpty
    <3> QED BY <1>9, <3>1
  <2>2. n + 1 \in 1 .. Len(sent[c]) /\ Len(sent[c]) \in n + 1 .. Len(sent[c])
    BY <1>1, <2>1
  <2> QED BY <1>1, <2>1, <2>2, HeadTailOfSubSeq
<1> QED BY <1>10, <1>11, <1>12


\* The answer to a packet.
LEMMA AnswerOne ==
  ASSUME NEW p \in Packets
  PROVE  /\ packet_pack(p[1], p[2], IF p[1] = GET_INFO THEN <<0>> ELSE << >>) \in Seq(Nat)
         /\ Answer(p) = packet_pack(p[1], p[2], IF p[1] = GET_INFO THEN <<0>> ELSE << >>)
<1>1. p[1] \in Nat /\ p[2] \in Nat
  BY PacketsType
<1>2. /\ packet_pack(p[1], p[2], << >>) = <<p[1], p[2], 0>>
      /\ packet_pack(p[1], p[2], <<0>>) = <<p[1], p[2], 1, 0>>
  <2>1. 0 \in Nat
    OBVIOUS
  <2> QED BY <1>1, <2>1, PackedShort
<1>3. <<p[1], p[2], 0>> \in Seq(Nat) /\ <<p[1], p[2], 1, 0>> \in Seq(Nat)
  BY <1>1
<1>4. p[1] = COMMAND \/ (p[1] = GET_INFO /\ p[2] = GET_ANGLES)
  BY DEF Packets
<1>5. COMMAND # GET_INFO
  BY DEF COMMAND, GET_INFO
<1> HIDE DEF packet_pack
<1>6. CASE p[1] = COMMAND
  BY <1>2, <1>3, <1>5, <1>6 DEF Answer
<1>7. CASE p[1] = GET_INFO /\ p[2] = GET_ANGLES
  BY <1>2, <1>3, <1>5, <1>7 DEF Answer
<1> QED BY <1>4, <1>6, <1>7

\* One more packet has one more answer.
LEMMA AnswersAppend ==
  ASSUME NEW a \in Seq(Packets), NEW p \in Packets
  PROVE  /\ Answers(a) \in Seq(Seq(Nat))
         /\ Answers(Append(a, p)) = Append(Answers(a), Answer(p))
<1> DEFINE one(x) == packet_pack(x[1], x[2], IF x[1] = GET_INFO THEN <<0>> ELSE << >>)
<1>1. /\ Len(a) \in Nat /\ DOMAIN a = 1 .. Len(a)
      /\ \A i \in 1 .. Len(a) : a[i] \in Packets
  BY LenProperties, ElementOfSeq
<1>2. /\ Append(a, p) \in Seq(Packets) /\ Len(Append(a, p)) = Len(a) + 1
      /\ \A i \in 1 .. Len(a) : Append(a, p)[i] = a[i]
      /\ Append(a, p)[Len(a) + 1] = p
      /\ DOMAIN Append(a, p) = 1 .. Len(a) + 1
  BY <1>1, AppendProperties, LenProperties
<1>3. \A x \in Packets : one(x) \in Seq(Nat)
  BY AnswerOne
<1>4. one(p) = Answer(p)
  BY AnswerOne
<1>5. /\ Answers(a) = [i \in 1 .. Len(a) |-> one(a[i])]
      /\ Answers(Append(a, p)) = [i \in 1 .. Len(a) + 1 |-> one(Append(a, p)[i])]
  BY <1>1, <1>2 DEF Answers
<1> HIDE DEF one
<1>6. Answers(a) \in Seq(Seq(Nat)) /\ Len(Answers(a)) = Len(a)
  <2>1. Answers(a) \in [1 .. Len(a) -> Seq(Nat)]
    BY <1>1, <1>3, <1>5
  <2> QED BY <1>1, <2>1
<1>7. Answers(Append(a, p)) \in Seq(Seq(Nat)) /\ Len(Answers(Append(a, p))) = Len(a) + 1
  <2>1. \A i \in 1 .. Len(a) + 1 : Append(a, p)[i] \in Packets
    BY <1>1, <1>2, ElementOfSeq
  <2>2. Answers(Append(a, p)) \in [1 .. Len(a) + 1 -> Seq(Nat)]
    BY <1>3, <1>5, <2>1
  <2>3. Len(a) + 1 \in Nat
    BY <1>1
  <2> QED BY <2>2, <2>3
<1>8. Answer(p) \in Seq(Nat)
  BY <1>3, <1>4
<1>9. /\ Append(Answers(a), Answer(p)) \in Seq(Seq(Nat))
      /\ Len(Append(Answers(a), Answer(p))) = Len(a) + 1
      /\ \A i \in 1 .. Len(a) : Append(Answers(a), Answer(p))[i] = Answers(a)[i]
      /\ Append(Answers(a), Answer(p))[Len(a) + 1] = Answer(p)
  BY <1>6, <1>8, AppendProperties
<1>10. \A i \in 1 .. Len(a) + 1 : Answers(Append(a, p))[i] = Append(Answers(a), Answer(p))[i]
  <2> SUFFICES ASSUME NEW i \in 1 .. Len(a) + 1
               PROVE  Answers(Append(a, p))[i] = Append(Answers(a), Answer(p))[i]
    OBVIOUS
  <2>1. i \in 1 .. Len(a) \/ i = Len(a) + 1
    BY <1>1
  <2>2. Answers(Append(a, p))[i] = one(Append(a, p)[i])
    BY <1>5
  <2>3. CASE i \in 1 .. Len(a)
    BY <1>2, <1>5, <1>9, <2>2, <2>3
  <2>4. CASE i = Len(a) + 1
    BY <1>2, <1>4, <1>9, <2>2, <2>4
  <2> QED BY <2>1, <2>3, <2>4
<1> QED
  <2>1. \A i \in 1 .. Len(Answers(Append(a, p))) :
          Answers(Append(a, p))[i] = Append(Answers(a), Answer(p))[i]
    BY <1>7, <1>10
  <2> QED BY <1>6, <1>7, <1>9, <2>1, SeqEqual

\* action_callback: a packet is acted on and answered, or the server dies of answering.
LEMMA ActTalk == ASSUME TalkInv, Act PROVE TalkInv'
<1>1. /\ at \in {"act", "write"} /\ WholeAt(sbuf[q[cur]])
      /\ UNCHANGED <<conn, round, todo, got, cbuf, toServer, q, cur, sent>>
  BY DEF Act, client
<1>2. PICK c \in Clients : c = q[cur]
  <2>1. q \in Seq(Clients) /\ cur \in 1 .. Len(q)
    BY <1>1 DEF TalkInv, TalkTypes
  <2> QED BY <2>1, ElementOfSeq
<1>3. WholeAt(sbuf[c])
  BY <1>1, <1>2
<1>4. PICK p \in Packets : p = Packet(sbuf[c])
  BY <1>3, NextPacket
<1>5. /\ sbuf' = [sbuf EXCEPT ![c] = Rest(sbuf[c])]
      /\ acted' = [acted EXCEPT ![c] = Append(acted[c], p)]
      /\ \/ toClient' = [toClient EXCEPT ![c] = toClient[c] \o Answer(p)] /\ at' = "act"
         \/ at' = "dead" /\ toClient' = toClient
  <2> HIDE DEF Answer, Rest, Packet
  <2> QED BY <1>2, <1>4 DEF Act
<1>6. /\ acted[c] \in Seq(Packets) /\ acted[c] \in Seq(Seq(Nat)) /\ sent[c] \in Seq(Packets)
      /\ sbuf[c] \in Seq(Nat) /\ toServer[c] \in Seq(Nat) /\ got[c] \in Seq(Seq(Nat))
      /\ cbuf[c] \in Seq(Nat) /\ toClient[c] \in Seq(Nat) /\ p \in Seq(Nat)
  BY PacketsType DEF TalkInv, TalkTypes
<1>7. Rest(sbuf[c]) \in Seq(Nat) /\ sbuf[c] = p \o Rest(sbuf[c])
  BY <1>3, <1>4, <1>6, CutPacket
<1>8. Answer(p) \in Seq(Nat)
  BY AnswerOne
<1>9. TalkTypes'
  <2>1. toClient[c] \o Answer(p) \in Seq(Nat) /\ Append(acted[c], p) \in Seq(Packets)
    BY <1>6, <1>8
  <2>2. toClient' \in [Clients -> Seq(Nat)]
    BY <1>5, <2>1 DEF TalkInv, TalkTypes
  <2>3. acted' \in [Clients -> Seq(Packets)]
    BY <1>5, <2>1 DEF TalkInv, TalkTypes
  <2>4. sbuf' \in [Clients -> Seq(Nat)]
    BY <1>5, <1>7 DEF TalkInv, TalkTypes
  <2>5. at' = "act" => cur' <= Len(q')
    BY <1>1 DEF TalkInv, TalkTypes
  <2> QED BY <1>1, <2>2, <2>3, <2>4, <2>5 DEF TalkInv, TalkTypes
<1>10. /\ sbuf'[c] = Rest(sbuf[c]) /\ acted'[c] = Append(acted[c], p)
       /\ \/ toClient'[c] = toClient[c] \o Answer(p)
          \/ at' = "dead"
  <2> HIDE DEF Answer, Rest
  <2> QED BY <1>5 DEF TalkInv, TalkTypes
<1>11. StreamInv(c)'
  <2> DEFINE a == FlattenSeq(acted[c])
             t == Rest(sbuf[c])
  <2>1. a \in Seq(Nat) /\ p \in Seq(Nat) /\ t \in Seq(Nat)
    BY <1>6, <1>7, FlatType
  <2>2. FlattenSeq(acted'[c]) = a \o p
    BY <1>6, <1>10, FlatAppend
  <2>3. (a \o p) \o t = a \o (p \o t)
    <3>1. Grouped(a, p, t)
      BY <2>1, Assoc
    <3> QED BY <3>1 DEF Grouped
  <2>4. FlattenSeq(acted'[c]) \o sbuf'[c] = a \o sbuf[c]
    BY <1>7, <1>10, <2>2, <2>3
  <2>5. Seen(c)' = Seen(c)
    BY <1>1, <2>4 DEF Seen
  <2> QED BY <1>1, <2>5 DEF TalkInv, StreamInv
<1>12. PrefixInv(c)'
  <2> DEFINE n == Len(acted[c])
  <2>1. n < Len(sent[c]) /\ p = sent[c][n + 1] /\ n \in Nat /\ Len(sent[c]) \in Nat
    BY <1>3, <1>4, <1>6, NextPacket, LenProperties
  <2>2. \A i \in 1 .. n : acted[c][i] = sent[c][i]
    BY DEF TalkInv, PrefixInv
  <2>3. /\ Len(Append(acted[c], p)) = n + 1 /\ Append(acted[c], p)[n + 1] = p
        /\ \A i \in 1 .. n : Append(acted[c], p)[i] = acted[c][i]
    BY <1>6, AppendProperties
  <2> HIDE DEF n
  <2>4. \A i \in 1 .. n + 1 : Append(acted[c], p)[i] = sent[c][i]
    <3>1. \A i \in 1 .. n + 1 : i \in 1 .. n \/ i = n + 1
      BY <2>1
    <3> QED BY <2>1, <2>2, <2>3, <3>1
  <2>5. n + 1 <= Len(sent[c])
    BY <2>1
  <2>6. acted'[c] = Append(acted[c], p) /\ sent'[c] = sent[c]
    BY <1>1, <1>10
  <2> QED BY <2>3, <2>4, <2>5, <2>6 DEF PrefixInv
<1>13. AnswerInv(c)'
  <2> SUFFICES ASSUME at' # "dead"
               PROVE  FlattenSeq(got'[c]) \o cbuf'[c] \o toClient'[c]
                        = FlattenSeq(Answers(acted'[c]))
    BY DEF AnswerInv, Answers
  <2> DEFINE g == FlattenSeq(got[c]) \o cbuf[c]
             A == Answer(p)
             d == toClient[c]
  <2>1. g \o d = FlattenSeq(Answers(acted[c]))
    BY <1>1 DEF TalkInv, AnswerInv
  <2>2. g \in Seq(Nat) /\ d \in Seq(Nat) /\ A \in Seq(Nat)
    <3>1. FlattenSeq(got[c]) \in Seq(Nat)
      BY <1>6, FlatType
    <3> QED BY <1>6, <1>8, <3>1
  <2>3. Answers(acted[c]) \in Seq(Seq(Nat)) /\ Answers(acted'[c]) = Append(Answers(acted[c]), A)
    BY <1>6, <1>10, AnswersAppend
  <2>4. FlattenSeq(Answers(acted'[c])) = FlattenSeq(Answers(acted[c])) \o A
    <3> HIDE DEF A
    <3> QED BY <2>2, <2>3, FlatAppend
  <2>5. toClient'[c] = d \o A
    BY <1>10
  <2>6. (g \o d) \o A = g \o (d \o A)
    <3>1. Grouped(g, d, A)
      BY <2>2, Assoc
    <3> QED BY <3>1 DEF Grouped
  <2>7. FlattenSeq(got'[c]) \o cbuf'[c] = g
    BY <1>1
  <2> HIDE DEF g, d, A
  <2> QED BY <2>1, <2>4, <2>5, <2>6, <2>7
<1>14. ASSUME NEW e \in Clients, e # c PROVE (StreamInv(e) /\ PrefixInv(e) /\ AnswerInv(e))'
  <2>1. sbuf'[e] = sbuf[e] /\ acted'[e] = acted[e]
    BY <1>5, <1>14 DEF TalkInv, TalkTypes
  <2>2. toClient'[e] = toClient[e]
    BY <1>5, <1>14 DEF TalkInv, TalkTypes
  <2> QED BY <1>1, <2>1, <2>2, Untouched
<1> QED BY <1>9, <1>11, <1>12, <1>13, <1>14 DEF TalkInv

\* So every step keeps the invariant.
LEMMA TalkStep == TalkInv /\ [TalkNext]_talkVars => TalkInv'
<1> SUFFICES ASSUME TalkInv, [TalkNext]_talkVars PROVE TalkInv'
  OBVIOUS
<1>1. CASE UNCHANGED talkVars
  <2>1. UNCHANGED <<conn, round, todo, got, cbuf, toServer, toClient, at, q, cur, sbuf, sent, acted>>
    BY <1>1 DEF talkVars, client, server
  <2>2. TalkTypes'
    BY <2>1 DEF TalkInv, TalkTypes
  <2>3. ASSUME NEW e \in Clients PROVE (StreamInv(e) /\ PrefixInv(e) /\ AnswerInv(e))'
    BY <2>1, Untouched
  <2> QED BY <2>2, <2>3 DEF TalkInv
<1>2. CASE Server
  BY <1>2, AcceptTalk, CopterTalk, ReceiveTalk, ActTalk, PassTalk DEF Server
<1>3. CASE \E c \in Clients : Connect(c) \/ Client(c) \/ Quit(c)
  BY <1>3, ConnectTalk, RoundTalk, SendTalk, LoopNothingTalk, LoopReceiveTalk, QuitTalk DEF Client
<1> QED BY <1>1, <1>2, <1>3 DEF TalkNext

\* The invariant of the ground station.
LEMMA TalkInvariant == TalkSpec => []TalkInv
BY TalkInitInv, TalkStep, PTL DEF TalkSpec

\* server.accept keeps the server's list what it says.
LEMMA AcceptPlace ==
  ASSUME TalkInv, TalkTypeOK, Accept PROVE TalkTypeOK'
<1>1. q \in Seq(Clients) /\ cur' = 1 /\ at' = "copter" /\ round' = round
  BY DEF TalkInv, TalkTypes, Accept, client
<1>2. CASE UNCHANGED <<conn, q>>
  <2>1. Len(q) \in Nat
    BY <1>1, LenProperties
  <2>2. cur' \in 1 .. Len(q') + 1
    BY <1>1, <1>2, <2>1
  <2> QED BY <1>1, <1>2, <2>2 DEF TalkTypeOK
<1>3. ASSUME NEW c \in Clients, conn[c] = "waiting", conn' = [conn EXCEPT ![c] = "open"],
             q' = Append(q, c)
      PROVE  TalkTypeOK'
  <2>1. /\ Len(q) \in Nat /\ DOMAIN q = 1 .. Len(q) /\ Len(q') = Len(q) + 1
        /\ DOMAIN q' = 1 .. Len(q) + 1
        /\ \A i \in 1 .. Len(q) : q'[i] = q[i]
        /\ q'[Len(q) + 1] = c
    BY <1>1, <1>3, AppendProperties, LenProperties
  <2>2. Range(q') = Range(q) \cup {c}
    <3>1. \A i \in 1 .. Len(q) + 1 : i \in 1 .. Len(q) \/ i = Len(q) + 1
      BY <2>1
    <3>2. Len(q) + 1 \in 1 .. Len(q) + 1 /\ 1 .. Len(q) \subseteq 1 .. Len(q) + 1
      BY <2>1
    <3> QED BY <2>1, <3>1, <3>2 DEF Range
  <2>3. Range(q') \subseteq Clients
    BY <2>2 DEF TalkTypeOK
  <2>4. cur' \in 1 .. Len(q') + 1
    BY <1>1, <2>1
  <2>5. /\ conn' \in [Clients -> {"off", "waiting", "open", "gone"}]
        /\ \A e \in Clients : conn'[e] \in {"open", "gone"} <=> e \in Range(q')
    BY <1>3, <2>2 DEF TalkTypeOK
  <2> QED BY <1>1, <2>3, <2>4, <2>5 DEF TalkTypeOK
<1> QED BY <1>2, <1>3 DEF Accept

\* So does every step.
LEMMA PlaceStep == TalkInv /\ TalkTypeOK /\ [TalkNext]_talkVars => TalkTypeOK'
<1> SUFFICES ASSUME TalkInv, TalkTypeOK, [TalkNext]_talkVars PROVE TalkTypeOK'
  OBVIOUS
<1>1. CASE UNCHANGED talkVars
  BY <1>1 DEF talkVars, client, server, TalkTypeOK
<1>2. CASE Accept
  BY <1>2, AcceptPlace
<1>3. CASE Receive
  BY <1>3 DEF Receive, client, TalkTypeOK
<1>4. CASE Act \/ Write \/ ProcessCommand
  BY <1>4 DEF Act, Write, ProcessCommand, client, TalkTypeOK
<1>5. CASE Pass
  <2>1. at = "act" /\ at' = "recv" /\ cur' = cur + 1 /\ UNCHANGED <<conn, round, q>>
    BY <1>5 DEF Pass, client
  <2>2. cur \in Nat \ {0} /\ cur <= Len(q) /\ Len(q) \in Nat
    BY <2>1, LenProperties DEF TalkInv, TalkTypes
  <2>3. cur' \in 1 .. Len(q') + 1
    BY <2>1, <2>2
  <2> QED BY <2>1, <2>3 DEF TalkTypeOK
<1>6. ASSUME NEW c \in Clients, Connect(c) PROVE TalkTypeOK'
  <2>1. conn[c] = "off" /\ conn' = [conn EXCEPT ![c] = "waiting"] /\ UNCHANGED <<round, at, q, cur>>
    BY <1>6 DEF Connect, server
  <2> QED BY <2>1 DEF TalkTypeOK
<1>7. ASSUME NEW c \in Clients, Round(c) PROVE TalkTypeOK'
  <2>1. /\ round[c] < MaxRounds[c] /\ round' = [round EXCEPT ![c] = round[c] + 1]
        /\ UNCHANGED <<conn, at, q, cur>>
    BY <1>7 DEF Round, server
  <2>2. round \in [Clients -> Nat]
    BY DEF TalkInv, TalkTypes
  <2>3. \A e \in Clients : round'[e] \in 0 .. MaxRounds[e]
    <3> SUFFICES ASSUME NEW e \in Clients PROVE round'[e] \in 0 .. MaxRounds[e]
      OBVIOUS
    <3>1. MaxRounds[e] \in Nat /\ MaxRounds[c] \in Nat /\ round[c] \in Nat
      BY <2>2, RoundsAssumption
    <3>2. CASE e = c
      BY <2>1, <2>2, <3>1, <3>2
    <3>3. CASE e # c
      BY <2>1, <2>2, <3>3 DEF TalkTypeOK
    <3> QED BY <3>2, <3>3
  <2> QED BY <2>1, <2>3 DEF TalkTypeOK
<1>8. ASSUME NEW c \in Clients, Send(c) \/ LoopNothing(c) \/ LoopReceive(c) PROVE TalkTypeOK'
  <2>1. UNCHANGED <<conn, round, at, q, cur>>
    BY <1>8 DEF Send, LoopNothing, LoopReceive, server
  <2> QED BY <2>1 DEF TalkTypeOK
<1>9. ASSUME NEW c \in Clients, Quit(c) PROVE TalkTypeOK'
  <2>1. conn[c] = "open" /\ conn' = [conn EXCEPT ![c] = "gone"] /\ UNCHANGED <<round, at, q, cur>>
    BY <1>9 DEF Quit, server
  <2> QED BY <2>1 DEF TalkTypeOK
<1> QED BY <1>1, <1>2, <1>3, <1>4, <1>5, <1>6, <1>7, <1>8, <1>9 DEF TalkNext, Server, Client

\* The server's list holds the clients it has accepted and no other, its place in it is
\* valid, and every variable keeps its type.
THEOREM TalkTypeCorrect == TalkSpec => []TalkTypeOK
<1>1. TalkInit => TalkTypeOK
  <2> SUFFICES ASSUME TalkInit PROVE TalkTypeOK
    OBVIOUS
  <2>1. Range(q) = {} /\ cur \in 1 .. Len(q) + 1
    BY EmptySeq DEF TalkInit, Range
  <2> QED BY <2>1, RoundsAssumption DEF TalkInit, TalkTypeOK
<1> QED BY <1>1, TalkInvariant, PlaceStep, PTL DEF TalkSpec

\* However TCP cuts the streams and the clients interleave, the server acts on exactly the
\* packets each client sent, in order (talk_misc.py, py_serv.py).
THEOREM TalkInOrder == TalkSpec => []ActedInOrder
<1>1. TalkInv => ActedInOrder
  <2> SUFFICES ASSUME TalkInv, NEW c \in Clients
               PROVE  IF conn[c] = "gone" THEN IsPrefix(Seen(c), FlattenSeq(sent[c]))
                      ELSE Seen(c) = FlattenSeq(sent[c])
    BY DEF ActedInOrder, Seen
  <2>1. PICK lost \in Seq(Nat) :
          Seen(c) \o lost = FlattenSeq(sent[c]) /\ (conn[c] # "gone" => lost = << >>)
    BY DEF TalkInv, StreamInv
  <2>2. Seen(c) \in Seq(Nat)
    <3>1. acted[c] \in Seq(Seq(Nat)) /\ sbuf[c] \in Seq(Nat) /\ toServer[c] \in Seq(Nat)
      BY PacketsType DEF TalkInv, TalkTypes
    <3>2. FlattenSeq(acted[c]) \in Seq(Nat)
      BY <3>1, FlatType
    <3> QED BY <3>1, <3>2 DEF Seen
  <2>3. IsPrefix(Seen(c), Seen(c) \o lost)
    BY <2>2, IsPrefixOf
  <2>4. Seen(c) \o << >> = Seen(c)
    BY <2>2, ConcatEmptySeq
  <2> QED BY <2>1, <2>3, <2>4
<1> QED BY <1>1, TalkInvariant, PTL

\* While the server lives, every packet acted on is answered once, to its client, in order,
\* and the client's loop returns the answers in that order.
THEOREM TalkAnswered == TalkSpec => []AnsweredInOrder
<1>1. TalkInv => AnsweredInOrder
  BY DEF TalkInv, AnswerInv, Answers, AnsweredInOrder
<1> QED BY <1>1, TalkInvariant, PTL
=============================================================================
