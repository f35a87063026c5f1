--------------------------- MODULE CanFrameProofs ---------------------------
(***************************************************************************)
(* The frames of CanFrame are returned as they were sent, for every        *)
(* identifier, every data field and every number of frames, and a wrong    *)
(* bit is found.                                                           *)
(*                                                                         *)
(* The loops over the bits are recursive functions.  What a loop computes  *)
(* is taken from its trace, the function of its states (IsTrace), which    *)
(* exists (Recursion) and is the one that the loop defines (LoopTrace);    *)
(* whatever holds along a trace follows by induction over a set of         *)
(* numbers (Induction).  On the way:                                       *)
(*   UnpackFrame   the parser undoes what the composer has done            *)
(*   UnpackWrong   a step of the checksum can be undone, so two streams    *)
(*                 that differ in one bit differ in the checksum           *)
(*   Recovered     composer and parser count the same runs from the first  *)
(*                 change of level on (Coupled), so the parser drops the   *)
(*                 stuff bits and no other                                 *)
(*   TakenUp       no run of the composer is long enough to end the        *)
(*                 sampling                                                *)
(***************************************************************************)
EXTENDS CanFrame, TLAPS, NaturalsInduction, WellFoundedInduction, SequenceTheorems

-----------------------------------------------------------------------------
(* Induction, and what a recursive function is.                            *)

\* Induction over a set of numbers.
LEMMA Induction ==
  ASSUME NEW S, 0 \in S, \A n \in Nat : n \in S => n + 1 \in S
  PROVE  Nat \subseteq S
PROOF
<1> DEFINE Rest == Nat \ S
           Less == OpToRel(<, Nat)
<1>1. SUFFICES ASSUME Rest # {} PROVE FALSE
  OBVIOUS
<1>2. IsWellFoundedOn(Less, Nat)
  BY NatLessThanWellFounded
<1>3. PICK x \in Rest : \A y \in Rest : ~(<<y, x>> \in Less)
  <2> HIDE DEF Less
  <2> QED  BY <1>1, <1>2, WFMin
<1>4. x # 0 /\ x - 1 \in Nat
  OBVIOUS
<1>5. <<x - 1, x>> \in Less
  BY <1>4 DEF OpToRel
<1>6. x - 1 \in S
  BY <1>3, <1>4, <1>5
<1> QED  BY <1>4, <1>6

Steps(n, S) == [(1 .. n) \X S -> S]

\* A function over 0 .. n begins with s and goes on by step.
Recursive(n, S, s, step) ==
  \E f \in [0 .. n -> S] : f[0] = s /\ \A i \in 1 .. n : f[i] = step[<<i, f[i - 1]>>]

\* Such a function exists, whatever the step does.
LEMMA Recursion ==
  ASSUME NEW n \in Nat, NEW S, NEW s \in S, NEW step \in Steps(n, S)
  PROVE  Recursive(n, S, s, step)
PROOF
<1> USE DEF Steps, Recursive
<1> DEFINE Upto(m) == \E f \in [0 .. n -> S] :
                         f[0] = s /\ \A i \in 1 .. m : f[i] = step[<<i, f[i - 1]>>]
           Good == {m \in Nat : m <= n => Upto(m)}
<1>1. 0 \in Good
  <2> DEFINE f == [i \in 0 .. n |-> s]
  <2>1. f \in [0 .. n -> S] /\ f[0] = s
    OBVIOUS
  <2> HIDE DEF f
  <2>2. Upto(0)
    BY <2>1
  <2> QED  BY <2>2
<1>2. ASSUME NEW m \in Nat, m \in Good PROVE m + 1 \in Good
  <2>1. SUFFICES ASSUME m + 1 <= n PROVE Upto(m + 1)
    OBVIOUS
  <2>2. PICK f \in [0 .. n -> S] :
          f[0] = s /\ \A i \in 1 .. m : f[i] = step[<<i, f[i - 1]>>]
    BY <1>2, <2>1
  <2> DEFINE v == step[<<m + 1, f[m]>>]
             g == [f EXCEPT ![m + 1] = v]
  <2>3. v \in S
    BY <2>1
  <2>4. g \in [0 .. n -> S] /\ g[0] = s /\ g[m + 1] = v /\ \A i \in 0 .. m : g[i] = f[i]
    BY <2>1, <2>2, <2>3
  <2>5. \A i \in 1 .. m + 1 : g[i] = step[<<i, g[i - 1]>>]
    <3> HIDE DEF g
    <3> SUFFICES ASSUME NEW i \in 1 .. m + 1 PROVE g[i] = step[<<i, g[i - 1]>>]
      OBVIOUS
    <3>1. i - 1 \in 0 .. m /\ g[i - 1] = f[i - 1]
      BY <2>4
    <3>2. CASE i = m + 1
      BY <2>4, <3>1, <3>2
    <3>3. CASE i \in 1 .. m
      BY <2>2, <2>4, <3>1, <3>3
    <3> QED  BY <3>2, <3>3
  <2> QED  BY <2>4, <2>5
<1>3. n \in Good
  <2> HIDE DEF Good
  <2> QED  BY <1>1, <1>2, Induction
<1> QED  BY <1>3

-----------------------------------------------------------------------------
(* The loops over the bits.                                                *)

BIT == 0 .. 1

\* The loop goes from states in S to states in S.
Closed(loop, S) == \A x \in S, c \in BIT : Step(loop, x, c) \in S

\* t holds the states of the loop over b: the first one, and one after each bit.
IsTrace(loop, s, b, t) ==
  t[0] = s /\ \A i \in 1 .. Len(b) : t[i] = Step(loop, t[i - 1], b[i])

\* Every loop has a trace.
LEMMA TraceExists ==
  ASSUME NEW loop, NEW S, Closed(loop, S), NEW s \in S, NEW b \in Seq(BIT)
  PROVE  \E t \in [0 .. Len(b) -> S] : IsTrace(loop, s, b, t)
PROOF
<1> DEFINE n == Len(b)
           step == [p \in (1 .. n) \X S |-> Step(loop, p[2], b[p[1]])]
<1>1. n \in Nat /\ \A i \in 1 .. n : b[i] \in BIT
  OBVIOUS
<1>2. step \in [(1 .. n) \X S -> S]
  BY <1>1 DEF Closed
<1>3. \A i \in 1 .. n, x \in S : step[<<i, x>>] = Step(loop, x, b[i])
  OBVIOUS
<1>4. PICK t \in [0 .. n -> S] : t[0] = s /\ \A i \in 1 .. n : t[i] = step[<<i, t[i - 1]>>]
  <2> HIDE DEF step, n
  <2>1. step \in Steps(n, S)
    BY <1>2 DEF Steps
  <2>2. Recursive(n, S, s, step)
    BY <1>1, <2>1, Recursion
  <2> QED  BY <2>2 DEF Recursive
<1>5. \A i \in 1 .. n : t[i] = Step(loop, t[i - 1], b[i])
  <2> SUFFICES ASSUME NEW i \in 1 .. n PROVE t[i] = Step(loop, t[i - 1], b[i])
    OBVIOUS
  <2>1. t[i - 1] \in S
    BY <1>1
  <2> HIDE DEF step
  <2> QED  BY <1>3, <1>4, <2>1
<1> QED  BY <1>4, <1>5 DEF IsTrace

\* A plain loop ends in the last state of its trace.
LEMMA OverTrace ==
  ASSUME NEW loop, NEW s, NEW b, Len(b) \in Nat,
         NEW t, t = [i \in 0 .. Len(b) |-> t[i]], IsTrace(loop, s, b, t)
  PROVE  Over(loop, s, b) = t[Len(b)]
PROOF
<1> DEFINE n == Len(b)
           after[i \in 0 .. n] == IF i = 0 THEN s ELSE Step(loop, after[i - 1], b[i])
<1>1. t = [i \in 0 .. n |-> IF i = 0 THEN s ELSE Step(loop, t[i - 1], b[i])]
  <2>1. \A i \in 0 .. n : t[i] = IF i = 0 THEN s ELSE Step(loop, t[i - 1], b[i])
    BY DEF IsTrace
  <2> QED  BY <2>1
<1>2. after = [i \in 0 .. n |-> IF i = 0 THEN s ELSE Step(loop, after[i - 1], b[i])]
  BY <1>1
<1> DEFINE Good == {i \in Nat : i <= n => after[i] = t[i]}
<1>3. 0 \in Good
  <2>1. after[0] = s
    BY <1>2, 0 \in 0 .. n
  <2> HIDE DEF after
  <2> QED  BY <2>1 DEF IsTrace
<1>4. ASSUME NEW i \in Nat, i \in Good PROVE i + 1 \in Good
  <2> HIDE DEF after
  <2>1. SUFFICES ASSUME i + 1 <= n PROVE after[i + 1] = t[i + 1]
    OBVIOUS
  <2>2. i + 1 \in 1 .. n /\ i + 1 \in 0 .. n /\ i + 1 # 0 /\ (i + 1) - 1 = i
    BY <2>1
  <2>3. after[i + 1] = Step(loop, after[i], b[i + 1])
    BY <1>2, <2>2
  <2>4. t[i + 1] = Step(loop, t[i], b[i + 1])
    BY <2>2 DEF IsTrace
  <2>5. after[i] = t[i]
    BY <1>4, <2>1
  <2> QED  BY <2>3, <2>4, <2>5
<1>5. n \in Good
  <2> HIDE DEF Good
  <2> QED  BY <1>3, <1>4, Induction
<1>6. after[n] = t[n]
  <2> HIDE DEF after
  <2> QED  BY <1>5
<1> QED  BY <1>6 DEF Over

\* A part of the loop goes along the trace.
LEMMA PartTrace ==
  ASSUME NEW loop, NEW s, NEW S, NEW b \in Seq(BIT), NEW t \in [0 .. Len(b) -> S],
         IsTrace(loop, s, b, t), NEW m \in 0 .. Len(b), NEW e \in m .. Len(b)
  PROVE  Over(loop, t[m], SubSeq(b, m + 1, e)) = t[e]
PROOF
<1> DEFINE part == SubSeq(b, m + 1, e)
           u == [i \in 0 .. (e - m) |-> t[m + i]]
<1>1. Len(b) \in Nat /\ m \in Nat /\ e \in Nat /\ m <= e /\ e <= Len(b)
  OBVIOUS
<1>2. Len(part) = e - m /\ \A i \in 1 .. (e - m) : part[i] = b[m + i]
  BY <1>1
<1>3. u[0] = t[m] /\ u[e - m] = t[e]
  BY <1>1
<1>4. ASSUME NEW i \in 1 .. (e - m) PROVE u[i] = Step(loop, u[i - 1], part[i])
  <2>1. m + i \in 1 .. Len(b) /\ (m + i) - 1 = m + (i - 1)
          /\ i \in 0 .. (e - m) /\ i - 1 \in 0 .. (e - m)
    BY <1>1
  <2>2. u[i] = t[m + i] /\ u[i - 1] = t[m + (i - 1)]
    BY <2>1
  <2>3. t[m + i] = Step(loop, t[(m + i) - 1], b[m + i])
    BY <2>1 DEF IsTrace
  <2> HIDE DEF u, part
  <2> QED  BY <1>2, <2>1, <2>2, <2>3
<1>5. IsTrace(loop, t[m], part, u) /\ u = [i \in 0 .. Len(part) |-> u[i]]
  <2> HIDE DEF part
  <2> QED  BY <1>2, <1>3, <1>4 DEF IsTrace
<1>6. Over(loop, t[m], part) = u[Len(part)]
  <2> HIDE DEF u, part
  <2>1. Len(part) \in Nat
    BY <1>1, <1>2
  <2> QED  BY <1>5, <2>1, OverTrace
<1> QED  BY <1>2, <1>3, <1>6

\* The loop in parts ends in the last state of its trace, as the plain loop does.
LEMMA LoopTrace ==
  ASSUME NEW loop, NEW s, NEW S, NEW b \in Seq(BIT), NEW t \in [0 .. Len(b) -> S],
         IsTrace(loop, s, b, t)
  PROVE  Loop(loop, s, b) = t[Len(b)]
PROOF
<1> DEFINE parts == Len(b) \div 16 + 1
           end(k) == IF 16 * k < Len(b) THEN 16 * k ELSE Len(b)
           PartFrom(mid, k) == Over(loop, mid, SubSeq(b, end(k - 1) + 1, end(k)))
           Outcome(mid0, k) == CHOOSE out \in {PartFrom(mid, k) : mid \in {mid0}} : TRUE
           after[k \in 0 .. parts] == IF k = 0 THEN s ELSE Outcome(after[k - 1], k)
           w == [k \in 0 .. parts |-> t[end(k)]]
<1>1. parts \in Nat /\ Len(b) \in Nat /\ end(parts) = Len(b) /\ end(0) = 0
  OBVIOUS
<1>2. \A k \in 1 .. parts : end(k - 1) \in 0 .. Len(b) /\ end(k) \in end(k - 1) .. Len(b)
  BY <1>1
<1>3. \A mid0, k : Outcome(mid0, k) = PartFrom(mid0, k)
  OBVIOUS
<1>4. \A k \in 1 .. parts : PartFrom(t[end(k - 1)], k) = t[end(k)]
  <2> SUFFICES ASSUME NEW k \in 1 .. parts PROVE PartFrom(t[end(k - 1)], k) = t[end(k)]
    OBVIOUS
  <2>1. \A m \in 0 .. Len(b) : \A e \in m .. Len(b) :
          Over(loop, t[m], SubSeq(b, m + 1, e)) = t[e]
    BY PartTrace
  <2> HIDE DEF end
  <2> QED  BY <1>2, <2>1
<1>5. w = [k \in 0 .. parts |-> IF k = 0 THEN s ELSE Outcome(w[k - 1], k)]
  <2>1. ASSUME NEW k \in 0 .. parts PROVE w[k] = IF k = 0 THEN s ELSE Outcome(w[k - 1], k)
    <3>1. CASE k = 0
      <4>1. w[0] = t[0]
        BY <1>1
      <4> QED  BY <3>1, <4>1 DEF IsTrace
    <3>2. CASE k \in 1 .. parts
      <4>1. w[k] = t[end(k)] /\ w[k - 1] = t[end(k - 1)] /\ k # 0
        BY <3>2
      <4> HIDE DEF w, Outcome, PartFrom, end
      <4> QED  BY <1>3, <1>4, <3>2, <4>1
    <3> QED  BY <1>1, <3>1, <3>2
  <2> HIDE DEF Outcome, end
  <2> QED  BY <2>1
<1>6. after = [k \in 0 .. parts |-> IF k = 0 THEN s ELSE Outcome(after[k - 1], k)]
  <2> HIDE DEF Outcome, w
  <2> QED  BY <1>5
<1> DEFINE Good == {k \in Nat : k <= parts => after[k] = w[k]}
<1>7. 0 \in Good
  <2> HIDE DEF after, w, Outcome
  <2> QED  BY <1>1, <1>5, <1>6
<1>8. ASSUME NEW k \in Nat, k \in Good PROVE k + 1 \in Good
  <2> HIDE DEF after, w, Outcome
  <2>1. SUFFICES ASSUME k + 1 <= parts PROVE after[k + 1] = w[k + 1]
    OBVIOUS
  <2>2. k + 1 \in 0 .. parts /\ k + 1 # 0 /\ (k + 1) - 1 = k
    BY <1>1, <2>1
  <2>3. after[k + 1] = Outcome(after[k], k + 1) /\ w[k + 1] = Outcome(w[k], k + 1)
    BY <1>5, <1>6, <2>2
  <2>4. after[k] = w[k]
    BY <1>8, <2>1, <1>1
  <2> QED  BY <2>3, <2>4
<1>9. after[parts] = t[Len(b)]
  <2>1. parts \in Good
    <3> HIDE DEF Good, parts
    <3> QED  BY <1>1, <1>7, <1>8, Induction
  <2>2. w[parts] = t[Len(b)]
    BY <1>1
  <2> HIDE DEF after, w
  <2> QED  BY <1>1, <2>1, <2>2
<1> QED  BY <1>9 DEF Loop

\* The trace of a loop ends in what the loop computes.
LEMMA LoopHasTrace ==
  ASSUME NEW loop, NEW S, Closed(loop, S), NEW s \in S, NEW b \in Seq(BIT)
  PROVE  \E t \in [0 .. Len(b) -> S] : IsTrace(loop, s, b, t) /\ Loop(loop, s, b) = t[Len(b)]
PROOF
<1>1. PICK t \in [0 .. Len(b) -> S] : IsTrace(loop, s, b, t)
  BY TraceExists
<1>2. Loop(loop, s, b) = t[Len(b)]
  BY <1>1, LoopTrace
<1> QED  BY <1>1, <1>2

-----------------------------------------------------------------------------
(* Numbers and bits.                                                       *)

\* h holds n and what is left of it after each shift.
IsHalving(n, width, h) == h[0] = n /\ \A k \in 1 .. width : h[k] = h[k - 1] \div 2

\* v holds the values of the first bits of b: of none, of one, of two, ...
IsValue(b, v) == v[0] = 0 /\ \A i \in 1 .. Len(b) : v[i] = 2 * v[i - 1] + b[i]

\* The bits of n are the lowest bits of what is left after each shift.
HalvesToBits(n, width) ==
  \E h \in [0 .. width -> Nat] :
    IsHalving(n, width, h) /\ Bits(n, width) = [i \in 1 .. width |-> h[width - i] % 2]

\* Bits takes the lowest bit of each shift.
LEMMA BitsOfHalving ==
  ASSUME NEW n \in Nat, NEW width \in Nat
  PROVE  HalvesToBits(n, width)
PROOF
<1> DEFINE step == [p \in (1 .. width) \X Nat |-> p[2] \div 2]
           shifted[k \in 0 .. width] == IF k = 0 THEN n ELSE shifted[k - 1] \div 2
<1>1. step \in Steps(width, Nat) /\ \A k \in 1 .. width, x \in Nat : step[<<k, x>>] = x \div 2
  BY DEF Steps
<1>2. Recursive(width, Nat, n, step)
  <2> HIDE DEF step
  <2> QED  BY <1>1, Recursion
<1>3. PICK h \in [0 .. width -> Nat] :
        h[0] = n /\ \A k \in 1 .. width : h[k] = step[<<k, h[k - 1]>>]
  BY <1>2 DEF Recursive
<1>4. \A k \in 1 .. width : h[k] = h[k - 1] \div 2
  <2> SUFFICES ASSUME NEW k \in 1 .. width PROVE h[k] = h[k - 1] \div 2
    OBVIOUS
  <2>1. h[k - 1] \in Nat
    OBVIOUS
  <2> HIDE DEF step
  <2> QED  BY <1>1, <1>3, <2>1
<1>5. h = [k \in 0 .. width |-> IF k = 0 THEN n ELSE h[k - 1] \div 2]
  <2>1. \A k \in 0 .. width : h[k] = IF k = 0 THEN n ELSE h[k - 1] \div 2
    <3> HIDE DEF step
    <3> QED  BY <1>3, <1>4
  <2> QED  BY <2>1
<1>6. shifted = [k \in 0 .. width |-> IF k = 0 THEN n ELSE shifted[k - 1] \div 2]
  <2> HIDE DEF step
  <2> QED  BY <1>5
<1> DEFINE Good == {k \in Nat : k <= width => shifted[k] = h[k]}
<1>7. 0 \in Good
  <2> HIDE DEF shifted
  <2> QED  BY <1>5, <1>6
<1>8. ASSUME NEW k \in Nat, k \in Good PROVE k + 1 \in Good
  <2> HIDE DEF shifted, step
  <2>1. SUFFICES ASSUME k + 1 <= width PROVE shifted[k + 1] = h[k + 1]
    OBVIOUS
  <2>2. k + 1 \in 0 .. width /\ k + 1 \in 1 .. width /\ k + 1 # 0 /\ (k + 1) - 1 = k
    BY <2>1
  <2>3. shifted[k + 1] = shifted[k] \div 2 /\ h[k + 1] = h[k] \div 2
    BY <1>4, <1>6, <2>2
  <2> QED  BY <1>8, <2>1, <2>3
<1>9. \A k \in 0 .. width : shifted[k] = h[k]
  <2>1. Nat \subseteq Good
    <3> HIDE DEF Good
    <3> QED  BY <1>7, <1>8, Induction
  <2> HIDE DEF shifted
  <2> QED  BY <2>1
<1>10. Bits(n, width) = [i \in 1 .. width |-> h[width - i] % 2]
  <2>1. Bits(n, width) = [i \in 1 .. width |-> shifted[width - i] % 2]
    BY DEF Bits
  <2>2. \A i \in 1 .. width : shifted[width - i] = h[width - i]
    <3> HIDE DEF shifted
    <3> QED  BY <1>9
  <2> HIDE DEF shifted
  <2> QED  BY <2>1, <2>2
<1> QED  BY <1>3, <1>4, <1>10 DEF IsHalving, HalvesToBits

\* Bits gives as many bits as it is asked for.
LEMMA BitsType ==
  ASSUME NEW n \in Nat, NEW width \in Nat
  PROVE  Bits(n, width) \in Seq(BIT) /\ Len(Bits(n, width)) = width
PROOF
<1>1. PICK h \in [0 .. width -> Nat] : Bits(n, width) = [i \in 1 .. width |-> h[width - i] % 2]
  BY BitsOfHalving DEF HalvesToBits
<1>2. \A i \in 1 .. width : h[width - i] % 2 \in BIT
  BY DEF BIT
<1>3. [i \in 1 .. width |-> h[width - i] % 2] \in [1 .. width -> BIT]
  BY <1>2
<1> QED  BY <1>1, <1>3

\* Number adds one bit after the other.
LEMMA NumberOfValue ==
  ASSUME NEW b \in Seq(BIT)
  PROVE  \E v \in [0 .. Len(b) -> Nat] : IsValue(b, v) /\ Number(b) = v[Len(b)]
PROOF
<1> DEFINE len == Len(b)
           step == [p \in (1 .. len) \X Nat |-> 2 * p[2] + b[p[1]]]
           n[i \in 0 .. len] == IF i = 0 THEN 0 ELSE 2 * n[i - 1] + b[i]
<1>1. len \in Nat /\ \A i \in 1 .. len : b[i] \in Nat
  BY DEF BIT
<1>2. step \in Steps(len, Nat)
        /\ \A i \in 1 .. len, x \in Nat : step[<<i, x>>] = 2 * x + b[i]
  BY <1>1 DEF Steps
<1>3. Recursive(len, Nat, 0, step)
  <2> HIDE DEF step, len
  <2> QED  BY <1>1, <1>2, Recursion
<1>4. PICK v \in [0 .. len -> Nat] :
        v[0] = 0 /\ \A i \in 1 .. len : v[i] = step[<<i, v[i - 1]>>]
  BY <1>3 DEF Recursive
<1>5. \A i \in 1 .. len : v[i] = 2 * v[i - 1] + b[i]
  <2> SUFFICES ASSUME NEW i \in 1 .. len PROVE v[i] = 2 * v[i - 1] + b[i]
    OBVIOUS
  <2>1. v[i - 1] \in Nat
    BY <1>1
  <2> HIDE DEF step
  <2> QED  BY <1>1, <1>2, <1>4, <2>1
<1>6. v = [i \in 0 .. len |-> IF i = 0 THEN 0 ELSE 2 * v[i - 1] + b[i]]
  <2>1. \A i \in 0 .. len : v[i] = IF i = 0 THEN 0 ELSE 2 * v[i - 1] + b[i]
    <3> HIDE DEF step
    <3> QED  BY <1>1, <1>4, <1>5
  <2> QED  BY <2>1
<1>7. n = [i \in 0 .. len |-> IF i = 0 THEN 0 ELSE 2 * n[i - 1] + b[i]]
  <2> HIDE DEF step
  <2> QED  BY <1>6
<1> DEFINE Good == {i \in Nat : i <= len => n[i] = v[i]}
<1>8. 0 \in Good
  <2> HIDE DEF n
  <2> QED  BY <1>1, <1>6, <1>7
<1>9. ASSUME NEW i \in Nat, i \in Good PROVE i + 1 \in Good
  <2> HIDE DEF n, step
  <2>1. SUFFICES ASSUME i + 1 <= len PROVE n[i + 1] = v[i + 1]
    OBVIOUS
  <2>2. i + 1 \in 0 .. len /\ i + 1 \in 1 .. len /\ i + 1 # 0 /\ (i + 1) - 1 = i
    BY <1>1, <2>1
  <2>3. n[i + 1] = 2 * n[i] + b[i + 1] /\ v[i + 1] = 2 * v[i] + b[i + 1]
    BY <1>5, <1>7, <2>2
  <2> QED  BY <1>1, <1>9, <2>1, <2>3
<1>10. n[len] = v[len]
  <2>1. len \in Good
    <3> HIDE DEF Good, len
    <3> QED  BY <1>1, <1>8, <1>9, Induction
  <2> HIDE DEF n
  <2> QED  BY <2>1
<1> QED  BY <1>4, <1>5, <1>10 DEF IsValue, Number

\* What a shift to the right leaves and what it drops.
LEMMA Half ==
  ASSUME NEW x \in Nat
  PROVE  /\ 2 * (x \div 2) + (x % 2) = x
         /\ \A max \in Nat : x < 2 * max => x \div 2 < max
OBVIOUS

\* The numbers that 4, 8 and 11 bits hold: the length code, a byte, the identifier.
Fits(n, width) ==
  n \in Nat /\ \/ width = 4 /\ n < 16
               \/ width = 8 /\ n < 256
               \/ width = 11 /\ n < 2048

\* After as many shifts as the number has bits nothing is left.
LEMMA HalvingEnds ==
  ASSUME NEW n, NEW width, Fits(n, width), NEW h \in [0 .. width -> Nat], IsHalving(n, width, h)
  PROVE  h[width] = 0
PROOF
<1>1. width \in Nat /\ \A k \in 1 .. width : \A max \in Nat : h[k - 1] < 2 * max => h[k] < max
  <2>1. width \in Nat
    BY DEF Fits
  <2>2. SUFFICES ASSUME NEW k \in 1 .. width, NEW max \in Nat, h[k - 1] < 2 * max PROVE h[k] < max
    BY <2>1
  <2>3. h[k] = h[k - 1] \div 2 /\ h[k - 1] \in Nat
    BY <2>1 DEF IsHalving
  <2> QED  BY <2>2, <2>3, Half
<1>2. CASE width = 4 /\ n < 16
  <2>1. h[0] \in Nat /\ h[0] < 16
    BY <1>1, <1>2 DEF IsHalving
  <2>2. h[1] < 8
    BY <1>1, <1>2, <2>1, 1 \in 1 .. 4, 2 * 8 = 16
  <2>3. h[2] < 4
    BY <1>1, <1>2, <2>2, 2 \in 1 .. 4, 2 * 4 = 8
  <2>4. h[3] < 2
    BY <1>1, <1>2, <2>3, 3 \in 1 .. 4, 2 * 2 = 4
  <2> QED  BY <1>1, <1>2, <2>4, 4 \in 1 .. 4
<1>3. CASE width = 8 /\ n < 256
  <2>1. h[0] \in Nat /\ h[0] < 256
    BY <1>1, <1>3 DEF IsHalving
  <2>2. h[1] < 128
    BY <1>1, <1>3, <2>1, 1 \in 1 .. 8, 2 * 128 = 256
  <2>3. h[2] < 64
    BY <1>1, <1>3, <2>2, 2 \in 1 .. 8, 2 * 64 = 128
  <2>4. h[3] < 32
    BY <1>1, <1>3, <2>3, 3 \in 1 .. 8, 2 * 32 = 64
  <2>5. h[4] < 16
    BY <1>1, <1>3, <2>4, 4 \in 1 .. 8, 2 * 16 = 32
  <2>6. h[5] < 8
    BY <1>1, <1>3, <2>5, 5 \in 1 .. 8, 2 * 8 = 16
  <2>7. h[6] < 4
    BY <1>1, <1>3, <2>6, 6 \in 1 .. 8, 2 * 4 = 8
  <2>8. h[7] < 2
    BY <1>1, <1>3, <2>7, 7 \in 1 .. 8, 2 * 2 = 4
  <2> QED  BY <1>1, <1>3, <2>8, 8 \in 1 .. 8
<1>4. CASE width = 11 /\ n < 2048
  <2>1. h[0] \in Nat /\ h[0] < 2048
    BY <1>1, <1>4 DEF IsHalving
  <2>2. h[1] < 1024
    BY <1>1, <1>4, <2>1, 1 \in 1 .. 11, 2 * 1024 = 2048
  <2>3. h[2] < 512
    BY <1>1, <1>4, <2>2, 2 \in 1 .. 11, 2 * 512 = 1024
  <2>4. h[3] < 256
    BY <1>1, <1>4, <2>3, 3 \in 1 .. 11, 2 * 256 = 512
  <2>5. h[4] < 128
    BY <1>1, <1>4, <2>4, 4 \in 1 .. 11, 2 * 128 = 256
  <2>6. h[5] < 64
    BY <1>1, <1>4, <2>5, 5 \in 1 .. 11, 2 * 64 = 128
  <2>7. h[6] < 32
    BY <1>1, <1>4, <2>6, 6 \in 1 .. 11, 2 * 32 = 64
  <2>8. h[7] < 16
    BY <1>1, <1>4, <2>7, 7 \in 1 .. 11, 2 * 16 = 32
  <2>9. h[8] < 8
    BY <1>1, <1>4, <2>8, 8 \in 1 .. 11, 2 * 8 = 16
  <2>10. h[9] < 4
    BY <1>1, <1>4, <2>9, 9 \in 1 .. 11, 2 * 4 = 8
  <2>11. h[10] < 2
    BY <1>1, <1>4, <2>10, 10 \in 1 .. 11, 2 * 2 = 4
  <2> QED  BY <1>1, <1>4, <2>11, 11 \in 1 .. 11
<1> QED  BY <1>2, <1>3, <1>4 DEF Fits

\* The parser reads the number that the composer wrote.
LEMMA NumberOfBits ==
  ASSUME NEW n, NEW width, Fits(n, width)
  PROVE  Number(Bits(n, width)) = n
PROOF
<1> DEFINE b == Bits(n, width)
<1>1. n \in Nat /\ width \in Nat
  BY DEF Fits
<1>2. PICK h \in [0 .. width -> Nat] :
        IsHalving(n, width, h) /\ b = [i \in 1 .. width |-> h[width - i] % 2]
  BY <1>1, BitsOfHalving DEF HalvesToBits
<1>3. b \in Seq(BIT) /\ Len(b) = width
  BY <1>1, BitsType
<1>4. PICK v \in [0 .. width -> Nat] : IsValue(b, v) /\ Number(b) = v[width]
  <2> HIDE DEF b
  <2> QED  BY <1>3, NumberOfValue
<1>5. h[width] = 0
  BY <1>2, HalvingEnds
<1>6. \A i \in 1 .. width : b[i] = h[width - i] % 2
  <2> HIDE DEF b
  <2> QED  BY <1>2
<1> HIDE DEF b
<1> DEFINE Good == {i \in Nat : i <= width => v[i] = h[width - i]}
<1>7. 0 \in Good
  BY <1>1, <1>4, <1>5 DEF IsValue
<1>8. ASSUME NEW i \in Nat, i \in Good PROVE i + 1 \in Good
  <2>1. SUFFICES ASSUME i + 1 <= width PROVE v[i + 1] = h[width - (i + 1)]
    OBVIOUS
  <2> DEFINE k == width - i
  <2>2. i + 1 \in 1 .. width /\ k \in 1 .. width /\ k - 1 \in 0 .. width
          /\ width - (i + 1) = k - 1 /\ (i + 1) - 1 = i /\ v[i] = h[k]
    BY <1>1, <1>8, <2>1
  <2>3. v[i + 1] = 2 * v[i] + b[i + 1]
    BY <1>3, <1>4, <2>2 DEF IsValue
  <2>4. b[i + 1] = h[k - 1] % 2
    BY <1>6, <2>2
  <2>5. h[k] = h[k - 1] \div 2 /\ h[k - 1] \in Nat
    BY <1>2, <2>2 DEF IsHalving
  <2>6. 2 * (h[k - 1] \div 2) + (h[k - 1] % 2) = h[k - 1]
    BY <2>5, Half
  <2> QED  BY <2>2, <2>3, <2>4, <2>5, <2>6
<1>9. v[width] = h[0]
  <2>1. width \in Good
    <3> HIDE DEF Good
    <3> QED  BY <1>1, <1>7, <1>8, Induction
  <2> QED  BY <1>1, <2>1
<1> QED  BY <1>2, <1>4, <1>9 DEF IsHalving, b

\* A function over the first n places is a sequence.
LEMMA SeqOfFunction ==
  ASSUME NEW n \in Nat, NEW S, NEW f \in [1 .. n -> S]
  PROVE  f \in Seq(S) /\ Len(f) = n
OBVIOUS

\* Two sequences of bits of one length and with the same bits are one.
LEMMA SameSequence ==
  ASSUME NEW s \in Seq(BIT), NEW t \in Seq(BIT), NEW n \in Nat, Len(s) = n, Len(t) = n,
         \A i \in 1 .. n : s[i] = t[i]
  PROVE  s = t
BY SeqEqual

-----------------------------------------------------------------------------
(* The layout of a frame.                                                  *)

Frames == [id : 0 .. 2047, data : {d \in Seq(BYTE) : Len(d) <= 8}]

\* As generateTxCanFrame composes them: the bits that the checksum is about, and the
\* frame before it is stuffed.
BodyBits(f) ==
  (<<0>> \o Bits(f.id, 11) \o <<0, 0, 0>> \o Bits(Len(f.data), 4)) \o BytesToBits(f.data)

FrameBits(f) == BodyBits(f) \o Crc(BodyBits(f)) \o <<1>>

BodyLength(f) == 19 + 8 * Len(f.data)

\* A byte is a number of eight bits.
LEMMA Bytes == \A x \in BYTE : x \in Nat /\ x < 256
BY DEF BYTE

\* The byte and the bit in it that a place of the data field belongs to.
LEMMA Octets ==
  ASSUME NEW q \in Nat, NEW r \in 0 .. 7
  PROVE  (8 * q + r) \div 8 = q /\ (8 * q + r) % 8 = r
OBVIOUS

\* The checksum has 15 bits.
LEMMA CrcType ==
  ASSUME NEW b
  PROVE  Crc(b) \in Seq(BIT) /\ Len(Crc(b)) = 15
PROOF
<1> DEFINE reg == Loop("crc", {}, b)
<1>1. \A i \in 1 .. 15 : (IF 15 - i \in reg THEN 1 ELSE 0) \in BIT
  BY DEF BIT
<1> HIDE DEF reg
<1>2. [i \in 1 .. 15 |-> IF 15 - i \in reg THEN 1 ELSE 0] \in [1 .. 15 -> BIT]
  BY <1>1
<1>3. Crc(b) \in [1 .. 15 -> BIT]
  BY <1>2 DEF Crc, reg
<1> QED  BY <1>3, SeqOfFunction

\* The data field, a byte after the other.
LEMMA BytesToBitsType ==
  ASSUME NEW d \in Seq(BYTE)
  PROVE  /\ BytesToBits(d) \in Seq(BIT) /\ Len(BytesToBits(d)) = 8 * Len(d)
         /\ \A k \in 1 .. Len(d) : SubSeq(BytesToBits(d), 8 * k - 7, 8 * k) = Bits(d[k], 8)
PROOF
<1> DEFINE bits == BytesToBits(d)
           byte(i) == ((i - 1) \div 8) + 1
           place(i) == ((i - 1) % 8) + 1
<1>1. Len(d) \in Nat /\ bits = [i \in 1 .. 8 * Len(d) |-> Bits(d[byte(i)], 8)[place(i)]]
  BY DEF BytesToBits
<1>2. \A k \in 1 .. Len(d) : /\ Bits(d[k], 8) \in Seq(BIT) /\ Len(Bits(d[k], 8)) = 8
                             /\ \A j \in 1 .. 8 : Bits(d[k], 8)[j] \in BIT
  <2> SUFFICES ASSUME NEW k \in 1 .. Len(d)
               PROVE  /\ Bits(d[k], 8) \in Seq(BIT) /\ Len(Bits(d[k], 8)) = 8
                      /\ \A j \in 1 .. 8 : Bits(d[k], 8)[j] \in BIT
    OBVIOUS
  <2>1. d[k] \in BYTE
    BY ElementOfSeq
  <2>2. d[k] \in Nat
    BY <2>1, Bytes
  <2>3. Bits(d[k], 8) \in Seq(BIT) /\ Len(Bits(d[k], 8)) = 8
    BY <2>2, BitsType
  <2> QED  BY <2>3
<1>3. \A i \in 1 .. 8 * Len(d) : byte(i) \in 1 .. Len(d) /\ place(i) \in 1 .. 8
  BY <1>1
<1>4. \A i \in 1 .. 8 * Len(d) : Bits(d[byte(i)], 8)[place(i)] \in BIT
  <2> HIDE DEF byte, place
  <2> QED  BY <1>2, <1>3
<1>5. bits \in [1 .. 8 * Len(d) -> BIT]
  <2> HIDE DEF byte, place, bits
  <2> QED  BY <1>1, <1>4
<1>6. bits \in Seq(BIT) /\ Len(bits) = 8 * Len(d)
  <2> HIDE DEF bits
  <2>1. 8 * Len(d) \in Nat
    BY <1>1
  <2> QED  BY <1>5, <2>1, SeqOfFunction
<1>7. ASSUME NEW k \in 1 .. Len(d) PROVE SubSeq(bits, 8 * k - 7, 8 * k) = Bits(d[k], 8)
  <2> DEFINE part == SubSeq(bits, 8 * k - 7, 8 * k)
  <2>1. k - 1 \in Nat /\ k \in Nat /\ 8 * k - 7 \in 1 .. Len(bits) /\ 8 * k \in 1 .. Len(bits)
    BY <1>1, <1>6
  <2>2. Len(part) = 8 /\ part \in Seq(BIT) /\ \A j \in 1 .. 8 : part[j] = bits[8 * (k - 1) + j]
    <3> HIDE DEF bits
    <3> QED  BY <1>6, <2>1
  <2>3. ASSUME NEW j \in 1 .. 8 PROVE bits[8 * (k - 1) + j] = Bits(d[k], 8)[j]
    <3>1. 8 * (k - 1) + j \in 1 .. 8 * Len(d)
      BY <1>1, <2>1
    <3>2. j - 1 \in 0 .. 7 /\ (8 * (k - 1) + j) - 1 = 8 * (k - 1) + (j - 1)
      BY <2>1
    <3>3. (8 * (k - 1) + (j - 1)) \div 8 = k - 1 /\ (8 * (k - 1) + (j - 1)) % 8 = j - 1
      BY <2>1, <3>2, Octets
    <3>4. byte(8 * (k - 1) + j) = k /\ place(8 * (k - 1) + j) = j
      BY <2>1, <3>2, <3>3
    <3> HIDE DEF byte, place, bits
    <3> QED  BY <1>1, <3>1, <3>4
  <2> HIDE DEF part, bits
  <2>4. \A j \in 1 .. 8 : part[j] = Bits(d[k], 8)[j]
    BY <2>2, <2>3
  <2>5. part = Bits(d[k], 8)
    BY <1>2, <2>2, <2>4, SameSequence
  <2> QED  BY <2>5 DEF part
<1> QED  BY <1>6, <1>7

\* The parser reads the bytes that the composer wrote.
LEMMA BytesOfBits ==
  ASSUME NEW d \in Seq(BYTE)
  PROVE  BitsToBytes(BytesToBits(d)) = d
PROOF
<1>1. /\ Len(d) \in Nat /\ Len(BytesToBits(d)) = 8 * Len(d)
      /\ \A k \in 1 .. Len(d) : SubSeq(BytesToBits(d), 8 * k - 7, 8 * k) = Bits(d[k], 8)
  BY BytesToBitsType
<1>2. \A k \in 1 .. Len(d) : Number(Bits(d[k], 8)) = d[k]
  <2> SUFFICES ASSUME NEW k \in 1 .. Len(d) PROVE Number(Bits(d[k], 8)) = d[k]
    OBVIOUS
  <2>1. d[k] \in BYTE
    BY ElementOfSeq
  <2>2. Fits(d[k], 8)
    BY <2>1, Bytes DEF Fits
  <2> QED  BY <2>2, NumberOfBits
<1>3. (8 * Len(d)) \div 8 = Len(d)
  BY <1>1
<1>4. BitsToBytes(BytesToBits(d)) = [k \in 1 .. Len(d) |-> d[k]]
  BY <1>1, <1>2, <1>3 DEF BitsToBytes
<1> QED  BY <1>4

\* What s \o t holds, and where.
Joined(x, s, t) ==
  /\ x \in Seq(BIT) /\ Len(x) = Len(s) + Len(t)
  /\ \A i \in 1 .. Len(s) : x[i] = s[i]
  /\ \A i \in 1 .. Len(t) : x[Len(s) + i] = t[i]

\* The parts of a concatenation.
LEMMA Join ==
  ASSUME NEW s \in Seq(BIT), NEW t \in Seq(BIT)
  PROVE  Joined(s \o t, s, t)
PROOF
<1>1. /\ s \o t \in Seq(BIT) /\ Len(s \o t) = Len(s) + Len(t)
      /\ \A i \in 1 .. Len(s) + Len(t) : (s \o t)[i] = IF i <= Len(s) THEN s[i] ELSE t[i - Len(s)]
  BY ConcatProperties
<1>2. Len(s) \in Nat /\ Len(t) \in Nat
  OBVIOUS
<1> DEFINE x == s \o t
<1> HIDE DEF x
<1>3. \A i \in 1 .. Len(s) : x[i] = s[i]
  BY <1>1, <1>2 DEF x
<1>4. \A i \in 1 .. Len(t) : x[Len(s) + i] = t[i]
  <2> SUFFICES ASSUME NEW i \in 1 .. Len(t) PROVE x[Len(s) + i] = t[i]
    OBVIOUS
  <2>1. Len(s) + i \in 1 .. Len(s) + Len(t) /\ ~(Len(s) + i <= Len(s)) /\ (Len(s) + i) - Len(s) = i
    BY <1>2
  <2> QED  BY <1>1, <2>1 DEF x
<1>5. x \in Seq(BIT) /\ Len(x) = Len(s) + Len(t)
  BY <1>1 DEF x
<1> QED  BY <1>3, <1>4, <1>5 DEF Joined, x

\* A frame of these fields.
IsFrame(frame, body, id, dlc, data, crc) ==
  \E p1, p2, p3, p5 :
    /\ Joined(p1, <<0>>, id) /\ Joined(p2, p1, <<0, 0, 0>>) /\ Joined(p3, p2, dlc)
    /\ Joined(body, p3, data) /\ Joined(p5, body, crc) /\ Joined(frame, p5, <<1>>)

FieldsInPlace(frame, body, id, dlc, data, crc) ==
  /\ frame \in Seq(BIT) /\ Len(frame) = Len(data) + 35
  /\ body \in Seq(BIT) /\ Len(body) = 19 + Len(data)
  /\ \A i \in 1 .. 19 + Len(data) : frame[i] = body[i]
  /\ frame[1] = 0 /\ frame[13] = 0 /\ frame[14] = 0 /\ frame[15] = 0
  /\ \A i \in 1 .. 11 : frame[1 + i] = id[i]
  /\ \A i \in 1 .. 4 : frame[15 + i] = dlc[i]
  /\ \A i \in 1 .. Len(data) : frame[19 + i] = data[i]
  /\ \A i \in 1 .. 15 : frame[19 + Len(data) + i] = crc[i]

\* The places of the fields, whatever they hold.
LEMMA FieldPlaces ==
  ASSUME NEW id, Len(id) = 11, NEW dlc, Len(dlc) = 4, NEW crc, Len(crc) = 15,
         NEW data, NEW size \in Nat, Len(data) = size,
         NEW body, NEW frame, IsFrame(frame, body, id, dlc, data, crc)
  PROVE  FieldsInPlace(frame, body, id, dlc, data, crc)
PROOF
<1>1. PICK p1, p2, p3, p5 :
        /\ Joined(p1, <<0>>, id) /\ Joined(p2, p1, <<0, 0, 0>>) /\ Joined(p3, p2, dlc)
        /\ Joined(body, p3, data) /\ Joined(p5, body, crc) /\ Joined(frame, p5, <<1>>)
  BY DEF IsFrame
<1>2. Len(p1) = 12 /\ p1[1] = 0 /\ \A i \in 1 .. 11 : p1[1 + i] = id[i]
  <2>1. Len(<<0>>) = 1 /\ <<0>>[1] = 0
    OBVIOUS
  <2> QED  BY <1>1, <2>1 DEF Joined
<1>3. /\ Len(p2) = 15 /\ p2[13] = 0 /\ p2[14] = 0 /\ p2[15] = 0
      /\ \A i \in 1 .. 12 : p2[i] = p1[i]
  <2> DEFINE zeros == <<0, 0, 0>>
  <2>1. Len(zeros) = 3 /\ zeros[1] = 0 /\ zeros[2] = 0 /\ zeros[3] = 0
    OBVIOUS
  <2> HIDE DEF zeros
  <2>2. Joined(p2, p1, zeros)
    BY <1>1 DEF zeros
  <2> QED  BY <1>2, <2>1, <2>2 DEF Joined
<1>4. /\ Len(p3) = 19 /\ \A i \in 1 .. 15 : p3[i] = p2[i]
      /\ \A i \in 1 .. 4 : p3[15 + i] = dlc[i]
  BY <1>1, <1>3, SMTT(30) DEF Joined
<1>5. /\ Len(body) = 19 + size /\ \A i \in 1 .. 19 : body[i] = p3[i]
      /\ \A i \in 1 .. size : body[19 + i] = data[i]
  BY <1>1, <1>4 DEF Joined
<1>6. /\ Len(p5) = 34 + size /\ \A i \in 1 .. 19 + size : p5[i] = body[i]
      /\ \A i \in 1 .. 15 : p5[19 + size + i] = crc[i]
  <2>1. Len(p5) = Len(body) + 15
    BY <1>1 DEF Joined
  <2> QED  BY <1>1, <1>5, <2>1 DEF Joined
<1>7. frame \in Seq(BIT) /\ Len(frame) = size + 35 /\ \A i \in 1 .. 34 + size : frame[i] = p5[i]
  <2>1. Len(<<1>>) = 1
    OBVIOUS
  <2> QED  BY <1>1, <1>6, <2>1 DEF Joined
<1>8. \A i \in 1 .. 19 : frame[i] = p3[i]
  <2> SUFFICES ASSUME NEW i \in 1 .. 19 PROVE frame[i] = p3[i]
    OBVIOUS
  <2>1. i \in 1 .. 34 + size /\ i \in 1 .. 19 + size
    OBVIOUS
  <2> QED  BY <1>5, <1>6, <1>7, <2>1
<1>9. \A i \in 1 .. 15 : frame[i] = p2[i]
  <2> SUFFICES ASSUME NEW i \in 1 .. 15 PROVE frame[i] = p2[i]
    OBVIOUS
  <2>1. i \in 1 .. 19
    OBVIOUS
  <2> QED  BY <1>4, <1>8, <2>1
<1>10. \A i \in 1 .. 12 : frame[i] = p1[i]
  <2> SUFFICES ASSUME NEW i \in 1 .. 12 PROVE frame[i] = p1[i]
    OBVIOUS
  <2>1. i \in 1 .. 15
    OBVIOUS
  <2> QED  BY <1>3, <1>9, <2>1
<1>11. \A i \in 1 .. 11 : frame[1 + i] = id[i]
  <2> SUFFICES ASSUME NEW i \in 1 .. 11 PROVE frame[1 + i] = id[i]
    OBVIOUS
  <2>1. 1 + i \in 1 .. 12
    OBVIOUS
  <2> QED  BY <1>2, <1>10, <2>1
<1>12. \A i \in 1 .. 4 : frame[15 + i] = dlc[i]
  <2> SUFFICES ASSUME NEW i \in 1 .. 4 PROVE frame[15 + i] = dlc[i]
    OBVIOUS
  <2>1. 15 + i \in 1 .. 19
    OBVIOUS
  <2> QED  BY <1>4, <1>8, <2>1
<1>13. \A i \in 1 .. size : frame[19 + i] = data[i]
  <2> SUFFICES ASSUME NEW i \in 1 .. size PROVE frame[19 + i] = data[i]
    OBVIOUS
  <2>1. 19 + i \in 1 .. 34 + size /\ 19 + i \in 1 .. 19 + size
    OBVIOUS
  <2> QED  BY <1>5, <1>6, <1>7, <2>1, SMTT(30)
<1>14. \A i \in 1 .. 15 : frame[19 + size + i] = crc[i]
  <2> SUFFICES ASSUME NEW i \in 1 .. 15 PROVE frame[19 + size + i] = crc[i]
    OBVIOUS
  <2>1. 19 + size + i \in 1 .. 34 + size
    OBVIOUS
  <2> QED  BY <1>6, <1>7, <2>1
<1>15. frame[1] = 0 /\ frame[13] = 0 /\ frame[14] = 0 /\ frame[15] = 0
  <2>1. 1 \in 1 .. 12 /\ 1 \in 1 .. 15 /\ 13 \in 1 .. 15 /\ 14 \in 1 .. 15 /\ 15 \in 1 .. 15
    OBVIOUS
  <2> QED  BY <1>2, <1>3, <1>9, <1>10, <2>1
<1>16. \A i \in 1 .. 19 + size : frame[i] = body[i]
  <2> SUFFICES ASSUME NEW i \in 1 .. 19 + size PROVE frame[i] = body[i]
    OBVIOUS
  <2>1. i \in 1 .. 34 + size
    OBVIOUS
  <2> QED  BY <1>6, <1>7, <2>1
<1>17. body \in Seq(BIT)
  BY <1>1 DEF Joined
<1> QED  BY <1>5, <1>7, <1>11, <1>12, <1>13, <1>14, <1>15, <1>16, <1>17 DEF FieldsInPlace

\* The sizes of the fields.
LEMMA FrameFields ==
  ASSUME NEW f \in Frames
  PROVE  /\ f.id \in 0 .. 2047 /\ f.data \in Seq(BYTE) /\ Len(f.data) \in 0 .. 8
         /\ Bits(f.id, 11) \in Seq(BIT) /\ Len(Bits(f.id, 11)) = 11
         /\ Bits(Len(f.data), 4) \in Seq(BIT) /\ Len(Bits(Len(f.data), 4)) = 4
         /\ BytesToBits(f.data) \in Seq(BIT) /\ Len(BytesToBits(f.data)) = 8 * Len(f.data)
PROOF
<1>1. f.id \in 0 .. 2047 /\ f.data \in Seq(BYTE) /\ Len(f.data) <= 8
  BY DEF Frames
<1> DEFINE d == f.data
           id == f.id
<1> HIDE DEF d, id
<1>2. f.id \in Nat /\ Len(f.data) \in Nat
  <2>1. id \in 0 .. 2047 /\ d \in Seq(BYTE)
    BY <1>1 DEF d, id
  <2>2. id \in Nat
    BY <2>1
  <2>3. Len(d) \in Nat
    BY <2>1, LenProperties
  <2> QED  BY <2>2, <2>3 DEF d, id
<1>3. Bits(f.id, 11) \in Seq(BIT) /\ Len(Bits(f.id, 11)) = 11
  BY <1>2, BitsType
<1>4. Bits(Len(f.data), 4) \in Seq(BIT) /\ Len(Bits(Len(f.data), 4)) = 4
  BY <1>2, BitsType
<1>5. BytesToBits(f.data) \in Seq(BIT) /\ Len(BytesToBits(f.data)) = 8 * Len(f.data)
  BY <1>1, BytesToBitsType
<1>6. Len(f.data) \in 0 .. 8
  <2> DEFINE len == Len(f.data)
  <2> HIDE DEF len
  <2>1. len \in Nat /\ len <= 8
    BY <1>1, <1>2, SMTT(30) DEF len
  <2>2. len \in 0 .. 8
    BY <2>1
  <2> QED  BY <2>2 DEF len
<1> QED  BY <1>1, <1>3, <1>4, <1>5, <1>6

\* A frame has its fields in their places.
LEMMA FrameLayout ==
  ASSUME NEW f \in Frames
  PROVE  /\ FrameBits(f) \in Seq(BIT) /\ Len(FrameBits(f)) = 8 * Len(f.data) + 35
         /\ BodyBits(f) \in Seq(BIT) /\ Len(BodyBits(f)) = BodyLength(f)
         /\ \A i \in 1 .. BodyLength(f) : FrameBits(f)[i] = BodyBits(f)[i]
         /\ \A i \in {1, 13, 14, 15} : FrameBits(f)[i] = 0
         /\ \A i \in 1 .. 11 : FrameBits(f)[1 + i] = Bits(f.id, 11)[i]
         /\ \A i \in 1 .. 4 : FrameBits(f)[15 + i] = Bits(Len(f.data), 4)[i]
         /\ \A i \in 1 .. 8 * Len(f.data) : FrameBits(f)[19 + i] = BytesToBits(f.data)[i]
         /\ \A i \in 1 .. 15 : FrameBits(f)[BodyLength(f) + i] = Crc(BodyBits(f))[i]
PROOF
<1> DEFINE id == Bits(f.id, 11)
           dlc == Bits(Len(f.data), 4)
           data == BytesToBits(f.data)
           size == 8 * Len(f.data)
           p1 == <<0>> \o id
           p2 == p1 \o <<0, 0, 0>>
           p3 == p2 \o dlc
           body == BodyBits(f)
           crc == Crc(body)
           p5 == body \o crc
           frame == FrameBits(f)
<1>1. /\ id \in Seq(BIT) /\ Len(id) = 11 /\ dlc \in Seq(BIT) /\ Len(dlc) = 4
      /\ data \in Seq(BIT) /\ Len(data) = size /\ size \in Nat
      /\ crc \in Seq(BIT) /\ Len(crc) = 15
  BY FrameFields, CrcType
<1>2. <<0>> \in Seq(BIT) /\ <<0, 0, 0>> \in Seq(BIT) /\ <<1>> \in Seq(BIT)
  BY DEF BIT
<1>3. body = p3 \o data /\ frame = p5 \o <<1>> /\ BodyLength(f) = 19 + size
  BY DEF BodyBits, FrameBits, BodyLength
<1> HIDE DEF id, dlc, data, crc, body, frame, size
<1>4. Joined(p1, <<0>>, id)
  BY <1>1, <1>2, Join
<1>5. Joined(p2, p1, <<0, 0, 0>>)
  <2>1. p1 \in Seq(BIT)
    BY <1>4 DEF Joined
  <2> HIDE DEF p1
  <2> QED  BY <1>2, <2>1, Join
<1>6. Joined(p3, p2, dlc)
  <2>1. p2 \in Seq(BIT)
    BY <1>5 DEF Joined
  <2> HIDE DEF p2
  <2> QED  BY <1>1, <2>1, Join
<1>7. Joined(body, p3, data)
  <2>1. p3 \in Seq(BIT)
    BY <1>6 DEF Joined
  <2> HIDE DEF p3
  <2> QED  BY <1>1, <1>3, <2>1, Join
<1>8. Joined(p5, body, crc)
  <2>1. body \in Seq(BIT)
    BY <1>7 DEF Joined
  <2> QED  BY <1>1, <2>1, Join
<1>9. Joined(frame, p5, <<1>>)
  <2>1. p5 \in Seq(BIT)
    BY <1>8 DEF Joined
  <2> HIDE DEF p5
  <2> QED  BY <1>2, <1>3, <2>1, Join
<1>10. IsFrame(frame, body, id, dlc, data, crc)
  <2> HIDE DEF p1, p2, p3, p5
  <2> QED  BY <1>4, <1>5, <1>6, <1>7, <1>8, <1>9 DEF IsFrame
<1>11. FieldsInPlace(frame, body, id, dlc, data, crc)
  <2> HIDE DEF p1, p2, p3, p5
  <2> QED  BY <1>1, <1>10, FieldPlaces
<1>12. /\ frame \in Seq(BIT) /\ Len(frame) = size + 35
       /\ body \in Seq(BIT) /\ Len(body) = 19 + size
       /\ \A i \in 1 .. 19 + size : frame[i] = body[i]
       /\ frame[1] = 0 /\ frame[13] = 0 /\ frame[14] = 0 /\ frame[15] = 0
       /\ \A i \in 1 .. 11 : frame[1 + i] = id[i]
       /\ \A i \in 1 .. 4 : frame[15 + i] = dlc[i]
       /\ \A i \in 1 .. size : frame[19 + i] = data[i]
       /\ \A i \in 1 .. 15 : frame[19 + size + i] = crc[i]
  BY <1>1, <1>11, Zenon DEF FieldsInPlace
<1> QED  BY <1>3, <1>12, ZenonT(40) DEF id, dlc, data, crc, body, frame, size

-----------------------------------------------------------------------------
(* The parser.                                                             *)

\* What parseRxCanFrame makes of the bits without stuff bits.
Unpacked(b) ==
  IF HeaderError(b) # 0
  THEN [ret  |-> -HeaderError(b),
        id   |-> IF b[1] # 0 THEN 0 ELSE Number(SubSeq(b, 2, 12)),
        data |-> <<>>]
  ELSE Body(b, Number(SubSeq(b, 16, 19)))

\* x stands in b behind the first m bits.
StandsAt(b, m, x) == m + Len(x) <= Len(b) /\ \A i \in 1 .. Len(x) : b[m + i] = x[i]

\* A field is cut out of the place where it stands.
LEMMA Cut ==
  ASSUME NEW b \in Seq(BIT), NEW x \in Seq(BIT), NEW m \in Nat, StandsAt(b, m, x),
         NEW lo, lo = m + 1, NEW hi, hi = m + Len(x)
  PROVE  SubSeq(b, lo, hi) = x
PROOF
<1> DEFINE size == Len(x)
           part == SubSeq(b, m + 1, m + size)
<1>0. /\ size \in Nat /\ Len(b) \in Nat /\ m + size <= Len(b)
      /\ \A i \in 1 .. size : b[m + i] = x[i]
  BY LenProperties DEF StandsAt
<1> HIDE DEF size
<1>1. \A i \in m + 1 .. m + size : b[i] \in BIT
  <2> SUFFICES ASSUME NEW i \in m + 1 .. m + size PROVE b[i] \in BIT
    OBVIOUS
  <2>1. i \in 1 .. Len(b)
    BY <1>0
  <2> QED  BY <2>1, ElementOfSeq
<1>2. m + 1 \in Int /\ m + size \in Int
  BY <1>0
<1>3. /\ part \in Seq(BIT)
      /\ Len(part) = IF m + 1 <= m + size THEN (m + size) - (m + 1) + 1 ELSE 0
      /\ \A i \in 1 .. (m + size) - (m + 1) + 1 : part[i] = b[(m + 1) + i - 1]
  BY <1>1, <1>2, SubSeqProperties
<1> HIDE DEF part
<1>4. Len(part) = size
  BY <1>0, <1>3
<1>5. \A i \in 1 .. size : part[i] = x[i]
  <2> SUFFICES ASSUME NEW i \in 1 .. size PROVE part[i] = x[i]
    OBVIOUS
  <2>1. i \in 1 .. (m + size) - (m + 1) + 1 /\ (m + 1) + i - 1 = m + i
    BY <1>0
  <2> QED  BY <1>0, <1>3, <2>1
<1>6. part = x
  BY <1>0, <1>3, <1>4, <1>5, SameSequence DEF size
<1>7. SubSeq(b, m + 1, m + size) = x
  BY <1>6 DEF part
<1> QED  BY <1>7 DEF size

\* The parser looks at the header bits in turn.
LEMMA Header ==
  ASSUME NEW b
  PROVE  /\ HeaderError(b) \in 0 .. 4
         /\ HeaderError(b) = 0 <=> b[1] = 0 /\ b[13] = 0 /\ b[14] = 0 /\ b[15] = 0
PROOF
<1> DEFINE wrong == {k \in 1 .. 4 : b[HeaderBits[k]] # 0}
<1>1. DOMAIN HeaderBits = 1 .. 4 /\ HeaderBits[1] = 1 /\ HeaderBits[2] = 13
        /\ HeaderBits[3] = 14 /\ HeaderBits[4] = 15
  BY DEF HeaderBits
<1>2. wrong = {} <=> b[1] = 0 /\ b[13] = 0 /\ b[14] = 0 /\ b[15] = 0
  BY <1>1
<1>3. HeaderError(b) = IF wrong = {} THEN 0 ELSE CHOOSE k \in wrong : \A j \in wrong : k <= j
  BY <1>1 DEF HeaderError
<1>4. ASSUME wrong # {} PROVE \E k \in wrong : \A j \in wrong : k <= j
  <2>1. CASE 1 \in wrong
    BY <2>1
  <2>2. CASE 1 \notin wrong /\ 2 \in wrong
    BY <2>2
  <2>3. CASE 1 \notin wrong /\ 2 \notin wrong /\ 3 \in wrong
    BY <2>3
  <2>4. CASE 1 \notin wrong /\ 2 \notin wrong /\ 3 \notin wrong
    BY <1>4, <2>4
  <2> QED  BY <2>1, <2>2, <2>3, <2>4
<1>5. wrong # {} => HeaderError(b) \in 1 .. 4 /\ HeaderError(b) # 0
  <2>1. wrong \subseteq 1 .. 4
    OBVIOUS
  <2> HIDE DEF wrong
  <2>2. wrong # {} => HeaderError(b) \in wrong
    BY <1>3, <1>4
  <2>3. wrong # {} => HeaderError(b) \in 1 .. 4
    BY <2>1, <2>2
  <2> QED  BY <2>3
<1> DEFINE error == HeaderError(b)
<1>6. wrong = {} => error = 0
  <2> HIDE DEF wrong
  <2> QED  BY <1>3
<1>7. error \in 0 .. 4 /\ (error = 0 <=> wrong = {})
  <2> HIDE DEF wrong, error
  <2>1. wrong # {} => error \in 1 .. 4 /\ error # 0
    BY <1>5 DEF error
  <2> QED  BY <1>6, <2>1
<1> HIDE DEF wrong
<1> QED  BY <1>2, <1>7

\* The bits up to the checksum are those of the frame f.
Carries(b, f) ==
  /\ b \in Seq(BIT) /\ BodyLength(f) + 15 <= Len(b)
  /\ \A i \in 1 .. BodyLength(f) + 15 : b[i] = FrameBits(f)[i]

\* The parser undoes what the composer has done.
LEMMA UnpackFrame ==
  ASSUME NEW f \in Frames, NEW b, Carries(b, f)
  PROVE  Unpacked(b) = [ret |-> Len(f.data), id |-> f.id, data |-> f.data]
PROOF
<1> DEFINE size == 8 * Len(f.data)
           len == Len(f.data)
           frame == FrameBits(f)
           body == BodyBits(f)
           end == BodyLength(f)
<1>1. /\ b \in Seq(BIT) /\ Len(b) \in Nat /\ size \in Nat /\ len \in 0 .. 8
      /\ end = 19 + size /\ end + 15 <= Len(b) /\ size = 8 * len
      /\ \A i \in 1 .. end + 15 : b[i] = frame[i]
  <2>1. len \in 0 .. 8
    BY FrameFields
  <2>2. b \in Seq(BIT) /\ end + 15 <= Len(b) /\ \A i \in 1 .. end + 15 : b[i] = frame[i]
    BY DEF Carries
  <2>3. Len(b) \in Nat
    BY <2>2, LenProperties
  <2> HIDE DEF len
  <2>4. size = 8 * len
    BY DEF len
  <2>5. size \in Nat
    BY <2>1, <2>4
  <2>6. end = 19 + size
    BY DEF BodyLength
  <2> QED  BY <2>1, <2>2, <2>3, <2>4, <2>5, <2>6
<1> DEFINE idBits == Bits(f.id, 11)
           lenBits == Bits(len, 4)
           dataBits == BytesToBits(f.data)
           crc == Crc(body)
<1>2. /\ body \in Seq(BIT) /\ Len(body) = end
      /\ \A i \in 1 .. end : frame[i] = body[i]
      /\ \A i \in {1, 13, 14, 15} : frame[i] = 0
      /\ \A i \in 1 .. 11 : frame[1 + i] = idBits[i]
      /\ \A i \in 1 .. 4 : frame[15 + i] = lenBits[i]
      /\ \A i \in 1 .. size : frame[19 + i] = dataBits[i]
      /\ \A i \in 1 .. 15 : frame[end + i] = crc[i]
  BY FrameLayout
<1>3. /\ idBits \in Seq(BIT) /\ Len(idBits) = 11 /\ lenBits \in Seq(BIT) /\ Len(lenBits) = 4
      /\ dataBits \in Seq(BIT) /\ Len(dataBits) = size
      /\ crc \in Seq(BIT) /\ Len(crc) = 15
  BY FrameFields, CrcType
<1>4. Number(idBits) = f.id /\ Number(lenBits) = len /\ BitsToBytes(dataBits) = f.data
  <2>1. Fits(len, 4)
    <3> HIDE DEF len
    <3> QED  BY <1>1 DEF Fits
  <2>2. Fits(f.id, 11)
    <3> DEFINE id == f.id
    <3>1. id \in 0 .. 2047
      BY FrameFields
    <3> HIDE DEF id
    <3>2. Fits(id, 11)
      BY <3>1 DEF Fits
    <3> QED  BY <3>2 DEF id
  <2>3. BitsToBytes(dataBits) = f.data
    BY FrameFields, BytesOfBits
  <2> HIDE DEF len
  <2> QED  BY <2>1, <2>2, <2>3, NumberOfBits
<1> HIDE DEF size, len, frame, body, end, idBits, lenBits, dataBits, crc
<1>5. HeaderError(b) = 0
  <2>1. \A i \in {1, 13, 14, 15} : b[i] = 0
    <3> SUFFICES ASSUME NEW i \in {1, 13, 14, 15} PROVE b[i] = 0
      OBVIOUS
    <3>1. i \in 1 .. end + 15
      BY <1>1
    <3>2. b[i] = frame[i]
      BY <1>1, <3>1
    <3>3. frame[i] = 0
      BY <1>2
    <3> QED  BY <3>2, <3>3
  <2> QED  BY <2>1, Header
<1>6. SubSeq(b, 2, 12) = idBits
  <2>1. ASSUME NEW i \in 1 .. 11 PROVE b[1 + i] = idBits[i]
    <3>1. 1 + i \in 1 .. end + 15
      BY <1>1
    <3>2. b[1 + i] = frame[1 + i]
      BY <1>1, <3>1
    <3>3. frame[1 + i] = idBits[i]
      BY <1>1, <1>2
    <3> QED  BY <3>2, <3>3
  <2> DEFINE m == 1
             lo == 2
             hi == 12
  <2>2. StandsAt(b, m, idBits)
    BY <1>1, <1>2, <1>3, <2>1 DEF StandsAt
  <2>3. m \in Nat /\ lo = m + 1 /\ hi = m + Len(idBits)
    BY <1>1, <1>2, <1>3
  <2>4. b \in Seq(BIT) /\ idBits \in Seq(BIT)
    BY <1>1, <1>2, <1>3
  <2> HIDE DEF m, lo, hi
  <2>5. SubSeq(b, lo, hi) = idBits
    BY <2>2, <2>3, <2>4, Cut, SMTT(30)
  <2> QED  BY <2>5 DEF lo, hi
<1>7. SubSeq(b, 16, 19) = lenBits
  <2>1. ASSUME NEW i \in 1 .. 4 PROVE b[15 + i] = lenBits[i]
    <3>1. 15 + i \in 1 .. end + 15
      BY <1>1
    <3>2. b[15 + i] = frame[15 + i]
      BY <1>1, <3>1
    <3>3. frame[15 + i] = lenBits[i]
      BY <1>1, <1>2
    <3> QED  BY <3>2, <3>3
  <2> DEFINE m == 15
             lo == 16
             hi == 19
  <2>2. StandsAt(b, m, lenBits)
    BY <1>1, <1>2, <1>3, <2>1 DEF StandsAt
  <2>3. m \in Nat /\ lo = m + 1 /\ hi = m + Len(lenBits)
    BY <1>1, <1>2, <1>3
  <2>4. b \in Seq(BIT) /\ lenBits \in Seq(BIT)
    BY <1>1, <1>2, <1>3
  <2> HIDE DEF m, lo, hi
  <2>5. SubSeq(b, lo, hi) = lenBits
    BY <2>2, <2>3, <2>4, Cut
  <2> QED  BY <2>5 DEF lo, hi
<1>8. SubSeq(b, 20, end) = dataBits
  <2>1. ASSUME NEW i \in 1 .. size PROVE b[19 + i] = dataBits[i]
    <3>1. 19 + i \in 1 .. end + 15
      BY <1>1
    <3>2. b[19 + i] = frame[19 + i]
      BY <1>1, <3>1
    <3>3. frame[19 + i] = dataBits[i]
      BY <1>1, <1>2
    <3> QED  BY <3>2, <3>3
  <2> DEFINE m == 19
             lo == 20
             hi == end
  <2>2. StandsAt(b, m, dataBits)
    BY <1>1, <1>2, <1>3, <2>1 DEF StandsAt
  <2>3. m \in Nat /\ lo = m + 1 /\ hi = m + Len(dataBits)
    BY <1>1, <1>2, <1>3
  <2>4. b \in Seq(BIT) /\ dataBits \in Seq(BIT)
    BY <1>1, <1>2, <1>3
  <2> HIDE DEF m, lo, hi
  <2>5. SubSeq(b, lo, hi) = dataBits
    BY <2>2, <2>3, <2>4, Cut
  <2> QED  BY <2>5 DEF lo, hi
<1>9. SubSeq(b, 1, end) = body
  <2>1. ASSUME NEW i \in 1 .. end PROVE b[0 + i] = body[i]
    <3>1. 0 + i \in 1 .. end + 15
      BY <1>1
    <3>2. b[0 + i] = frame[0 + i]
      BY <1>1, <3>1
    <3>3. frame[0 + i] = body[i]
      BY <1>1, <1>2
    <3> QED  BY <3>2, <3>3
  <2>2. StandsAt(b, 0, body)
    BY <1>1, <1>2, <1>3, <2>1 DEF StandsAt
  <2>3. 0 \in Nat /\ 1 = 0 + 1 /\ end = 0 + Len(body)
    BY <1>1, <1>2, <1>3
  <2>4. b \in Seq(BIT) /\ body \in Seq(BIT)
    BY <1>1, <1>2, <1>3
  <2> QED  BY <2>2, <2>3, <2>4, Cut
<1>10. SubSeq(b, end + 1, end + 15) = crc
  <2>1. ASSUME NEW i \in 1 .. 15 PROVE b[end + i] = crc[i]
    <3>1. end + i \in 1 .. end + 15
      BY <1>1
    <3>2. b[end + i] = frame[end + i]
      BY <1>1, <3>1
    <3>3. frame[end + i] = crc[i]
      BY <1>1, <1>2
    <3> QED  BY <3>2, <3>3
  <2> DEFINE m == end
             lo == end + 1
             hi == end + 15
  <2>2. StandsAt(b, m, crc)
    BY <1>1, <1>2, <1>3, <2>1 DEF StandsAt
  <2>3. m \in Nat /\ lo = m + 1 /\ hi = m + Len(crc)
    BY <1>1, <1>2, <1>3
  <2>4. b \in Seq(BIT) /\ crc \in Seq(BIT)
    BY <1>1, <1>2, <1>3
  <2> HIDE DEF m, lo, hi
  <2>5. SubSeq(b, lo, hi) = crc
    BY <2>2, <2>3, <2>4, Cut
  <2> QED  BY <2>5 DEF lo, hi
<1>11. Unpacked(b) = Body(b, len)
  BY <1>4, <1>5, <1>7 DEF Unpacked
<1>12. Body(b, len) = [ret |-> len, id |-> f.id, data |-> f.data]
  <2>1. 19 + 8 * len = end
    BY <1>1
  <2> QED  BY <1>4, <1>6, <1>8, <1>9, <1>10, <2>1 DEF Body, crc
<1> QED  BY <1>11, <1>12 DEF len

-----------------------------------------------------------------------------
(* The checksum finds a wrong bit.                                         *)

\* The loop of the checksum goes over sets of the 15 bits of its register.
LEMMA CrcLoop ==
  /\ \A r, c : Step("crc", r, c) = CrcStep(r, c)
  /\ Closed("crc", SUBSET (0 .. 14))
PROOF
<1>1. \A r, c : Step("crc", r, c) = CrcStep(r, c)
  BY Zenon DEF Step
<1>2. \A r, c : CrcStep(r, c) \in SUBSET (0 .. 14)
  BY DEF CrcStep
<1> QED  BY <1>1, <1>2 DEF Closed

\* The register tells the bit that was shifted in and the register before it,
\* because the polynomial has its lowest bit.
LEMMA CrcStepBack ==
  ASSUME NEW r \in SUBSET (0 .. 14), NEW s \in SUBSET (0 .. 14), NEW c \in BIT, NEW d \in BIT,
         CrcStep(r, c) = CrcStep(s, d)
  PROVE  (c = d => r = s) /\ (r = s => c = d)
PROOF
<1> DEFINE nr == (14 \in r) # (c = 1)
           ns == (14 \in s) # (d = 1)
<1>1. \A i \in 0 .. 14 :
        ((i - 1 \in r) # (nr /\ i \in CrcPolynomial))
          <=> ((i - 1 \in s) # (ns /\ i \in CrcPolynomial))
  BY DEF CrcStep
<1>2. 0 \in CrcPolynomial
  BY DEF CrcPolynomial
<1>3. nr <=> ns
  <2>1. 0 - 1 \notin r /\ 0 - 1 \notin s /\ 0 \in 0 .. 14
    OBVIOUS
  <2>2. ((0 - 1 \in r) # (nr /\ 0 \in CrcPolynomial))
          <=> ((0 - 1 \in s) # (ns /\ 0 \in CrcPolynomial))
    BY <1>1, <2>1
  <2> HIDE DEF nr, ns
  <2> QED  BY <1>2, <2>1, <2>2
<1>4. \A i \in 0 .. 13 : i \in r <=> i \in s
  <2> SUFFICES ASSUME NEW i \in 0 .. 13 PROVE i \in r <=> i \in s
    OBVIOUS
  <2>1. i + 1 \in 0 .. 14 /\ (i + 1) - 1 = i
    OBVIOUS
  <2>2. ((i \in r) # (nr /\ i + 1 \in CrcPolynomial))
          <=> ((i \in s) # (ns /\ i + 1 \in CrcPolynomial))
    BY <1>1, <2>1
  <2> HIDE DEF nr, ns
  <2> QED  BY <1>3, <2>2
<1>5. (14 \in r) # (c = 1) <=> (14 \in s) # (d = 1)
  BY <1>3
<1>6. c = d => (14 \in r <=> 14 \in s)
  BY <1>5
<1>7. r = s => c = d
  BY <1>5 DEF BIT
<1>8. ASSUME c = d PROVE r = s
  <2>1. \A i \in 0 .. 14 : i \in r <=> i \in s
    BY <1>4, <1>6, <1>8
  <2> QED  BY <2>1
<1> QED  BY <1>7, <1>8

\* Two streams that differ in one bit have different checksums.
LEMMA CrcDiffers ==
  ASSUME NEW n \in Nat, NEW a \in Seq(BIT), Len(a) = n, NEW b \in Seq(BIT), Len(b) = n,
         NEW p \in 1 .. n, a[p] # b[p], \A i \in 1 .. n : i # p => a[i] = b[i]
  PROVE  Crc(a) # Crc(b)
PROOF
<1> DEFINE S == SUBSET (0 .. 14)
<1>1. Closed("crc", S) /\ {} \in S
  BY CrcLoop
<1> HIDE DEF S
<1>0. \A x \in Seq(BIT) : \E t \in [0 .. Len(x) -> S] :
        IsTrace("crc", {}, x, t) /\ Loop("crc", {}, x) = t[Len(x)]
  BY <1>1, LoopHasTrace
<1>2. PICK u \in [0 .. n -> S] : IsTrace("crc", {}, a, u) /\ Loop("crc", {}, a) = u[n]
  BY <1>0
<1>3. PICK v \in [0 .. n -> S] : IsTrace("crc", {}, b, v) /\ Loop("crc", {}, b) = v[n]
  BY <1>0
<1>4. Loop("crc", {}, a) = u[n] /\ Loop("crc", {}, b) = v[n]
  BY <1>2, <1>3
<1>5. \A i \in 1 .. n : u[i] = CrcStep(u[i - 1], a[i]) /\ v[i] = CrcStep(v[i - 1], b[i])
  BY <1>2, <1>3, CrcLoop DEF IsTrace
<1>6. u[0] = {} /\ v[0] = {}
  BY <1>2, <1>3 DEF IsTrace
<1> DEFINE Good == {i \in Nat : i <= n => IF i < p THEN u[i] = v[i] ELSE u[i] # v[i]}
<1>7. 0 \in Good
  <2>1. 0 < p /\ u[0] = v[0]
    BY <1>6
  <2>2. 0 <= n => IF 0 < p THEN u[0] = v[0] ELSE u[0] # v[0]
    BY <2>1
  <2> QED  BY <2>2
<1>8. ASSUME NEW i \in Nat, i \in Good PROVE i + 1 \in Good
  <2>1. SUFFICES ASSUME i + 1 <= n
                 PROVE  IF i + 1 < p THEN u[i + 1] = v[i + 1] ELSE u[i + 1] # v[i + 1]
    OBVIOUS
  <2>2. i + 1 \in 1 .. n /\ (i + 1) - 1 = i /\ i \in 0 .. n
    BY <2>1
  <2>3. u[i + 1] = CrcStep(u[i], a[i + 1]) /\ v[i + 1] = CrcStep(v[i], b[i + 1])
    BY <1>5, <2>2
  <2>4. u[i] \in S /\ v[i] \in S /\ a[i + 1] \in BIT /\ b[i + 1] \in BIT
    BY <2>2, ElementOfSeq
  <2>5. IF i < p THEN u[i] = v[i] ELSE u[i] # v[i]
    BY <1>8, <2>1
  <2>6. u[i + 1] = v[i + 1] => (a[i + 1] = b[i + 1] <=> u[i] = v[i])
    BY <2>3, <2>4, CrcStepBack, SMTT(30) DEF S
  <2>7. CASE i + 1 < p
    <3>1. a[i + 1] = b[i + 1] /\ i < p
      BY <2>2, <2>7
    <3> QED  BY <2>3, <2>5, <2>7, <3>1
  <2>8. CASE i + 1 = p
    <3>1. a[i + 1] # b[i + 1] /\ i < p /\ ~(i + 1 < p)
      BY <2>2, <2>8
    <3> QED  BY <2>5, <2>6, <3>1
  <2>9. CASE i + 1 > p
    <3>1. a[i + 1] = b[i + 1] /\ ~(i < p) /\ ~(i + 1 < p)
      BY <2>2, <2>9
    <3> QED  BY <2>5, <2>6, <3>1
  <2> QED  BY <2>7, <2>8, <2>9
<1>9. u[n] # v[n]
  <2>1. n \in Good
    <3> HIDE DEF Good
    <3> QED  BY <1>7, <1>8, Induction
  <2> QED  BY <2>1
<1>10. u[n] \in SUBSET (0 .. 14) /\ v[n] \in SUBSET (0 .. 14)
  BY SMTT(30) DEF S
<1>11. PICK j \in 0 .. 14 : ~(j \in u[n] <=> j \in v[n])
  BY <1>9, <1>10
<1>12. 15 - j \in 1 .. 15 /\ 15 - (15 - j) = j
  OBVIOUS
<1>13. Crc(a)[15 - j] # Crc(b)[15 - j]
  <2>1. Crc(a)[15 - j] = IF j \in u[n] THEN 1 ELSE 0
    BY <1>4, <1>12 DEF Crc
  <2>2. Crc(b)[15 - j] = IF j \in v[n] THEN 1 ELSE 0
    BY <1>4, <1>12 DEF Crc
  <2> QED  BY <1>11, <2>1, <2>2
<1> QED  BY <1>13

\* Different bits are different numbers.
LEMMA NumberDiffers ==
  ASSUME NEW n \in Nat, NEW a \in Seq(BIT), Len(a) = n, NEW b \in Seq(BIT), Len(b) = n,
         Number(a) = Number(b)
  PROVE  a = b
PROOF
<1>0. \A x \in Seq(BIT) : \E v \in [0 .. Len(x) -> Nat] : IsValue(x, v) /\ Number(x) = v[Len(x)]
  BY NumberOfValue
<1>1. PICK u \in [0 .. n -> Nat] : IsValue(a, u) /\ Number(a) = u[n]
  BY <1>0
<1>2. PICK v \in [0 .. n -> Nat] : IsValue(b, v) /\ Number(b) = v[n]
  BY <1>0
<1>3. \A i \in 1 .. n : u[i] = 2 * u[i - 1] + a[i] /\ v[i] = 2 * v[i - 1] + b[i]
  BY <1>1, <1>2 DEF IsValue
<1>4. ASSUME NEW i \in 1 .. n, u[i] = v[i] PROVE u[i - 1] = v[i - 1] /\ a[i] = b[i]
  <2>1. a[i] \in BIT /\ b[i] \in BIT /\ u[i - 1] \in Nat /\ v[i - 1] \in Nat
    BY ElementOfSeq
  <2>2. 2 * u[i - 1] + a[i] = 2 * v[i - 1] + b[i]
    BY <1>3, <1>4
  <2> DEFINE x == u[i - 1]
             y == v[i - 1]
             c == a[i]
             d == b[i]
  <2>3. x \in Nat /\ y \in Nat /\ c \in BIT /\ d \in BIT /\ 2 * x + c = 2 * y + d
    BY <2>1, <2>2
  <2> HIDE DEF x, y, c, d
  <2>4. x = y /\ c = d
    BY <2>3 DEF BIT
  <2> QED  BY <2>4 DEF x, y, c, d
<1> DEFINE Good == {j \in Nat : j <= n => u[n - j] = v[n - j]}
<1>5. 0 \in Good
  <2>1. n - 0 = n
    OBVIOUS
  <2>2. u[n] = v[n]
    BY <1>1, <1>2, Zenon
  <2> QED  BY <2>1, <2>2
<1>6. ASSUME NEW j \in Nat, j \in Good PROVE j + 1 \in Good
  <2>1. SUFFICES ASSUME j + 1 <= n PROVE u[n - (j + 1)] = v[n - (j + 1)]
    OBVIOUS
  <2>2. n - j \in 1 .. n /\ (n - j) - 1 = n - (j + 1) /\ u[n - j] = v[n - j]
    BY <1>6, <2>1
  <2> QED  BY <1>4, <2>2
<1>7. \A i \in 0 .. n : u[i] = v[i]
  <2>1. Nat \subseteq Good
    <3> HIDE DEF Good
    <3> QED  BY <1>5, <1>6, Induction
  <2> SUFFICES ASSUME NEW i \in 0 .. n PROVE u[i] = v[i]
    OBVIOUS
  <2>2. n - i \in Nat /\ n - i <= n /\ n - (n - i) = i
    OBVIOUS
  <2>3. n - i \in Good
    BY <2>1, <2>2
  <2> QED  BY <2>2, <2>3
<1>8. \A i \in 1 .. n : a[i] = b[i]
  BY <1>4, <1>7
<1> QED  BY <1>8, SameSequence

\* One of the bits up to the checksum is wrong, but not the first.
CarriesWrong(b, f, p) ==
  /\ b \in Seq(BIT) /\ BodyLength(f) + 15 <= Len(b) /\ p \in 2 .. BodyLength(f) + 15
  /\ \A i \in 1 .. BodyLength(f) + 15 : b[i] = FrameBits(f)[i] <=> i # p

\* The parser does not return such a frame with the length that was sent.
LEMMA UnpackWrong ==
  ASSUME NEW f \in Frames, NEW b, NEW p, CarriesWrong(b, f, p)
  PROVE  Unpacked(b).ret # Len(f.data)
PROOF
<1> DEFINE len == Len(f.data)
           size == 8 * len
           frame == FrameBits(f)
           body == BodyBits(f)
           end == BodyLength(f)
           lenBits == Bits(len, 4)
           crc == Crc(body)
<1>1. /\ b \in Seq(BIT) /\ Len(b) \in Nat /\ len \in 0 .. 8 /\ size \in Nat
      /\ end = 19 + 8 * len /\ end \in Nat /\ end >= 19 /\ end + 15 <= Len(b)
      /\ p \in 2 .. end + 15
      /\ \A i \in 1 .. end + 15 : b[i] = frame[i] <=> i # p
  <2>1. len \in 0 .. 8
    BY FrameFields
  <2>2. b \in Seq(BIT) /\ end + 15 <= Len(b) /\ \A i \in 1 .. end + 15 : b[i] = frame[i] <=> i # p
    BY DEF CarriesWrong
  <2>3. Len(b) \in Nat
    BY <2>2, LenProperties
  <2>4. end = 19 + 8 * len
    BY DEF BodyLength
  <2>5. p \in 2 .. end + 15
    BY DEF CarriesWrong
  <2> HIDE DEF len, end
  <2>6. size \in Nat /\ end \in Nat /\ end >= 19
    BY <2>1, <2>4
  <2> QED  BY <2>1, <2>2, <2>3, <2>4, <2>5, <2>6
<1>2. /\ body \in Seq(BIT) /\ Len(body) = end
      /\ \A i \in 1 .. end : frame[i] = body[i]
      /\ \A i \in {1, 13, 14, 15} : frame[i] = 0
      /\ \A i \in 1 .. 4 : frame[15 + i] = lenBits[i]
      /\ \A i \in 1 .. 15 : frame[end + i] = crc[i]
  BY FrameLayout
<1>3. /\ lenBits \in Seq(BIT) /\ Len(lenBits) = 4 /\ crc \in Seq(BIT) /\ Len(crc) = 15
  BY FrameFields, CrcType
<1>4. Number(lenBits) = len
  <2>1. Fits(len, 4)
    <3> HIDE DEF len
    <3> QED  BY <1>1 DEF Fits
  <2> HIDE DEF len
  <2> QED  BY <2>1, NumberOfBits
<1> HIDE DEF len, size, frame, body, end, lenBits, crc
<1> DEFINE rxLen == SubSeq(b, 16, 19)
           rxBody == SubSeq(b, 1, end)
           rxCrc == SubSeq(b, end + 1, end + 15)
<1>5. rxLen \in Seq(BIT) /\ Len(rxLen) = 4 /\ \A i \in 1 .. 4 : rxLen[i] = b[15 + i]
  BY <1>1
<1>6. rxBody \in Seq(BIT) /\ Len(rxBody) = end /\ \A i \in 1 .. end : rxBody[i] = b[i]
  BY <1>1
<1>7. rxCrc \in Seq(BIT) /\ Len(rxCrc) = 15 /\ \A i \in 1 .. 15 : rxCrc[i] = b[end + i]
  BY <1>1
<1>8. \A n : /\ Body(b, n).ret \in {n, -5}
             /\ (n = len => Body(b, n).ret = IF Crc(rxBody) = rxCrc THEN len ELSE -5)
  BY <1>1 DEF Body
<1> HIDE DEF rxLen, rxBody, rxCrc
<1>9. CASE HeaderError(b) # 0
  <2> DEFINE e == HeaderError(b)
  <2>1. Unpacked(b).ret = -e
    BY <1>9 DEF Unpacked
  <2>2. e \in 0 .. 4 /\ e # 0
    BY <1>9, Header
  <2> HIDE DEF e
  <2>3. -e # len
    BY <1>1, <2>2
  <2> QED  BY <2>1, <2>3 DEF len
<1>10. CASE HeaderError(b) = 0
  <2>1. Unpacked(b) = Body(b, Number(rxLen))
    BY <1>10 DEF Unpacked, rxLen
  <2>2. p \notin {13, 14, 15}
    <3>1. b[13] = 0 /\ b[14] = 0 /\ b[15] = 0
      BY <1>10, Header
    <3>2. ASSUME NEW i \in {13, 14, 15} PROVE i # p
      <4>1. i \in 1 .. end + 15 /\ b[i] = 0
        BY <1>1, <3>1
      <4>2. frame[i] = 0
        <5>1. i \in {1, 13, 14, 15}
          OBVIOUS
        <5> QED  BY <1>2, <5>1
      <4> QED  BY <1>1, <4>1, <4>2
    <3> QED  BY <3>2
  <2>3. CASE p \in 16 .. 19
    <3>1. p - 15 \in 1 .. 4 /\ 15 + (p - 15) = p /\ p \in 1 .. end + 15
      BY <1>1, <2>3
    <3>2. rxLen[p - 15] = b[p] /\ lenBits[p - 15] = frame[p] /\ b[p] # frame[p]
      BY <1>1, <1>2, <1>5, <3>1, ZenonT(40)
    <3>3. rxLen # lenBits
      BY <3>2
    <3>4. Number(rxLen) # len
      BY <1>3, <1>4, <1>5, <3>3, NumberDiffers
    <3>5. Body(b, Number(rxLen)).ret # len
      BY <1>1, <1>8, <3>4
    <3> QED  BY <2>1, <3>5 DEF len
  <2>4. CASE p \notin 16 .. 19
    <3>1. \A i \in 1 .. 4 : rxLen[i] = lenBits[i]
      <4> SUFFICES ASSUME NEW i \in 1 .. 4 PROVE rxLen[i] = lenBits[i]
        OBVIOUS
      <4>1. 15 + i \in 1 .. end + 15 /\ 15 + i # p
        BY <1>1, <2>4
      <4>2. b[15 + i] = frame[15 + i]
        BY <1>1, <4>1
      <4> QED  BY <1>2, <1>5, <4>2
    <3>2. Number(rxLen) = len
      <4> DEFINE n == 4
      <4>1. n \in Nat /\ Len(rxLen) = n /\ Len(lenBits) = n
              /\ \A i \in 1 .. n : rxLen[i] = lenBits[i]
        BY <1>3, <1>5, <3>1
      <4> HIDE DEF n
      <4>2. rxLen = lenBits
        BY <1>3, <1>5, <4>1, SameSequence
      <4> QED  BY <1>4, <4>2
    <3>3. Crc(rxBody) # rxCrc
      <4>1. CASE p \in 1 .. end
        <5>1. rxBody[p] # body[p]
          <6>1. p \in 1 .. end + 15
            BY <1>1
          <6>2. b[p] # frame[p]
            BY <1>1, <6>1
          <6> QED  BY <1>2, <1>6, <4>1, <6>2
        <5>2. ASSUME NEW i \in 1 .. end, i # p PROVE rxBody[i] = body[i]
          <6>1. i \in 1 .. end + 15
            BY <1>1
          <6>2. b[i] = frame[i]
            BY <1>1, <5>2, <6>1
          <6> QED  BY <1>2, <1>6, <6>2
        <5>3. Crc(rxBody) # Crc(body)
          <6>1. end \in Nat
            BY <1>1
          <6> QED  BY <1>2, <1>6, <4>1, <5>1, <5>2, <6>1, CrcDiffers
        <5>4. rxCrc = crc
          <6>1. \A i \in 1 .. 15 : rxCrc[i] = crc[i]
            <7> SUFFICES ASSUME NEW i \in 1 .. 15 PROVE rxCrc[i] = crc[i]
              OBVIOUS
            <7>1. end + i \in 1 .. end + 15 /\ end + i # p
              BY <1>1, <4>1
            <7>2. b[end + i] = frame[end + i]
              BY <1>1, <7>1
            <7> QED  BY <1>2, <1>7, <7>2
          <6> DEFINE n == 15
          <6>2. n \in Nat /\ Len(rxCrc) = n /\ Len(crc) = n /\ \A i \in 1 .. n : rxCrc[i] = crc[i]
            BY <1>3, <1>7, <6>1
          <6> HIDE DEF n
          <6> QED  BY <1>3, <1>7, <6>2, SameSequence
        <5> QED  BY <5>3, <5>4 DEF crc
      <4>2. CASE p \notin 1 .. end
        <5>1. rxBody = body
          <6>1. \A i \in 1 .. end : rxBody[i] = body[i]
            <7> SUFFICES ASSUME NEW i \in 1 .. end PROVE rxBody[i] = body[i]
              OBVIOUS
            <7>1. i \in 1 .. end + 15 /\ i # p
              BY <1>1, <4>2
            <7>2. b[i] = frame[i]
              BY <1>1, <7>1
            <7> QED  BY <1>2, <1>6, <7>2
          <6>2. end \in Nat
            BY <1>1
          <6> QED  BY <1>2, <1>6, <6>1, <6>2, SameSequence
        <5>2. rxCrc # crc
          <6>1. p - end \in 1 .. 15 /\ end + (p - end) = p /\ p \in 1 .. end + 15
            BY <1>1, <4>2
          <6>2. rxCrc[p - end] = b[p] /\ crc[p - end] = frame[p] /\ b[p] # frame[p]
            BY <1>1, <1>2, <1>7, <6>1, ZenonT(40)
          <6> QED  BY <6>2
        <5> QED  BY <5>1, <5>2 DEF crc
      <4> QED  BY <4>1, <4>2
    <3>4. Unpacked(b).ret = -5
      BY <1>8, <2>1, <3>2, <3>3
    <3> QED  BY <1>1, <3>4 DEF len
  <2> QED  BY <2>3, <2>4
<1> QED  BY <1>9, <1>10

-----------------------------------------------------------------------------
(* Stuff bits.                                                             *)

StuffStates   == [out : Seq(BIT), prevBit : BIT, same : Nat]
DestuffStates == [out : Seq(BIT), prevBit : {-1, 0, 1}, same : Nat, skip : BOOLEAN]
SampleStates  == [count : Nat, prevBit : BIT, same : Nat]

Prefix(s, t) == Len(s) <= Len(t) /\ \A i \in 1 .. Len(s) : t[i] = s[i]

\* The other bit.
LEMMA BitValues == 0 \in BIT /\ 1 \in BIT /\ \A c \in BIT : c \in Nat /\ 1 - c \in BIT /\ 1 - c # c
BY DEF BIT

\* The length of a run is a number.
LEMMA SameBitsType ==
  ASSUME NEW run, run.same \in Nat, NEW c
  PROVE  SameBits(run, c) \in Nat
BY DEF SameBits

\* A prefix of a prefix is one.
LEMMA PrefixOfPrefix ==
  ASSUME NEW x, NEW y, NEW z, Len(x) \in Nat, Len(y) \in Nat, Len(z) \in Nat,
         Prefix(x, y), Prefix(y, z)
  PROVE  Prefix(x, z)
BY DEF Prefix

\* What a step of the composer from u to v does with the bit c.
Stuffs(u, c, v) ==
  /\ Prefix(u.out, v.out) /\ v.out[Len(u.out) + 1] = c
  /\ SameBits(u, c) # 5 => /\ Len(v.out) = Len(u.out) + 1
                           /\ v.prevBit = c /\ v.same = SameBits(u, c)
  /\ SameBits(u, c) = 5 => /\ Len(v.out) = Len(u.out) + 2 /\ v.out[Len(u.out) + 2] = 1 - c
                           /\ v.prevBit = 1 - c /\ v.same = 0

\* A step of the composer writes the bit, and the stuff bit if the run is full.
LEMMA StuffStepIs ==
  ASSUME NEW u \in StuffStates, NEW c \in BIT, NEW v, v = Step("stuff", u, c)
  PROVE  v \in StuffStates /\ Stuffs(u, c, v)
PROOF
<1> DEFINE out == u.out
           two == <<c, 1 - c>>
<1>1. v = StuffStep(u, c)
  BY Zenon DEF Step
<1>2. out \in Seq(BIT) /\ u.same \in Nat
  BY DEF StuffStates
<1>3. SameBits(u, c) \in Nat
  BY <1>2, SameBitsType
<1>4. CASE SameBits(u, c) = 5
  <2>1. v = [out |-> out \o two, prevBit |-> 1 - c, same |-> 0]
    BY <1>1, <1>4 DEF StuffStep
  <2>2. two \in Seq(BIT) /\ Len(two) = 2 /\ two[1] = c /\ two[2] = 1 - c
    BY BitValues
  <2> HIDE DEF two, out
  <2>3. Joined(out \o two, out, two)
    BY <1>2, <2>2, Join
  <2>4. v.out = out \o two /\ v.prevBit = 1 - c /\ v.same = 0
    BY <2>1
  <2>5. /\ v.out \in Seq(BIT) /\ Len(v.out) = Len(out) + 2 /\ Prefix(out, v.out)
        /\ v.out[Len(out) + 1] = c /\ v.out[Len(out) + 2] = 1 - c
    <3>1. /\ v.out \in Seq(BIT) /\ Len(v.out) = Len(out) + 2
          /\ \A i \in 1 .. Len(out) : v.out[i] = out[i]
          /\ \A i \in 1 .. 2 : v.out[Len(out) + i] = two[i]
      BY <2>2, <2>3, <2>4 DEF Joined
    <3>2. Len(out) \in Nat
      BY <1>2, LenProperties
    <3> QED  BY <2>2, <3>1, <3>2 DEF Prefix
  <2>6. v \in StuffStates
    <3>1. 1 - c \in BIT
      BY BitValues
    <3> QED  BY <2>1, <2>4, <2>5, <3>1 DEF StuffStates
  <2> QED  BY <1>4, <2>4, <2>5, <2>6 DEF out, Stuffs
<1>5. CASE SameBits(u, c) # 5
  <2>1. v = [out |-> Append(out, c), prevBit |-> c, same |-> SameBits(u, c)]
    BY <1>1, <1>5 DEF StuffStep
  <2> HIDE DEF out
  <2>2. v.out = Append(out, c) /\ v.prevBit = c /\ v.same = SameBits(u, c)
    BY <2>1
  <2>3. /\ v.out \in Seq(BIT) /\ Len(v.out) = Len(out) + 1 /\ Prefix(out, v.out)
        /\ v.out[Len(out) + 1] = c
    BY <1>2, <2>2 DEF Prefix
  <2>4. v \in StuffStates
    BY <1>3, <2>1, <2>2, <2>3 DEF StuffStates
  <2> QED  BY <1>5, <2>2, <2>3, <2>4 DEF out, Stuffs
<1> QED  BY <1>4, <1>5

\* What a step of the parser from u to v does with the bit c.
Destuffs(u, c, v) ==
  /\ Prefix(u.out, v.out) /\ v.prevBit = c
  /\ u.skip = TRUE => v.out = u.out /\ v.same = u.same /\ v.skip = FALSE
  /\ u.skip = FALSE =>
       /\ v.out = Append(u.out, c)
       /\ SameBits(u, c) = 5 => v.skip = TRUE /\ v.same = 0
       /\ SameBits(u, c) # 5 => v.skip = FALSE /\ v.same = SameBits(u, c)

\* A step of the parser: a stuff bit is passed over; it comes after a full run.
LEMMA DestuffStepIs ==
  ASSUME NEW u \in DestuffStates, NEW c \in BIT, NEW v, v = Step("destuff", u, c)
  PROVE  v \in DestuffStates /\ Destuffs(u, c, v)
PROOF
<1> DEFINE out == u.out
           same == SameBits(u, c)
<1>1. v = DestuffStep(u, c)
  BY Zenon DEF Step
<1>2. out \in Seq(BIT) /\ u.same \in Nat /\ u.skip \in BOOLEAN
  BY DEF DestuffStates
<1>3. same \in Nat /\ c \in {-1, 0, 1}
  BY <1>2, SameBitsType DEF BIT
<1>4. CASE u.skip
  <2>1. v = [u EXCEPT !.prevBit = c, !.skip = FALSE]
    BY <1>1, <1>4 DEF DestuffStep
  <2>2. v.out = u.out /\ v.prevBit = c /\ v.same = u.same /\ v.skip = FALSE /\ v \in DestuffStates
    BY <1>3, <2>1 DEF DestuffStates
  <2>3. Prefix(u.out, v.out)
    BY <1>2, <2>2 DEF Prefix
  <2> QED  BY <1>4, <2>2, <2>3 DEF Destuffs
<1>5. CASE ~u.skip
  <2>1. v = [out |-> Append(out, c), prevBit |-> c, skip |-> same = 5,
             same |-> IF same = 5 THEN 0 ELSE same]
    BY <1>1, <1>5 DEF DestuffStep
  <2> HIDE DEF out, same
  <2>2. /\ v.out = Append(out, c) /\ v.prevBit = c /\ v.skip = (same = 5)
        /\ v.same = IF same = 5 THEN 0 ELSE same
    BY <2>1
  <2>3. v.out \in Seq(BIT) /\ Prefix(out, v.out)
    <3> DEFINE longer == Append(out, c)
               len == Len(out)
    <3>1. /\ longer \in Seq(BIT) /\ Len(longer) = len + 1 /\ len \in Nat
          /\ \A i \in 1 .. len : longer[i] = out[i]
      BY <1>2, AppendProperties
    <3> HIDE DEF longer, len
    <3>2. Prefix(out, longer)
      BY <3>1 DEF Prefix, len
    <3> QED  BY <2>2, <3>1, <3>2 DEF longer
  <2>4. v \in DestuffStates
    <3>1. (same = 5) \in BOOLEAN /\ (IF same = 5 THEN 0 ELSE same) \in Nat
      BY <1>3
    <3> QED  BY <1>3, <2>1, <2>2, <2>3, <3>1 DEF DestuffStates
  <2>5. same = 5 => v.skip = TRUE /\ v.same = 0
    BY <2>2
  <2>6. same # 5 => v.skip = FALSE /\ v.same = same
    BY <2>2
  <2>7. u.skip = FALSE /\ v.out = Append(out, c) /\ v.prevBit = c
    BY <1>2, <1>5, <2>2
  <2> QED  BY <2>3, <2>4, <2>5, <2>6, <2>7 DEF out, same, Destuffs
<1> QED  BY <1>2, <1>4, <1>5

\* What the sampler makes of the bit c.
TakesSample(u, c, v) ==
  /\ u.same = 10 => v = u
  /\ u.same # 10 => v.count = u.count + 1 /\ v.prevBit = c /\ v.same = SameBits(u, c)

\* A step of the sampler: it stops at the tenth bit of a run.
LEMMA SampleStepIs ==
  ASSUME NEW u \in SampleStates, NEW c \in BIT, NEW v, v = Step("sample", u, c)
  PROVE  v \in SampleStates /\ TakesSample(u, c, v)
PROOF
<1>1. v = SampleStep(u, c)
  BY Zenon DEF Step
<1>2. u.count \in Nat /\ u.same \in Nat
  BY DEF SampleStates
<1>3. SameBits(u, c) \in Nat
  BY <1>2, SameBitsType
<1>4. CASE u.same = 10
  BY <1>1, <1>4 DEF SampleStep, TakesSample
<1>5. CASE u.same # 10
  <2>1. v = [count |-> u.count + 1, prevBit |-> c, same |-> SameBits(u, c)]
    BY <1>1, <1>5 DEF SampleStep
  <2>2. v \in SampleStates
    BY <1>2, <1>3, <2>1 DEF SampleStates
  <2> QED  BY <1>5, <2>1, <2>2 DEF TakesSample
<1> QED  BY <1>4, <1>5

\* U holds the states of the composer's loop over the frame b, after one bit, after
\* two bits, ...; D holds those of the parser's loop over the stream b.
IsStuffing(b, U) ==
  /\ U \in [0 .. Len(b) - 1 -> StuffStates]
  /\ U[0] = [out |-> <<b[1]>>, prevBit |-> b[1], same |-> 0]
  /\ \A k \in 1 .. Len(b) - 1 : U[k] = Step("stuff", U[k - 1], b[k + 1])

IsDestuffing(b, D) ==
  /\ D \in [0 .. Len(b) - 1 -> DestuffStates]
  /\ D[0] = [out |-> <<b[1]>>, prevBit |-> -1, same |-> 0, skip |-> FALSE]
  /\ \A j \in 1 .. Len(b) - 1 : D[j] = Step("destuff", D[j - 1], b[j + 1])

\* The bits after the first one.
LEMMA TailBits ==
  ASSUME NEW b \in Seq(BIT), 1 <= Len(b)
  PROVE  /\ b[1] \in BIT /\ <<b[1]>> \in Seq(BIT)
         /\ Tail(b) \in Seq(BIT) /\ Len(Tail(b)) = Len(b) - 1
         /\ \A k \in 1 .. Len(b) - 1 : Tail(b)[k] = b[k + 1]
PROOF
<1>1. b # <<>> /\ 1 \in 1 .. Len(b)
  OBVIOUS
<1>2. b[1] \in BIT
  BY <1>1, ElementOfSeq
<1> QED  BY <1>1, <1>2, HeadTailProperties

\* The states of the composer when it stuffs a frame.
LEMMA StuffingHasTrace ==
  ASSUME NEW b \in Seq(BIT), 1 <= Len(b)
  PROVE  \E U : IsStuffing(b, U) /\ Stuffed(b) = U[Len(b) - 1].out
PROOF
<1> DEFINE s == [out |-> <<b[1]>>, prevBit |-> b[1], same |-> 0]
           rest == Tail(b)
<1>1. rest \in Seq(BIT) /\ Len(rest) = Len(b) - 1 /\ \A k \in 1 .. Len(b) - 1 : rest[k] = b[k + 1]
  BY TailBits
<1>2. s \in StuffStates
  BY TailBits DEF StuffStates
<1>3. Closed("stuff", StuffStates)
  BY StuffStepIs DEF Closed
<1>4. Stuffed(b) = Loop("stuff", s, rest).out
  BY DEF Stuffed
<1> HIDE DEF s, rest
<1>5. PICK U \in [0 .. Len(rest) -> StuffStates] :
        IsTrace("stuff", s, rest, U) /\ Loop("stuff", s, rest) = U[Len(rest)]
  BY <1>1, <1>2, <1>3, LoopHasTrace
<1>6. U[0] = s /\ \A k \in 1 .. Len(b) - 1 : U[k] = Step("stuff", U[k - 1], b[k + 1])
  BY <1>1, <1>5 DEF IsTrace
<1>7. IsStuffing(b, U)
  BY <1>1, <1>5, <1>6 DEF IsStuffing, s
<1> QED  BY <1>1, <1>4, <1>5, <1>7

\* The states of the parser when it takes stuff bits out.
LEMMA DestuffingHasTrace ==
  ASSUME NEW b \in Seq(BIT), 1 <= Len(b)
  PROVE  \E D : IsDestuffing(b, D) /\ Destuffed(b) = D[Len(b) - 1].out
PROOF
<1> DEFINE s == [out |-> <<b[1]>>, prevBit |-> -1, same |-> 0, skip |-> FALSE]
           rest == Tail(b)
<1>1. rest \in Seq(BIT) /\ Len(rest) = Len(b) - 1 /\ \A k \in 1 .. Len(b) - 1 : rest[k] = b[k + 1]
  BY TailBits
<1>2. s \in DestuffStates
  BY TailBits DEF DestuffStates
<1>3. Closed("destuff", DestuffStates)
  BY DestuffStepIs DEF Closed
<1>4. Destuffed(b) = Loop("destuff", s, rest).out
  BY DEF Destuffed
<1> HIDE DEF s, rest
<1>5. PICK D \in [0 .. Len(rest) -> DestuffStates] :
        IsTrace("destuff", s, rest, D) /\ Loop("destuff", s, rest) = D[Len(rest)]
  BY <1>1, <1>2, <1>3, LoopHasTrace
<1>6. D[0] = s /\ \A k \in 1 .. Len(b) - 1 : D[k] = Step("destuff", D[k - 1], b[k + 1])
  BY <1>1, <1>5 DEF IsTrace
<1>7. IsDestuffing(b, D)
  BY <1>1, <1>5, <1>6 DEF IsDestuffing, s
<1> QED  BY <1>1, <1>4, <1>5, <1>7

\* The stuffed frame only grows, by a bit or two for each bit of the frame, and no
\* run is longer than five.
LEMMA StuffGrows ==
  ASSUME NEW b \in Seq(BIT), NEW n \in Nat, Len(b) = n + 1, NEW U, IsStuffing(b, U)
  PROVE  \A k \in 0 .. n : /\ U[k] \in StuffStates /\ Len(U[k].out) \in Nat
                           /\ k + 1 <= Len(U[k].out) /\ Len(U[k].out) <= 2 * k + 1
                           /\ U[k].same <= 4
                           /\ Prefix(U[k].out, U[n].out)
PROOF
<1>1. \A k \in 0 .. n : U[k] \in StuffStates
  BY DEF IsStuffing
<1>2. \A k \in 0 .. n : U[k].out \in Seq(BIT) /\ Len(U[k].out) \in Nat /\ U[k].same \in Nat
  <2> SUFFICES ASSUME NEW k \in 0 .. n
               PROVE  U[k].out \in Seq(BIT) /\ Len(U[k].out) \in Nat /\ U[k].same \in Nat
    OBVIOUS
  <2>1. U[k].out \in Seq(BIT) /\ U[k].same \in Nat
    BY <1>1 DEF StuffStates
  <2> QED  BY <2>1, LenProperties
<1>3. ASSUME NEW k \in Nat, k + 1 <= n
      PROVE  /\ Prefix(U[k].out, U[k + 1].out)
             /\ Len(U[k + 1].out) \in {Len(U[k].out) + 1, Len(U[k].out) + 2}
             /\ U[k].same <= 4 => U[k + 1].same <= 4
  <2>1. k \in 0 .. n /\ k + 1 \in 1 .. Len(b) - 1 /\ (k + 1) + 1 \in 1 .. Len(b) /\ (k + 1) - 1 = k
    BY <1>3
  <2> DEFINE u == U[k]
             v == U[k + 1]
             c == b[(k + 1) + 1]
  <2>2. u \in StuffStates /\ c \in BIT /\ v = Step("stuff", u, c) /\ u.same \in Nat
    BY <1>1, <1>2, <2>1, ElementOfSeq DEF IsStuffing
  <2> HIDE DEF u, v, c
  <2>3. /\ Prefix(u.out, v.out)
        /\ SameBits(u, c) # 5 => Len(v.out) = Len(u.out) + 1 /\ v.same = SameBits(u, c)
        /\ SameBits(u, c) = 5 => Len(v.out) = Len(u.out) + 2 /\ v.same = 0
    <3>1. Stuffs(u, c, v)
      BY <2>2, StuffStepIs
    <3> QED  BY <3>1 DEF Stuffs
  <2>4. u.same <= 4 /\ SameBits(u, c) # 5 => SameBits(u, c) <= 4
    BY <2>2 DEF SameBits
  <2>5. u.same <= 4 => v.same <= 4
    BY <2>2, <2>3, <2>4
  <2> QED  BY <2>3, <2>5 DEF u, v
<1> DEFINE Good == {k \in Nat : k <= n => /\ k + 1 <= Len(U[k].out) /\ Len(U[k].out) <= 2 * k + 1
                                          /\ U[k].same <= 4}
<1>4. 0 \in Good
  <2>1. Len(U[0].out) = 1 /\ U[0].same = 0
    <3>1. Len(<<b[1]>>) = 1
      OBVIOUS
    <3> QED  BY <3>1 DEF IsStuffing
  <2>2. 0 + 1 <= Len(U[0].out) /\ Len(U[0].out) <= 2 * 0 + 1 /\ U[0].same <= 4
    BY <2>1
  <2> QED  BY <2>2
<1>5. ASSUME NEW k \in Nat, k \in Good PROVE k + 1 \in Good
  <2>1. SUFFICES ASSUME k + 1 <= n
                 PROVE  /\ (k + 1) + 1 <= Len(U[k + 1].out) /\ Len(U[k + 1].out) <= 2 * (k + 1) + 1
                        /\ U[k + 1].same <= 4
    OBVIOUS
  <2>2. k + 1 <= Len(U[k].out) /\ Len(U[k].out) <= 2 * k + 1 /\ U[k].same <= 4
          /\ Len(U[k].out) \in Nat
    BY <1>2, <1>5, <2>1
  <2> DEFINE len == Len(U[k].out)
             len2 == Len(U[k + 1].out)
  <2>3. len2 = len + 1 \/ len2 = len + 2
    BY <1>3, <2>1
  <2>4. U[k + 1].same <= 4
    BY <1>3, <2>1, <2>2
  <2>5. k + 1 <= len /\ len <= 2 * k + 1 /\ len \in Nat
    BY <2>2
  <2> HIDE DEF len, len2
  <2>6. (k + 1) + 1 <= len2 /\ len2 <= 2 * (k + 1) + 1
    BY <2>3, <2>5
  <2> QED  BY <2>4, <2>6 DEF len2
<1>6. \A k \in 0 .. n : k + 1 <= Len(U[k].out) /\ Len(U[k].out) <= 2 * k + 1 /\ U[k].same <= 4
  <2>1. Nat \subseteq Good
    <3> HIDE DEF Good
    <3> QED  BY <1>4, <1>5, Induction
  <2> QED  BY <2>1
<1> DEFINE Back == {d \in Nat : d <= n => Prefix(U[n - d].out, U[n].out)}
<1>7. 0 \in Back
  <2>1. n - 0 = n /\ n \in 0 .. n
    OBVIOUS
  <2>2. Len(U[n].out) \in Nat
    BY <1>2, <2>1
  <2>3. Prefix(U[n].out, U[n].out)
    BY <2>2 DEF Prefix
  <2> QED  BY <2>1, <2>3
<1>8. ASSUME NEW d \in Nat, d \in Back PROVE d + 1 \in Back
  <2>1. SUFFICES ASSUME d + 1 <= n PROVE Prefix(U[n - (d + 1)].out, U[n].out)
    OBVIOUS
  <2> DEFINE k == n - (d + 1)
             x == U[k].out
             y == U[k + 1].out
             z == U[n].out
  <2>2. k \in Nat /\ k + 1 <= n /\ k + 1 = n - d /\ k \in 0 .. n /\ k + 1 \in 0 .. n /\ n \in 0 .. n
    BY <2>1
  <2>3. Prefix(y, z)
    <3>1. d <= n
      BY <2>1
    <3> HIDE DEF k
    <3> QED  BY <1>8, <2>2, <3>1
  <2>4. Prefix(x, y)
    <3> HIDE DEF k
    <3> QED  BY <1>3, <2>2
  <2>5. Len(x) \in Nat /\ Len(y) \in Nat /\ Len(z) \in Nat
    <3> HIDE DEF k
    <3> QED  BY <1>2, <2>2
  <2> HIDE DEF x, y, z
  <2>6. Prefix(x, z)
    BY <2>3, <2>4, <2>5, PrefixOfPrefix
  <2> QED  BY <2>6 DEF x, z
<1>9. \A k \in 0 .. n : Prefix(U[k].out, U[n].out)
  <2>1. Nat \subseteq Back
    <3> HIDE DEF Back
    <3> QED  BY <1>7, <1>8, Induction
  <2> SUFFICES ASSUME NEW k \in 0 .. n PROVE Prefix(U[k].out, U[n].out)
    OBVIOUS
  <2>2. n - k \in Nat /\ n - k <= n /\ n - (n - k) = k
    OBVIOUS
  <2>3. n - k \in Back
    BY <2>1, <2>2
  <2> QED  BY <2>2, <2>3
<1> QED  BY <1>1, <1>2, <1>6, <1>9

\* The parser has the first k + 1 bits of b, and counts the run as the composer does,
\* or both are in the first run, which the parser has begun to count one bit late.
SameRun(u, d) == d.prevBit = u.prevBit /\ d.same = u.same

FirstRun(b, k, u, d) ==
  /\ k <= 3 /\ \A i \in 1 .. k + 1 : b[i] = 0
  /\ u.prevBit = 0 /\ u.same = IF k = 0 THEN 0 ELSE k + 1
  /\ d.prevBit = (IF k = 0 THEN -1 ELSE 0) /\ d.same = IF k <= 1 THEN 0 ELSE k

Coupled(b, k, u, d) ==
  /\ d.skip = FALSE
  /\ Len(d.out) = k + 1 /\ \A i \in 1 .. k + 1 : d.out[i] = b[i]
  /\ SameRun(u, d) \/ FirstRun(b, k, u, d)

\* A stream that agrees with b so far, and one more bit of b.
LEMMA GrownOut ==
  ASSUME NEW b, NEW k \in Nat, NEW out \in Seq(BIT), Len(out) = k + 1,
         \A i \in 1 .. k + 1 : out[i] = b[i], NEW c, c = b[k + 2]
  PROVE  Len(Append(out, c)) = k + 2 /\ \A i \in 1 .. k + 2 : Append(out, c)[i] = b[i]
OBVIOUS

\* One bit of the frame: one step of the composer, one or two of the parser.
LEMMA CoupledStep ==
  ASSUME NEW b, NEW k \in Nat, NEW u \in StuffStates, NEW d \in DestuffStates, Coupled(b, k, u, d),
         NEW c \in BIT, c = b[k + 2], k = 3 => \E i \in 2 .. 5 : b[i] = 1,
         NEW v, v = Step("stuff", u, c), NEW e, e = Step("destuff", d, c),
         NEW e2, e2 = Step("destuff", e, 1 - c)
  PROVE  /\ SameBits(u, c) # 5 => Coupled(b, k + 1, v, e)
         /\ SameBits(u, c) = 5 => Coupled(b, k + 1, v, e2)
PROOF
<1> DEFINE su == SameBits(u, c)
           sd == SameBits(d, c)
<1>1. /\ v \in StuffStates
      /\ su # 5 => v.prevBit = c /\ v.same = su
      /\ su = 5 => v.prevBit = 1 - c /\ v.same = 0
  <2>1. v \in StuffStates /\ Stuffs(u, c, v)
    BY StuffStepIs
  <2> QED  BY <2>1 DEF Stuffs
<1>2. d.skip = FALSE /\ d.out \in Seq(BIT) /\ d.same \in Nat /\ u.same \in Nat
  BY DEF Coupled, DestuffStates, StuffStates
<1>3. /\ e \in DestuffStates /\ e.prevBit = c
      /\ e.out = Append(d.out, c)
      /\ sd = 5 => e.skip = TRUE /\ e.same = 0
      /\ sd # 5 => e.skip = FALSE /\ e.same = sd
  <2>1. e \in DestuffStates /\ Destuffs(d, c, e)
    BY DestuffStepIs
  <2> QED  BY <1>2, <2>1 DEF Destuffs
<1>4. e2.prevBit = 1 - c /\ (e.skip = TRUE => e2.out = e.out /\ e2.same = e.same /\ e2.skip = FALSE)
  <2> DEFINE c2 == 1 - c
  <2>1. c2 \in BIT /\ e2 = Step("destuff", e, c2)
    BY BitValues
  <2> HIDE DEF c2
  <2>2. e2.prevBit = c2 /\ (e.skip = TRUE => e2.out = e.out /\ e2.same = e.same /\ e2.skip = FALSE)
    <3>1. Destuffs(e, c2, e2)
      BY <1>3, <2>1, DestuffStepIs
    <3> QED  BY <3>1 DEF Destuffs
  <2> QED  BY <2>2 DEF c2
<1>5. Len(e.out) = k + 2 /\ \A i \in 1 .. k + 2 : e.out[i] = b[i]
  <2>1. Len(d.out) = k + 1 /\ \A i \in 1 .. k + 1 : d.out[i] = b[i]
    BY DEF Coupled
  <2> DEFINE out == d.out
  <2>2. out \in Seq(BIT) /\ Len(out) = k + 1 /\ \A i \in 1 .. k + 1 : out[i] = b[i]
    BY <1>2, <2>1
  <2> HIDE DEF out
  <2>3. Len(Append(out, c)) = k + 2 /\ \A i \in 1 .. k + 2 : Append(out, c)[i] = b[i]
    BY <2>2, GrownOut
  <2>4. e.out = Append(out, c)
    BY <1>3 DEF out
  <2> QED  BY <2>3, <2>4
<1>6. CASE SameRun(u, d)
  <2>1. sd = su
    BY <1>6 DEF SameRun, SameBits
  <2>2. CASE su # 5
    <3>1. SameRun(v, e) /\ e.skip = FALSE
      BY <1>1, <1>3, <2>1, <2>2 DEF SameRun
    <3> QED  BY <1>5, <2>2, <3>1 DEF Coupled
  <2>3. CASE su = 5
    <3>1. e.skip = TRUE /\ e.same = 0
      BY <1>3, <2>1, <2>3
    <3>2. SameRun(v, e2) /\ e2.skip = FALSE /\ e2.out = e.out
      BY <1>1, <1>4, <2>3, <3>1 DEF SameRun
    <3> QED  BY <1>5, <2>3, <3>2 DEF Coupled
  <2> QED  BY <2>2, <2>3
<1>7. CASE FirstRun(b, k, u, d)
  <2>1. /\ k \in 0 .. 3 /\ \A i \in 1 .. k + 1 : b[i] = 0
        /\ u.prevBit = 0 /\ u.same = IF k = 0 THEN 0 ELSE k + 1
        /\ d.prevBit = (IF k = 0 THEN -1 ELSE 0) /\ d.same = IF k <= 1 THEN 0 ELSE k
    BY <1>7 DEF FirstRun
  <2>2. CASE c = 1
    <3>1. su = 0 /\ sd = 0
      BY <2>1, <2>2 DEF SameBits
    <3>2. SameRun(v, e) /\ e.skip = FALSE
      <4> HIDE DEF su, sd
      <4> QED  BY <1>1, <1>3, <3>1 DEF SameRun
    <3> QED  BY <1>5, <3>1, <3>2 DEF Coupled
  <2>3. CASE c = 0
    <3>1. k # 3
      <4> SUFFICES ASSUME k = 3 PROVE FALSE
        OBVIOUS
      <4>1. b[1] = 0 /\ b[2] = 0 /\ b[3] = 0 /\ b[4] = 0 /\ b[5] = 0
        BY <2>1, <2>3
      <4>2. \A i \in 2 .. 5 : b[i] = 0
        BY <4>1
      <4> QED  BY <4>2
    <3>2. su = k + 2 /\ su # 5
      BY <2>1, <2>3, <3>1 DEF SameBits
    <3>3. sd = (IF k = 0 THEN 0 ELSE k + 1) /\ sd # 5
      <4>1. CASE k = 0
        <5>1. d.prevBit = -1
          BY <2>1, <4>1
        <5> QED  BY <2>3, <4>1, <5>1 DEF SameBits
      <4>2. CASE k = 1
        <5>1. d.prevBit = 0 /\ d.same = 0
          BY <2>1, <4>2
        <5> QED  BY <2>3, <4>2, <5>1 DEF SameBits
      <4>3. CASE k = 2
        <5>1. d.prevBit = 0 /\ d.same = 2
          BY <2>1, <4>3
        <5> QED  BY <2>3, <4>3, <5>1 DEF SameBits
      <4> QED  BY <2>1, <3>1, <4>1, <4>2, <4>3
    <3>4. \A i \in 1 .. k + 2 : b[i] = 0
      <4> SUFFICES ASSUME NEW i \in 1 .. k + 2 PROVE b[i] = 0
        OBVIOUS
      <4>1. i \in 1 .. k + 1 \/ i = k + 2
        OBVIOUS
      <4> QED  BY <2>1, <2>3, <4>1
    <3>5. v.prevBit = 0 /\ v.same = k + 2 /\ e.prevBit = 0 /\ e.skip = FALSE
            /\ e.same = IF k = 0 THEN 0 ELSE k + 1
      BY <1>1, <1>3, <2>3, <3>2, <3>3
    <3>6. FirstRun(b, k + 1, v, e)
      BY <2>1, <3>1, <3>4, <3>5 DEF FirstRun
    <3> QED  BY <1>5, <3>2, <3>5, <3>6 DEF Coupled
  <2> QED  BY <2>2, <2>3 DEF BIT
<1> QED  BY <1>6, <1>7 DEF Coupled

\* The parser takes the stuff bits out of a stream that begins with the stuffed frame,
\* whatever follows it, unless the frame begins with five equal bits.
LEMMA Recovered ==
  ASSUME NEW b \in Seq(BIT), NEW n \in Nat, Len(b) = n + 1, 4 <= n,
         b[1] = 0, \E i \in 2 .. 5 : b[i] = 1,
         NEW r \in Seq(BIT), 1 <= Len(r), Prefix(Stuffed(b), r)
  PROVE  Destuffed(r) \in Seq(BIT) /\ Prefix(b, Destuffed(r))
PROOF
<1>1. PICK U : IsStuffing(b, U) /\ Stuffed(b) = U[n].out
  <2>1. 1 <= Len(b) /\ Len(b) - 1 = n
    OBVIOUS
  <2> QED  BY <2>1, StuffingHasTrace
<1>2. PICK D : IsDestuffing(r, D) /\ Destuffed(r) = D[Len(r) - 1].out
  BY DestuffingHasTrace
<1>3. \A k \in 0 .. n : /\ U[k] \in StuffStates /\ Len(U[k].out) \in Nat
                        /\ k + 1 <= Len(U[k].out) /\ Prefix(U[k].out, U[n].out)
  BY <1>1, StuffGrows
<1> DEFINE len == Len(r)
           w == U[n].out
<1>4. /\ len \in Nat /\ 1 <= len /\ Len(w) \in Nat /\ Len(w) <= len
      /\ \A i \in 1 .. Len(w) : r[i] = w[i]
  <2>1. len \in Nat
    BY LenProperties
  <2>2. n \in 0 .. n
    OBVIOUS
  <2> QED  BY <1>1, <1>3, <2>1, <2>2 DEF Prefix
<1>5. /\ \A j \in 0 .. len - 1 : D[j] \in DestuffStates
      /\ \A j \in 1 .. len - 1 : D[j] = Step("destuff", D[j - 1], r[j + 1])
      /\ D[0] = [out |-> <<r[1]>>, prevBit |-> -1, same |-> 0, skip |-> FALSE]
  BY <1>2 DEF IsDestuffing
<1>6. /\ U[0] = [out |-> <<b[1]>>, prevBit |-> b[1], same |-> 0]
      /\ \A k \in 1 .. n : U[k] = Step("stuff", U[k - 1], b[k + 1])
  BY <1>1 DEF IsStuffing
<1> HIDE DEF len, w
<1> DEFINE Good == {k \in Nat : k <= n => Coupled(b, k, U[k], D[Len(U[k].out) - 1])}
<1>7. 0 \in Good
  <2>1. U[0].out = <<0>> /\ U[0].prevBit = 0 /\ U[0].same = 0
    BY <1>6
  <2>2. Len(U[0].out) = 1
    BY <2>1
  <2>3. r[1] = 0
    <3>1. 0 \in 0 .. n /\ 1 \in 1 .. Len(U[0].out)
      BY <2>2
    <3>2. Prefix(U[0].out, w)
      BY <1>3, <3>1 DEF w
    <3>3. w[1] = 0 /\ 1 \in 1 .. Len(w)
      <4>1. U[0].out[1] = 0
        BY <2>1
      <4> QED  BY <1>4, <2>2, <3>1, <3>2, <4>1 DEF Prefix
    <3> QED  BY <1>4, <3>3
  <2>4. D[0].out = <<0>> /\ D[0].prevBit = -1 /\ D[0].same = 0 /\ D[0].skip = FALSE
    BY <1>5, <2>3
  <2>5. FirstRun(b, 0, U[0], D[0])
    BY <2>1, <2>4 DEF FirstRun
  <2>6. Len(D[0].out) = 0 + 1 /\ \A i \in 1 .. 0 + 1 : D[0].out[i] = b[i]
    BY <2>4
  <2>7. Coupled(b, 0, U[0], D[0])
    BY <2>4, <2>5, <2>6 DEF Coupled
  <2>8. Len(U[0].out) - 1 = 0
    BY <2>2
  <2> QED  BY <2>7, <2>8
<1>8. ASSUME NEW k \in Nat, k \in Good PROVE k + 1 \in Good
  <2>1. SUFFICES ASSUME k + 1 <= n PROVE Coupled(b, k + 1, U[k + 1], D[Len(U[k + 1].out) - 1])
    OBVIOUS
  <2>2. k \in 0 .. n /\ k + 1 \in 0 .. n /\ k + 1 \in 1 .. n /\ (k + 1) - 1 = k
          /\ k + 2 \in 1 .. Len(b) /\ (k + 1) + 1 = k + 2
    BY <2>1
  <2> DEFINE u == U[k]
             v == U[k + 1]
             m == Len(u.out)
             m2 == Len(v.out)
             c == b[k + 2]
             d == D[m - 1]
             e == D[m]
  <2>3. u \in StuffStates /\ v \in StuffStates /\ v = Step("stuff", u, c) /\ c \in BIT
    BY <1>3, <1>6, <2>2, ElementOfSeq
  <2>4. m \in Nat /\ m2 \in Nat /\ 1 <= m /\ Prefix(v.out, w)
    BY <1>3, <2>2 DEF w
  <2>5. Coupled(b, k, u, d)
    BY <1>8, <2>1
  <2>6. /\ v.out[m + 1] = c
        /\ SameBits(u, c) # 5 => m2 = m + 1
        /\ SameBits(u, c) = 5 => m2 = m + 2 /\ v.out[m + 2] = 1 - c
    <3> HIDE DEF u, v, c
    <3>1. Stuffs(u, c, v)
      BY <2>3, StuffStepIs
    <3> QED  BY <3>1 DEF Stuffs
  <2> DEFINE W == Len(w)
  <2>7. m + 1 <= m2 /\ m2 <= W /\ \A i \in 1 .. m2 : w[i] = v.out[i]
    <3> HIDE DEF u, v, c, m
    <3>1. m2 <= Len(w) /\ \A i \in 1 .. m2 : w[i] = v.out[i]
      BY <2>4 DEF Prefix
    <3> QED  BY <2>4, <2>6, <3>1
  <2>8. r[m + 1] = c /\ (SameBits(u, c) = 5 => r[m + 2] = 1 - c)
    <3> HIDE DEF u, v, c, m, m2
    <3>1. m + 1 \in 1 .. m2 /\ m + 1 \in 1 .. Len(w)
      BY <1>4, <2>4, <2>7
    <3>2. SameBits(u, c) = 5 => m + 2 \in 1 .. m2 /\ m + 2 \in 1 .. Len(w)
      BY <1>4, <2>4, <2>6, <2>7
    <3> QED  BY <1>4, <2>6, <2>7, <3>1, <3>2
  <2>9. d \in DestuffStates /\ e = Step("destuff", d, c)
    <3> HIDE DEF u, v, c, m2, d, e
    <3>1. m - 1 \in 0 .. len - 1 /\ m \in 1 .. len - 1
      BY <1>4, <2>4, <2>7
    <3> HIDE DEF m
    <3> QED  BY <1>5, <2>8, <3>1 DEF d, e
  <2> DEFINE e2 == Step("destuff", e, 1 - c)
  <2>10. SameBits(u, c) = 5 => e2 = D[m + 1]
    <3> SUFFICES ASSUME SameBits(u, c) = 5 PROVE e2 = D[m + 1]
      OBVIOUS
    <3> HIDE DEF u, v, c, m, m2
    <3>1. m + 1 \in 1 .. len - 1 /\ (m + 1) - 1 = m /\ (m + 1) + 1 = m + 2
      BY <1>4, <2>4, <2>6, <2>7
    <3> QED  BY <1>5, <2>8, <3>1
  <2>11. /\ SameBits(u, c) # 5 => Coupled(b, k + 1, v, e)
         /\ SameBits(u, c) = 5 => Coupled(b, k + 1, v, e2)
    <3> HIDE DEF u, v, m, m2, d, e, e2
    <3>1. k = 3 => \E i \in 2 .. 5 : b[i] = 1
      OBVIOUS
    <3>2. c = b[k + 2]
      OBVIOUS
    <3> HIDE DEF c
    <3> QED  BY <2>3, <2>5, <2>9, <3>1, <3>2, CoupledStep DEF e2
  <2>12. CASE SameBits(u, c) # 5
    <3>1. m2 - 1 = m
      BY <2>4, <2>6, <2>12
    <3> QED  BY <2>11, <2>12, <3>1
  <2>13. CASE SameBits(u, c) = 5
    <3>1. m2 - 1 = m + 1
      BY <2>4, <2>6, <2>13
    <3> QED  BY <2>10, <2>11, <2>13, <3>1
  <2> QED  BY <2>12, <2>13
<1>9. Coupled(b, n, U[n], D[Len(w) - 1])
  <2>1. n \in Good
    <3> HIDE DEF Good
    <3> QED  BY <1>7, <1>8, Induction
  <2> QED  BY <2>1 DEF w
<1>10. Len(w) - 1 \in 0 .. len - 1
  <2>1. n + 1 <= Len(w)
    BY <1>3, n \in 0 .. n DEF w
  <2> QED  BY <1>4, <2>1
<1> DEFINE first == Len(w) - 1
           last == len - 1
           Later == {j \in Nat : first + j <= last => Prefix(b, D[first + j].out)}
<1>11. \A j \in 0 .. last : D[j].out \in Seq(BIT) /\ Len(D[j].out) \in Nat
  <2> SUFFICES ASSUME NEW j \in 0 .. last PROVE D[j].out \in Seq(BIT) /\ Len(D[j].out) \in Nat
    OBVIOUS
  <2>1. D[j].out \in Seq(BIT)
    BY <1>5 DEF DestuffStates
  <2> QED  BY <2>1, LenProperties
<1> HIDE DEF first, last
<1>12. 0 \in Later
  <2>1. Prefix(b, D[first].out)
    BY <1>9 DEF Coupled, Prefix, first
  <2>2. first + 0 = first
    BY <1>10 DEF first
  <2> QED  BY <2>1, <2>2
<1>13. ASSUME NEW j \in Nat, j \in Later PROVE j + 1 \in Later
  <2>1. SUFFICES ASSUME first + (j + 1) <= last PROVE Prefix(b, D[first + (j + 1)].out)
    OBVIOUS
  <2> DEFINE i == first + j
             x == D[i]
             y == D[i + 1]
             c == r[i + 2]
  <2>2. i \in 0 .. last /\ i + 1 \in 1 .. last /\ i + 1 \in 0 .. last
          /\ first + (j + 1) = i + 1 /\ (i + 1) - 1 = i
          /\ i + 2 \in 1 .. len /\ (i + 1) + 1 = i + 2 /\ i <= last
    BY <1>4, <1>10, <2>1 DEF first, last
  <2>3. Prefix(b, x.out)
    BY <1>13, <2>2
  <2> HIDE DEF i
  <2>4. x \in DestuffStates /\ c \in BIT /\ y = Step("destuff", x, c)
    BY <1>5, <2>2, ElementOfSeq DEF last, len
  <2>5. Len(x.out) \in Nat /\ Len(y.out) \in Nat
    BY <1>11, <2>2
  <2> HIDE DEF x, y, c
  <2>6. Prefix(x.out, y.out)
    <3>1. Destuffs(x, c, y)
      BY <2>4, DestuffStepIs
    <3> QED  BY <3>1 DEF Destuffs
  <2>7. Prefix(b, y.out)
    <3>1. Len(b) \in Nat
      BY LenProperties
    <3> QED  BY <2>3, <2>5, <2>6, <3>1, PrefixOfPrefix
  <2> QED  BY <2>2, <2>7 DEF y
<1>14. Prefix(b, D[last].out)
  <2>1. Nat \subseteq Later
    <3> HIDE DEF Later
    <3> QED  BY <1>12, <1>13, Induction
  <2>2. last - first \in Nat /\ first + (last - first) = last /\ last <= last
    BY <1>4, <1>10 DEF first, last
  <2>3. last - first \in Later
    BY <2>1, <2>2
  <2> QED  BY <2>2, <2>3
<1>15. D[last].out \in Seq(BIT)
  <2>1. last \in 0 .. last
    BY <1>4 DEF last
  <2> QED  BY <1>11, <2>1
<1> QED  BY <1>2, <1>14, <1>15 DEF last, len

\* The sampler has taken every bit that the composer has written, and counts no run
\* longer than the composer does by more than two: it begins with a prevBit of 0.
Sampled(u, q) ==
  /\ q.count = Len(u.out) /\ q.prevBit = u.prevBit
  /\ u.same <= 4 /\ u.same <= q.same /\ q.same <= u.same + 2

\* One bit of the frame: one step of the composer, one or two of the sampler, which
\* does not stop between them.
LEMMA SampledStep ==
  ASSUME NEW u \in StuffStates, NEW q \in SampleStates, Sampled(u, q),
         NEW c \in BIT, NEW v, v = Step("stuff", u, c), NEW e, e = Step("sample", q, c),
         NEW e2, e2 = Step("sample", e, 1 - c)
  PROVE  /\ SameBits(u, c) # 5 => Sampled(v, e)
         /\ SameBits(u, c) = 5 => Sampled(v, e2)
PROOF
<1> DEFINE su == SameBits(u, c)
           sq == SameBits(q, c)
<1>1. /\ su # 5 => Len(v.out) = Len(u.out) + 1 /\ v.prevBit = c /\ v.same = su
      /\ su = 5 => Len(v.out) = Len(u.out) + 2 /\ v.prevBit = 1 - c /\ v.same = 0
  <2>1. Stuffs(u, c, v)
    BY StuffStepIs
  <2> QED  BY <2>1 DEF Stuffs
<1>2. u.same \in Nat /\ q.same \in Nat /\ q.count \in Nat
  BY DEF StuffStates, SampleStates
<1>3. /\ q.count = Len(u.out) /\ q.prevBit = u.prevBit
      /\ u.same <= 4 /\ u.same <= q.same /\ q.same <= u.same + 2
  BY DEF Sampled
<1>4. e \in SampleStates /\ e.count = q.count + 1 /\ e.prevBit = c /\ e.same = sq
  <2>1. e \in SampleStates /\ TakesSample(q, c, e)
    BY SampleStepIs
  <2>2. q.same # 10
    BY <1>2, <1>3
  <2> QED  BY <2>1, <2>2 DEF TakesSample
<1>5. su <= 5 /\ su <= sq /\ sq <= su + 2 /\ su \in Nat /\ sq \in Nat
  BY <1>2, <1>3 DEF SameBits
<1>6. e2.count = e.count + 1 /\ e2.prevBit = 1 - c /\ e2.same = 0
  <2> DEFINE c2 == 1 - c
  <2>1. c2 \in BIT /\ e2 = Step("sample", e, c2) /\ c2 # c
    BY BitValues
  <2> HIDE DEF c2
  <2>2. TakesSample(e, c2, e2)
    BY <1>4, <2>1, SampleStepIs
  <2>3. e.same # 10
    BY <1>4, <1>5
  <2>4. SameBits(e, c2) = 0
    BY <1>4, <2>1 DEF SameBits
  <2>5. e2.count = e.count + 1 /\ e2.prevBit = c2 /\ e2.same = 0
    BY <2>2, <2>3, <2>4 DEF TakesSample
  <2> QED  BY <2>5 DEF c2
<1> HIDE DEF su, sq
<1>7. CASE su # 5
  BY <1>1, <1>3, <1>4, <1>5, <1>7 DEF Sampled, su
<1>8. CASE su = 5
  <2>1. e2.count = Len(v.out)
    BY <1>1, <1>2, <1>3, <1>4, <1>6, <1>8
  <2> QED  BY <1>1, <1>6, <1>8, <2>1 DEF Sampled, su
<1> QED  BY <1>7, <1>8 DEF su

\* The number of bits of r that the sampler takes with stuffing.
Taken(r) == Loop("sample", [count |-> 0, prevBit |-> 0, same |-> 0], r).count

\* The sampler takes the whole of the stuffed frame, whatever follows it.
LEMMA TakenUp ==
  ASSUME NEW b \in Seq(BIT), NEW n \in Nat, Len(b) = n + 1, b[1] = 0,
         NEW r \in Seq(BIT), Prefix(Stuffed(b), r)
  PROVE  Taken(r) \in Nat /\ Len(Stuffed(b)) <= Taken(r)
PROOF
<1> DEFINE s == [count |-> 0, prevBit |-> 0, same |-> 0]
           len == Len(r)
<1>1. PICK U : IsStuffing(b, U) /\ Stuffed(b) = U[n].out
  <2>1. 1 <= Len(b) /\ Len(b) - 1 = n
    OBVIOUS
  <2> QED  BY <2>1, StuffingHasTrace
<1>2. PICK Q \in [0 .. Len(r) -> SampleStates] :
        IsTrace("sample", s, r, Q) /\ Loop("sample", s, r) = Q[Len(r)]
  <2>1. Closed("sample", SampleStates)
    BY SampleStepIs DEF Closed
  <2>2. s \in SampleStates
    BY BitValues DEF SampleStates
  <2> HIDE DEF s
  <2> QED  BY <2>1, <2>2, LoopHasTrace
<1>3. \A k \in 0 .. n : /\ U[k] \in StuffStates /\ Len(U[k].out) \in Nat
                        /\ k + 1 <= Len(U[k].out) /\ Prefix(U[k].out, U[n].out)
  BY <1>1, StuffGrows
<1> DEFINE w == U[n].out
<1>4. len \in Nat /\ Len(w) \in Nat /\ Len(w) <= len /\ \A i \in 1 .. Len(w) : r[i] = w[i]
  <2>1. len \in Nat
    BY LenProperties
  <2>2. n \in 0 .. n
    OBVIOUS
  <2> QED  BY <1>1, <1>3, <2>1, <2>2 DEF Prefix
<1>5. /\ Q[0] = s
      /\ \A j \in 0 .. len : Q[j] \in SampleStates
      /\ \A j \in 1 .. len : Q[j] = Step("sample", Q[j - 1], r[j])
  BY <1>2 DEF IsTrace
<1>6. /\ U[0] = [out |-> <<b[1]>>, prevBit |-> b[1], same |-> 0]
      /\ \A k \in 1 .. n : U[k] = Step("stuff", U[k - 1], b[k + 1])
  BY <1>1 DEF IsStuffing
<1> HIDE DEF len, w, s
<1> DEFINE Good == {k \in Nat : k <= n => Sampled(U[k], Q[Len(U[k].out)])}
<1>7. 0 \in Good
  <2>1. U[0].out = <<0>> /\ U[0].prevBit = 0 /\ U[0].same = 0
    BY <1>6
  <2>2. Len(U[0].out) = 1 /\ U[0].out[1] = 0
    BY <2>1
  <2>3. r[1] = 0 /\ 1 \in 1 .. len
    <3>1. 0 \in 0 .. n /\ 1 \in 1 .. Len(U[0].out)
      BY <2>2
    <3>2. Prefix(U[0].out, w)
      BY <1>3, <3>1 DEF w
    <3>3. w[1] = 0 /\ 1 \in 1 .. Len(w)
      BY <1>4, <2>2, <3>1, <3>2 DEF Prefix
    <3> QED  BY <1>4, <3>3
  <2>4. Q[1] = Step("sample", Q[0], 0)
    <3>1. 1 - 1 = 0
      OBVIOUS
    <3> QED  BY <1>5, <2>3, <3>1
  <2>5. Q[0].count = 0 /\ Q[0].prevBit = 0 /\ Q[0].same = 0
    BY <1>5 DEF s
  <2>6. Q[1].count = 1 /\ Q[1].prevBit = 0 /\ Q[1].same = 2
    <3> DEFINE c == 0
               q == Q[0]
               q1 == Q[1]
    <3>1. q \in SampleStates /\ c \in BIT /\ q1 = Step("sample", q, c)
      BY <1>4, <1>5, <2>4, BitValues
    <3>2. SameBits(q, c) = 2
      BY <2>5 DEF SameBits
    <3> HIDE DEF c, q, q1
    <3>3. TakesSample(q, c, q1)
      BY <3>1, SampleStepIs
    <3>4. q.same # 10 => q1.count = q.count + 1 /\ q1.prevBit = c /\ q1.same = 2
      BY <3>2, <3>3 DEF TakesSample
    <3> QED  BY <2>5, <3>4 DEF c, q, q1
  <2>7. Sampled(U[0], Q[1])
    BY <2>1, <2>2, <2>6 DEF Sampled
  <2> QED  BY <2>2, <2>7
<1>8. ASSUME NEW k \in Nat, k \in Good PROVE k + 1 \in Good
  <2>1. SUFFICES ASSUME k + 1 <= n PROVE Sampled(U[k + 1], Q[Len(U[k + 1].out)])
    OBVIOUS
  <2>2. k \in 0 .. n /\ k + 1 \in 0 .. n /\ k + 1 \in 1 .. n /\ (k + 1) - 1 = k
          /\ k + 2 \in 1 .. Len(b) /\ (k + 1) + 1 = k + 2
    BY <2>1
  <2> DEFINE u == U[k]
             v == U[k + 1]
             m == Len(u.out)
             m2 == Len(v.out)
             c == b[k + 2]
             q == Q[m]
             e == Q[m + 1]
  <2>3. u \in StuffStates /\ v = Step("stuff", u, c) /\ c \in BIT
    BY <1>3, <1>6, <2>2, ElementOfSeq
  <2>4. m \in Nat /\ m2 \in Nat /\ Prefix(v.out, w)
    BY <1>3, <2>2 DEF w
  <2>5. Sampled(u, q)
    BY <1>8, <2>1
  <2>6. /\ v.out[m + 1] = c
        /\ SameBits(u, c) # 5 => m2 = m + 1
        /\ SameBits(u, c) = 5 => m2 = m + 2 /\ v.out[m + 2] = 1 - c
    <3> HIDE DEF u, v, c
    <3>1. Stuffs(u, c, v)
      BY <2>3, StuffStepIs
    <3> QED  BY <3>1 DEF Stuffs
  <2>7. m + 1 <= m2 /\ m2 <= Len(w) /\ \A i \in 1 .. m2 : w[i] = v.out[i]
    <3> HIDE DEF u, v, c, m
    <3>1. m2 <= Len(w) /\ \A i \in 1 .. m2 : w[i] = v.out[i]
      BY <2>4 DEF Prefix
    <3> QED  BY <2>4, <2>6, <3>1
  <2>8. r[m + 1] = c /\ (SameBits(u, c) = 5 => r[m + 2] = 1 - c)
    <3> HIDE DEF u, v, c, m, m2
    <3>1. m + 1 \in 1 .. m2 /\ m + 1 \in 1 .. Len(w)
      BY <1>4, <2>4, <2>7
    <3>2. SameBits(u, c) = 5 => m + 2 \in 1 .. m2 /\ m + 2 \in 1 .. Len(w)
      BY <1>4, <2>4, <2>6, <2>7
    <3> QED  BY <1>4, <2>6, <2>7, <3>1, <3>2
  <2>9. q \in SampleStates /\ e = Step("sample", q, c)
    <3> HIDE DEF u, v, c, m2, q, e
    <3>1. m \in 0 .. len /\ m + 1 \in 1 .. len /\ (m + 1) - 1 = m
      BY <1>4, <2>4, <2>7
    <3> HIDE DEF m
    <3> QED  BY <1>5, <2>8, <3>1 DEF q, e
  <2> DEFINE e2 == Step("sample", e, 1 - c)
  <2>10. SameBits(u, c) = 5 => e2 = Q[m + 2]
    <3> SUFFICES ASSUME SameBits(u, c) = 5 PROVE e2 = Q[m + 2]
      OBVIOUS
    <3> HIDE DEF u, v, c, m, m2
    <3>1. m + 2 \in 1 .. len /\ (m + 2) - 1 = m + 1
      BY <1>4, <2>4, <2>6, <2>7
    <3> QED  BY <1>5, <2>8, <3>1
  <2>11. /\ SameBits(u, c) # 5 => Sampled(v, e)
         /\ SameBits(u, c) = 5 => Sampled(v, e2)
    <3> HIDE DEF u, v, m, m2, q, e, e2, c
    <3> QED  BY <2>3, <2>5, <2>9, SampledStep DEF e2
  <2>12. CASE SameBits(u, c) # 5
    <3>1. m2 = m + 1
      BY <2>6, <2>12
    <3> QED  BY <2>11, <2>12, <3>1
  <2>13. CASE SameBits(u, c) = 5
    <3>1. m2 = m + 2
      BY <2>6, <2>13
    <3> QED  BY <2>10, <2>11, <2>13, <3>1
  <2> QED  BY <2>12, <2>13
<1> DEFINE first == Len(w)
<1>9. Q[first].count = first
  <2>1. n \in Good
    <3> HIDE DEF Good
    <3> QED  BY <1>7, <1>8, Induction
  <2> QED  BY <2>1 DEF w, Sampled
<1>10. \A j \in 0 .. len : Q[j].count \in Nat
  BY <1>5 DEF SampleStates
<1> DEFINE Later == {j \in Nat : first + j <= len => first <= Q[first + j].count}
<1> HIDE DEF first
<1>11. first \in Nat /\ first <= len /\ len \in Nat
  BY <1>4 DEF first
<1>12. 0 \in Later
  <2>1. first + 0 = first /\ first <= first
    BY <1>11
  <2> QED  BY <1>9, <2>1
<1>13. ASSUME NEW j \in Nat, j \in Later PROVE j + 1 \in Later
  <2>1. SUFFICES ASSUME first + (j + 1) <= len PROVE first <= Q[first + (j + 1)].count
    OBVIOUS
  <2> DEFINE i == first + j
             q == Q[i]
             e == Q[i + 1]
             c == r[i + 1]
  <2>2. i \in 0 .. len /\ i + 1 \in 1 .. len /\ i + 1 \in 0 .. len /\ first + (j + 1) = i + 1
          /\ (i + 1) - 1 = i /\ i <= len
    BY <1>11, <2>1
  <2>3. first <= q.count
    BY <1>13, <2>2
  <2> HIDE DEF i
  <2>4. q \in SampleStates /\ c \in BIT /\ e = Step("sample", q, c)
    BY <1>5, <2>2, ElementOfSeq DEF len
  <2>5. q.count \in Nat
    BY <1>10, <2>2
  <2> HIDE DEF q, e, c
  <2>6. TakesSample(q, c, e)
    BY <2>4, SampleStepIs
  <2>7. first <= e.count
    BY <1>11, <2>3, <2>5, <2>6 DEF TakesSample
  <2> QED  BY <2>2, <2>7 DEF e
<1>14. Q[len].count \in Nat /\ first <= Q[len].count
  <2>1. Nat \subseteq Later
    <3> HIDE DEF Later
    <3> QED  BY <1>12, <1>13, Induction
  <2>2. len - first \in Nat /\ first + (len - first) = len /\ len <= len /\ len \in 0 .. len
    BY <1>11
  <2>3. len - first \in Later
    BY <2>1, <2>2
  <2> QED  BY <1>10, <2>2, <2>3
<1>15. Taken(r) = Loop("sample", s, r).count
  BY DEF Taken, s
<1> QED  BY <1>1, <1>2, <1>14, <1>15 DEF first, len, w

-----------------------------------------------------------------------------
(* A frame goes over the line and is collected.                            *)

\* What the composer writes before the interval between two frames.
Core == IF stuffing THEN Stuffed(FrameBits(sent)) ELSE FrameBits(sent)

\* The identifiers from 128 have a recessive bit among the four highest.
LEMMA HighBits ==
  ASSUME NEW n \in Nat, 128 <= n, n <= 2047
  PROVE  \E i \in 1 .. 4 : Bits(n, 11)[i] = 1
PROOF
<1>1. PICK h \in [0 .. 11 -> Nat] :
        IsHalving(n, 11, h) /\ Bits(n, 11) = [i \in 1 .. 11 |-> h[11 - i] % 2]
  <2>1. HalvesToBits(n, 11)
    <3> DEFINE width == 11
    <3>1. width \in Nat
      OBVIOUS
    <3> HIDE DEF width
    <3>2. HalvesToBits(n, width)
      BY <3>1, BitsOfHalving
    <3> QED  BY <3>2 DEF width
  <2> QED  BY <2>1 DEF HalvesToBits
<1>2. h \in [0 .. 11 -> Nat] /\ h[0] = n /\ \A k \in 1 .. 11 : h[k] = h[k - 1] \div 2
  BY <1>1 DEF IsHalving
<1> DEFINE low(k) == h[k] % 2
<1>3. ASSUME NEW k \in 1 .. 11
      PROVE  /\ h[k - 1] \in Nat /\ h[k] \in Nat /\ low(k - 1) \in 0 .. 1
             /\ 2 * h[k] + low(k - 1) = h[k - 1]
  <2>1. h[k - 1] \in Nat /\ h[k] \in Nat /\ h[k] = h[k - 1] \div 2
    BY <1>2
  <2> DEFINE x == h[k - 1]
  <2>2. x \in Nat
    BY <2>1
  <2>3. 2 * (x \div 2) + (x % 2) = x /\ x % 2 \in 0 .. 1
    <3> HIDE DEF x
    <3> QED  BY <2>2, Half
  <2> QED  BY <2>1, <2>3
<1>5. \A i \in 1 .. 11 : Bits(n, 11)[i] = low(11 - i)
  BY <1>1
<1> HIDE DEF low
<1>4. \A k \in 1 .. 11 : /\ h[k - 1] \in Nat /\ h[k] \in Nat /\ low(k - 1) \in 0 .. 1
                         /\ 2 * h[k] + low(k - 1) = h[k - 1]
  BY <1>3
<1>6. /\ 2 * h[1] <= n /\ n <= 2 * h[1] + 1 /\ 2 * h[2] <= h[1] /\ h[1] <= 2 * h[2] + 1
      /\ 2 * h[3] <= h[2] /\ h[2] <= 2 * h[3] + 1 /\ 2 * h[4] <= h[3] /\ h[3] <= 2 * h[4] + 1
      /\ 2 * h[5] <= h[4] /\ h[4] <= 2 * h[5] + 1 /\ 2 * h[6] <= h[5] /\ h[5] <= 2 * h[6] + 1
      /\ 2 * h[7] <= h[6] /\ h[6] <= 2 * h[7] + 1
  <2>1. \A k \in 1 .. 11 : /\ h[k - 1] \in Nat /\ h[k] \in Nat
                           /\ 2 * h[k] <= h[k - 1] /\ h[k - 1] <= 2 * h[k] + 1
    <3> SUFFICES ASSUME NEW k \in 1 .. 11
                 PROVE  /\ h[k - 1] \in Nat /\ h[k] \in Nat
                        /\ 2 * h[k] <= h[k - 1] /\ h[k - 1] <= 2 * h[k] + 1
      OBVIOUS
    <3> QED  BY <1>4
  <2> QED  BY <1>2, <2>1
<1>7. /\ h[1] \in Nat /\ h[2] \in Nat /\ h[3] \in Nat /\ h[4] \in Nat /\ h[5] \in Nat
      /\ h[6] \in Nat /\ h[7] \in Nat /\ h[8] \in Nat /\ h[9] \in Nat /\ h[10] \in Nat
      /\ h[11] \in Nat
  BY <1>2
<1>8. 1 <= h[7] /\ h[7] <= 15
  BY <1>6, <1>7
<1>9. /\ low(7) \in 0 .. 1 /\ low(8) \in 0 .. 1 /\ low(9) \in 0 .. 1 /\ low(10) \in 0 .. 1
      /\ 2 * h[8] + low(7) = h[7] /\ 2 * h[9] + low(8) = h[8]
      /\ 2 * h[10] + low(9) = h[9] /\ 2 * h[11] + low(10) = h[10]
  BY <1>4
<1>10. low(7) = 1 \/ low(8) = 1 \/ low(9) = 1 \/ low(10) = 1
  BY <1>7, <1>8, <1>9
<1>11. /\ Bits(n, 11)[1] = low(10) /\ Bits(n, 11)[2] = low(9)
       /\ Bits(n, 11)[3] = low(8) /\ Bits(n, 11)[4] = low(7)
  BY <1>5
<1> QED  BY <1>10, <1>11

\* The bits before the interval: where they are in the stream, and how many.
LEMMA CoreType ==
  ASSUME sent \in Frames
  PROVE  /\ Core \in Seq(BIT) /\ Len(Core) \in 35 .. 197
         /\ stuffing = FALSE => Core = FrameBits(sent) /\ Len(Core) <= 99
         /\ \E idle \in Seq(BIT) : /\ Joined(TxCanBitStream(sent), Core, idle)
                                   /\ Len(idle) = 14 /\ \A i \in 1 .. 14 : idle[i] = 1
PROOF
<1> DEFINE f == sent
           frame == FrameBits(f)
           size == Len(f.data)
           n == 8 * size + 34
<1>1. frame \in Seq(BIT) /\ Len(frame) = 8 * size + 35
  BY FrameLayout
<1>2. size \in 0 .. 8
  BY FrameFields
<1> HIDE DEF frame, size
<1>3. n \in 34 .. 98 /\ n \in Nat /\ Len(frame) = n + 1
  BY <1>1, <1>2, SMTT(30)
<1> HIDE DEF n
<1>4. Stuffed(frame) \in Seq(BIT) /\ Len(Stuffed(frame)) \in 35 .. 197
  <2>1. PICK U : IsStuffing(frame, U) /\ Stuffed(frame) = U[n].out
    <3>1. 1 <= Len(frame) /\ Len(frame) - 1 = n
      BY <1>3
    <3> QED  BY <1>1, <3>1, StuffingHasTrace
  <2>2. \A k \in 0 .. n : /\ U[k] \in StuffStates /\ Len(U[k].out) \in Nat
                          /\ k + 1 <= Len(U[k].out) /\ Len(U[k].out) <= 2 * k + 1
    BY <1>1, <1>3, <2>1, StuffGrows
  <2>3. n \in 0 .. n
    BY <1>3
  <2>4. U[n] \in StuffStates
    BY <2>2, <2>3
  <2>5. U[n].out \in Seq(BIT)
    BY <2>4 DEF StuffStates
  <2> DEFINE len == Len(U[n].out)
  <2>6. len \in Nat /\ n + 1 <= len /\ len <= 2 * n + 1
    BY <2>2, <2>3, SMTT(30)
  <2> HIDE DEF len
  <2>7. len \in 35 .. 197
    BY <1>3, <2>6
  <2> QED  BY <2>1, <2>5, <2>7 DEF len
<1>5. Core \in Seq(BIT) /\ Len(Core) \in 35 .. 197
  <2>1. Len(frame) \in 35 .. 197
    BY <1>3
  <2> QED  BY <1>1, <1>4, <2>1 DEF Core, frame
<1>6. stuffing = FALSE => Core = FrameBits(sent) /\ Len(Core) <= 99
  <2>1. Len(frame) <= 99
    BY <1>3
  <2> QED  BY <2>1 DEF Core, frame
<1> DEFINE idle == [i \in 1 .. 14 |-> 1]
<1>7. idle \in Seq(BIT) /\ Len(idle) = 14 /\ \A i \in 1 .. 14 : idle[i] = 1
  <2>1. idle \in [1 .. 14 -> BIT]
    BY BitValues
  <2> QED  BY <2>1
<1>8. TxCanBitStream(sent) = Core \o idle
  BY DEF TxCanBitStream, Core, FrameBits, BodyBits
<1> HIDE DEF idle
<1>9. Joined(TxCanBitStream(sent), Core, idle)
  BY <1>5, <1>7, <1>8, Join
<1> QED  BY <1>5, <1>6, <1>7, <1>9

\* The line: bits, and at first those that the composer wrote, but the disturbed ones.
LEMMA LineBits ==
  ASSUME sent \in Frames
  PROVE  /\ Line \in [1 .. 200 -> BIT] /\ Line \in Seq(BIT) /\ Len(Line) = 200
         /\ \A i \in 1 .. Len(Core) : Line[i] = IF i \in noise THEN 1 - Core[i] ELSE Core[i]
PROOF
<1> DEFINE b == TxCanBitStream(sent)
           core == Core
<1>1. PICK idle \in Seq(BIT) : Joined(b, core, idle) /\ Len(idle) = 14
  BY CoreType
<1>2. core \in Seq(BIT) /\ Len(core) \in 35 .. 197
  BY CoreType
<1>3. Line = [i \in 1 .. 200 |-> IF i > Len(b) THEN 1 ELSE IF i \in noise THEN 1 - b[i] ELSE b[i]]
  BY DEF Line, STREAM_SIZE_W_BIT_STUFFING
<1> HIDE DEF b, core
<1>4. b \in Seq(BIT) /\ Len(b) = Len(core) + 14 /\ \A i \in 1 .. Len(core) : b[i] = core[i]
  BY <1>1 DEF Joined
<1>5. Line \in [1 .. 200 -> BIT]
  <2> SUFFICES ASSUME NEW i \in 1 .. 200
               PROVE  (IF i > Len(b) THEN 1 ELSE IF i \in noise THEN 1 - b[i] ELSE b[i]) \in BIT
    BY <1>3
  <2>1. CASE i > Len(b)
    BY <2>1, BitValues
  <2>2. CASE ~(i > Len(b))
    <3>1. Len(b) \in Nat
      BY <1>2, <1>4
    <3>2. i \in 1 .. Len(b)
      BY <2>2, <3>1
    <3>3. b[i] \in BIT
      BY <1>4, <3>2, ElementOfSeq
    <3> QED  BY <2>2, <3>3, BitValues
  <2> QED  BY <2>1, <2>2
<1>6. Line \in Seq(BIT) /\ Len(Line) = 200
  <2> DEFINE n == 200
             line == Line
  <2>1. line \in [1 .. n -> BIT] /\ n \in Nat
    BY <1>5
  <2> HIDE DEF n, line
  <2>2. line \in Seq(BIT) /\ Len(line) = n
    BY <2>1, SeqOfFunction
  <2> QED  BY <2>2 DEF n, line
<1>7. \A i \in 1 .. Len(core) : Line[i] = IF i \in noise THEN 1 - core[i] ELSE core[i]
  <2> SUFFICES ASSUME NEW i \in 1 .. Len(core)
               PROVE  Line[i] = IF i \in noise THEN 1 - core[i] ELSE core[i]
    OBVIOUS
  <2>1. i \in 1 .. 200 /\ ~(i > Len(b)) /\ b[i] = core[i]
    <3> DEFINE len == Len(core)
               lenB == Len(b)
    <3>1. len \in 35 .. 197 /\ lenB = len + 14 /\ i \in 1 .. len
      BY <1>2, <1>4
    <3> HIDE DEF len, lenB
    <3>2. i \in 1 .. 200 /\ ~(i > lenB)
      BY <3>1
    <3> QED  BY <1>4, <3>2 DEF lenB
  <2>2. Line[i] = IF i \in noise THEN 1 - b[i] ELSE b[i]
    BY <1>3, <2>1
  <2> QED  BY <2>1, <2>2
<1> QED  BY <1>5, <1>6, <1>7 DEF core

-----------------------------------------------------------------------------
(* The invariant.                                                          *)

\* The line disturbs no first bit, and no more bits than it has disturbed so far.
VarsOK ==
  /\ stuffing \in BOOLEAN /\ onLine \in BOOLEAN
  /\ sent \in Frames
  /\ noise \subseteq Nat \ {0, 1}
  /\ frames \in Nat /\ flips \in 0 .. MaxFlips
  /\ rxCanBitStream \in [1 .. 200 -> BIT]

NoiseOK == /\ flips = 0 => noise = {}
           /\ flips = 1 => \A p, q \in noise : p = q

\* After a frame the buffer holds what the line carried, as far as it was sampled, and
\* result is what the parser makes of the buffer.
CollectedOK ==
  Received =>
    /\ result = Parsed(rxCanBitStream)
    /\ \A i \in 1 .. 200 : i <= SampleCount(Line) => rxCanBitStream[i] = Line[i]

IInv == VarsOK /\ NoiseOK /\ CollectedOK

\* No more than one bit of the frame was disturbed.
OneBitAtMost == \A p, q \in noise : p = q

\* The buffer is a sequence of bits.
LEMMA StreamIsSequence ==
  ASSUME VarsOK
  PROVE  rxCanBitStream \in Seq(BIT) /\ Len(rxCanBitStream) = 200
PROOF
<1> DEFINE n == 200
           stream == rxCanBitStream
<1>1. stream \in [1 .. n -> BIT] /\ n \in Nat
  BY DEF VarsOK
<1> HIDE DEF n, stream
<1>2. stream \in Seq(BIT) /\ Len(stream) = n
  BY <1>1, SeqOfFunction
<1> QED  BY <1>2 DEF n, stream

\* With stuffing: an undisturbed frame that does not begin with a full run.
LEMMA StuffedReturns ==
  ASSUME VarsOK, CollectedOK, Received, stuffing = TRUE, noise = {}, ~RunAtTheStart
  PROVE  Accepted
PROOF
<1> DEFINE f == sent
           frame == FrameBits(f)
           size == Len(f.data)
           n == 8 * size + 34
           line == Line
           stream == rxCanBitStream
           core == Stuffed(frame)
           count == SampleCount(line)
<1>1. f \in Frames
  BY DEF VarsOK
<1>2. size \in 0 .. 8 /\ f.id \in 0 .. 2047
  BY <1>1, FrameFields
<1>3. /\ frame \in Seq(BIT) /\ Len(frame) = 8 * size + 35 /\ frame[1] = 0
      /\ \A i \in 1 .. 11 : frame[1 + i] = Bits(f.id, 11)[i]
  BY <1>1, FrameLayout
<1>4. n \in Nat /\ 4 <= n /\ Len(frame) = n + 1
  <2> HIDE DEF size, frame
  <2> QED  BY <1>2, <1>3
<1>5. \E i \in 2 .. 5 : frame[i] = 1
  <2>1. 128 <= f.id /\ f.id <= 2047 /\ f.id \in Nat
    <3> DEFINE id == f.id
    <3>1. id \in 0 .. 2047 /\ ~(id < 128)
      BY <1>2 DEF RunAtTheStart
    <3> HIDE DEF id
    <3>2. 128 <= id /\ id <= 2047 /\ id \in Nat
      BY <3>1
    <3> QED  BY <3>2 DEF id
  <2>2. PICK i \in 1 .. 4 : Bits(f.id, 11)[i] = 1
    <3> HIDE DEF f
    <3> QED  BY <2>1, HighBits
  <2> HIDE DEF frame
  <2>3. 1 + i \in 2 .. 5 /\ i \in 1 .. 11
    BY SMTT(30)
  <2> QED  BY <1>3, <2>2, <2>3
<1>6. core \in Seq(BIT) /\ Len(core) \in 35 .. 197
        /\ line \in Seq(BIT) /\ Len(line) = 200 /\ \A i \in 1 .. Len(core) : line[i] = core[i]
  BY <1>1, CoreType, LineBits DEF Core
<1>7. stream \in Seq(BIT) /\ Len(stream) = 200
  BY StreamIsSequence
<1>8. count = Taken(line)
  BY DEF SampleCount, Taken
<1>9. result = Parsed(stream) /\ \A i \in 1 .. 200 : i <= count => stream[i] = line[i]
  BY SMTT(30) DEF CollectedOK
<1> HIDE DEF line, stream, core, count, n, size, frame
<1>10. Prefix(core, line)
  <2> DEFINE len == Len(core)
  <2>1. len \in 35 .. 197 /\ Len(line) = 200 /\ \A i \in 1 .. len : line[i] = core[i]
    BY <1>6
  <2> HIDE DEF len
  <2>2. len <= Len(line)
    BY <2>1, SMTT(30)
  <2> QED  BY <2>1, <2>2 DEF Prefix, len
<1>11. count \in Nat /\ Len(core) <= count
  <2>1. Prefix(Stuffed(frame), line)
    BY <1>10 DEF core
  <2> QED  BY <1>3, <1>4, <1>6, <1>8, <2>1, TakenUp, SMTT(30) DEF core
<1>12. Prefix(core, stream)
  <2> DEFINE len == Len(core)
  <2>1. /\ len \in 35 .. 197 /\ Len(stream) = 200 /\ \A i \in 1 .. len : line[i] = core[i]
        /\ count \in Nat /\ len <= count
    BY <1>6, <1>7, <1>11
  <2> HIDE DEF len
  <2>2. len <= Len(stream) /\ \A i \in 1 .. len : i \in 1 .. 200 /\ i <= count
    BY <2>1
  <2>3. \A i \in 1 .. len : stream[i] = core[i]
    BY <1>9, <2>1, <2>2
  <2> QED  BY <2>2, <2>3 DEF Prefix, len
<1> DEFINE b == Destuffed(stream)
<1>13. b \in Seq(BIT) /\ Prefix(frame, b)
  <2>1. Prefix(Stuffed(frame), stream) /\ 1 <= Len(stream)
    BY <1>7, <1>12 DEF core
  <2> QED  BY <1>3, <1>4, <1>5, <1>7, <2>1, Recovered
<1>14. result = Unpacked(b)
  BY <1>9 DEF Parsed, Unpacked
<1> HIDE DEF b
<1>15. Carries(b, f)
  <2> DEFINE upto == BodyLength(f) + 15
  <2>1. upto = 8 * size + 34
    BY <1>2 DEF BodyLength, size
  <2>2. Len(b) \in Nat
    BY <1>13, LenProperties
  <2> HIDE DEF upto
  <2>3. upto <= Len(b) /\ \A i \in 1 .. upto : b[i] = frame[i]
    BY <1>2, <1>3, <1>13, <2>1, <2>2 DEF Prefix
  <2> QED  BY <1>13, <2>3 DEF Carries, frame, upto
<1>16. result = [ret |-> Len(f.data), id |-> f.id, data |-> f.data]
  BY <1>1, <1>14, <1>15, UnpackFrame
<1> QED  BY <1>16 DEF Accepted

\* Without stuffing: an undisturbed frame is returned, and of the frames with one
\* wrong bit no other than the one that was sent.
LEMMA PlainReturns ==
  ASSUME VarsOK, CollectedOK, Received, stuffing = FALSE, OneBitAtMost
  PROVE  noise = {} \/ result.ret = Len(sent.data) => Accepted
PROOF
<1> DEFINE f == sent
           frame == FrameBits(f)
           size == Len(f.data)
           upto == BodyLength(f) + 15
           line == Line
           b == rxCanBitStream
<1>1. f \in Frames /\ noise \subseteq Nat \ {0, 1}
  BY DEF VarsOK
<1>2. size \in 0 .. 8 /\ upto = 8 * size + 34
  <2>1. size \in 0 .. 8
    BY <1>1, FrameFields
  <2> QED  BY <2>1 DEF BodyLength
<1>3. frame \in Seq(BIT) /\ Len(frame) = 8 * size + 35
  BY <1>1, FrameLayout
<1>4. \A i \in 1 .. Len(frame) : line[i] = IF i \in noise THEN 1 - frame[i] ELSE frame[i]
  <2>1. Core = frame
    BY <1>1, CoreType
  <2>2. \A i \in 1 .. Len(Core) : line[i] = IF i \in noise THEN 1 - Core[i] ELSE Core[i]
    BY <1>1, LineBits
  <2> HIDE DEF line, frame
  <2> QED  BY <2>1, <2>2
<1>5. b \in Seq(BIT) /\ Len(b) = 200
  BY StreamIsSequence
<1>6. /\ result = Unpacked(b)
      /\ \A i \in 1 .. 200 : i <= 112 => b[i] = line[i]
  <2>1. SampleCount(line) = 112
    BY DEF SampleCount, STREAM_SIZE_WO_BIT_STUFFING
  <2>2. result = Parsed(b) /\ \A i \in 1 .. 200 : i <= SampleCount(line) => b[i] = line[i]
    BY DEF CollectedOK
  <2>3. Parsed(b) = Unpacked(b)
    BY DEF Parsed, Unpacked
  <2> HIDE DEF line
  <2> QED  BY <2>1, <2>2, <2>3
<1> HIDE DEF line, b, upto, size, frame
<1>7. upto \in 34 .. 98 /\ upto <= Len(b)
  BY <1>2, <1>5
<1>8. \A i \in 1 .. upto : /\ frame[i] \in BIT
                           /\ b[i] = IF i \in noise THEN 1 - frame[i] ELSE frame[i]
  <2> SUFFICES ASSUME NEW i \in 1 .. upto
               PROVE  frame[i] \in BIT /\ b[i] = IF i \in noise THEN 1 - frame[i] ELSE frame[i]
    OBVIOUS
  <2>1. i \in 1 .. Len(frame) /\ i \in 1 .. 200 /\ i <= 112
    BY <1>2, <1>3, <1>7
  <2>2. frame[i] \in BIT
    BY <1>3, <2>1, ElementOfSeq
  <2> QED  BY <1>4, <1>6, <2>1, <2>2
<1>9. CASE \A p \in noise : p \notin 1 .. upto
  <2>1. \A i \in 1 .. upto : b[i] = frame[i]
    BY <1>8, <1>9
  <2>2. Carries(b, f)
    BY <1>5, <1>7, <2>1 DEF Carries, frame, upto
  <2>3. result = [ret |-> Len(f.data), id |-> f.id, data |-> f.data]
    BY <1>1, <1>6, <2>2, UnpackFrame
  <2> QED  BY <2>3 DEF Accepted
<1>10. CASE \E p \in noise : p \in 1 .. upto
  <2>1. PICK p \in noise : p \in 1 .. upto
    BY <1>10
  <2>2. p \in 2 .. upto /\ \A i \in 1 .. upto : i \in noise <=> i = p
    <3>1. p # 1 /\ \A q \in noise : q = p
      BY <1>1 DEF OneBitAtMost
    <3> QED  BY <1>7, <2>1, <3>1
  <2>3. \A i \in 1 .. upto : b[i] = frame[i] <=> i # p
    <3> SUFFICES ASSUME NEW i \in 1 .. upto PROVE b[i] = frame[i] <=> i # p
      OBVIOUS
    <3>1. 1 - frame[i] # frame[i]
      BY <1>8, BitValues
    <3> QED  BY <1>8, <2>2, <3>1
  <2>4. CarriesWrong(b, f, p)
    BY <1>5, <1>7, <2>2, <2>3 DEF CarriesWrong, frame, upto
  <2>5. result.ret # Len(f.data)
    BY <1>1, <1>6, <2>4, UnpackWrong
  <2>6. noise # {}
    BY <2>1
  <2> QED  BY <2>5, <2>6
<1> QED  BY <1>9, <1>10

\* What is sent are frames of an identifier of 11 bits and eight bytes at most.
LEMMA Sendable ==
  ASSUME NEW id \in FrameIds, NEW d \in DataFields
  PROVE  [id |-> id, data |-> d] \in Frames
PROOF
<1>1. id \in 0 .. 2047
  BY CanFrameAssumption
<1>2. d \in Seq(BYTE) /\ Len(d) <= 8
  BY CanFrameAssumption
<1> QED  BY <1>1, <1>2 DEF Frames

\* Line and the number of samples depend on the mode, the frame and its noise alone.
LEMMA SameLine ==
  ASSUME UNCHANGED <<stuffing, sent, noise>>
  PROVE  Line' = Line /\ SampleCount(Line)' = SampleCount(Line)
PROOF
<1>1. TxCanBitStream(sent)' = TxCanBitStream(sent)
  BY DEF TxCanBitStream
<1>2. Line' = Line
  BY <1>1 DEF Line
<1> QED  BY <1>2 DEF SampleCount

\* The static streams are zero, and nothing was received.
LEMMA InitInv ==
  ASSUME Init
  PROVE  IInv
PROOF
<1>1. sent \in Frames
  <2> DEFINE none == <<>>
  <2>1. none \in Seq(BYTE) /\ Len(none) = 0
    OBVIOUS
  <2>2. sent = [id |-> 0, data |-> none]
    BY DEF Init
  <2> HIDE DEF none
  <2>3. none \in {x \in Seq(BYTE) : Len(x) <= 8}
    BY <2>1
  <2> QED  BY <2>2, <2>3 DEF Frames
<1>2. rxCanBitStream \in [1 .. 200 -> BIT]
  BY BitValues DEF Init, STREAM_SIZE_W_BIT_STUFFING
<1>3. flips \in 0 .. MaxFlips /\ flips = 0
  BY CanFrameAssumption DEF Init
<1>4. VarsOK
  BY <1>1, <1>2, <1>3 DEF Init, VarsOK
<1>5. NoiseOK
  BY <1>3 DEF Init, NoiseOK
<1>6. ~Received
  BY DEF Init, Received
<1> QED  BY <1>4, <1>5, <1>6 DEF IInv, CollectedOK

\* send: a frame is put on the line; nothing is received yet.
LEMMA TransmitInv ==
  ASSUME IInv, Transmit
  PROVE  IInv'
PROOF
<1>1. sent' \in Frames
  BY Sendable DEF Transmit
<1>2. VarsOK'
  BY <1>1 DEF Transmit, VarsOK, IInv
<1>3. NoiseOK'
  BY DEF Transmit, NoiseOK
<1>4. ~Received'
  BY DEF Transmit, Received
<1> QED  BY <1>2, <1>3, <1>4 DEF IInv, CollectedOK

\* The line disturbs one more bit of the frame on it.
LEMMA DisturbInv ==
  ASSUME IInv, Disturb
  PROVE  IInv'
PROOF
<1>1. VarsOK /\ NoiseOK
  BY DEF IInv
<1>2. PICK i \in 2 .. Len(TxCanBitStream(sent)) : noise' = noise \union {i}
  BY DEF Disturb
<1>3. i \in Nat \ {0, 1}
  <2> DEFINE b == TxCanBitStream(sent)
  <2>1. sent \in Frames
    BY <1>1 DEF VarsOK
  <2>2. PICK idle : Joined(b, Core, idle)
    BY <2>1, CoreType
  <2>3. Len(b) \in Nat
    BY <2>2, LenProperties DEF Joined
  <2> HIDE DEF b
  <2>4. i \in 2 .. Len(b)
    BY DEF b
  <2> QED  BY <2>3, <2>4
<1>4. flips' = flips + 1 /\ flips \in Nat /\ MaxFlips \in Nat /\ flips < MaxFlips
  BY <1>1, CanFrameAssumption DEF Disturb, VarsOK
<1>5. VarsOK'
  <2>1. flips' \in 0 .. MaxFlips
    BY <1>4
  <2>2. noise' \subseteq Nat \ {0, 1}
    BY <1>1, <1>2, <1>3 DEF VarsOK
  <2>3. UNCHANGED <<stuffing, sent, rxCanBitStream, result, onLine, frames>>
    BY DEF Disturb
  <2> QED  BY <1>1, <2>1, <2>2, <2>3 DEF VarsOK
<1>6. NoiseOK'
  <2>1. flips' # 0
    BY <1>4
  <2>2. flips' = 1 => noise = {}
    BY <1>1, <1>4 DEF NoiseOK
  <2> QED  BY <1>2, <2>1, <2>2 DEF NoiseOK
<1>7. ~Received'
  BY DEF Disturb, Received
<1> QED  BY <1>5, <1>6, <1>7 DEF IInv, CollectedOK

\* The frame is collected over what the buffer held, and parsed.
LEMMA ReceiveInv ==
  ASSUME IInv, Receive
  PROVE  IInv'
PROOF
<1>1. VarsOK /\ NoiseOK
  BY DEF IInv
<1>2. /\ rxCanBitStream' = Samples /\ result' = Parsed(rxCanBitStream') /\ onLine' = FALSE
      /\ UNCHANGED <<stuffing, sent, noise, frames, flips>>
  BY DEF Receive
<1> DEFINE b == Line
           n == SampleCount(b)
           stream == rxCanBitStream
<1>3. b \in [1 .. 200 -> BIT]
  <2>1. sent \in Frames
    BY <1>1 DEF VarsOK
  <2> QED  BY <2>1, LineBits
<1>4. stream \in [1 .. 200 -> BIT]
  BY <1>1 DEF VarsOK
<1>5. Samples = [i \in DOMAIN stream |-> IF i <= n THEN b[i] ELSE stream[i]]
  BY DEF Samples
<1>6. b' = b /\ n' = n
  BY <1>2, SameLine, SMTT(30)
<1> HIDE DEF b, n, stream
<1>7. Samples \in [1 .. 200 -> BIT] /\ \A i \in 1 .. 200 : i <= n => Samples[i] = b[i]
  BY <1>3, <1>4, <1>5, ZenonT(40)
<1>8. VarsOK'
  BY <1>1, <1>2, <1>7 DEF VarsOK
<1>9. NoiseOK'
  BY <1>1, <1>2 DEF NoiseOK
<1>10. CollectedOK'
  <2>1. result' = Parsed(rxCanBitStream)'
    BY <1>2 DEF Parsed
  <2>2. \A i \in 1 .. 200 : i <= n' => rxCanBitStream'[i] = b'[i]
    BY <1>2, <1>6, <1>7
  <2>3. \A i \in 1 .. 200 : i <= SampleCount(Line)' => rxCanBitStream'[i] = Line'[i]
    BY <2>2 DEF b, n
  <2> QED  BY <2>1, <2>3 DEF CollectedOK
<1> QED  BY <1>8, <1>9, <1>10 DEF IInv

\* A frame comes and goes: what is known of the last one is lost when the next begins.
LEMMA InvariantKept == IInv /\ [Next]_vars => IInv'
PROOF
<1> SUFFICES ASSUME IInv, [Next]_vars PROVE IInv'
  OBVIOUS
<1>1. CASE Transmit
  BY <1>1, TransmitInv
<1>2. CASE Disturb
  BY <1>2, DisturbInv
<1>3. CASE Receive
  BY <1>3, ReceiveInv
<1>4. CASE UNCHANGED vars
  <2>1. /\ UNCHANGED <<stuffing, sent, noise>>
        /\ UNCHANGED <<rxCanBitStream, result, onLine, frames, flips>>
    BY <1>4 DEF vars
  <2>2. VarsOK' /\ NoiseOK' /\ (Received' = Received)
    BY <2>1 DEF IInv, VarsOK, NoiseOK, Received
  <2>3. Line' = Line /\ SampleCount(Line)' = SampleCount(Line)
    BY <2>1, SameLine
  <2>4. Parsed(rxCanBitStream)' = Parsed(rxCanBitStream)
    BY <2>1 DEF Parsed
  <2>5. CollectedOK'
    BY <2>1, <2>2, <2>3, <2>4 DEF IInv, CollectedOK
  <2> QED  BY <2>2, <2>5 DEF IInv
<1> QED  BY <1>1, <1>2, <1>3, <1>4 DEF Next

\* The inductive invariant, for every set of frames and any number of disturbed bits.
THEOREM Invariant == Spec => []IInv
PROOF
<1>1. Init => IInv
  BY InitInv
<1> QED  BY <1>1, InvariantKept, PTL DEF Spec

\* What the driver promises of a frame with one disturbed bit at most.
LEMMA Returned ==
  ASSUME IInv, OneBitAtMost
  PROVE  ReturnsWhatWasSent
PROOF
<1>1. VarsOK /\ CollectedOK /\ stuffing \in BOOLEAN
  BY DEF IInv, VarsOK
<1>2. SUFFICES ASSUME Received
               PROVE  /\ noise = {} /\ ~(stuffing /\ RunAtTheStart) => Accepted
                      /\ ~stuffing /\ result.ret = Len(sent.data) => Accepted
  BY DEF ReturnsWhatWasSent
<1>3. CASE stuffing = TRUE
  <2>1. noise = {} /\ ~RunAtTheStart => Accepted
    BY <1>1, <1>2, <1>3, StuffedReturns
  <2> QED  BY <1>3, <2>1
<1>4. CASE stuffing = FALSE
  <2>1. noise = {} \/ result.ret = Len(sent.data) => Accepted
    BY <1>1, <1>2, <1>4, PlainReturns
  <2> QED  BY <1>4, <2>1
<1> QED  BY <1>1, <1>3, <1>4

\* However many bits the line disturbs in all: a frame of which it disturbs none comes
\* back as it was sent, and one of which it disturbs one does not come back, without
\* stuffing, as another frame of its length (generateTxCanFrame, parseRxCanFrame).
THEOREM OneWrongBitIsFound == Spec => [](OneBitAtMost => ReturnsWhatWasSent)
PROOF
<1>1. IInv => (OneBitAtMost => ReturnsWhatWasSent)
  BY Returned
<1> QED  BY <1>1, Invariant, PTL

\* On a line that disturbs one bit at most a frame comes back as it was sent or, without
\* stuffing, not with the length that was sent.
THEOREM ReturnsFrame ==
  ASSUME MaxFlips <= 1
  PROVE  Spec => []ReturnsWhatWasSent
PROOF
<1>1. IInv => ReturnsWhatWasSent
  <2> SUFFICES ASSUME IInv PROVE ReturnsWhatWasSent
    OBVIOUS
  <2>1. flips \in 0 .. MaxFlips /\ NoiseOK
    BY DEF IInv, VarsOK
  <2>2. flips = 0 \/ flips = 1
    BY <2>1, CanFrameAssumption
  <2>3. OneBitAtMost
    BY <2>1, <2>2 DEF NoiseOK, OneBitAtMost
  <2> QED  BY <2>3, Returned
<1> QED  BY <1>1, Invariant, PTL
=============================================================================
