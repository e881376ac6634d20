-------------------------- MODULE ParseLoopProofs ---------------------------
(* Theorems about parseVersionCode: the loop computes the closed form for   *)
(* every version string, and the codes order version numbers.               *)
EXTENDS ParseLoop, TLAPS

Digit == 0..999

\* A part that counts is a digit to the base 1000.
LEMMA ComponentIsDigit ==
    ASSUME NEW v, Numbered(v), NEW n \in 1..3
    PROVE  Component(v, n) \in Digit
<1>1. Len(v) \in 2..4 /\ Component(v, n) >= 0
  BY DEF Numbered, WellFormed
<1>2. CASE n <= Len(v)
  <2>1. v[n] \in Int /\ v[n] <= 999
    BY <1>2 DEF Numbered, WellFormed
  <2>2. Component(v, n) = v[n]
    BY <1>2 DEF Component
  <2> QED BY <1>1, <2>1, <2>2, SMTT(30) DEF Digit
<1>3. CASE ~(n <= Len(v))
  BY <1>3 DEF Component, Digit
<1> QED BY <1>2, <1>3

LEMMA CodeOfIsInteger == ASSUME NEW v, Numbered(v) PROVE CodeOf(v) \in Int
<1> DEFINE x == Component(v, 1)
           y == Component(v, 2)
           z == Component(v, 3)
<1>1. x \in Digit /\ y \in Digit /\ z \in Digit
  <2>1. 1 \in 1..3 /\ 2 \in 1..3 /\ 3 \in 1..3
    BY SMT
  <2>2. \A n \in 1..3 : Component(v, n) \in Digit
    BY ComponentIsDigit
  <2> QED BY <2>1, <2>2, Zenon
<1>2. CodeOf(v) = x * 1000000 + y * 1000 + z
  BY SMT DEF CodeOf
<1> HIDE DEF x, y, z
<1> QED BY <1>1, <1>2, SMT DEF Digit

\* On numbers without negative parts, CodeOf is monotone in the order of
\* version numbers.
LEMMA CodeOfIsMonotone ==
    ASSUME NEW v, Numbered(v), NEW w, Numbered(w), Before(v, w)
    PROVE  CodeOf(v) < CodeOf(w)
<1> DEFINE x == Component(v, 1)
           y == Component(v, 2)
           z == Component(v, 3)
           p == Component(w, 1)
           q == Component(w, 2)
           r == Component(w, 3)
<1>1. /\ x \in Digit /\ y \in Digit /\ z \in Digit
      /\ p \in Digit /\ q \in Digit /\ r \in Digit
  <2>1. 1 \in 1..3 /\ 2 \in 1..3 /\ 3 \in 1..3
    BY SMT
  <2>2. \A n \in 1..3 : Component(v, n) \in Digit /\ Component(w, n) \in Digit
    BY ComponentIsDigit
  <2> QED BY <2>1, <2>2, Zenon
<1>2. CodeOf(v) = x * 1000000 + y * 1000 + z
  BY SMT DEF CodeOf
<1>3. CodeOf(w) = p * 1000000 + q * 1000 + r
  BY SMT DEF CodeOf
<1>4. x < p \/ (x = p /\ y < q) \/ (x = p /\ y = q /\ z < r)
  <2>1. PICK n \in 1..3 : /\ Component(v, n) < Component(w, n)
                          /\ \A m \in 1..(n-1) : Component(v, m) = Component(w, m)
    BY DEF Before
  <2>2. CASE n = 1
    BY <2>1, <2>2
  <2>3. CASE n = 2
    <3>1. 1 \in 1..(n-1)
      BY <2>3
    <3> QED BY <2>1, <2>3, <3>1
  <2>4. CASE n = 3
    <3>1. 1 \in 1..(n-1) /\ 2 \in 1..(n-1)
      BY <2>4
    <3> QED BY <2>1, <2>4, <3>1
  <2> QED BY <2>2, <2>3, <2>4
<1> HIDE DEF x, y, z, p, q, r
<1>5. x * 1000000 + y * 1000 + z < p * 1000000 + q * 1000 + r
  BY <1>1, <1>4, SMT DEF Digit
<1> QED BY <1>2, <1>3, <1>5, SMT

\* Two version numbers agree in the parts that count or one comes before the
\* other.
LEMMA BeforeIsTotal ==
    ASSUME NEW v, Numbered(v), NEW w, Numbered(w)
    PROVE  Before(v, w) \/ Before(w, v) \/ CodeOf(v) = CodeOf(w)
<1> SUFFICES ASSUME ~Before(v, w), ~Before(w, v)
             PROVE  CodeOf(v) = CodeOf(w)
  OBVIOUS
<1>1. ASSUME NEW n \in 1..3, \A m \in 1..(n-1) : Component(v, m) = Component(w, m)
      PROVE  Component(v, n) = Component(w, n)
  <2> DEFINE c == Component(v, n)
             d == Component(w, n)
  <2> SUFFICES c = d
    OBVIOUS
  <2>1. ~(c < d) /\ ~(d < c)
    BY <1>1 DEF Before
  <2>2. c \in Digit /\ d \in Digit
    BY ComponentIsDigit
  <2> HIDE DEF c, d
  <2> QED BY <2>1, <2>2 DEF Digit
<1>2. Component(v, 1) = Component(w, 1)
  BY <1>1
<1>3. Component(v, 2) = Component(w, 2)
  BY <1>1, <1>2
<1>4. Component(v, 3) = Component(w, 3)
  <2>1. \A m \in 1..(3-1) : m = 1 \/ m = 2
    OBVIOUS
  <2> QED BY <1>1, <1>2, <1>3, <2>1
<1> QED BY <1>2, <1>3, <1>4, SMT DEF CodeOf

\* Comparing codes is comparing version numbers, for all numbers without
\* negative parts (and not only for the boundary values of a run).
THEOREM CodesAreOrdered ==
    ASSUME NEW v, Numbered(v), NEW w, Numbered(w)
    PROVE  CodeOf(v) < CodeOf(w) <=> Before(v, w)
<1>1. CodeOf(v) \in Int /\ CodeOf(w) \in Int
  BY CodeOfIsInteger
<1>2. Before(v, w) => CodeOf(v) < CodeOf(w)
  BY CodeOfIsMonotone
<1>3. Before(w, v) => CodeOf(w) < CodeOf(v)
  BY CodeOfIsMonotone
<1> QED BY <1>1, <1>2, <1>3, BeforeIsTotal

-----------------------------------------------------------------------------
(* The loop.                                                                *)

\* What the parts read so far add up to, and the weight of the next part.
Progress ==
    /\ i = 1 => code = 0 /\ multiplier = 1000000
    /\ i = 2 => code = version[1] * 1000000 /\ multiplier = 1000
    /\ i = 3 => code = version[1] * 1000000 + version[2] * 1000 /\ multiplier = 1
    /\ i = 4 => /\ code = version[1] * 1000000 + version[2] * 1000 + version[3]
                /\ multiplier = 0

\* Inductive invariant: the parts before i were accepted and are summed up; a
\* call ends well only when no part is left, and badly only on a bad string.
LoopInv ==
    /\ TypeOK
    /\ pc \in {"loop", "ok"} =>
          /\ Len(version) \in 2..4 /\ i <= Len(version) + 1
          /\ \A j \in 1..3 : j < i => version[j] \in Int /\ version[j] <= 999
          /\ Progress
    /\ pc = "ok" => ~InRange
    /\ pc = "err" => ~WellFormed(version)

LEMMA InitLoopInv == Init => LoopInv
<1> SUFFICES ASSUME Init PROVE LoopInv
  OBVIOUS
<1> USE DEF Init
<1>1. Len(version) \in Nat
  BY InputsAssumption, SMT DEF VersionString
<1>2. TypeOK
  BY SMT DEF TypeOK
<1>3. pc = "loop" => Len(version) \in 2..4
  BY SMT
<1>4. pc = "err" => ~WellFormed(version)
  BY SMT DEF WellFormed
<1> QED BY <1>1, <1>2, <1>3, <1>4, SMT DEF LoopInv, Progress

LEMMA NextLoopInv == LoopInv /\ [Next]_vars => LoopInv'
<1> SUFFICES ASSUME LoopInv, [Next]_vars PROVE LoopInv'
  OBVIOUS
<1>0. Len(version) \in Nat
  BY InputsAssumption, SMT DEF VersionString, LoopInv, TypeOK
<1>1. CASE Accumulate
  <2> USE <1>1 DEF Accumulate
  <2>1. /\ i \in 1..3 /\ i <= Len(version) /\ Len(version) \in 2..4
        /\ version[i] \in Int /\ version[i] <= 999
        /\ \A j \in 1..3 : j < i => version[j] \in Int /\ version[j] <= 999
        /\ Progress
    BY SMT DEF LoopInv, TypeOK, InRange
  <2>2. Progress'
    <3>1. CASE i = 1 BY <2>1, <3>1, SMT DEF Progress
    <3>2. CASE i = 2 BY <2>1, <3>2, SMT DEF Progress
    <3>3. CASE i = 3 BY <2>1, <3>3, SMT DEF Progress
    <3> QED BY <2>1, <3>1, <3>2, <3>3
  <2>3. TypeOK'
    <3>1. i' \in 1..4
      BY <2>1
    <3>2. code' \in Int /\ multiplier' \in {1000000, 1000, 1, 0}
      <4>1. CASE i = 1 BY <2>1, <4>1, SMT DEF Progress
      <4>2. CASE i = 2 BY <2>1, <4>2, SMT DEF Progress
      <4>3. CASE i = 3 BY <2>1, <4>3, SMT DEF Progress
      <4> QED BY <2>1, <4>1, <4>2, <4>3
    <3> QED BY <3>1, <3>2, SMT DEF LoopInv, TypeOK
  <2>4. \A j \in 1..3 : j < i' => version'[j] \in Int /\ version'[j] <= 999
    BY <2>1
  <2> QED BY <2>1, <2>2, <2>3, <2>4, SMT DEF LoopInv
<1>2. CASE Reject
  <2>1. ~WellFormed(version)
    BY <1>2, SMT DEF LoopInv, TypeOK, Reject, InRange, WellFormed
  <2> QED BY <1>2, <2>1, SMT DEF LoopInv, TypeOK, Reject, WellFormed
<1>3. CASE Return
  BY <1>3, SMT DEF LoopInv, TypeOK, Return, Progress, InRange
<1>4. CASE UNCHANGED vars
  BY <1>4, SMT DEF LoopInv, TypeOK, Progress, InRange, WellFormed, vars
<1> QED BY <1>1, <1>2, <1>3, <1>4 DEF Next

THEOREM LoopInvariant == Spec => []LoopInv
BY InitLoopInv, NextLoopInv, PTL DEF Spec

\* The loop never leaves its types: for every set of version strings.
THEOREM LoopTypeCorrect == Spec => []TypeOK
<1>1. LoopInv => TypeOK
  BY DEF LoopInv
<1> QED BY <1>1, LoopInvariant, PTL

\* A call that returned has accepted the string exactly if it is well formed,
\* and has then computed its code.
LEMMA LoopResult ==
    ASSUME LoopInv
    PROVE  /\ LoopComputesCode
           /\ pc = "ok" => WellFormed(version) /\ code = CodeOf(version)
<1>1. pc \in {"loop", "ok", "err"} /\ i \in 1..4
  BY SMT DEF LoopInv, TypeOK
<1>2. ASSUME pc = "ok"
      PROVE  WellFormed(version) /\ code = CodeOf(version)
  <2>0. /\ Len(version) \in 2..4 /\ i <= Len(version) + 1
        /\ ~(i <= Len(version) /\ i < 4)
    BY <1>2 DEF LoopInv, InRange
  <2>1. /\ \A j \in 1..3 : j < i => version[j] \in Int /\ version[j] <= 999
        /\ Progress
    BY <1>2 DEF LoopInv
  <2>2. WellFormed(version)
    BY <1>1, <2>0, <2>1 DEF WellFormed
  <2>3. CASE i = 4
    <3>1. Len(version) >= 3
      BY <2>0, <2>1, <2>3
    <3>2. /\ Component(version, 1) = version[1] /\ Component(version, 2) = version[2]
          /\ Component(version, 3) = version[3]
      BY <2>0, <2>1, <3>1 DEF Component
    <3> QED BY <2>0, <2>1, <2>2, <2>3, <3>2, SMT DEF Progress, CodeOf
  <2>4. CASE i = 3
    <3>1. Len(version) = 2
      BY <2>0, <2>4
    <3>2. /\ Component(version, 1) = version[1] /\ Component(version, 2) = version[2]
          /\ Component(version, 3) = 0
      BY <3>1 DEF Component
    <3>3. version[1] \in Int /\ version[2] \in Int
      BY <2>0, <2>1, <2>4
    <3> QED BY <2>0, <2>1, <2>2, <2>4, <3>2, <3>3, SMT DEF Progress, CodeOf
  <2>5. i = 3 \/ i = 4
    BY <1>1, <2>0, SMT
  <2> QED BY <2>2, <2>3, <2>4, <2>5
<1>3. LoopComputesCode
  BY <1>1, <1>2 DEF LoopInv, LoopComputesCode, ParseVersionCode
<1> QED BY <1>2, <1>3

\* The loop computes the closed form the other modules use, for every version
\* string: any number of parts of any size.
THEOREM LoopIsClosedForm == Spec => []LoopComputesCode
<1>1. LoopInv => LoopComputesCode
  BY LoopResult
<1> QED BY <1>1, LoopInvariant, PTL

\* The code a call returns orders its argument among all version numbers
\* without negative parts.
THEOREM LoopOrdersVersions == Spec => []CodesOrderVersions
<1>1. ASSUME LoopInv PROVE CodesOrderVersions
  <2> SUFFICES ASSUME pc = "ok", Numbered(version),
                      NEW w \in Inputs, Numbered(w)
               PROVE  /\ code < ParseVersionCode(w).code <=> Before(version, w)
                      /\ code > ParseVersionCode(w).code <=> Before(w, version)
    BY DEF CodesOrderVersions
  <2>1. code = CodeOf(version)
    BY <1>1, LoopResult
  <2>2. ParseVersionCode(w).code = CodeOf(w)
    BY DEF ParseVersionCode, Numbered
  <2>3. CodeOf(version) \in Int /\ CodeOf(w) \in Int
    BY CodeOfIsInteger
  <2>4. /\ CodeOf(version) < CodeOf(w) <=> Before(version, w)
        /\ CodeOf(w) < CodeOf(version) <=> Before(w, version)
    BY CodesAreOrdered
  <2> QED BY <2>1, <2>2, <2>3, <2>4
<1> QED BY <1>1, LoopInvariant, PTL
=============================================================================
