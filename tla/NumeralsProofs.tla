--------------------------- MODULE NumeralsProofs ---------------------------
(***************************************************************************)
(* Proofs about the pure algorithms for registers of every width: what the *)
(* loops of math_ops.c compute, what is read back of a number that was     *)
(* printed or typed, and the clipping of hal_vga_rect() for every screen.  *)
(* Induction over the turns of a loop is by the set of the numbers of      *)
(* turns that are as they should be (Upto).                                *)
(***************************************************************************)
EXTENDS Numerals, Vga, WellFoundedInduction, SequenceTheorems, TLAPS

-----------------------------------------------------------------------------
(* Induction and loops                                                     *)

\* A non-empty set of naturals has a least element.
LEMMA LeastNatural ==
  ASSUME NEW S, S \subseteq Nat, S # {}
  PROVE  \E m \in S : \A k \in S : m <= k
<1>1. \A m, k \in Nat : k < m => <<k, m>> \in OpToRel(<, Nat)
  BY DEF OpToRel
<1>2. PICK m \in S : \A k \in S : ~ (<<k, m>> \in OpToRel(<, Nat))
  <2> DEFINE R == OpToRel(<, Nat)
  <2>1. IsWellFoundedOn(R, Nat)
    BY NatLessThanWellFounded
  <2> HIDE DEF R
  <2>2. \E m \in S : \A k \in S : ~ (<<k, m>> \in R)
    BY <2>1, WFMin
  <2> QED
    BY <2>2 DEF R
<1>3. \A k \in S : ~ (k < m)
  BY <1>1, <1>2, Zenon
<1> QED
  BY <1>3

\* What holds at first and from one number to the next holds up to N.
LEMMA Upto ==
  ASSUME NEW N \in Nat, NEW S, 0 \in S, \A k \in 0 .. N - 1 : k \in S => k + 1 \in S
  PROVE  \A k \in 0 .. N : k \in S
<1> SUFFICES ASSUME NEW j \in 0 .. N, j \notin S
             PROVE  FALSE
  OBVIOUS
<1> DEFINE Bad == {k \in 0 .. N : k \notin S}
<1>1. PICK m \in Bad : \A k \in Bad : m <= k
  <2>1. Bad \subseteq Nat /\ j \in Bad
    OBVIOUS
  <2> QED
    BY <2>1, LeastNatural
<1>2. m - 1 \in 0 .. N - 1 /\ m - 1 \in S
  BY <1>1
<1> QED
  BY <1>1, <1>2

\* step[<<k, x>>] is what turn k of N makes of the state x in D ...
IsStep(step, N, D) == step \in [(1 .. N) \X D -> D]

\* ... and g the sequence of states.
IsRun(g, N, D, first, step) ==
  /\ g \in [0 .. N -> D]
  /\ g[0] = first
  /\ \A k \in 1 .. N : g[k] = step[<<k, g[k - 1]>>]

LEMMA LoopExists ==
  ASSUME NEW N \in Nat, NEW D, NEW first \in D, NEW step, IsStep(step, N, D)
  PROVE  \E g : IsRun(g, N, D, first, step)
<1> USE DEF IsStep
<1> DEFINE Run(g, m) == g[0] = first /\ \A k \in 1 .. m : g[k] = step[<<k, g[k - 1]>>]
           S == {m \in 0 .. N : \E g \in [0 .. m -> D] : Run(g, m)}
<1>1. 0 \in S
  <2> DEFINE g == [k \in 0 .. 0 |-> first]
  <2>1. g \in [0 .. 0 -> D] /\ Run(g, 0) /\ 0 \in 0 .. N
    OBVIOUS
  <2> HIDE DEF g, Run
  <2> QED
    BY <2>1
<1>2. ASSUME NEW m \in 0 .. N - 1, m \in S
      PROVE  m + 1 \in S
  <2>1. PICK g \in [0 .. m -> D] : Run(g, m)
    BY <1>2
  <2> DEFINE next == step[<<m + 1, g[m]>>]
             h == [k \in 0 .. m + 1 |-> IF k = m + 1 THEN next ELSE g[k]]
  <2>2. next \in D
    <3>1. g[m] \in D /\ m + 1 \in 1 .. N
      OBVIOUS
    <3> QED
      BY <3>1
  <2> HIDE DEF next
  <2>3. h \in [0 .. m + 1 -> D]
    BY <2>2
  <2>4. Run(h, m + 1)
    <3>1. h[0] = first
      BY <2>1
    <3>2. ASSUME NEW k \in 1 .. m
          PROVE  h[k] = step[<<k, h[k - 1]>>]
      <4>1. h[k] = g[k] /\ h[k - 1] = g[k - 1]
        OBVIOUS
      <4> QED
        BY <2>1, <4>1, Zenon
    <3>3. h[m + 1] = step[<<m + 1, h[m + 1 - 1]>>]
      <4>1. h[m + 1] = next /\ h[m + 1 - 1] = g[m]
        OBVIOUS
      <4> QED
        BY <4>1, Zenon DEF next
    <3>4. ASSUME NEW k \in 1 .. m + 1
          PROVE  h[k] = step[<<k, h[k - 1]>>]
      <4> HIDE DEF h
      <4>1. CASE k = m + 1
        BY <3>3, <4>1
      <4>2. CASE k # m + 1
        <5>1. k \in 1 .. m
          BY <4>2
        <5> QED
          BY <3>2, <5>1, Zenon
      <4> QED
        BY <4>1, <4>2
    <3> HIDE DEF h
    <3> QED
      BY <3>1, <3>4, Zenon
  <2>5. m + 1 \in 0 .. N
    OBVIOUS
  <2> HIDE DEF h, Run
  <2> QED
    BY <2>3, <2>4, <2>5
<1>3. N \in S
  <2> HIDE DEF S
  <2> QED
    BY <1>1, <1>2, Upto
<1>4. PICK g \in [0 .. N -> D] : Run(g, N)
  BY <1>3
<1> QED
  BY <1>4 DEF IsRun

\* A loop stays in D when each of its turns does.
LEMMA StaysIn ==
  ASSUME NEW N \in Nat, NEW D, NEW h, h[0] \in D,
         \A k \in 1 .. N : h[k - 1] \in D => h[k] \in D
  PROVE  \A k \in 0 .. N : h[k] \in D
<1> DEFINE S == {k \in 0 .. N : h[k] \in D}
<1>1. 0 \in S
  OBVIOUS
<1>2. ASSUME NEW k \in 0 .. N - 1, k \in S
      PROVE  k + 1 \in S
  <2>1. k + 1 \in 1 .. N /\ k + 1 \in 0 .. N /\ (k + 1) - 1 = k
    OBVIOUS
  <2> QED
    BY <1>2, <2>1
<1>3. \A k \in 0 .. N : k \in S
  <2> HIDE DEF S
  <2> QED
    BY <1>1, <1>2, Upto
<1> QED
  BY <1>3

-----------------------------------------------------------------------------
(* Powers of two                                                           *)

LEMMA Pow2Def ==
  Pow2 = [i \in 0 .. WIDTH |-> IF i = 0 THEN 1 ELSE 2 * Pow2[i - 1]]
<1> DEFINE step == [p \in (1 .. WIDTH) \X Nat |-> 2 * p[2]]
<1>1. IsStep(step, WIDTH, Nat)
  BY DEF IsStep
<1>2. PICK g : IsRun(g, WIDTH, Nat, 1, step)
  <2> HIDE DEF step
  <2> QED
    BY <1>1, LoopExists, WidthAssumption
<1>3. ASSUME NEW k \in 1 .. WIDTH
      PROVE  g[k] = 2 * g[k - 1]
  <2>1. k - 1 \in 0 .. WIDTH /\ g \in [0 .. WIDTH -> Nat]
    <3>1. k - 1 \in 0 .. WIDTH
      BY WidthAssumption
    <3>2. g \in [0 .. WIDTH -> Nat]
      BY <1>2, Zenon DEF IsRun
    <3> QED
      BY <3>1, <3>2
  <2>2. g[k] = step[<<k, g[k - 1]>>]
    <3> HIDE DEF step
    <3> QED
      BY <1>2 DEF IsRun
  <2>3. g[k - 1] \in Nat
    <3> HIDE DEF step
    <3> QED
      BY <2>1
  <2>4. step[<<k, g[k - 1]>>] = 2 * g[k - 1]
    BY <2>3
  <2> QED
    BY <2>2, <2>4, Zenon
<1> HIDE DEF step
<1>4. \A k \in 0 .. WIDTH : g[k] = IF k = 0 THEN 1 ELSE 2 * g[k - 1]
  <2>1. \A k \in 0 .. WIDTH : k # 0 => k \in 1 .. WIDTH
    BY WidthAssumption
  <2>2. g[0] = 1
    BY <1>2 DEF IsRun
  <2> QED
    BY <1>3, <2>1, <2>2
<1>5. g = [k \in 0 .. WIDTH |-> IF k = 0 THEN 1 ELSE 2 * g[k - 1]]
  <2>1. g = [k \in 0 .. WIDTH |-> g[k]]
    BY <1>2 DEF IsRun
  <2> QED
    BY <1>4, <2>1
<1> QED
  BY <1>5 DEF Pow2

LEMMA Pow2Values ==
  /\ Pow2[0] = 1
  /\ \A i \in 1 .. WIDTH : Pow2[i] = 2 * Pow2[i - 1]
  /\ \A i \in 0 .. WIDTH : Pow2[i] \in Nat \ {0}
<1>1. Pow2[0] = 1
  BY Pow2Def, WidthAssumption
<1>2. ASSUME NEW i \in 1 .. WIDTH
      PROVE  Pow2[i] = 2 * Pow2[i - 1]
  BY Pow2Def, WidthAssumption
<1> DEFINE S == {i \in 0 .. WIDTH : Pow2[i] \in Nat \ {0}}
<1>3. 0 \in S
  BY <1>1, WidthAssumption
<1>4. ASSUME NEW i \in 0 .. WIDTH - 1, i \in S
      PROVE  i + 1 \in S
  <2>1. Pow2[i + 1] = 2 * Pow2[i]
    BY <1>2, WidthAssumption
  <2> QED
    BY <1>4, <2>1, WidthAssumption
<1>5. \A i \in 0 .. WIDTH : i \in S
  <2> HIDE DEF S
  <2> QED
    BY <1>3, <1>4, Upto, WidthAssumption
<1> QED
  BY <1>1, <1>2, <1>5

-----------------------------------------------------------------------------
(* Quotients and rests                                                     *)

LEMMA DivMod ==
  ASSUME NEW x \in Int, NEW m \in Int, m > 0
  PROVE  \E q \in Int, r \in 0 .. m - 1 : q = x \div m /\ r = x % m /\ x = q * m + r
<1>1. PICK q \in Int : q = x \div m
  OBVIOUS
<1>2. PICK r \in 0 .. m - 1 : r = x % m
  OBVIOUS
<1>3. x = q * m + r
  BY <1>1, <1>2
<1> QED
  BY <1>1, <1>2, <1>3, Zenon

LEMMA DivModUnique ==
  ASSUME NEW m \in Int, m > 0, NEW q \in Int, NEW r \in 0 .. m - 1
  PROVE  (q * m + r) \div m = q /\ (q * m + r) % m = r
OBVIOUS

\* A multiple of m makes no difference to the rest.
LEMMA ModMultiple ==
  ASSUME NEW x \in Int, NEW m \in Int, m > 0, NEW t \in Int
  PROVE  (x - t * m) % m = x % m
<1>1. PICK q \in Int, r \in 0 .. m - 1 : q = x \div m /\ r = x % m /\ x = q * m + r
  BY DivMod
<1>2. x - t * m = (q - t) * m + r
  BY <1>1
<1>3. ((q - t) * m + r) % m = r
  <2>1. q - t \in Int
    BY <1>1
  <2> QED
    BY <1>1, <2>1, DivModUnique
<1>4. (x - t * m) % m = r
  BY <1>2, <1>3, Zenon
<1> QED
  BY <1>1, <1>4, Zenon

\* The modulus of the registers.
LEMMA Modulus ==
  Pow2[WIDTH] \in Int /\ Pow2[WIDTH] > 0 /\ Values = 0 .. Pow2[WIDTH] - 1
<1>1. WIDTH \in 0 .. WIDTH
  BY WidthAssumption
<1> QED
  BY <1>1, Pow2Values DEF Values

LEMMA WrapShape ==
  ASSUME NEW x \in Int
  PROVE  Wrap(x) \in Values /\ \E t \in Int : Wrap(x) = x - t * Pow2[WIDTH]
<1> DEFINE m == Pow2[WIDTH]
<1>1. m \in Int /\ m > 0
  BY Modulus
<1> HIDE DEF m
<1>2. PICK q \in Int, r \in 0 .. m - 1 : q = x \div m /\ r = x % m /\ x = q * m + r
  BY <1>1, DivMod
<1>3. Wrap(x) = r
  BY <1>2, Zenon DEF Wrap, m
<1>4. r = x - q * m
  BY <1>1, <1>2
<1> QED
  BY <1>2, <1>3, <1>4, Modulus, Zenon DEF m

LEMMA WrapInt ==
  ASSUME NEW x \in Int
  PROVE  Wrap(x) \in Int
<1>1. Wrap(x) \in Values
  BY WrapShape
<1> HIDE DEF Wrap
<1> QED
  BY <1>1, Modulus

\* A register holds its value.
LEMMA WrapValue ==
  ASSUME NEW x \in Values
  PROVE  Wrap(x) = x
<1> DEFINE m == Pow2[WIDTH]
<1>1. m \in Int /\ m > 0 /\ x \in 0 .. m - 1
  BY Modulus
<1> HIDE DEF m
<1>2. (0 * m + x) % m = x
  BY <1>1, DivModUnique
<1>3. x % m = x
  BY <1>1, <1>2
<1> QED
  BY <1>3 DEF Wrap, m

LEMMA WrapMultiple ==
  ASSUME NEW x \in Int, NEW t \in Int
  PROVE  Wrap(x - t * Pow2[WIDTH]) = Wrap(x)
<1> DEFINE m == Pow2[WIDTH]
<1>1. m \in Int /\ m > 0
  BY Modulus
<1> HIDE DEF m
<1>2. (x - t * m) % m = x % m
  BY <1>1, ModMultiple
<1> QED
  BY <1>2 DEF Wrap, m

-----------------------------------------------------------------------------
(* Multiplication                                                          *)

MulStates == [res : Int, a : Int, b : Int]

LEMMA MulTurnType ==
  ASSUME NEW s \in MulStates
  PROVE  MulTurn(s) \in MulStates
<1>1. s.res \in Int /\ s.a \in Int /\ s.b \in Int
  BY DEF MulStates
<1>2. s.res + s.a \in Int /\ s.a * 2 \in Int /\ Halved(s.b) \in Int
  BY <1>1 DEF Halved
<1>3. Wrap(s.res + s.a) \in Int /\ Wrap(s.a * 2) \in Int
  BY <1>2, WrapInt
<1> QED
  BY <1>1, <1>2, <1>3 DEF MulTurn, MulStates

\* The loop of __mulsi3 as a sequence of states.
LEMMA MulLoop ==
  ASSUME NEW a \in Int, NEW b \in Int
  PROVE  \E g \in [0 .. WIDTH -> MulStates] :
           /\ g[0] = [res |-> 0, a |-> a, b |-> b]
           /\ \A k \in 1 .. WIDTH : g[k] = MulTurn(g[k - 1])
           /\ Multiplied(a, b) = g[WIDTH]
<1> DEFINE first == [res |-> 0, a |-> a, b |-> b]
           step == [p \in (1 .. WIDTH) \X MulStates |-> MulTurn(p[2])]
<1>1. first \in MulStates
  BY DEF MulStates
<1>2. IsStep(step, WIDTH, MulStates)
  BY MulTurnType DEF IsStep
<1>3. \A k \in 1 .. WIDTH, x \in MulStates : step[<<k, x>>] = MulTurn(x)
  OBVIOUS
<1> HIDE DEF step, first
<1>4. PICK g : IsRun(g, WIDTH, MulStates, first, step)
  BY <1>1, <1>2, LoopExists, WidthAssumption
<1>5. g \in [0 .. WIDTH -> MulStates] /\ g[0] = first
  BY <1>4, Zenon DEF IsRun
<1>6. ASSUME NEW k \in 1 .. WIDTH
      PROVE  g[k] = MulTurn(g[k - 1])
  <2>1. k - 1 \in 0 .. WIDTH
    BY WidthAssumption
  <2>2. g[k - 1] \in MulStates
    BY <1>5, <2>1
  <2>3. g[k] = step[<<k, g[k - 1]>>]
    BY <1>4, Zenon DEF IsRun
  <2> QED
    BY <1>3, <2>2, <2>3, Zenon
<1> DEFINE loop[k \in 0 .. WIDTH] ==
             IF k = 0 THEN [res |-> 0, a |-> a, b |-> b] ELSE MulTurn(loop[k - 1])
<1>7. loop = [k \in 0 .. WIDTH |->
                IF k = 0 THEN [res |-> 0, a |-> a, b |-> b] ELSE MulTurn(loop[k - 1])]
  <2>1. \A k \in 0 .. WIDTH : k = 0 \/ k \in 1 .. WIDTH
    BY WidthAssumption
  <2>2. \A k \in 0 .. WIDTH : g[k] = IF k = 0 THEN first ELSE MulTurn(g[k - 1])
    BY <1>5, <1>6, <2>1, Zenon
  <2>3. g = [k \in 0 .. WIDTH |-> g[k]]
    BY <1>5
  <2>4. g = [k \in 0 .. WIDTH |-> IF k = 0 THEN first ELSE MulTurn(g[k - 1])]
    BY <2>2, <2>3
  <2> QED
    BY <2>4 DEF first
<1>8. Multiplied(a, b) = loop[WIDTH]
  BY DEF Multiplied
<1> HIDE DEF loop
<1>9. loop[0] = first /\ \A k \in 1 .. WIDTH : loop[k] = MulTurn(loop[k - 1])
  <2>1. 0 \in 0 .. WIDTH /\ \A k \in 1 .. WIDTH : k \in 0 .. WIDTH /\ k # 0
    BY WidthAssumption
  <2>2. \A k \in 0 .. WIDTH :
          loop[k] = IF k = 0 THEN [res |-> 0, a |-> a, b |-> b] ELSE MulTurn(loop[k - 1])
    BY <1>7
  <2> QED
    BY <2>1, <2>2, Zenon DEF first
<1>10. \A k \in 0 .. WIDTH : loop[k] \in MulStates
  BY <1>1, <1>9, MulTurnType, StaysIn, WidthAssumption
<1>11. loop \in [0 .. WIDTH -> MulStates]
  BY <1>7, <1>10
<1> QED
  BY <1>8, <1>9, <1>11 DEF first

LEMMA MulArithmetic ==
  ASSUME NEW res \in Int, NEW a \in Int, NEW h \in Int, NEW p \in Int,
         NEW u \in Int, NEW v \in Int, NEW m \in Int
  PROVE  ((res + p * a) - u * m) + (a * 2 - v * m) * h
            = (res + a * (h * 2 + p)) - (u + v * h) * m
OBVIOUS

\* A turn keeps what is still to come.
LEMMA MulTurnKeeps ==
  ASSUME NEW s \in MulStates, s.b >= 0, s.res \in Values
  PROVE  LET t == MulTurn(s)
         IN  /\ t.b = s.b \div 2
             /\ t.res \in Values
             /\ Wrap(t.res + t.a * t.b) = Wrap(s.res + s.a * s.b)
<1> DEFINE t == MulTurn(s)
           m == Pow2[WIDTH]
<1>1. s.res \in Int /\ s.a \in Int /\ s.b \in Int
  BY DEF MulStates
<1>2. CASE s.b = 0
  <2>1. t = s
    BY <1>2 DEF MulTurn
  <2>2. s.b \div 2 = s.b
    BY <1>2
  <2> HIDE DEF t
  <2> QED
    BY <2>1, <2>2 DEF t
<1>3. CASE s.b # 0
  <2>1. PICK h \in Int, p \in 0 .. 1 : h = s.b \div 2 /\ p = s.b % 2 /\ s.b = h * 2 + p
    <3>1. 2 \in Int /\ 2 > 0 /\ 2 - 1 = 1
      OBVIOUS
    <3> QED
      BY <1>1, <3>1, DivMod
  <2>2. t = [res |-> IF p = 1 THEN Wrap(s.res + s.a) ELSE s.res, a |-> Wrap(s.a * 2), b |-> h]
    BY <1>3, <2>1 DEF MulTurn, Halved
  <2>3. PICK u \in Int : t.res = (s.res + p * s.a) - u * m /\ t.res \in Values
    <3>1. CASE p = 1
      <4>1. s.res + s.a \in Int
        BY <1>1
      <4>2. PICK u \in Int : Wrap(s.res + s.a) = (s.res + s.a) - u * m
        <5> DEFINE z == s.res + s.a
        <5>1. z \in Int
          BY <4>1
        <5> HIDE DEF z, t
        <5>2. \E u \in Int : Wrap(z) = z - u * m
          BY <5>1, WrapShape
        <5> QED
          BY <5>2, Zenon DEF z
      <4>3. Wrap(s.res + s.a) \in Values /\ t.res = Wrap(s.res + s.a)
        BY <2>2, <3>1, <4>1, WrapShape
      <4>4. p * s.a = s.a
        BY <1>1, <3>1
      <4> HIDE DEF t, m
      <4> QED
        BY <4>2, <4>3, <4>4
    <3>2. CASE p = 0
      <4>1. t.res = s.res
        BY <2>2, <3>2
      <4>2. m \in Int
        BY Modulus
      <4> HIDE DEF t, m
      <4>3. s.res = (s.res + p * s.a) - 0 * m
        BY <1>1, <3>2, <4>2
      <4> QED
        BY <4>1, <4>3
    <3>3. p = 0 \/ p = 1
      OBVIOUS
    <3> QED
      BY <3>1, <3>2, <3>3
  <2>4. PICK v \in Int : t.a = s.a * 2 - v * m
    <3>1. s.a * 2 \in Int
      BY <1>1
    <3>2. PICK v \in Int : Wrap(s.a * 2) = s.a * 2 - v * m
      BY <3>1, WrapShape
    <3>3. t.a = Wrap(s.a * 2)
      BY <2>2
    <3> HIDE DEF t, m
    <3> QED
      BY <3>2, <3>3
  <2>5. t.b = h
    BY <2>2
  <2>6. m \in Int /\ p \in Int
    BY Modulus
  <2> HIDE DEF t, m
  <2> DEFINE x == s.res + s.a * s.b
             w == u + v * h
  <2>7. x \in Int /\ w \in Int
    BY <1>1, <2>1
  <2>8. t.res + t.a * t.b = x - w * m
    <3>1. ((s.res + p * s.a) - u * m) + (s.a * 2 - v * m) * h
            = (s.res + s.a * (h * 2 + p)) - (u + v * h) * m
      BY <1>1, <2>6, MulArithmetic
    <3>2. t.res + t.a * t.b = ((s.res + p * s.a) - u * m) + (s.a * 2 - v * m) * h
      BY <2>3, <2>4, <2>5, Zenon
    <3>3. x = s.res + s.a * (h * 2 + p)
      BY <2>1, Zenon
    <3> HIDE DEF x
    <3> QED
      BY <3>1, <3>2, <3>3, Zenon DEF w
  <2> HIDE DEF x, w
  <2>9. Wrap(x - w * m) = Wrap(x)
    BY <2>7, WrapMultiple DEF m
  <2> QED
    BY <2>1, <2>3, <2>5, <2>8, <2>9 DEF x, t
<1> QED
  BY <1>2, <1>3

\* The half of what is below 2^(k + 1) is below 2^k.
LEMMA HalfBelow ==
  ASSUME NEW x \in Nat, NEW p \in Nat, x < 2 * p
  PROVE  x \div 2 \in Nat /\ x \div 2 < p
OBVIOUS

\* After WIDTH turns nothing is left of the multiplier.
LEMMA MultipliedIs ==
  ASSUME NEW a \in Values, NEW b \in Values
  PROVE  Multiplied(a, b).b = 0 /\ mul(a, b) = Wrap(a * b)
<1>1. a \in Int /\ b \in Int /\ 0 \in Values
  BY Modulus
<1>2. PICK g \in [0 .. WIDTH -> MulStates] :
        /\ g[0] = [res |-> 0, a |-> a, b |-> b]
        /\ \A k \in 1 .. WIDTH : g[k] = MulTurn(g[k - 1])
        /\ Multiplied(a, b) = g[WIDTH]
  BY <1>1, MulLoop
<1> DEFINE Good(s, k) == /\ s.b \in 0 .. Pow2[WIDTH - k] - 1
                         /\ s.res \in Values
                         /\ Wrap(s.res + s.a * s.b) = Wrap(a * b)
           S == {k \in 0 .. WIDTH : Good(g[k], k)}
<1>3. 0 \in S
  <2>1. WIDTH - 0 = WIDTH /\ 0 + a * b = a * b /\ 0 \in 0 .. WIDTH
    BY <1>1, WidthAssumption
  <2>2. g[0].b = b /\ g[0].a = a /\ g[0].res = 0
    BY <1>2
  <2>3. Good(g[0], 0)
    BY <1>1, <2>1, <2>2, Modulus
  <2> QED
    BY <2>1, <2>3
<1>4. ASSUME NEW k \in 0 .. WIDTH - 1, k \in S
      PROVE  k + 1 \in S
  <2> DEFINE s == g[k]
             t == g[k + 1]
  <2>1. /\ k \in 0 .. WIDTH /\ k + 1 \in 0 .. WIDTH /\ k + 1 \in 1 .. WIDTH
        /\ WIDTH - k \in 1 .. WIDTH /\ WIDTH - (k + 1) = WIDTH - k - 1
        /\ WIDTH - k - 1 \in 0 .. WIDTH /\ (k + 1) - 1 = k
    BY WidthAssumption
  <2>2. t = MulTurn(s) /\ s \in MulStates
    BY <1>2, <2>1
  <2>3. Good(s, k)
    BY <1>4
  <2> HIDE DEF s, t
  <2> DEFINE p == Pow2[WIDTH - k - 1]
  <2>4. Pow2[WIDTH - k] = 2 * p /\ p \in Nat
    BY <2>1, Pow2Values
  <2> HIDE DEF p
  <2>5. s.b \in Nat /\ s.b < 2 * p /\ s.res \in Values
    BY <2>3, <2>4
  <2>6. t.b = s.b \div 2 /\ t.res \in Values /\ Wrap(t.res + t.a * t.b) = Wrap(s.res + s.a * s.b)
    BY <2>2, <2>5, MulTurnKeeps
  <2>7. t.b \in 0 .. p - 1
    BY <2>4, <2>5, <2>6, HalfBelow
  <2>8. Good(t, k + 1)
    BY <2>1, <2>3, <2>6, <2>7 DEF p
  <2> HIDE DEF Good
  <2> QED
    BY <2>1, <2>8 DEF t
<1>5. \A k \in 0 .. WIDTH : k \in S
  <2> HIDE DEF S
  <2> QED
    BY <1>3, <1>4, Upto, WidthAssumption
<1>6. Good(g[WIDTH], WIDTH)
  <2>1. WIDTH \in 0 .. WIDTH
    BY WidthAssumption
  <2> QED
    BY <1>5, <2>1
<1> DEFINE s == g[WIDTH]
<1>7. s \in MulStates
  BY <1>2, WidthAssumption
<1>8. s.b = 0
  <2>1. Pow2[WIDTH - WIDTH] = 1
    BY Pow2Values, WidthAssumption
  <2> QED
    BY <1>6, <2>1
<1>9. s.res \in Values /\ Wrap(s.res + s.a * s.b) = Wrap(a * b)
  BY <1>6
<1> HIDE DEF s
<1>10. s.res + s.a * s.b = s.res
  <2>1. s.a \in Int /\ s.res \in Int
    BY <1>7 DEF MulStates
  <2> QED
    BY <1>8, <2>1
<1>11. Wrap(s.res) = s.res
  BY <1>9, WrapValue
<1> QED
  BY <1>2, <1>8, <1>9, <1>10, <1>11 DEF s, mul

\* The shift-and-add loop multiplies modulo 2^WIDTH and ends, for registers of
\* every width.
THEOREM MulAgreesHolds == Spec => []MulAgrees
<1>1. Init => MulAgrees
  BY MultipliedIs DEF Init, MulAgrees, Wrap
<1>2. MulAgrees /\ [Next]_<<n, d>> => MulAgrees'
  BY DEF MulAgrees, Next
<1> QED
  BY <1>1, <1>2, PTL DEF Spec

-----------------------------------------------------------------------------
(* Unsigned division                                                       *)

DivStates == [q : Int, r : Int]

LEMMA TurnType ==
  ASSUME NEW num \in Nat, NEW den \in Int, NEW i \in 0 .. WIDTH, NEW acc \in DivStates
  PROVE  Turn(acc, num, den, i) \in DivStates
<1>1. acc.q \in Int /\ acc.r \in Int /\ acc.r * 2 \in Int
  BY DEF DivStates
<1>2. Wrap(acc.r * 2) \in Int
  BY <1>1, WrapInt
<1>3. Pow2[i] \in Int /\ Pow2[i] > 0
  BY Pow2Values
<1>4. Bit(num, i) \in Int
  BY <1>3 DEF Bit
<1> HIDE DEF Bit, Wrap
<1> QED
  BY <1>1, <1>2, <1>3, <1>4 DEF Turn, DivStates

\* The loop of __udivsi3 as a sequence of states.
LEMMA DivLoop ==
  ASSUME NEW num \in Nat, NEW den \in Int
  PROVE  \E g \in [0 .. WIDTH -> DivStates] :
           /\ g[0] = [q |-> 0, r |-> 0]
           /\ \A k \in 1 .. WIDTH : g[k] = Turn(g[k - 1], num, den, WIDTH - k)
           /\ Divided(num, den) = g[WIDTH]
<1> DEFINE first == [q |-> 0, r |-> 0]
           step == [p \in (1 .. WIDTH) \X DivStates |-> Turn(p[2], num, den, WIDTH - p[1])]
<1>1. first \in DivStates
  BY DEF DivStates
<1>2. \A k \in 1 .. WIDTH, x \in DivStates : Turn(x, num, den, WIDTH - k) \in DivStates
  <2>1. \A k \in 1 .. WIDTH : WIDTH - k \in 0 .. WIDTH
    BY WidthAssumption
  <2> QED
    BY <2>1, TurnType
<1> HIDE DEF Turn
<1>3. IsStep(step, WIDTH, DivStates)
  BY <1>2 DEF IsStep
<1>4. \A k \in 1 .. WIDTH, x \in DivStates : step[<<k, x>>] = Turn(x, num, den, WIDTH - k)
  OBVIOUS
<1> HIDE DEF step, first
<1>5. PICK g : IsRun(g, WIDTH, DivStates, first, step)
  BY <1>1, <1>3, LoopExists, WidthAssumption
<1>6. g \in [0 .. WIDTH -> DivStates] /\ g[0] = first
  BY <1>5, Zenon DEF IsRun
<1>7. ASSUME NEW k \in 1 .. WIDTH
      PROVE  g[k] = Turn(g[k - 1], num, den, WIDTH - k)
  <2>1. k - 1 \in 0 .. WIDTH
    BY WidthAssumption
  <2>2. g[k - 1] \in DivStates
    BY <1>6, <2>1
  <2>3. g[k] = step[<<k, g[k - 1]>>]
    BY <1>5, Zenon DEF IsRun
  <2> QED
    BY <1>4, <2>2, <2>3, Zenon
<1> DEFINE loop[k \in 0 .. WIDTH] ==
             IF k = 0 THEN [q |-> 0, r |-> 0] ELSE Turn(loop[k - 1], num, den, WIDTH - k)
<1>8. loop = [k \in 0 .. WIDTH |->
                IF k = 0 THEN [q |-> 0, r |-> 0] ELSE Turn(loop[k - 1], num, den, WIDTH - k)]
  <2>1. \A k \in 0 .. WIDTH : k = 0 \/ k \in 1 .. WIDTH
    BY WidthAssumption
  <2>2. \A k \in 0 .. WIDTH :
          g[k] = IF k = 0 THEN first ELSE Turn(g[k - 1], num, den, WIDTH - k)
    BY <1>6, <1>7, <2>1, Zenon
  <2>3. g = [k \in 0 .. WIDTH |-> g[k]]
    BY <1>6
  <2>4. g = [k \in 0 .. WIDTH |->
               IF k = 0 THEN first ELSE Turn(g[k - 1], num, den, WIDTH - k)]
    BY <2>2, <2>3
  <2> QED
    BY <2>4 DEF first
<1>9. Divided(num, den) = loop[WIDTH]
  BY DEF Divided
<1> HIDE DEF loop
<1>10. loop[0] = first /\ \A k \in 1 .. WIDTH : loop[k] = Turn(loop[k - 1], num, den, WIDTH - k)
  <2>1. 0 \in 0 .. WIDTH /\ \A k \in 1 .. WIDTH : k \in 0 .. WIDTH /\ k # 0
    BY WidthAssumption
  <2>2. \A k \in 0 .. WIDTH :
          loop[k] = IF k = 0 THEN [q |-> 0, r |-> 0]
                    ELSE Turn(loop[k - 1], num, den, WIDTH - k)
    BY <1>8
  <2> QED
    BY <2>1, <2>2, Zenon DEF first
<1>11. \A k \in 0 .. WIDTH : loop[k] \in DivStates
  <2>1. loop[0] \in DivStates
    BY <1>1, <1>10
  <2>2. \A k \in 1 .. WIDTH : loop[k - 1] \in DivStates => loop[k] \in DivStates
    BY <1>2, <1>10, Zenon
  <2> QED
    BY <2>1, <2>2, StaysIn, WidthAssumption
<1>12. loop \in [0 .. WIDTH -> DivStates]
  BY <1>8, <1>11
<1> QED
  BY <1>9, <1>10, <1>12 DEF first

LEMMA ProductSign ==
  ASSUME NEW x \in Int, NEW m \in Int, m > 0, NEW r \in 0 .. m - 1, x * m + r >= 0
  PROVE  x >= 0
OBVIOUS

LEMMA ProductGrows ==
  ASSUME NEW x \in Nat, NEW p \in Int, p > 0
  PROVE  x * p \in Nat /\ x <= x * p
OBVIOUS

\* What the next bit b does to quotient and rest.
DivTurned(num, den, p, q, r, b) ==
  /\ r \in Nat /\ r * 2 <= num
  /\ b \in 0 .. 1
  /\ r * 2 + b >= den => /\ (num \div p) % den = (r * 2 + b) - den
                         /\ ((num \div p) \div den) * p = q + p
  /\ r * 2 + b < den => /\ (num \div p) % den = r * 2 + b
                        /\ ((num \div p) \div den) * p = q

\* From the bits of num above 2 * p to those above p.
LEMMA DivStep ==
  ASSUME NEW num \in Nat, NEW den \in Int, den > 0, NEW p \in Int, p > 0,
         NEW q, NEW r, NEW b,
         q = ((num \div (2 * p)) \div den) * (2 * p),
         r = (num \div (2 * p)) % den,
         b = (num \div p) % 2
  PROVE  DivTurned(num, den, p, q, r, b)
<1>1. PICK above \in Int, l \in 0 .. p - 1 : above = num \div p /\ num = above * p + l
  BY DivMod
<1>2. PICK high \in Int, c \in 0 .. 1 : c = above % 2 /\ above = high * 2 + c
  <2>1. 2 \in Int /\ 2 > 0 /\ 2 - 1 = 1
    OBVIOUS
  <2> QED
    BY <2>1, DivMod
<1>3. b = c
  BY <1>1, <1>2, Zenon
<1>4. num \div (2 * p) = high /\ high >= 0 /\ num >= high * (2 * p)
  <2> DEFINE rest == c * p + l
  <2>1. rest \in 0 .. 2 * p - 1
    <3>1. c = 0 \/ c = 1
      OBVIOUS
    <3> QED
      BY <3>1
  <2>2. num = high * (2 * p) + rest
    <3>1. (high * 2 + c) * p + l = high * (2 * p) + (c * p + l)
      OBVIOUS
    <3> QED
      BY <1>1, <1>2, <3>1, Zenon
  <2>3. 2 * p \in Int /\ 2 * p > 0
    OBVIOUS
  <2> HIDE DEF rest
  <2>4. (high * (2 * p) + rest) \div (2 * p) = high
    BY <2>1, <2>3, DivModUnique
  <2>5. high >= 0
    BY <2>1, <2>2, <2>3, ProductSign
  <2> QED
    BY <2>1, <2>2, <2>4, <2>5
<1>5. PICK quot \in Int, rest \in 0 .. den - 1 :
        quot = high \div den /\ rest = high % den /\ high = quot * den + rest
  BY DivMod
<1>6. r = rest /\ q = quot * (2 * p)
  BY <1>4, <1>5, Zenon
<1>7. r * 2 <= num
  <2>1. quot >= 0
    BY <1>4, <1>5, ProductSign
  <2>2. rest <= high
    <3>1. quot * den \in Nat
      BY <2>1, ProductGrows
    <3> QED
      BY <1>5, <3>1
  <2>3. high * 2 <= (high * 2) * p
    <3>1. high * 2 \in Nat
      BY <1>4
    <3> QED
      BY <3>1, ProductGrows
  <2>4. (high * 2) * p = high * (2 * p)
    OBVIOUS
  <2>5. high * (2 * p) \in Int
    OBVIOUS
  <2> DEFINE x == high * (2 * p)
  <2> HIDE DEF x
  <2>6. high * 2 <= x /\ x <= num /\ x \in Int
    BY <1>4, <2>3, <2>4, <2>5 DEF x
  <2> QED
    BY <1>6, <2>2, <2>6
<1>8. ASSUME r * 2 + b >= den
      PROVE  /\ above % den = (r * 2 + b) - den
             /\ (above \div den) * p = q + p
  <2> DEFINE next == (rest * 2 + c) - den
             twice == quot * 2 + 1
  <2>1. next \in 0 .. den - 1 /\ twice \in Int
    BY <1>3, <1>6, <1>8
  <2>2. above = twice * den + next
    <3>1. (quot * den + rest) * 2 + c = (quot * 2 + 1) * den + ((rest * 2 + c) - den)
      OBVIOUS
    <3> QED
      BY <1>2, <1>5, <3>1, Zenon
  <2>3. twice * p = quot * (2 * p) + p
    OBVIOUS
  <2>4. next = (r * 2 + b) - den
    BY <1>3, <1>6, Zenon
  <2> HIDE DEF next, twice
  <2>5. above \div den = twice /\ above % den = next
    BY <2>1, <2>2, DivModUnique
  <2> QED
    BY <1>6, <2>3, <2>4, <2>5, Zenon
<1>9. ASSUME r * 2 + b < den
      PROVE  /\ above % den = r * 2 + b
             /\ (above \div den) * p = q
  <2> DEFINE next == rest * 2 + c
             twice == quot * 2
  <2>1. next \in 0 .. den - 1 /\ twice \in Int
    BY <1>3, <1>6, <1>9
  <2>2. above = twice * den + next
    <3>1. (quot * den + rest) * 2 + c = (quot * 2) * den + (rest * 2 + c)
      OBVIOUS
    <3> QED
      BY <1>2, <1>5, <3>1, Zenon
  <2>3. twice * p = quot * (2 * p)
    OBVIOUS
  <2>4. next = r * 2 + b
    BY <1>3, <1>6, Zenon
  <2> HIDE DEF next, twice
  <2>5. above \div den = twice /\ above % den = next
    BY <2>1, <2>2, DivModUnique
  <2> QED
    BY <1>6, <2>3, <2>4, <2>5, Zenon
<1>10. r \in Nat /\ b \in 0 .. 1
  BY <1>3, <1>6
<1> QED
  BY <1>1, <1>7, <1>8, <1>9, <1>10, Zenon DEF DivTurned

\* What the loop has when the bits from i on are done.
DivDone(s, num, den, i) ==
  /\ s.q = ((num \div Pow2[i]) \div den) * Pow2[i]
  /\ s.r = (num \div Pow2[i]) % den

\* The shift of the rest loses no bit, whatever the divisor.
LEMMA TurnKeeps ==
  ASSUME NEW num \in Values, NEW den \in Int, den > 0, NEW s \in DivStates,
         NEW i \in 0 .. WIDTH - 1, DivDone(s, num, den, i + 1)
  PROVE  DivDone(Turn(s, num, den, i), num, den, i)
<1> DEFINE p == Pow2[i]
           b == Bit(num, i)
           t == Turn(s, num, den, i)
<1>1. p \in Int /\ p > 0 /\ Pow2[i + 1] = 2 * p
  <2>1. i \in 0 .. WIDTH /\ i + 1 \in 1 .. WIDTH /\ (i + 1) - 1 = i
    BY WidthAssumption
  <2> QED
    BY <2>1, Pow2Values
<1>2. b = (num \div p) % 2
  BY DEF Bit
<1>3. s.q = ((num \div (2 * p)) \div den) * (2 * p) /\ s.r = (num \div (2 * p)) % den
  BY <1>1, Zenon DEF DivDone
<1>4. num \in Nat
  BY Modulus
<1> HIDE DEF p, b
<1>5. /\ s.r \in Nat /\ s.r * 2 <= num
      /\ b \in 0 .. 1
      /\ s.r * 2 + b >= den => /\ (num \div p) % den = (s.r * 2 + b) - den
                               /\ ((num \div p) \div den) * p = s.q + p
      /\ s.r * 2 + b < den => /\ (num \div p) % den = s.r * 2 + b
                              /\ ((num \div p) \div den) * p = s.q
  <2>1. DivTurned(num, den, p, s.q, s.r, b)
    BY <1>1, <1>2, <1>3, <1>4, DivStep, Zenon
  <2> QED
    BY <2>1, Zenon DEF DivTurned
<1>6. Wrap(s.r * 2) = s.r * 2
  <2>1. s.r \in Nat /\ s.r * 2 <= num
    BY <1>5, Zenon
  <2>2. s.r * 2 \in Values
    BY <2>1, Modulus
  <2> QED
    BY <2>2, WrapValue
<1>7. t = IF s.r * 2 + b >= den THEN [q |-> s.q + p, r |-> (s.r * 2 + b) - den]
                                ELSE [q |-> s.q, r |-> s.r * 2 + b]
  BY <1>6, Zenon DEF Turn, Enough, p, b
<1> HIDE DEF t
<1>8. CASE s.r * 2 + b >= den
  <2>1. t.q = s.q + p /\ t.r = (s.r * 2 + b) - den
    BY <1>7, <1>8
  <2> QED
    BY <1>5, <1>8, <2>1, Zenon DEF DivDone, t, p
<1>9. CASE s.r * 2 + b < den
  <2>1. ~ (s.r * 2 + b >= den)
    BY <1>5, <1>9
  <2>2. t.q = s.q /\ t.r = s.r * 2 + b
    BY <1>7, <2>1
  <2> QED
    BY <1>5, <1>9, <2>2, Zenon DEF DivDone, t, p
<1>10. s.r * 2 + b >= den \/ s.r * 2 + b < den
  BY <1>5
<1> QED
  BY <1>8, <1>9, <1>10, Zenon

LEMMA DividedIs ==
  ASSUME NEW num \in Values, NEW den \in Int, den > 0
  PROVE  udiv(num, den) = num \div den /\ umod(num, den) = num % den
<1>1. num \in Nat
  BY Modulus
<1>2. PICK g \in [0 .. WIDTH -> DivStates] :
        /\ g[0] = [q |-> 0, r |-> 0]
        /\ \A k \in 1 .. WIDTH : g[k] = Turn(g[k - 1], num, den, WIDTH - k)
        /\ Divided(num, den) = g[WIDTH]
  BY <1>1, DivLoop
<1> DEFINE S == {k \in 0 .. WIDTH : DivDone(g[k], num, den, WIDTH - k)}
<1>3. 0 \in S
  <2> DEFINE m == Pow2[WIDTH]
  <2>1. m \in Int /\ m > 0 /\ num \in 0 .. m - 1
    BY Modulus
  <2> HIDE DEF m
  <2>2. (0 * m + num) \div m = 0
    BY <2>1, DivModUnique
  <2>3. num \div m = 0
    BY <2>1, <2>2
  <2>4. 0 \div den = 0 /\ 0 % den = 0
    OBVIOUS
  <2>5. g[0].q = 0 /\ g[0].r = 0
    BY <1>2
  <2>6. WIDTH - 0 = WIDTH /\ 0 \in 0 .. WIDTH /\ 0 * m = 0
    BY <2>1, WidthAssumption
  <2>7. DivDone(g[0], num, den, WIDTH)
    BY <2>3, <2>4, <2>5, <2>6, Zenon DEF DivDone, m
  <2> QED
    BY <2>6, <2>7
<1>4. ASSUME NEW k \in 0 .. WIDTH - 1, k \in S
      PROVE  k + 1 \in S
  <2> DEFINE i == WIDTH - (k + 1)
  <2>1. /\ k \in 0 .. WIDTH /\ k + 1 \in 0 .. WIDTH /\ k + 1 \in 1 .. WIDTH
        /\ (k + 1) - 1 = k /\ i \in 0 .. WIDTH - 1 /\ WIDTH - k = i + 1
    BY WidthAssumption
  <2>2. g[k + 1] = Turn(g[k], num, den, i) /\ g[k] \in DivStates
    <3>1. g[k + 1] = Turn(g[(k + 1) - 1], num, den, i)
      BY <1>2, <2>1, Zenon
    <3>2. g[k] \in DivStates
      BY <1>2, <2>1
    <3> HIDE DEF Turn, i
    <3> QED
      BY <2>1, <3>1, <3>2
  <2>3. DivDone(g[k], num, den, WIDTH - k)
    BY <1>4
  <2>4. DivDone(g[k], num, den, i + 1)
    BY <2>1, <2>3, Zenon
  <2> HIDE DEF i
  <2>5. DivDone(Turn(g[k], num, den, i), num, den, i)
    BY <2>1, <2>2, <2>4, TurnKeeps
  <2> QED
    BY <2>1, <2>2, <2>5, Zenon DEF i
<1>5. \A k \in 0 .. WIDTH : k \in S
  <2> HIDE DEF S
  <2> QED
    BY <1>3, <1>4, Upto, WidthAssumption
<1>6. DivDone(g[WIDTH], num, den, 0)
  <2>1. WIDTH \in 0 .. WIDTH /\ WIDTH - WIDTH = 0
    BY WidthAssumption
  <2> QED
    BY <1>5, <2>1, Zenon
<1>7. Pow2[0] = 1 /\ num \div 1 = num
  BY <1>1, Pow2Values
<1>8. (num \div den) * 1 = num \div den
  BY <1>1
<1> QED
  BY <1>2, <1>6, <1>7, <1>8, Zenon DEF DivDone, udiv, umod

-----------------------------------------------------------------------------
(* Signed division                                                         *)

LEMMA HalfModulus ==
  /\ Pow2[WIDTH - 1] \in Int /\ Pow2[WIDTH - 1] > 0
  /\ Pow2[WIDTH] = 2 * Pow2[WIDTH - 1]
<1>1. WIDTH \in 1 .. WIDTH /\ WIDTH - 1 \in 0 .. WIDTH
  BY WidthAssumption
<1> QED
  BY <1>1, Pow2Values

LEMMA NegIs ==
  ASSUME NEW x \in Values
  PROVE  Neg(x) = IF x = 0 THEN 0 ELSE Pow2[WIDTH] - x
<1> DEFINE m == Pow2[WIDTH]
<1>1. m \in Int /\ m > 0 /\ Values = 0 .. m - 1
  BY Modulus
<1>2. - x \in Int /\ -1 \in Int
  BY <1>1
<1>3. Wrap((- x) - (-1) * m) = Wrap(- x)
  BY <1>2, WrapMultiple
<1> HIDE DEF m
<1>4. (- x) - (-1) * m = m - x
  BY <1>1
<1>5. CASE x = 0
  <2>1. x \in Int
    BY <1>1
  <2>2. - x = 0 - x /\ 0 - x = x
    <3>1. - x = 0 - x
      BY <2>1
    <3>2. 0 - x = x
      BY <1>5
    <3> QED
      BY <3>1, <3>2, Zenon
  <2>3. Wrap(x) = x
    BY WrapValue
  <2> QED
    BY <1>5, <2>2, <2>3, Zenon DEF Neg
<1>6. CASE x # 0
  <2>1. m - x \in Values
    BY <1>1, <1>6
  <2>2. Wrap(m - x) = m - x
    BY <2>1, WrapValue
  <2>3. Neg(x) = m - x
    BY <1>3, <1>4, <2>2, Zenon DEF Neg
  <2> QED
    BY <1>6, <2>3 DEF m
<1> QED
  BY <1>5, <1>6

\* A register as a sign and a magnitude.
LEMMA SignAndMagnitude ==
  ASSUME NEW x \in Values
  PROVE  /\ Signed(x) \in Int
         /\ Negative(x) = (Signed(x) < 0)
         /\ Magnitude(x) = Abs(Signed(x))
         /\ Magnitude(x) \in 0 .. Pow2[WIDTH - 1]
         /\ Magnitude(x) \in Values
         /\ x # 0 => Magnitude(x) > 0
         /\ Signed(x) = Magnitude(x) * (IF Signed(x) < 0 THEN -1 ELSE 1)
<1> DEFINE m == Pow2[WIDTH]
           h == Pow2[WIDTH - 1]
<1>1. m \in Int /\ m > 0 /\ Values = 0 .. m - 1 /\ h \in Int /\ h > 0 /\ m = 2 * h
  BY Modulus, HalfModulus
<1>2. x \in 0 .. m - 1
  BY <1>1
<1>3. Signed(x) = IF x >= h THEN x - m ELSE x
  BY DEF Signed
<1>4. Negative(x) <=> x >= h
  BY DEF Negative
<1>5. Magnitude(x) = IF x >= h THEN m - x ELSE x
  <2>1. CASE x >= h
    <3>1. x # 0
      BY <1>1, <2>1
    <3>2. Neg(x) = m - x
      BY <3>1, NegIs
    <3> QED
      BY <1>4, <2>1, <3>2 DEF Magnitude
  <2>2. CASE ~ (x >= h)
    BY <1>4, <2>2 DEF Magnitude
  <2> QED
    BY <2>1, <2>2
<1> HIDE DEF m, h
<1>6. CASE x >= h
  <2>1. Signed(x) = x - m /\ Magnitude(x) = m - x /\ Negative(x) = TRUE
    BY <1>3, <1>4, <1>5, <1>6 DEF Negative, h
  <2>2. x - m < 0 /\ x - m \in Int /\ Abs(x - m) = m - x /\ m - x \in 0 .. h /\ m - x > 0
        /\ m - x \in 0 .. m - 1 /\ x - m = (m - x) * (-1)
    BY <1>1, <1>2, <1>6 DEF Abs
  <2> HIDE DEF Abs
  <2> QED
    BY <1>1, <2>1, <2>2 DEF h
<1>7. CASE ~ (x >= h)
  <2>1. Signed(x) = x /\ Magnitude(x) = x /\ Negative(x) = FALSE
    BY <1>3, <1>4, <1>5, <1>7 DEF Negative, h
  <2>2. ~ (x < 0) /\ x \in Int /\ Abs(x) = x /\ x \in 0 .. h /\ x \in 0 .. m - 1
        /\ x = x * 1 /\ (x # 0 => x > 0)
    BY <1>1, <1>2, <1>7 DEF Abs
  <2> HIDE DEF Abs, Magnitude, Signed, Negative
  <2>3. (x < 0) = FALSE
    BY <2>2
  <2>4. Negative(x) = (Signed(x) < 0)
    BY <2>1, <2>3, Zenon
  <2> QED
    BY <1>1, <2>1, <2>2, <2>4 DEF h
<1> QED
  BY <1>6, <1>7

\* A magnitude below the sign bit comes back with the sign it is given.
LEMMA SignedAgain ==
  ASSUME NEW r \in Nat, r < Pow2[WIDTH - 1]
  PROVE  r \in Values /\ Signed(r) = r /\ Signed(Neg(r)) = - r
<1> DEFINE m == Pow2[WIDTH]
           h == Pow2[WIDTH - 1]
<1>1. m \in Int /\ Values = 0 .. m - 1 /\ h \in Int /\ h > 0 /\ m = 2 * h
  BY Modulus, HalfModulus
<1>2. r < h
  OBVIOUS
<1>3. \A x : Signed(x) = IF x >= h THEN x - m ELSE x
  BY DEF Signed
<1> HIDE DEF m, h
<1>4. r \in Values
  BY <1>1, <1>2
<1>5. Neg(r) = IF r = 0 THEN 0 ELSE m - r
  BY <1>4, NegIs DEF m
<1> HIDE DEF Neg, Signed
<1>6. Signed(r) = r
  BY <1>1, <1>2, <1>3
<1>7. CASE r = 0
  <2>1. Neg(r) = r
    BY <1>5, <1>7
  <2>2. - r = 0 - r
    OBVIOUS
  <2>3. 0 - r = r
    BY <1>7
  <2> QED
    BY <1>4, <1>6, <2>1, <2>2, <2>3, Zenon
<1>8. CASE r # 0
  <2>1. Neg(r) = m - r
    BY <1>5, <1>8
  <2>2. Signed(m - r) = (m - r) - m
    BY <1>1, <1>2, <1>3
  <2>3. (m - r) - m = - r
    BY <1>1
  <2> QED
    BY <1>4, <1>6, <2>1, <2>2, <2>3
<1> QED
  BY <1>7, <1>8

LEMMA Minus ==
  ASSUME NEW x \in Int
  PROVE  x * (-1) = - x /\ x * 1 = x /\ - x \in Int
<1>1. x * (-1) = 0 - x /\ - x = 0 - x
  OBVIOUS
<1> QED
  BY <1>1

\* The rest has the sign of the dividend.
RestSigned(A, B, Q, R, sa, sb, s) == A * sa - (B * sb) * (Q * s) = R * sa

LEMMA SignedArithmetic ==
  ASSUME NEW A \in Int, NEW B \in Int, NEW Q \in Int, NEW R \in Int, A = Q * B + R,
         NEW sa \in {-1, 1}, NEW sb \in {-1, 1}, NEW s \in {-1, 1},
         s = IF sa = sb THEN 1 ELSE -1
  PROVE  RestSigned(A, B, Q, R, sa, sb, s)
<1> USE DEF RestSigned
<1>1. CASE sa = 1 /\ sb = 1
  BY <1>1
<1>2. CASE sa = 1 /\ sb = -1
  BY <1>2
<1>3. CASE sa = -1 /\ sb = 1
  BY <1>3
<1>4. CASE sa = -1 /\ sb = -1
  BY <1>4
<1> QED
  BY <1>1, <1>2, <1>3, <1>4

LEMMA SignedDividedIs ==
  ASSUME NEW x \in Values, NEW y \in Values, y # 0
  PROVE  LET a == Signed(x)
             b == Signed(y)
             q == (Abs(a) \div Abs(b)) * (IF (a < 0) # (b < 0) THEN -1 ELSE 1)
         IN  div(x, y) = Wrap(q) /\ Signed(mod(x, y)) = a - b * q
<1> DEFINE a == Signed(x)
           b == Signed(y)
           A == Magnitude(x)
           B == Magnitude(y)
           h == Pow2[WIDTH - 1]
           sa == IF a < 0 THEN -1 ELSE 1
           sb == IF b < 0 THEN -1 ELSE 1
           s == IF (a < 0) # (b < 0) THEN -1 ELSE 1
<1>1. /\ a \in Int /\ Negative(x) = (a < 0) /\ A = Abs(a) /\ A \in Values /\ a = A * sa
      /\ A \in 0 .. h
  BY SignAndMagnitude, Zenon
<1>2. /\ b \in Int /\ Negative(y) = (b < 0) /\ B = Abs(b) /\ B \in 0 .. h /\ B > 0
      /\ b = B * sb
  BY SignAndMagnitude, Zenon
<1>3. h \in Int /\ h > 0 /\ A \in Int /\ B \in Int /\ A >= 0
  BY <1>1, <1>2, HalfModulus
<1> HIDE DEF A, B, h, a, b
<1>4. PICK Q \in Int, R \in 0 .. B - 1 : Q = A \div B /\ R = A % B /\ A = Q * B + R
  BY <1>2, <1>3, DivMod
<1>5. udiv(A, B) = Q /\ umod(A, B) = R
  <2>1. udiv(A, B) = A \div B /\ umod(A, B) = A % B
    BY <1>1, <1>2, <1>3, DividedIs
  <2> QED
    BY <1>4, <2>1, Zenon
<1>6. R \in Nat /\ R < h
  BY <1>2, <1>3
<1>7. Q \in 0 .. A
  <2>1. Q >= 0
    BY <1>2, <1>3, <1>4, ProductSign
  <2>2. Q <= Q * B
    BY <1>2, <1>3, <2>1, ProductGrows
  <2>3. Q * B <= A /\ Q * B \in Int
    BY <1>3, <1>4
  <2> DEFINE z == Q * B
  <2> HIDE DEF z
  <2>4. Q <= z /\ z <= A /\ z \in Int
    BY <2>2, <2>3 DEF z
  <2> QED
    BY <1>3, <2>1, <2>4
<1>8. Q \in Values
  <2>1. 0 .. A \subseteq Values
    BY <1>1, Modulus
  <2> QED
    BY <1>7, <2>1
<1>9. div(x, y) = IF Negative(x) # Negative(y) THEN Neg(Q) ELSE Q
  BY <1>5, Zenon DEF div, A, B
<1>10. mod(x, y) = IF Negative(x) THEN Neg(R) ELSE R
  BY <1>5, Zenon DEF mod, SignOfRest, A, B
<1>11. div(x, y) = Wrap(Q * s)
  <2>1. Q * (-1) = - Q /\ Q * 1 = Q
    BY Minus
  <2>2. Wrap(Q) = Q /\ Neg(Q) = Wrap(- Q)
    BY <1>8, WrapValue DEF Neg
  <2>3. CASE (a < 0) # (b < 0)
    BY <1>1, <1>2, <1>9, <2>1, <2>2, <2>3, Zenon
  <2>4. CASE ~ ((a < 0) # (b < 0))
    BY <1>1, <1>2, <1>9, <2>1, <2>2, <2>4, Zenon
  <2> QED
    BY <2>3, <2>4, Zenon
<1>12. Signed(mod(x, y)) = R * sa
  <2>1. Signed(R) = R /\ Signed(Neg(R)) = - R /\ R * (-1) = - R /\ R * 1 = R
    BY <1>6, SignedAgain, Minus DEF h
  <2>2. CASE a < 0
    BY <1>1, <1>10, <2>1, <2>2, Zenon
  <2>3. CASE ~ (a < 0)
    BY <1>1, <1>10, <2>1, <2>3, Zenon
  <2> QED
    BY <2>2, <2>3, Zenon
<1>13. R * sa = a - b * (Q * s)
  <2>1. sa \in {-1, 1} /\ sb \in {-1, 1} /\ s \in {-1, 1} /\ s = IF sa = sb THEN 1 ELSE -1
    BY <1>1, <1>2
  <2> HIDE DEF sa, sb, s
  <2>2. RestSigned(A, B, Q, R, sa, sb, s)
    <3>1. R \in Int
      BY <1>6
    <3> QED
      <4>1. A \in Int /\ B \in Int
        BY <1>3
      <4>2. Q \in Int /\ R \in Int
        BY <3>1
      <4>3. A = Q * B + R
        BY <1>4, Zenon
      <4>4. \A A0, B0, Q0, R0 \in Int : A0 = Q0 * B0 + R0 => \A sa0, sb0, s0 \in {-1, 1} :
              s0 = (IF sa0 = sb0 THEN 1 ELSE -1) => RestSigned(A0, B0, Q0, R0, sa0, sb0, s0)
        BY SignedArithmetic, Zenon
      <4>5. \A sa0, sb0, s0 \in {-1, 1} :
              s0 = (IF sa0 = sb0 THEN 1 ELSE -1) => RestSigned(A, B, Q, R, sa0, sb0, s0)
        BY <4>1, <4>2, <4>3, <4>4, ZenonT(60)
      <4> QED
        BY <4>5, <2>1, Zenon
  <2> QED
    BY <1>1, <1>2, <2>2, Zenon DEF RestSigned
<1> QED
  BY <1>1, <1>2, <1>4, <1>11, <1>12, <1>13, Zenon DEF a, b

\* The restoring division divides, and its signed form rounds as C does, for
\* registers of every width.
THEOREM DivisionAgreesHolds == Spec => []DivisionAgrees
<1>1. Init => DivisionAgrees
  <2> SUFFICES ASSUME Init, d # 0
               PROVE  DivisionAgrees
    BY DEF DivisionAgrees
  <2>1. n \in Values /\ d \in Values /\ d \in Int /\ d > 0
    BY Modulus DEF Init
  <2>2. udiv(n, d) = n \div d /\ umod(n, d) = n % d
    BY <2>1, DividedIs
  <2> QED
    BY <2>1, <2>2, SignedDividedIs, Zenon DEF DivisionAgrees
<1>2. DivisionAgrees /\ [Next]_<<n, d>> => DivisionAgrees'
  BY DEF DivisionAgrees, Next
<1> QED
  BY <1>1, <1>2, PTL DEF Spec

-----------------------------------------------------------------------------
(* The clipping of a rectangle                                             *)

\* One dimension: the clipped span covers what is on the screen.
LEMMA SpanOnScreen ==
  ASSUME NEW at \in Int, NEW len \in Int, NEW size \in Nat, at < size
  PROVE  LET span == Ended(Begun(at, len), size)
         IN  /\ span.at \in Int /\ span.len \in Int
             /\ \A i \in 0 .. span.len - 1 :
                  /\ span.at + i \in 0 .. size - 1
                  /\ at <= span.at + i /\ span.at + i < at + len
             /\ \A p \in 0 .. size - 1 :
                  at <= p /\ p < at + len => p - span.at \in 0 .. span.len - 1
<1> DEFINE begun == Begun(at, len)
           span == Ended(begun, size)
<1>1. /\ begun.at = IF at < 0 THEN 0 ELSE at
      /\ begun.len = IF at < 0 THEN len + at ELSE len
      /\ begun = [at |-> begun.at, len |-> begun.len]
  BY DEF Begun
<1> HIDE DEF begun
<1>2. /\ span.at = begun.at
      /\ span.len = IF begun.at + begun.len > size THEN size - begun.at ELSE begun.len
  BY <1>1 DEF Ended
<1> HIDE DEF span
<1> DEFINE a == span.at
           l == span.len
<1>3. /\ a = IF at < 0 THEN 0 ELSE at
      /\ l = LET b == IF at < 0 THEN len + at ELSE len
            IN  IF a + b > size THEN size - a ELSE b
  BY <1>1, <1>2
<1> HIDE DEF a, l
<1>4. /\ a \in Int /\ l \in Int
      /\ \A i \in 0 .. l - 1 : a + i \in 0 .. size - 1 /\ at <= a + i /\ a + i < at + len
      /\ \A p \in 0 .. size - 1 : at <= p /\ p < at + len => p - a \in 0 .. l - 1
  BY <1>3
<1> QED
  BY <1>4 DEF a, l, span, begun

Columns(x, w) == {p \in 0 .. VGA_WIDTH - 1 : x <= p /\ p < x + w}
Lines(y, h) == {p \in 0 .. VGA_HEIGHT - 1 : y <= p /\ p < y + h}
Pixels(x, y, w, h) == {b * VGA_WIDTH + a : a \in Columns(x, w), b \in Lines(y, h)}

LEMMA PixelNumbers ==
  ASSUME NEW width \in Int, NEW dy \in Int, NEW ax \in Int, NEW row \in Int, NEW col \in Int
  PROVE  (dy + row) * width + ax + col = (dy + row) * width + (ax + col)
OBVIOUS

\* All of a rectangle, wherever it lies, and nothing but it.
LEMMA RectOnScreen ==
  ASSUME NEW x \in Int, NEW y \in Int, NEW w \in Int, NEW h \in Int
  PROVE  Rect(x, y, w, h) = Pixels(x, y, w, h)
<1>1. VGA_WIDTH \in Nat /\ VGA_HEIGHT \in Nat /\ VGA_WIDTH \in Int
  BY ScreenAssumption
<1>2. CASE x >= VGA_WIDTH \/ y >= VGA_HEIGHT
  <2>1. Columns(x, w) = {} \/ Lines(y, h) = {}
    BY <1>1, <1>2 DEF Columns, Lines
  <2>2. Pixels(x, y, w, h) = {}
    BY <2>1 DEF Pixels
  <2> QED
    BY <1>2, <2>2 DEF Rect
<1>3. CASE ~ (x >= VGA_WIDTH \/ y >= VGA_HEIGHT)
  <2> DEFINE across == Ended(Begun(x, w), VGA_WIDTH)
             down == Ended(Begun(y, h), VGA_HEIGHT)
             ax == across.at
             dy == down.at
             al == across.len
             dl == down.len
  <2>1. Rect(x, y, w, h) =
          {(dy + row) * VGA_WIDTH + ax + col : row \in 0 .. dl - 1, col \in 0 .. al - 1}
    BY <1>3 DEF Rect
  <2>2. /\ ax \in Int /\ al \in Int
        /\ \A i \in 0 .. al - 1 : ax + i \in Columns(x, w)
        /\ \A p \in Columns(x, w) : p - ax \in 0 .. al - 1
    <3>1. x < VGA_WIDTH
      BY <1>1, <1>3
    <3> HIDE DEF across
    <3> QED
      BY <1>1, <3>1, SpanOnScreen DEF across, Columns
  <2>3. /\ dy \in Int /\ dl \in Int
        /\ \A i \in 0 .. dl - 1 : dy + i \in Lines(y, h)
        /\ \A p \in Lines(y, h) : p - dy \in 0 .. dl - 1
    <3>1. y < VGA_HEIGHT
      BY <1>1, <1>3
    <3> HIDE DEF down
    <3> QED
      BY <1>1, <3>1, SpanOnScreen DEF down, Lines
  <2> HIDE DEF ax, dy, al, dl, across, down
  <2>4. \A a \in Columns(x, w) : a \in Int
    BY DEF Columns
  <2>5. \A b \in Lines(y, h) : b \in Int
    BY DEF Lines
  <2>6. ASSUME NEW byte, byte \in Rect(x, y, w, h)
        PROVE  byte \in Pixels(x, y, w, h)
    <3>1. PICK row \in 0 .. dl - 1, col \in 0 .. al - 1 :
            byte = (dy + row) * VGA_WIDTH + ax + col
      BY <2>1, <2>6
    <3> DEFINE b == dy + row
               a == ax + col
    <3>2. a \in Columns(x, w) /\ b \in Lines(y, h)
      BY <2>2, <2>3
    <3>3. byte = b * VGA_WIDTH + a
      <4>1. row \in Int /\ col \in Int
        BY <2>2, <2>3
      <4>2. (dy + row) * VGA_WIDTH + ax + col = (dy + row) * VGA_WIDTH + (ax + col)
        BY <1>1, <2>2, <2>3, <4>1, PixelNumbers
      <4> QED
        BY <3>1, <4>2, Zenon
    <3> HIDE DEF a, b
    <3> QED
      BY <3>2, <3>3 DEF Pixels
  <2>7. ASSUME NEW byte, byte \in Pixels(x, y, w, h)
        PROVE  byte \in Rect(x, y, w, h)
    <3>1. PICK a \in Columns(x, w), b \in Lines(y, h) : byte = b * VGA_WIDTH + a
      BY <2>7 DEF Pixels
    <3> DEFINE row == b - dy
               col == a - ax
    <3>2. row \in 0 .. dl - 1 /\ col \in 0 .. al - 1
      BY <2>2, <2>3
    <3>3. a \in Int /\ b \in Int /\ row \in Int /\ col \in Int
      BY <2>2, <2>3, <2>4, <2>5
    <3>4. dy + row = b /\ ax + col = a
      BY <2>2, <2>3, <3>3
    <3> HIDE DEF row, col
    <3>5. byte = (dy + row) * VGA_WIDTH + ax + col
      <4>1. (dy + row) * VGA_WIDTH + ax + col = (dy + row) * VGA_WIDTH + (ax + col)
        BY <1>1, <2>2, <2>3, <3>3, PixelNumbers
      <4> QED
        BY <3>1, <3>4, <4>1, Zenon
    <3> QED
      BY <2>1, <3>2, <3>5
  <2> QED
    BY <2>6, <2>7
<1> QED
  BY <1>2, <1>3

\* Exactly what lies on the screen is painted, for every screen.
THEOREM RectClippedHolds == Spec => []RectClipped
<1>1. RectClipped
  <2>1. Positions \subseteq Int
    BY ScreenAssumption DEF Positions
  <2> QED
    BY <2>1, RectOnScreen DEF RectClipped, Pixels, Columns, Lines
<1> QED
  BY <1>1, PTL

-----------------------------------------------------------------------------
(* Characters                                                              *)

LEMMA HexValues ==
  /\ hex_chars[1] = "0" /\ hex_chars[2] = "1" /\ hex_chars[3] = "2" /\ hex_chars[4] = "3"
  /\ hex_chars[5] = "4" /\ hex_chars[6] = "5" /\ hex_chars[7] = "6" /\ hex_chars[8] = "7"
  /\ hex_chars[9] = "8" /\ hex_chars[10] = "9" /\ hex_chars[11] = "A" /\ hex_chars[12] = "B"
  /\ hex_chars[13] = "C" /\ hex_chars[14] = "D" /\ hex_chars[15] = "E" /\ hex_chars[16] = "F"
BY DEF hex_chars

LEMMA LowerValues ==
  /\ lower_chars[1] = "0" /\ lower_chars[2] = "1" /\ lower_chars[3] = "2" /\ lower_chars[4] = "3"
  /\ lower_chars[5] = "4" /\ lower_chars[6] = "5" /\ lower_chars[7] = "6" /\ lower_chars[8] = "7"
  /\ lower_chars[9] = "8" /\ lower_chars[10] = "9" /\ lower_chars[11] = "a" /\ lower_chars[12] = "b"
  /\ lower_chars[13] = "c" /\ lower_chars[14] = "d" /\ lower_chars[15] = "e" /\ lower_chars[16] = "f"
BY DEF lower_chars

\* No character stands for two numbers.
LEMMA CharsDistinct ==
  ASSUME NEW j \in 1 .. 16, NEW k \in 1 .. 16, j # k
  PROVE  hex_chars[j] # hex_chars[k] /\ lower_chars[j] # lower_chars[k] /\ hex_chars[j] # lower_chars[k]
BY HexValues, LowerValues

\* A digit of either case is worth its number.
LEMMA ValueOfDigit ==
  ASSUME NEW base \in 1 .. 16, NEW k \in 0 .. base - 1, NEW ch \in {hex_chars[k + 1], lower_chars[k + 1]}
  PROVE  ValueOf(ch, base) = k
<1> DEFINE here == {j \in 0 .. base - 1 : ch \in {hex_chars[j + 1], lower_chars[j + 1]}}
<1>1. here = {k}
  <2>1. k \in here
    OBVIOUS
  <2>2. ASSUME NEW j \in here, j # k
        PROVE  FALSE
    <3>1. j + 1 \in 1 .. 16 /\ k + 1 \in 1 .. 16 /\ j + 1 # k + 1
      BY <2>2
    <3>2. /\ hex_chars[j + 1] # hex_chars[k + 1] /\ lower_chars[j + 1] # lower_chars[k + 1]
          /\ hex_chars[j + 1] # lower_chars[k + 1] /\ hex_chars[k + 1] # lower_chars[j + 1]
      BY <3>1, CharsDistinct
    <3>3. ch \in {hex_chars[j + 1], lower_chars[j + 1]}
      OBVIOUS
    <3> QED
      BY <3>2, <3>3
  <2> QED
    BY <2>1, <2>2
<1>2. here # {} /\ (CHOOSE j \in here : TRUE) = k
  BY <1>1
<1> QED
  BY <1>2, Zenon DEF ValueOf

LEMMA ValueOfType ==
  ASSUME NEW base \in 1 .. 16, NEW ch
  PROVE  ValueOf(ch, base) \in 0 .. base
<1> DEFINE here == {j \in 0 .. base - 1 : ch \in {hex_chars[j + 1], lower_chars[j + 1]}}
<1>1. CASE here = {}
  <2>1. ValueOf(ch, base) = base
    BY <1>1, Zenon DEF ValueOf
  <2> QED
    BY <2>1
<1>2. CASE here # {}
  <2>1. ValueOf(ch, base) = CHOOSE j \in here : TRUE
    BY <1>2, Zenon DEF ValueOf
  <2>2. here \subseteq 0 .. base
    OBVIOUS
  <2> HIDE DEF here
  <2>3. (CHOOSE j \in here : TRUE) \in here
    BY <1>2
  <2> QED
    BY <2>1, <2>2, <2>3
<1> QED
  BY <1>1, <1>2

-----------------------------------------------------------------------------
(* Reading a number                                                        *)

ParseStates == [val : Int, ended : BOOLEAN]

LEMMA ShiftedType ==
  ASSUME NEW base \in 1 .. 16, NEW ch, NEW acc \in ParseStates
  PROVE  Shifted(acc, ch, base) \in ParseStates
<1> DEFINE k == ValueOf(ch, base)
<1>1. k \in Int
  BY ValueOfType
<1> HIDE DEF k
<1>2. acc.val \in Int /\ acc.ended \in BOOLEAN
  BY DEF ParseStates
<1>3. acc.val * base + k \in Int
  BY <1>1, <1>2
<1>4. Wrap(acc.val * base + k) \in Int
  BY <1>3, WrapInt
<1> HIDE DEF Wrap
<1>5. Shifted(acc, ch, base) =
        IF acc.ended \/ k = base THEN [val |-> acc.val, ended |-> TRUE]
        ELSE [val |-> Wrap(acc.val * base + k), ended |-> FALSE]
  BY DEF Shifted, k
<1> QED
  BY <1>2, <1>4, <1>5 DEF ParseStates

\* The loop of my_atoi or strtoul_hex as a sequence of states.
IsParse(g, s, len, base) ==
  /\ g \in [0 .. len -> ParseStates]
  /\ g[0] = [val |-> 0, ended |-> FALSE]
  /\ \A k \in 1 .. len : g[k] = Shifted(g[k - 1], s[k], base)
  /\ Parsed(s, base) = g[len].val

LEMMA ParseLoop ==
  ASSUME NEW s, NEW len \in Nat, Len(s) = len, NEW base \in 1 .. 16
  PROVE  \E g : IsParse(g, s, len, base)
<1> DEFINE first == [val |-> 0, ended |-> FALSE]
           step == [p \in (1 .. len) \X ParseStates |-> Shifted(p[2], s[p[1]], base)]
<1>1. first \in ParseStates
  BY DEF ParseStates
<1>2. \A k \in 1 .. len, x \in ParseStates : Shifted(x, s[k], base) \in ParseStates
  BY ShiftedType
<1> HIDE DEF Shifted
<1>3. IsStep(step, len, ParseStates)
  BY <1>2 DEF IsStep
<1>4. \A k \in 1 .. len, x \in ParseStates : step[<<k, x>>] = Shifted(x, s[k], base)
  OBVIOUS
<1> HIDE DEF step, first
<1>5. PICK g : IsRun(g, len, ParseStates, first, step)
  BY <1>1, <1>3, LoopExists
<1>6. g \in [0 .. len -> ParseStates] /\ g[0] = first
  BY <1>5, Zenon DEF IsRun
<1>7. ASSUME NEW k \in 1 .. len
      PROVE  g[k] = Shifted(g[k - 1], s[k], base)
  <2>1. k - 1 \in 0 .. len
    OBVIOUS
  <2>2. g[k - 1] \in ParseStates
    BY <1>6, <2>1
  <2>3. g[k] = step[<<k, g[k - 1]>>]
    BY <1>5, Zenon DEF IsRun
  <2> QED
    BY <1>4, <2>2, <2>3, Zenon
<1> DEFINE loop[k \in 0 .. Len(s)] ==
             IF k = 0 THEN [val |-> 0, ended |-> FALSE] ELSE Shifted(loop[k - 1], s[k], base)
<1>8. loop = [k \in 0 .. len |->
                IF k = 0 THEN [val |-> 0, ended |-> FALSE] ELSE Shifted(loop[k - 1], s[k], base)]
  <2>1. \A k \in 0 .. len : k = 0 \/ k \in 1 .. len
    OBVIOUS
  <2>2. \A k \in 0 .. len : g[k] = IF k = 0 THEN first ELSE Shifted(g[k - 1], s[k], base)
    BY <1>6, <1>7, <2>1, Zenon
  <2>3. g = [k \in 0 .. len |-> g[k]]
    BY <1>6
  <2>4. g = [k \in 0 .. len |-> IF k = 0 THEN first ELSE Shifted(g[k - 1], s[k], base)]
    BY <2>2, <2>3
  <2> QED
    BY <2>4 DEF first
<1>9. Parsed(s, base) = loop[len].val
  BY DEF Parsed
<1> HIDE DEF loop
<1>10. loop[0] = first /\ \A k \in 1 .. len : loop[k] = Shifted(loop[k - 1], s[k], base)
  <2>1. 0 \in 0 .. len /\ \A k \in 1 .. len : k \in 0 .. len /\ k # 0
    OBVIOUS
  <2>2. \A k \in 0 .. len :
          loop[k] = IF k = 0 THEN [val |-> 0, ended |-> FALSE]
                    ELSE Shifted(loop[k - 1], s[k], base)
    BY <1>8
  <2> QED
    BY <2>1, <2>2, Zenon DEF first
<1>11. \A k \in 0 .. len : loop[k] \in ParseStates
  <2>1. loop[0] \in ParseStates
    BY <1>1, <1>10
  <2>2. \A k \in 1 .. len : loop[k - 1] \in ParseStates => loop[k] \in ParseStates
    BY <1>2, <1>10, Zenon
  <2> QED
    BY <2>1, <2>2, StaysIn
<1>12. loop \in [0 .. len -> ParseStates]
  BY <1>8, <1>11
<1> QED
  BY <1>9, <1>10, <1>12, Zenon DEF first, IsParse

\* v[k] is the value of the first k digits of s.
AreValues(v, s, len, base) ==
  /\ Len(s) = len /\ v[0] = 0
  /\ \A k \in 1 .. len : /\ v[k] \in Values
                          /\ ValueOf(s[k], base) # base
                          /\ v[k] = v[k - 1] * base + ValueOf(s[k], base)

\* A text of digits whose values fit into a register is read as the last of them.
LEMMA ParsedIs ==
  ASSUME NEW s, NEW len \in Nat, NEW base \in 1 .. 16, NEW v, AreValues(v, s, len, base)
  PROVE  Parsed(s, base) = v[len]
<1> USE DEF AreValues
<1>1. PICK g : IsParse(g, s, len, base)
  BY ParseLoop
<1> USE DEF IsParse
<1> DEFINE S == {k \in 0 .. len : g[k] = [val |-> v[k], ended |-> FALSE]}
<1>2. 0 \in S
  BY <1>1
<1>3. ASSUME NEW k \in 0 .. len - 1, k \in S
      PROVE  k + 1 \in S
  <2> DEFINE j == k + 1
             c == ValueOf(s[j], base)
  <2>1. j \in 1 .. len /\ j \in 0 .. len /\ j - 1 = k
    OBVIOUS
  <2> HIDE DEF j
  <2>2. g[j] = Shifted(g[k], s[j], base) /\ v[j] \in Values /\ c # base /\ v[j] = v[k] * base + c
    BY <1>1, <2>1
  <2>3. g[k] = [val |-> v[k], ended |-> FALSE]
    BY <1>3
  <2>4. Wrap(v[k] * base + c) = v[j]
    BY <2>2, WrapValue
  <2>5. g[k].val = v[k] /\ g[k].ended = FALSE
    BY <2>3
  <2>6. g[j] = [val |-> v[j], ended |-> FALSE]
    BY <2>2, <2>4, <2>5, Zenon DEF Shifted
  <2> QED
    BY <2>1, <2>6 DEF j
<1>4. \A k \in 0 .. len : k \in S
  <2> HIDE DEF S
  <2> QED
    BY <1>2, <1>3, Upto
<1>5. g[len] = [val |-> v[len], ended |-> FALSE]
  BY <1>4
<1> QED
  BY <1>1, <1>5

-----------------------------------------------------------------------------
(* Printing a number in decimal                                            *)

LEMMA ByTen ==
  ASSUME NEW x \in Values
  PROVE  \E q \in Values, r \in 0 .. 9 :
           /\ udiv(x, 10) = q /\ umod(x, 10) = r
           /\ x = q * 10 + r
           /\ \A p \in Nat \ {0} : x < 2 * p => q < p
<1>1. 10 \in Int /\ 10 > 0
  OBVIOUS
<1>2. udiv(x, 10) = x \div 10 /\ umod(x, 10) = x % 10
  BY <1>1, DividedIs
<1>3. x \in Nat
  BY Modulus
<1>4. PICK q \in Int, r \in 0 .. 10 - 1 : q = x \div 10 /\ r = x % 10 /\ x = q * 10 + r
  BY <1>1, <1>3, DivMod
<1>5. q \in 0 .. x /\ r \in 0 .. 9 /\ \A p \in Nat \ {0} : x < 2 * p => q < p
  BY <1>3, <1>4
<1>6. 0 .. x \subseteq Values
  BY Modulus
<1>7. q \in Values
  BY <1>5, <1>6
<1>8. udiv(x, 10) = q /\ umod(x, 10) = r
  BY <1>2, <1>4, Zenon
<1> QED
  BY <1>4, <1>5, <1>7, <1>8

Decimals == {hex_chars[k] : k \in 1 .. 10}

LEMMA DigitIs ==
  ASSUME NEW k \in 0 .. 9
  PROVE  Digit(k) = hex_chars[k + 1] /\ Digit(k) \in Decimals
<1>1. k < 10 /\ k + 1 \in 1 .. 10
  OBVIOUS
<1>2. Digit(k) = hex_chars[k + 1]
  BY <1>1, Zenon DEF Digit
<1> QED
  BY <1>1, <1>2, Zenon DEF Decimals

ExtractStates == [num : Values, buf : Seq(Decimals)]

LEMMA ExtractType ==
  ASSUME NEW s \in ExtractStates
  PROVE  Extract(s) \in ExtractStates
<1>1. s.num \in Values /\ s.buf \in Seq(Decimals)
  BY DEF ExtractStates
<1> DEFINE q == udiv(s.num, 10)
           c == Digit(umod(s.num, 10))
<1>2. q \in Values
  BY <1>1, ByTen
<1>3. c \in Decimals
  BY <1>1, ByTen, DigitIs
<1>4. Extract(s) = IF s.num = 0 THEN s ELSE [num |-> q, buf |-> Append(s.buf, c)]
  BY DEF Extract
<1> HIDE DEF q, c
<1>5. Append(s.buf, c) \in Seq(Decimals)
  BY <1>1, <1>3
<1> QED
  BY <1>1, <1>2, <1>4, <1>5 DEF ExtractStates

\* The loop of print_dec as a sequence of states.
IsExtraction(g, num) ==
  /\ g \in [0 .. WIDTH -> ExtractStates]
  /\ g[0] = [num |-> num, buf |-> <<>>]
  /\ \A k \in 1 .. WIDTH : g[k] = Extract(g[k - 1])
  /\ Extracted(num) = g[WIDTH].buf

LEMMA ExtractLoop ==
  ASSUME NEW num \in Values
  PROVE  \E g : IsExtraction(g, num)
<1> DEFINE first == [num |-> num, buf |-> <<>>]
           step == [p \in (1 .. WIDTH) \X ExtractStates |-> Extract(p[2])]
<1>1. first \in ExtractStates
  BY DEF ExtractStates
<1> HIDE DEF Extract
<1>2. IsStep(step, WIDTH, ExtractStates)
  BY ExtractType DEF IsStep
<1>3. \A k \in 1 .. WIDTH, x \in ExtractStates : step[<<k, x>>] = Extract(x)
  OBVIOUS
<1> HIDE DEF step, first
<1>4. PICK g : IsRun(g, WIDTH, ExtractStates, first, step)
  BY <1>1, <1>2, LoopExists, WidthAssumption
<1>5. g \in [0 .. WIDTH -> ExtractStates] /\ g[0] = first
  BY <1>4, Zenon DEF IsRun
<1>6. ASSUME NEW k \in 1 .. WIDTH
      PROVE  g[k] = Extract(g[k - 1])
  <2>1. k - 1 \in 0 .. WIDTH
    BY WidthAssumption
  <2>2. g[k - 1] \in ExtractStates
    BY <1>5, <2>1
  <2>3. g[k] = step[<<k, g[k - 1]>>]
    BY <1>4, Zenon DEF IsRun
  <2> QED
    BY <1>3, <2>2, <2>3, Zenon
<1> DEFINE loop[k \in 0 .. WIDTH] ==
             IF k = 0 THEN [num |-> num, buf |-> <<>>] ELSE Extract(loop[k - 1])
<1>7. loop = [k \in 0 .. WIDTH |->
                IF k = 0 THEN [num |-> num, buf |-> <<>>] ELSE Extract(loop[k - 1])]
  <2>1. \A k \in 0 .. WIDTH : k = 0 \/ k \in 1 .. WIDTH
    BY WidthAssumption
  <2>2. \A k \in 0 .. WIDTH : g[k] = IF k = 0 THEN first ELSE Extract(g[k - 1])
    BY <1>5, <1>6, <2>1, Zenon
  <2>3. g = [k \in 0 .. WIDTH |-> g[k]]
    BY <1>5
  <2>4. g = [k \in 0 .. WIDTH |-> IF k = 0 THEN first ELSE Extract(g[k - 1])]
    BY <2>2, <2>3
  <2> QED
    BY <2>4 DEF first
<1>8. Extracted(num) = loop[WIDTH].buf
  BY DEF Extracted
<1> HIDE DEF loop
<1>9. loop[0] = first /\ \A k \in 1 .. WIDTH : loop[k] = Extract(loop[k - 1])
  <2>1. 0 \in 0 .. WIDTH /\ \A k \in 1 .. WIDTH : k \in 0 .. WIDTH /\ k # 0
    BY WidthAssumption
  <2>2. \A k \in 0 .. WIDTH :
          loop[k] = IF k = 0 THEN [num |-> num, buf |-> <<>>] ELSE Extract(loop[k - 1])
    BY <1>7
  <2> QED
    BY <2>1, <2>2, Zenon DEF first
<1>10. \A k \in 0 .. WIDTH : loop[k] \in ExtractStates
  <2>1. loop[0] \in ExtractStates
    BY <1>1, <1>9
  <2>2. \A k \in 1 .. WIDTH : loop[k - 1] \in ExtractStates => loop[k] \in ExtractStates
    BY <1>9, ExtractType, Zenon
  <2> QED
    BY <2>1, <2>2, StaysIn, WidthAssumption
<1>11. loop \in [0 .. WIDTH -> ExtractStates]
  BY <1>7, <1>10
<1> QED
  BY <1>8, <1>9, <1>11, Zenon DEF first, IsExtraction

\* After k turns: the digits found so far, and the numbers they were taken from.
ExtractDone(g, k) ==
  LET len == Len(g[k].buf) IN
  /\ len \in 0 .. k
  /\ g[k].num < Pow2[WIDTH - k]
  /\ g[len].num = g[k].num
  /\ g[k].num # 0 => len = k
  /\ \A i \in 1 .. len : /\ g[i - 1].num # 0
                          /\ g[i].num = udiv(g[i - 1].num, 10)
                          /\ g[k].buf[i] = Digit(umod(g[i - 1].num, 10))

LEMMA ExtractStep ==
  ASSUME NEW g, NEW num \in Values, IsExtraction(g, num),
         NEW k \in 0 .. WIDTH - 1, ExtractDone(g, k)
  PROVE  ExtractDone(g, k + 1)
<1> DEFINE j == k + 1
           s == g[k]
           t == g[j]
           len == Len(s.buf)
<1>1. j \in 1 .. WIDTH /\ j \in 0 .. WIDTH /\ k \in 0 .. WIDTH /\ j - 1 = k /\ k \in Nat
      /\ WIDTH - k \in 1 .. WIDTH /\ (WIDTH - k) - 1 = WIDTH - j /\ WIDTH - j \in 0 .. WIDTH
      /\ j = k + 1
  BY WidthAssumption
<1>2. t = Extract(s) /\ s \in ExtractStates
  <2>1. g[j] = Extract(g[j - 1])
    BY <1>1, Zenon DEF IsExtraction
  <2>2. g \in [0 .. WIDTH -> ExtractStates]
    BY Zenon DEF IsExtraction
  <2> HIDE DEF j
  <2>3. g[k] \in ExtractStates
    BY <1>1, <2>2
  <2>4. g[j] = Extract(g[k])
    BY <1>1, <2>1, Zenon
  <2> QED
    BY <2>3, <2>4, Zenon
<1>3. s.num \in Values /\ s.num \in Nat /\ s.buf \in Seq(Decimals) /\ len \in Nat
  <2>1. s.num \in Values /\ s.buf \in Seq(Decimals)
    BY <1>2 DEF ExtractStates
  <2> QED
    BY <2>1, Modulus
<1> DEFINE p == Pow2[WIDTH - j]
<1>4. Pow2[WIDTH - k] = 2 * p /\ p \in Nat \ {0}
  <2>1. Pow2[WIDTH - k] = 2 * Pow2[(WIDTH - k) - 1]
    BY <1>1, Pow2Values
  <2>2. Pow2[WIDTH - j] \in Nat \ {0}
    BY <1>1, Pow2Values
  <2> QED
    BY <1>1, <2>1, <2>2, Zenon
<1> HIDE DEF j, p
<1>5. /\ len \in 0 .. k
      /\ s.num < 2 * p
      /\ g[len].num = s.num
      /\ s.num # 0 => len = k
      /\ \A i \in 1 .. len : /\ g[i - 1].num # 0
                              /\ g[i].num = udiv(g[i - 1].num, 10)
                              /\ s.buf[i] = Digit(umod(g[i - 1].num, 10))
  BY <1>4, Zenon DEF ExtractDone
<1>6. CASE s.num = 0
  <2>1. t = s
    BY <1>2, <1>6, Zenon DEF Extract
  <2>2. len \in 0 .. j /\ s.num < p
    BY <1>1, <1>4, <1>5, <1>6
  <2>3. ExtractDone(g, j)
    BY <1>5, <1>6, <2>1, <2>2, Zenon DEF ExtractDone, p
  <2> QED
    BY <1>1, <2>3
<1>7. CASE s.num # 0
  <2> DEFINE c == Digit(umod(s.num, 10))
             q == udiv(s.num, 10)
  <2>1. t = [num |-> q, buf |-> Append(s.buf, c)]
    BY <1>2, <1>7, Zenon DEF Extract
  <2>2. t.num = q /\ t.buf = Append(s.buf, c)
    BY <2>1
  <2>3. q < p
    BY <1>3, <1>4, <1>5, ByTen
  <2> HIDE DEF c, q
  <2>4. len = k
    BY <1>5, <1>7
  <2>5. /\ Len(t.buf) = j
        /\ t.buf[j] = c
        /\ \A i \in 1 .. k : t.buf[i] = s.buf[i]
    BY <1>1, <1>3, <2>2, <2>4
  <2> HIDE DEF t, s, len
  <2>6. ASSUME NEW i \in 1 .. j
        PROVE  /\ g[i - 1].num # 0
               /\ g[i].num = udiv(g[i - 1].num, 10)
               /\ t.buf[i] = Digit(umod(g[i - 1].num, 10))
    <3>1. CASE i = j
      <4>1. g[i - 1] = s /\ g[i] = t
        BY <1>1, <3>1, Zenon DEF s, t
      <4> QED
        BY <1>7, <2>2, <2>5, <3>1, <4>1, Zenon DEF c, q
    <3>2. CASE i # j
      <4>1. i \in 1 .. k
        BY <1>1, <3>2
      <4> QED
        BY <1>5, <2>4, <2>5, <4>1, Zenon
    <3> QED
      BY <3>1, <3>2, Zenon
  <2>7. j \in 0 .. j
    BY <1>1
  <2>8. ExtractDone(g, j)
    BY <2>2, <2>3, <2>5, <2>6, <2>7, Zenon DEF ExtractDone, p, t
  <2> QED
    BY <1>1, <2>8
<1> QED
  BY <1>6, <1>7

\* v is the number and what is left of it after each digit of buf.
IsTaken(v, buf, len, num) ==
  /\ len \in Nat /\ buf \in Seq(Decimals) /\ Len(buf) = len
  /\ v[0] = num /\ v[len] = 0
  /\ \A i \in 0 .. len : v[i] \in Values
  /\ \A i \in 1 .. len : /\ v[i - 1] # 0
                          /\ v[i] = udiv(v[i - 1], 10)
                          /\ buf[i] = Digit(umod(v[i - 1], 10))

\* The loop of print_dec ends with all digits.
LEMMA ExtractedIs ==
  ASSUME NEW num \in Values
  PROVE  \E v, len : IsTaken(v, Extracted(num), len, num)
<1>1. PICK g : IsExtraction(g, num)
  BY ExtractLoop
<1>2. g \in [0 .. WIDTH -> ExtractStates] /\ g[0] = [num |-> num, buf |-> <<>>]
      /\ Extracted(num) = g[WIDTH].buf
  BY <1>1, Zenon DEF IsExtraction
<1>3. \A i \in 0 .. WIDTH : g[i].num \in Values /\ g[i].buf \in Seq(Decimals)
  BY <1>2 DEF ExtractStates
<1> DEFINE S == {k \in 0 .. WIDTH : ExtractDone(g, k)}
<1>4. 0 \in S
  <2>1. g[0].num = num /\ g[0].buf = <<>>
    BY <1>2
  <2>2. WIDTH - 0 = WIDTH /\ 0 \in 0 .. WIDTH
    BY WidthAssumption
  <2>3. num < Pow2[WIDTH]
    BY Modulus
  <2>4. Len(g[0].buf) = 0
    BY <2>1
  <2>5. ExtractDone(g, 0)
    <3>1. num < Pow2[WIDTH - 0]
      BY <2>2, <2>3, Zenon
    <3>2. 0 \in 0 .. 0 /\ \A i \in 1 .. 0 : FALSE
      OBVIOUS
    <3> QED
      BY <2>1, <2>4, <3>1, <3>2, Zenon DEF ExtractDone
  <2> QED
    BY <2>2, <2>5
<1>5. ASSUME NEW k \in 0 .. WIDTH - 1, k \in S
      PROVE  k + 1 \in S
  <2>1. k + 1 \in 0 .. WIDTH
    BY WidthAssumption
  <2>2. ExtractDone(g, k + 1)
    BY <1>1, <1>5, ExtractStep
  <2> QED
    BY <2>1, <2>2
<1>6. \A k \in 0 .. WIDTH : k \in S
  <2> HIDE DEF S
  <2> QED
    BY <1>4, <1>5, Upto, WidthAssumption
<1>7. WIDTH \in 0 .. WIDTH /\ ExtractDone(g, WIDTH)
  BY <1>6, WidthAssumption
<1> DEFINE buf == g[WIDTH].buf
           len == Len(buf)
           v == [i \in 0 .. len |-> g[i].num]
<1>8. /\ len \in 0 .. WIDTH
      /\ g[WIDTH].num < Pow2[WIDTH - WIDTH]
      /\ g[len].num = g[WIDTH].num
      /\ \A i \in 1 .. len : /\ g[i - 1].num # 0
                              /\ g[i].num = udiv(g[i - 1].num, 10)
                              /\ buf[i] = Digit(umod(g[i - 1].num, 10))
  BY <1>7, Zenon DEF ExtractDone
<1>9. g[len].num = 0
  <2>1. Pow2[WIDTH - WIDTH] = 1
    BY Pow2Values, WidthAssumption
  <2>2. g[WIDTH].num \in Nat
    BY <1>3, <1>7, Modulus
  <2> QED
    BY <1>8, <2>1, <2>2
<1>10. buf \in Seq(Decimals) /\ len \in Nat
  BY <1>3, <1>7, <1>8
<1> HIDE DEF buf, len
<1>11. \A i \in 0 .. len : v[i] = g[i].num /\ v[i] \in Values
  BY <1>3, <1>8, WidthAssumption
<1> HIDE DEF v
<1>12. \A i \in 1 .. len : i \in 0 .. len /\ i - 1 \in 0 .. len
  BY <1>10
<1>13. v[0] = num /\ v[len] = 0
  BY <1>2, <1>9, <1>10, <1>11
<1>14. \A i \in 1 .. len : /\ v[i - 1] # 0
                           /\ v[i] = udiv(v[i - 1], 10)
                           /\ buf[i] = Digit(umod(v[i - 1], 10))
  BY <1>8, <1>11, <1>12, Zenon
<1>15. Extracted(num) = buf /\ Len(buf) = len
  BY <1>2 DEF buf, len
<1>16. IsTaken(v, buf, len, num)
  BY <1>10, <1>11, <1>13, <1>14, <1>15, Zenon DEF IsTaken
<1> QED
  BY <1>15, <1>16, Zenon

\* What print_dec shows is read back as the number, and starts with its first digit.
LEMMA PrintedIs ==
  ASSUME NEW num \in Values
  PROVE  my_atoi(print_dec(num)) = num /\ (num # 0 => print_dec(num)[1] # "0")
<1>1. CASE num = 0
  <2> DEFINE s == <<"0">>
             v == [k \in 0 .. 1 |-> 0]
  <2>1. Len(s) = 1 /\ s[1] = hex_chars[0 + 1]
    BY HexValues
  <2>2. ValueOf(s[1], 10) = 0
    BY <2>1, ValueOfDigit
  <2>3. 0 \in Values
    BY Modulus
  <2>4. \A k \in 1 .. 1 : /\ v[k] \in Values
                          /\ ValueOf(s[k], 10) # 10
                          /\ v[k] = v[k - 1] * 10 + ValueOf(s[k], 10)
    BY <2>2, <2>3
  <2>5. v[0] = 0 /\ v[1] = 0 /\ 10 \in 1 .. 16 /\ 1 \in Nat
    OBVIOUS
  <2>6. print_dec(num) = s
    BY <1>1 DEF print_dec
  <2> HIDE DEF s, v
  <2>7. AreValues(v, s, 1, 10)
    BY <2>1, <2>4, <2>5, Zenon DEF AreValues
  <2>8. Parsed(s, 10) = v[1]
    BY <2>5, <2>7, ParsedIs
  <2> QED
    BY <1>1, <2>5, <2>6, <2>8 DEF my_atoi
<1>2. CASE num # 0
  <2> DEFINE buf == Extracted(num)
             s == Reverse(buf)
  <2>1. PICK v, len : IsTaken(v, buf, len, num)
    BY ExtractedIs
  <2>2. len \in Nat /\ buf \in Seq(Decimals) /\ Len(buf) = len /\ v[0] = num /\ v[len] = 0
        /\ \A i \in 0 .. len : v[i] \in Values
    BY <2>1, Zenon DEF IsTaken
  <2>3. \A i \in 1 .. len : /\ v[i - 1] # 0
                            /\ v[i] = udiv(v[i - 1], 10)
                            /\ buf[i] = Digit(umod(v[i - 1], 10))
    BY <2>1, Zenon DEF IsTaken
  <2> HIDE DEF buf
  <2>4. Len(s) = len /\ \A k \in 1 .. len : s[k] = buf[(len - k) + 1]
    BY <2>2 DEF Reverse
  <2>5. print_dec(num) = s
    BY <1>2, Zenon DEF print_dec, InOrder, buf
  <2> HIDE DEF s
  <2> DEFINE w == [k \in 0 .. len |-> v[len - k]]
  <2>6. w[0] = 0 /\ w[len] = num
    BY <2>2
  <2>7. ASSUME NEW k \in 1 .. len
        PROVE  \E r \in 0 .. 9 : /\ w[k] \in Values /\ w[k] # 0
                                 /\ s[k] = hex_chars[r + 1]
                                 /\ ValueOf(s[k], 10) = r
                                 /\ w[k] = w[k - 1] * 10 + r
    <3> DEFINE i == (len - k) + 1
    <3>1. /\ i \in 1 .. len /\ i \in 0 .. len /\ i - 1 \in 0 .. len
          /\ k \in 0 .. len /\ k - 1 \in 0 .. len
          /\ len - k = i - 1 /\ len - (k - 1) = i
      BY <2>2
    <3>2. w[k] = v[i - 1] /\ w[k - 1] = v[i] /\ s[k] = buf[i]
      BY <2>4, <3>1
    <3> HIDE DEF w, i
    <3>3. /\ v[i - 1] # 0 /\ v[i - 1] \in Values /\ v[i] = udiv(v[i - 1], 10)
          /\ buf[i] = Digit(umod(v[i - 1], 10))
      BY <2>2, <2>3, <3>1
    <3>4. PICK q \in Values, r \in 0 .. 9 :
            udiv(v[i - 1], 10) = q /\ umod(v[i - 1], 10) = r /\ v[i - 1] = q * 10 + r
      BY <3>3, ByTen
    <3>5. Digit(r) = hex_chars[r + 1]
      BY DigitIs
    <3>6. s[k] = hex_chars[r + 1]
      BY <3>2, <3>3, <3>4, <3>5, Zenon
    <3>7. ValueOf(s[k], 10) = r
      BY <3>6, ValueOfDigit
    <3> QED
      BY <3>2, <3>3, <3>4, <3>6, <3>7, Zenon
  <2>8. Parsed(s, 10) = w[len]
    <3>1. ASSUME NEW k \in 1 .. len
          PROVE  /\ w[k] \in Values
                 /\ ValueOf(s[k], 10) # 10
                 /\ w[k] = w[k - 1] * 10 + ValueOf(s[k], 10)
      <4> HIDE DEF w
      <4>1. PICK r \in 0 .. 9 : /\ w[k] \in Values
                               /\ ValueOf(s[k], 10) = r
                               /\ w[k] = w[k - 1] * 10 + r
        BY <2>7, Zenon
      <4>2. r # 10
        OBVIOUS
      <4> QED
        BY <4>1, <4>2, Zenon
    <3>2. 10 \in 1 .. 16
      OBVIOUS
    <3> HIDE DEF w
    <3>3. AreValues(w, s, len, 10)
      BY <2>4, <2>6, <3>1, Zenon DEF AreValues
    <3>4. len \in Nat
      BY <2>2, Zenon
    <3> QED
      BY <3>2, <3>3, <3>4, ParsedIs
  <2>9. s[1] # "0"
    <3>1. len # 0
      BY <1>2, <2>2
    <3>2. 1 \in 1 .. len /\ 1 - 1 = 0
      BY <2>2, <3>1
    <3> HIDE DEF w
    <3>3. PICK r \in 0 .. 9 : w[1] # 0 /\ s[1] = hex_chars[r + 1] /\ w[1] = w[1 - 1] * 10 + r
      BY <2>7, <3>2, Zenon
    <3>4. r # 0
      BY <2>6, <3>2, <3>3
    <3>5. r + 1 \in 1 .. 16 /\ 1 \in 1 .. 16 /\ r + 1 # 1
      BY <3>4
    <3>6. hex_chars[r + 1] # hex_chars[1]
      BY <3>5, CharsDistinct
    <3> QED
      BY <3>3, <3>6, HexValues
  <2> QED
    BY <2>5, <2>6, <2>8, <2>9, Zenon DEF my_atoi
<1> QED
  BY <1>1, <1>2

LEMMA TwoDigits ==
  ASSUME NEW q \in 0 .. 9, NEW r \in 0 .. 9, NEW x \in Values, x = q * 10 + r
  PROVE  Len(<<Digit(q), Digit(r)>>) = 2 /\ my_atoi(<<Digit(q), Digit(r)>>) = x
<1> DEFINE s == <<Digit(q), Digit(r)>>
           v == [k \in 0 .. 2 |-> IF k = 0 THEN 0 ELSE IF k = 1 THEN q ELSE x]
<1>1. Len(s) = 2 /\ s[1] = Digit(q) /\ s[2] = Digit(r)
  OBVIOUS
<1>2. v[0] = 0 /\ v[1] = q /\ v[2] = x
  OBVIOUS
<1>3. 2 \in Nat /\ 10 \in 1 .. 16 /\ 2 - 1 = 1 /\ 1 - 1 = 0 /\ q = 0 * 10 + q
  OBVIOUS
<1> HIDE DEF s, v
<1>4. ValueOf(s[1], 10) = q /\ ValueOf(s[2], 10) = r
  <2>1. s[1] = hex_chars[q + 1] /\ s[2] = hex_chars[r + 1]
    BY <1>1, DigitIs
  <2> QED
    BY <2>1, ValueOfDigit
<1>5. q \in Values
  BY Modulus
<1>6. q # 10 /\ r # 10
  OBVIOUS
<1>7. ASSUME NEW k \in 1 .. 2
      PROVE  /\ v[k] \in Values
             /\ ValueOf(s[k], 10) # 10
             /\ v[k] = v[k - 1] * 10 + ValueOf(s[k], 10)
  <2>1. k = 1 \/ k = 2
    OBVIOUS
  <2>2. CASE k = 1
    BY <1>2, <1>3, <1>4, <1>5, <1>6, <2>2, Zenon
  <2>3. CASE k = 2
    BY <1>2, <1>3, <1>4, <1>6, <2>3, Zenon
  <2> QED
    BY <2>1, <2>2, <2>3, Zenon
<1>8. AreValues(v, s, 2, 10)
  BY <1>1, <1>2, <1>7, Zenon DEF AreValues
<1>9. Parsed(s, 10) = v[2]
  BY <1>3, <1>8, ParsedIs
<1> QED
  BY <1>1, <1>2, <1>9 DEF s, my_atoi

\* int_to_str shows 0 to 99 in two characters.
LEMMA MinutesAre ==
  ASSUME NEW x \in Values, Signed(x) \in 0 .. 99
  PROVE  Len(int_to_str(x)) = 2 /\ my_atoi(int_to_str(x)) = x
<1> DEFINE h == Pow2[WIDTH - 1]
<1>1. h \in Int /\ Pow2[WIDTH] = 2 * h /\ x \in Int
  BY HalfModulus, Modulus
<1>2. x < h /\ Signed(x) = x /\ x \in 0 .. 99
  <2>1. Signed(x) = IF x >= h THEN x - Pow2[WIDTH] ELSE x
    BY DEF Signed
  <2>2. x < Pow2[WIDTH]
    BY Modulus
  <2> HIDE DEF h
  <2> QED
    BY <1>1, <2>1, <2>2
<1>3. CASE x < 10
  <2>1. x \in 0 .. 9 /\ 0 \in 0 .. 9 /\ x = 0 * 10 + x
    BY <1>2, <1>3
  <2>2. Len(<<Digit(0), Digit(x)>>) = 2 /\ my_atoi(<<Digit(0), Digit(x)>>) = x
    BY <2>1, TwoDigits
  <2>3. Digit(0) = "0"
    <3>1. Digit(0) = hex_chars[0 + 1] /\ 0 + 1 = 1
      BY <2>1, DigitIs
    <3> QED
      BY <3>1, HexValues
  <2>4. OneDigit(x)
    BY <1>2, <1>3, Zenon DEF OneDigit
  <2> QED
    BY <2>2, <2>3, <2>4, Zenon DEF int_to_str
<1>4. CASE ~ (x < 10)
  <2>1. x >= 10 /\ 10 < h /\ 10 \in Values
    BY <1>1, <1>2, <1>4, Modulus
  <2>2. Negative(x) = FALSE /\ Negative(10) = FALSE
    BY <1>1, <1>2, <2>1 DEF Negative
  <2>3. Magnitude(x) = x /\ Magnitude(10) = 10
    BY <2>2, Zenon DEF Magnitude
  <2>4. div(x, 10) = udiv(x, 10)
    BY <2>2, <2>3, Zenon DEF div
  <2>5. mod(x, 10) = umod(x, 10)
    BY <2>2, <2>3, Zenon DEF mod, SignOfRest
  <2>6. PICK q \in Values, r \in 0 .. 9 : udiv(x, 10) = q /\ umod(x, 10) = r /\ x = q * 10 + r
    BY ByTen
  <2>7. q \in 0 .. 9
    <3>1. q \in Int
      BY Modulus
    <3> QED
      BY <1>2, <2>6, <3>1
  <2>8. Len(<<Digit(q), Digit(r)>>) = 2 /\ my_atoi(<<Digit(q), Digit(r)>>) = x
    BY <2>6, <2>7, TwoDigits
  <2>9. ~ OneDigit(x)
    BY <1>2, <1>4, Zenon DEF OneDigit
  <2> QED
    BY <2>4, <2>5, <2>6, <2>8, <2>9, Zenon DEF int_to_str
<1> QED
  BY <1>3, <1>4, Zenon

\* A number shown is the number read back, for registers of every width.
THEOREM DecRoundTripHolds == Spec => []DecRoundTrip
<1>1. Init => DecRoundTrip
  BY PrintedIs, MinutesAre DEF Init, DecRoundTrip
<1>2. DecRoundTrip /\ [Next]_<<n, d>> => DecRoundTrip'
  BY DEF DecRoundTrip, Next
<1> QED
  BY <1>1, <1>2, PTL DEF Spec

-----------------------------------------------------------------------------
(* Hexadecimal                                                             *)

\* The register ends within its first digit.
LEMMA NibblesCover ==
  /\ Nibbles \in Nat \ {0} /\ 4 * (Nibbles - 1) \in 0 .. WIDTH - 1
  /\ WIDTH \in 4 * (Nibbles - 1) + 1 .. 4 * (Nibbles - 1) + 4
<1> DEFINE w == WIDTH + 3
<1>1. w \in Int /\ w >= 4 /\ WIDTH = w - 3
  BY WidthAssumption
<1> HIDE DEF w
<1>2. PICK q \in Int, r \in 0 .. 4 - 1 : q = w \div 4 /\ r = w % 4 /\ w = q * 4 + r
  BY <1>1, DivMod
<1>3. Nibbles = q
  BY <1>2, Zenon DEF Nibbles, w
<1> QED
  BY <1>1, <1>2, <1>3

LEMMA ByFour ==
  ASSUME NEW m \in 1 .. Nibbles - 1
  PROVE  Pow2[4 * m] = 16 * Pow2[4 * (m - 1)]
<1>1. 4 * m \in Int /\ 4 * m >= 4 /\ 4 * m <= WIDTH
  BY NibblesCover, WidthAssumption
<1> DEFINE j == 4 * m
<1>2. j \in 1 .. WIDTH /\ j - 1 \in 1 .. WIDTH /\ j - 2 \in 1 .. WIDTH /\ j - 3 \in 1 .. WIDTH
  BY <1>1, WidthAssumption
<1>3. 4 * (m - 1) = j - 4
  BY <1>1
<1>4. (j - 1) - 1 = j - 2 /\ (j - 2) - 1 = j - 3 /\ (j - 3) - 1 = j - 4 /\ j - 4 \in 0 .. WIDTH
  BY <1>1, WidthAssumption
<1> HIDE DEF j
<1>5. Pow2[j] = 2 * Pow2[j - 1] /\ Pow2[j - 1] = 2 * Pow2[j - 2]
      /\ Pow2[j - 2] = 2 * Pow2[j - 3] /\ Pow2[j - 3] = 2 * Pow2[j - 4]
  BY <1>2, <1>4, Pow2Values, Zenon
<1>6. Pow2[j - 4] \in Nat
  BY <1>4, Pow2Values
<1>7. Pow2[j] = 16 * Pow2[j - 4]
  BY <1>5, <1>6
<1> QED
  BY <1>3, <1>7, Zenon DEF j

\* The first digit is one: what is above it is beyond the register.
LEMMA TopDigit ==
  Pow2[WIDTH] <= 16 * Pow2[4 * (Nibbles - 1)]
<1> DEFINE j == 4 * (Nibbles - 1)
<1>1. j \in 0 .. WIDTH - 1 /\ WIDTH \in j + 1 .. j + 4
  BY NibblesCover
<1> HIDE DEF j
<1>2. j \in Int /\ WIDTH \in Int /\ j >= 0
  BY <1>1, WidthAssumption
<1>3. \A i \in 1 .. WIDTH : Pow2[i] = 2 * Pow2[i - 1] /\ Pow2[i - 1] \in Nat
  BY Pow2Values, WidthAssumption
<1>4. Pow2[j + 1] = 2 * Pow2[j] /\ Pow2[j] \in Nat
  <2>1. j + 1 \in 1 .. WIDTH /\ (j + 1) - 1 = j
    BY <1>1, <1>2
  <2> QED
    BY <1>3, <2>1, Zenon
<1>5. WIDTH >= j + 2 => Pow2[j + 2] = 2 * Pow2[j + 1]
  <2>1. WIDTH >= j + 2 => j + 2 \in 1 .. WIDTH /\ (j + 2) - 1 = j + 1
    BY <1>2
  <2> QED
    BY <1>3, <2>1, Zenon
<1>6. WIDTH >= j + 3 => Pow2[j + 3] = 2 * Pow2[j + 2]
  <2>1. WIDTH >= j + 3 => j + 3 \in 1 .. WIDTH /\ (j + 3) - 1 = j + 2
    BY <1>2
  <2> QED
    BY <1>3, <2>1, Zenon
<1>7. WIDTH >= j + 4 => Pow2[j + 4] = 2 * Pow2[j + 3]
  <2>1. WIDTH >= j + 4 => j + 4 \in 1 .. WIDTH /\ (j + 4) - 1 = j + 3
    BY <1>2
  <2> QED
    BY <1>3, <2>1, Zenon
<1>8. WIDTH = j + 1 \/ WIDTH = j + 2 \/ WIDTH = j + 3 \/ WIDTH = j + 4
  BY <1>1, <1>2
<1>9. Pow2[WIDTH] <= 16 * Pow2[j]
  <2>1. CASE WIDTH = j + 1
    BY <1>4, <2>1
  <2>2. CASE WIDTH = j + 2
    BY <1>2, <1>4, <1>5, <2>2
  <2>3. CASE WIDTH = j + 3
    BY <1>2, <1>4, <1>5, <1>6, <2>3
  <2>4. CASE WIDTH = j + 4
    BY <1>2, <1>4, <1>5, <1>6, <1>7, <2>4
  <2> QED
    BY <1>8, <2>1, <2>2, <2>3, <2>4
<1> QED
  BY <1>9 DEF j

\* Two divisions are one.
LEMMA DivDiv ==
  ASSUME NEW x \in Int, NEW p \in Int, p > 0
  PROVE  (x \div p) \div 16 = x \div (16 * p)
<1>1. PICK q \in Int, r \in 0 .. p - 1 : q = x \div p /\ r = x % p /\ x = q * p + r
  BY DivMod
<1>2. PICK u \in Int, t \in 0 .. 16 - 1 : u = q \div 16 /\ t = q % 16 /\ q = u * 16 + t
  <2>1. 16 \in Int /\ 16 > 0
    OBVIOUS
  <2> QED
    BY <1>1, <2>1, DivMod
<1> DEFINE m == 16 * p
           z == t * p + r
<1>3. z \in 0 .. m - 1
  <2>1. t * p \in 0 .. 15 * p
    <3>1. t = 0 \/ t = 1 \/ t = 2 \/ t = 3 \/ t = 4 \/ t = 5 \/ t = 6 \/ t = 7 \/ t = 8
          \/ t = 9 \/ t = 10 \/ t = 11 \/ t = 12 \/ t = 13 \/ t = 14 \/ t = 15
      BY <1>2
    <3> QED
      BY <3>1
  <2>2. r \in 0 .. p - 1
    BY <1>1
  <2> QED
    BY <2>1, <2>2
<1>4. x = u * m + z
  <2>1. x = (u * 16 + t) * p + r
    BY <1>1, <1>2, Zenon
  <2> QED
    BY <1>1, <1>2, <2>1
<1>5. m \in Int /\ m > 0
  OBVIOUS
<1> HIDE DEF m, z
<1>6. (u * m + z) \div m = u
  BY <1>2, <1>3, <1>5, DivModUnique
<1>7. x \div m = u
  BY <1>4, <1>6, Zenon
<1> QED
  BY <1>1, <1>2, <1>7, Zenon DEF m

\* The digits val_to_hex shows, and the values they have from the top down to each.
HexDigits(x, chars) ==
  [i \in 1 .. Nibbles |-> chars[((x \div Pow2[4 * (Nibbles - i)]) % 16) + 1]]
Leading(x) ==
  [i \in 0 .. Nibbles |-> IF i = 0 THEN 0 ELSE x \div Pow2[4 * (Nibbles - i)]]

LEMMA LeadingDigits ==
  ASSUME NEW x \in Values
  PROVE  /\ Leading(x)[0] = 0 /\ Leading(x)[Nibbles] = x
         /\ \A i \in 1 .. Nibbles :
              /\ Leading(x)[i] = x \div Pow2[4 * (Nibbles - i)]
              /\ Leading(x)[i] \in Values
              /\ Leading(x)[i] = Leading(x)[i - 1] * 16 + (Leading(x)[i] % 16)
<1> DEFINE v == Leading(x)
           p(i) == Pow2[4 * (Nibbles - i)]
<1>1. x \in Int /\ x >= 0 /\ x < Pow2[WIDTH]
  BY Modulus
<1>2. Nibbles \in Nat \ {0}
  BY NibblesCover
<1>3. ASSUME NEW i \in 1 .. Nibbles
      PROVE  p(i) \in Int /\ p(i) > 0
  <2>1. 4 * (Nibbles - i) \in 0 .. WIDTH
    BY NibblesCover, WidthAssumption
  <2> QED
    BY <2>1, Pow2Values
<1>4. v[0] = 0 /\ \A i \in 1 .. Nibbles : v[i] = x \div p(i)
  BY <1>2 DEF Leading
<1> HIDE DEF v
<1>5. ASSUME NEW i \in 1 .. Nibbles
      PROVE  v[i] \in Values /\ v[i] = v[i - 1] * 16 + (v[i] % 16)
  <2> DEFINE m == p(i)
  <2>1. m \in Int /\ m > 0
    BY <1>3
  <2>2. v[i] = x \div m
    BY <1>4, Zenon
  <2> HIDE DEF m
  <2>3. PICK q \in Int, r \in 0 .. m - 1 : q = x \div m /\ r = x % m /\ x = q * m + r
    BY <1>1, <2>1, DivMod
  <2>4. q \in 0 .. x
    <3>1. q >= 0
      <4>1. ASSUME q <= -1
            PROVE  FALSE
        <5>1. q * m <= - m
          BY <2>1, <2>3, <4>1
        <5> QED
          BY <1>1, <2>1, <2>3, <5>1
      <4> QED
        BY <2>3, <4>1
    <3>2. q * m >= q
      BY <2>1, <2>3, <3>1
    <3> QED
      BY <1>1, <2>1, <2>3, <3>1, <3>2
  <2>5. v[i] = q /\ q \in Values
    <3>1. 0 .. x \subseteq Values
      BY <1>1, Modulus
    <3>2. q \in Values
      BY <2>4, <3>1
    <3> QED
      BY <2>2, <2>3, <3>2, Zenon
  <2>6. CASE i = 1
    <3>1. q < 16
      <4>1. Pow2[WIDTH] <= 16 * m
        BY <2>6, TopDigit DEF m
      <4>2. Pow2[WIDTH] \in Int
        BY Modulus
      <4>3. ASSUME q >= 16
            PROVE  FALSE
        <5>1. q * m >= 16 * m
          BY <2>1, <2>3, <4>3
        <5> QED
          BY <1>1, <2>1, <2>3, <4>1, <4>2, <5>1
      <4> QED
        BY <2>3, <4>3
    <3>2. q % 16 = q
      BY <2>4, <3>1
    <3>3. v[i - 1] = 0
      BY <1>4, <2>6
    <3>4. q = 0 * 16 + (q % 16)
      BY <2>3, <3>2
    <3> QED
      BY <2>5, <3>3, <3>4, Zenon
  <2>7. CASE i # 1
    <3>1. i - 1 \in 1 .. Nibbles /\ Nibbles - i \in 0 .. Nibbles - 1 /\ Nibbles - (i - 1) \in 1 .. Nibbles - 1
          /\ Nibbles - i = (Nibbles - (i - 1)) - 1
      BY <1>2, <2>7
    <3>2. p(i - 1) = 16 * m
      <4> DEFINE k == Nibbles - (i - 1)
      <4>1. k \in 1 .. Nibbles - 1 /\ Nibbles - i = k - 1
        BY <3>1
      <4> HIDE DEF k
      <4>2. Pow2[4 * k] = 16 * Pow2[4 * (k - 1)]
        BY <4>1, ByFour
      <4> QED
        BY <4>1, <4>2, Zenon DEF k, m
    <3>3. v[i - 1] = x \div (16 * m)
      BY <1>4, <3>1, <3>2, Zenon
    <3>4. (x \div m) \div 16 = x \div (16 * m)
      BY <1>1, <2>1, DivDiv
    <3>5. PICK u \in Int, t \in 0 .. 16 - 1 : u = q \div 16 /\ t = q % 16 /\ q = u * 16 + t
      <4>1. 16 \in Int /\ 16 > 0
        OBVIOUS
      <4> QED
        BY <2>3, <4>1, DivMod
    <3>6. v[i - 1] = u
      BY <2>3, <3>3, <3>4, <3>5, Zenon
    <3>7. q = v[i - 1] * 16 + (q % 16)
      BY <3>5, <3>6, Zenon
    <3> QED
      BY <2>5, <3>7, Zenon
  <2> QED
    BY <2>5, <2>6, <2>7
<1>6. v[Nibbles] = x
  <2>1. Nibbles \in 1 .. Nibbles /\ 4 * (Nibbles - Nibbles) = 0
    BY <1>2
  <2>2. v[Nibbles] = x \div 1
    BY <1>4, <2>1, Pow2Values, Zenon
  <2> QED
    BY <1>1, <2>2
<1> QED
  BY <1>4, <1>5, <1>6 DEF v

\* Digits of either kind, and what a text of them and "0x" consists of.
IsHex(chars) == chars = hex_chars \/ chars = lower_chars
IsHexDigit(ch) == ch \in {hex_chars[k] : k \in 1 .. 16} \/ ch \in {lower_chars[k] : k \in 1 .. 16}
Typed == {hex_chars[k] : k \in 1 .. 16} \cup {lower_chars[k] : k \in 1 .. 16} \cup {"x", " "}

LEMMA HexCharacters ==
  ASSUME NEW chars, IsHex(chars), NEW k \in 1 .. 16
  PROVE  /\ IsHexDigit(chars[k]) /\ chars[k] \in {hex_chars[k], lower_chars[k]}
<1>1. CASE chars = hex_chars
  BY <1>1 DEF IsHexDigit
<1>2. CASE chars = lower_chars
  BY <1>2 DEF IsHexDigit
<1> QED
  BY <1>1, <1>2 DEF IsHex

LEMMA HexDigitIs ==
  ASSUME NEW ch, IsHexDigit(ch)
  PROVE  ch \in Typed /\ ch # "x" /\ ch # "X" /\ ch # " "
<1>1. ch \in Typed
  BY DEF IsHexDigit, Typed
<1>2. ASSUME NEW k \in 1 .. 16
      PROVE  /\ hex_chars[k] # "x" /\ hex_chars[k] # "X" /\ hex_chars[k] # " "
             /\ lower_chars[k] # "x" /\ lower_chars[k] # "X" /\ lower_chars[k] # " "
  <2>1. k = 1 \/ k = 2 \/ k = 3 \/ k = 4 \/ k = 5 \/ k = 6 \/ k = 7 \/ k = 8 \/ k = 9 \/ k = 10
        \/ k = 11 \/ k = 12 \/ k = 13 \/ k = 14 \/ k = 15 \/ k = 16
    OBVIOUS
  <2>2. hex_chars[k] # "x" /\ hex_chars[k] # "X" /\ hex_chars[k] # " "
    BY <2>1, HexValues
  <2>3. lower_chars[k] # "x" /\ lower_chars[k] # "X" /\ lower_chars[k] # " "
    BY <2>1, LowerValues
  <2> QED
    BY <2>2, <2>3
<1>3. (\E k \in 1 .. 16 : ch = hex_chars[k]) \/ (\E k \in 1 .. 16 : ch = lower_chars[k])
  BY DEF IsHexDigit
<1> QED
  BY <1>1, <1>2, <1>3, Zenon

LEMMA HexDigitsAre ==
  ASSUME NEW x \in Values, NEW chars, IsHex(chars)
  PROVE  /\ HexDigits(x, chars) \in Seq(Typed) /\ Len(HexDigits(x, chars)) = Nibbles
         /\ \A i \in 1 .. Nibbles :
              /\ IsHexDigit(HexDigits(x, chars)[i])
              /\ ValueOf(HexDigits(x, chars)[i], 16) = Leading(x)[i] % 16
<1> DEFINE s == HexDigits(x, chars)
           dg(i) == (x \div Pow2[4 * (Nibbles - i)]) % 16
<1>1. Nibbles \in Nat
  BY NibblesCover
<1>2. \A i \in 1 .. Nibbles : s[i] = chars[dg(i) + 1]
  BY DEF HexDigits
<1>3. ASSUME NEW i \in 1 .. Nibbles
      PROVE  IsHexDigit(s[i]) /\ s[i] \in Typed /\ ValueOf(s[i], 16) = Leading(x)[i] % 16
  <2>1. x \div Pow2[4 * (Nibbles - i)] = Leading(x)[i] /\ Leading(x)[i] \in Int
    BY LeadingDigits, Modulus
  <2>2. dg(i) = Leading(x)[i] % 16
    BY <2>1, Zenon
  <2>3. Leading(x)[i] % 16 \in 0 .. 15
    BY <2>1
  <2> DEFINE k == Leading(x)[i] % 16
  <2>4. k \in 0 .. 15 /\ k \in 0 .. 16 - 1 /\ k + 1 \in 1 .. 16 /\ 16 \in 1 .. 16
    BY <2>3
  <2>5. s[i] = chars[k + 1]
    BY <1>2, <2>2, Zenon
  <2> HIDE DEF k, s
  <2>6. IsHexDigit(s[i]) /\ s[i] \in {hex_chars[k + 1], lower_chars[k + 1]}
    BY <2>4, <2>5, HexCharacters, Zenon
  <2>7. ValueOf(s[i], 16) = k
    BY <2>4, <2>6, ValueOfDigit
  <2>8. s[i] \in Typed
    BY <2>6, HexDigitIs
  <2> QED
    BY <2>6, <2>7, <2>8 DEF k
<1>4. s = [i \in 1 .. Nibbles |-> s[i]]
  BY DEF HexDigits
<1> HIDE DEF s
<1>5. s \in [1 .. Nibbles -> Typed]
  <2>1. \A i \in 1 .. Nibbles : s[i] \in Typed
    BY <1>3
  <2> QED
    BY <1>4, <2>1
<1>6. s \in Seq(Typed) /\ Len(s) = Nibbles
  BY <1>1, <1>5
<1> QED
  BY <1>3, <1>6 DEF s

\* The digits are read back, with and without "0x" before them.
LEMMA DigitsParsed ==
  ASSUME NEW x \in Values, NEW chars, IsHex(chars)
  PROVE  Parsed(HexDigits(x, chars), 16) = x
<1> DEFINE s == HexDigits(x, chars)
<1>1. Nibbles \in Nat /\ 16 \in 1 .. 16
  BY NibblesCover
<1>2. AreValues(Leading(x), s, Nibbles, 16)
  <2>1. Len(s) = Nibbles /\ Leading(x)[0] = 0
    BY HexDigitsAre, LeadingDigits
  <2>2. ASSUME NEW k \in 1 .. Nibbles
        PROVE  /\ Leading(x)[k] \in Values
               /\ ValueOf(s[k], 16) # 16
               /\ Leading(x)[k] = Leading(x)[k - 1] * 16 + ValueOf(s[k], 16)
    <3>1. Leading(x)[k] \in Values /\ Leading(x)[k] = Leading(x)[k - 1] * 16 + (Leading(x)[k] % 16)
      BY LeadingDigits
    <3>2. ValueOf(s[k], 16) = Leading(x)[k] % 16
      BY HexDigitsAre
    <3>3. Leading(x)[k] \in Int
      BY <3>1, Modulus
    <3>4. Leading(x)[k] % 16 # 16
      BY <3>3
    <3>5. ValueOf(s[k], 16) # 16
      BY <3>2, <3>4, Zenon
    <3>6. Leading(x)[k] = Leading(x)[k - 1] * 16 + ValueOf(s[k], 16)
      BY <3>1, <3>2, Zenon
    <3> QED
      BY <3>1, <3>5, <3>6, Zenon
  <2>3. \A k \in 1 .. Nibbles : /\ Leading(x)[k] \in Values
                                /\ ValueOf(s[k], 16) # 16
                                /\ Leading(x)[k] = Leading(x)[k - 1] * 16 + ValueOf(s[k], 16)
    BY <2>2
  <2> QED
    BY <2>1, <2>3, Zenon DEF AreValues
<1> HIDE DEF s
<1>3. Parsed(s, 16) = Leading(x)[Nibbles]
  <2>1. \A v : AreValues(v, s, Nibbles, 16) => Parsed(s, 16) = v[Nibbles]
    BY <1>1, ParsedIs
  <2> QED
    BY <1>2, <2>1, Zenon
<1> QED
  BY <1>3, LeadingDigits DEF s

NoSpaces(s) == \A i \in 1 .. Len(s) : s[i] # " "

\* What is known of a text for a number: it has no space in it and is read as that number.
IsTyped(s, x) == s \in Seq(Typed) /\ Len(s) \in 1 .. ARG_MAX /\ NoSpaces(s) /\ strtoul_hex(s) = x

LEMMA DigitsTyped ==
  ASSUME NEW x \in Values, NEW chars, IsHex(chars)
  PROVE  IsTyped(HexDigits(x, chars), x)
<1> DEFINE s == HexDigits(x, chars)
<1>1. s \in Seq(Typed) /\ Len(s) = Nibbles /\ \A i \in 1 .. Nibbles : IsHexDigit(s[i])
  BY HexDigitsAre
<1>2. Parsed(s, 16) = x
  BY DigitsParsed
<1> HIDE DEF s
<1>3. \A i \in 1 .. Nibbles : s[i] # "x" /\ s[i] # "X" /\ s[i] # " "
  BY <1>1, HexDigitIs
<1>4. Len(s) \in 1 .. ARG_MAX
  BY <1>1, NibblesCover, ArgMaxAssumption
<1>5. NoSpaces(s)
  BY <1>1, <1>3, Zenon DEF NoSpaces
<1>6. ~ Prefixed(s)
  <2>1. ASSUME Prefixed(s)
        PROVE  FALSE
    <3>1. Len(s) >= 2 /\ s[2] \in {"x", "X"}
      BY <2>1, Zenon DEF Prefixed
    <3>2. 2 \in 1 .. Nibbles
      <4>1. Nibbles >= 2
        BY <1>1, <3>1, Zenon
      <4> QED
        BY <4>1, NibblesCover
    <3> QED
      BY <1>3, <3>1, <3>2, Zenon
  <2> QED
    BY <2>1, Zenon
<1>7. strtoul_hex(s) = x
  BY <1>2, <1>6, Zenon DEF strtoul_hex
<1> QED
  BY <1>1, <1>4, <1>5, <1>7 DEF IsTyped, s

LEMMA AddressTyped ==
  ASSUME NEW x \in Values, NEW chars, IsHex(chars)
  PROVE  /\ IsTyped(val_to_hex(x, chars), x)
         /\ SubSeq(val_to_hex(x, chars), 3, Len(val_to_hex(x, chars))) = HexDigits(x, chars)
<1> DEFINE s == HexDigits(x, chars)
           t == val_to_hex(x, chars)
           p == <<"0", "x">>
<1>1. t = p \o s
  BY Zenon DEF val_to_hex, HexDigits
<1>2. s \in Seq(Typed) /\ Len(s) = Nibbles
  BY HexDigitsAre
<1>3. \A i \in 1 .. Nibbles : s[i] # " "
  <2> HIDE DEF s
  <2>1. IsTyped(s, x)
    BY DigitsTyped DEF s
  <2> QED
    BY <1>2, <2>1, Zenon DEF IsTyped, NoSpaces
<1>4. Parsed(s, 16) = x
  BY DigitsParsed
<1>5. p \in Seq(Typed) /\ Len(p) = 2 /\ p[1] = "0" /\ p[2] = "x"
  <2>1. "0" \in Typed /\ "x" \in Typed
    <3>1. hex_chars[1] \in {hex_chars[k] : k \in 1 .. 16}
      OBVIOUS
    <3> QED
      BY <3>1, HexValues DEF Typed
  <2> QED
    BY <2>1
<1>6. Nibbles \in Nat
  BY NibblesCover
<1> HIDE DEF s, t, p
<1>7. t \in Seq(Typed) /\ Len(t) = 2 + Nibbles
      /\ \A i \in 1 .. 2 + Nibbles : t[i] = IF i <= 2 THEN p[i] ELSE s[i - 2]
  <2>1. t \in Seq(Typed)
    BY <1>1, <1>2, <1>5, ConcatProperties
  <2>2. Len(t) = 2 + Nibbles
    <3>1. Len(t) = Len(p) + Len(s)
      BY <1>1, <1>2, <1>5, ConcatProperties
    <3> QED
      BY <1>2, <1>5, <3>1
  <2>3. \A i \in 1 .. Len(p) + Len(s) : t[i] = IF i <= Len(p) THEN p[i] ELSE s[i - Len(p)]
    BY <1>1, <1>2, <1>5, ConcatProperties
  <2> QED
    BY <1>2, <1>5, <2>1, <2>2, <2>3, Zenon
<1>8. t[1] = "0" /\ t[2] = "x"
  <2>1. 1 \in 1 .. 2 + Nibbles /\ 2 \in 1 .. 2 + Nibbles /\ 1 <= 2 /\ 2 <= 2
    BY <1>6
  <2> QED
    BY <1>5, <1>7, <2>1, Zenon
<1>9. \A i \in 1 .. Nibbles : i + 2 \in 1 .. 2 + Nibbles /\ t[i + 2] = s[i]
  <2>1. ASSUME NEW i \in 1 .. Nibbles
        PROVE  i + 2 \in 1 .. 2 + Nibbles /\ t[i + 2] = s[i]
    <3>1. i + 2 \in 1 .. 2 + Nibbles /\ ~ (i + 2 <= 2) /\ (i + 2) - 2 = i
      BY <1>6
    <3> QED
      BY <1>7, <3>1, Zenon
  <2> QED
    BY <2>1
<1>10. NoSpaces(t)
  <2>1. ASSUME NEW i \in 1 .. 2 + Nibbles
        PROVE  t[i] # " "
    <3>1. i = 1 \/ i = 2 \/ (i - 2 \in 1 .. Nibbles /\ (i - 2) + 2 = i)
      BY <1>6
    <3>2. t[1] # " " /\ t[2] # " "
      BY <1>8
    <3>3. i - 2 \in 1 .. Nibbles /\ (i - 2) + 2 = i => t[i] = s[i - 2] /\ t[i] # " "
      BY <1>3, <1>9, Zenon
    <3> QED
      BY <3>1, <3>2, <3>3, Zenon
  <2> QED
    BY <1>7, <2>1, Zenon DEF NoSpaces
<1>11. SubSeq(t, 3, Len(t)) = s
  <2>1. t \in Seq(Typed) /\ Len(t) = 2 + Nibbles /\ \A i \in 1 .. Nibbles : t[i + 2] = s[i]
    BY <1>7, <1>9, Zenon
  <2>2. SubSeq(t, 3, Len(t)) = [i \in 1 .. Nibbles |-> t[i + 2]]
    BY <1>6, <2>1
  <2>3. s = [i \in 1 .. Nibbles |-> s[i]]
    BY <1>2
  <2> QED
    BY <2>1, <2>2, <2>3
<1>12. strtoul_hex(t) = x
  <2>1. Prefixed(t)
    <3>1. Len(t) >= 2
      BY <1>6, <1>7
    <3> QED
      BY <1>8, <3>1, Zenon DEF Prefixed
  <2> QED
    BY <1>4, <1>11, <2>1, Zenon DEF strtoul_hex
<1>13. Len(t) \in 1 .. ARG_MAX
  BY <1>6, <1>7, ArgMaxAssumption
<1> QED
  BY <1>7, <1>10, <1>11, <1>12, <1>13 DEF IsTyped, s, t

-----------------------------------------------------------------------------
(* The two arguments of cmd_poke                                           *)

LEMMA MinIs ==
  ASSUME NEW S, NEW m \in S, S \subseteq Nat, \A k \in S : m <= k
  PROVE  Min(S) = m
<1>1. \E x \in S : \A y \in S : x =< y
  OBVIOUS
<1>2. Min(S) \in S /\ \A y \in S : Min(S) =< y
  BY <1>1 DEF Min
<1> DEFINE k == Min(S)
<1>3. k \in S /\ k <= m
  BY <1>2
<1> HIDE DEF k
<1>4. m <= k /\ k \in Nat /\ m \in Nat
  BY <1>3
<1>5. k = m
  BY <1>3, <1>4
<1> QED
  BY <1>5 DEF k

\* What follows a word: nothing, or a space.
Ends(t) == t \in Seq(Typed) /\ (Len(t) >= 1 => t[1] = " ")

LEMMA Joined ==
  ASSUME NEW a \in Seq(Typed), NEW t \in Seq(Typed)
  PROVE  /\ a \o t \in Seq(Typed) /\ Len(a \o t) = Len(a) + Len(t)
         /\ \A i \in 1 .. Len(a) : (a \o t)[i] = a[i]
         /\ \A i \in 1 .. Len(t) : (a \o t)[Len(a) + i] = t[i]
         /\ SubSeq(a \o t, 1, Len(a)) = a
         /\ SubSeq(a \o t, Len(a) + 1, Len(a \o t)) = t
<1> DEFINE s == a \o t
<1>1. /\ s \in Seq(Typed) /\ Len(s) = Len(a) + Len(t)
      /\ \A i \in 1 .. Len(a) + Len(t) : s[i] = IF i <= Len(a) THEN a[i] ELSE t[i - Len(a)]
  BY ConcatProperties
<1> HIDE DEF s
<1>2. Len(a) \in Nat /\ Len(t) \in Nat
  OBVIOUS
<1>3. ASSUME NEW i \in 1 .. Len(a)
      PROVE  s[i] = a[i]
  <2>1. i \in 1 .. Len(a) + Len(t) /\ i <= Len(a)
    BY <1>2
  <2> QED
    BY <1>1, <2>1, Zenon
<1>4. ASSUME NEW i \in 1 .. Len(t)
      PROVE  s[Len(a) + i] = t[i]
  <2>1. Len(a) + i \in 1 .. Len(a) + Len(t) /\ ~ (Len(a) + i <= Len(a)) /\ (Len(a) + i) - Len(a) = i
    BY <1>2
  <2> QED
    BY <1>1, <2>1, Zenon
<1>5. SubSeq(s, 1, Len(a)) = a
  <2>1. SubSeq(s, 1, Len(a)) = [i \in 1 .. Len(a) |-> s[i]]
    BY <1>1, <1>2
  <2>2. a = [i \in 1 .. Len(a) |-> a[i]]
    OBVIOUS
  <2> QED
    BY <1>3, <2>1, <2>2
<1>6. SubSeq(s, Len(a) + 1, Len(s)) = t
  <2>1. SubSeq(s, Len(a) + 1, Len(s)) = [i \in 1 .. Len(t) |-> s[Len(a) + i]]
    BY <1>1, <1>2
  <2>2. t = [i \in 1 .. Len(t) |-> t[i]]
    OBVIOUS
  <2> QED
    BY <1>4, <2>1, <2>2
<1> QED
  BY <1>1, <1>3, <1>4, <1>5, <1>6 DEF s

\* A word that is not too long is taken as it is, and what follows is left.
LEMMA WordIs ==
  ASSUME NEW a \in Seq(Typed), NoSpaces(a), Len(a) <= ARG_MAX, NEW t, Ends(t)
  PROVE  Word(a \o t) = a /\ Rest(a \o t) = t
<1> DEFINE s == a \o t
           len == Len(a)
           spaces == {i \in 1 .. Len(s) : s[i] = " "}
           S == spaces \cup {Len(s) + 1, ARG_MAX + 1}
<1>1. /\ t \in Seq(Typed) /\ s \in Seq(Typed) /\ Len(s) = len + Len(t)
      /\ \A i \in 1 .. len : s[i] = a[i]
      /\ \A i \in 1 .. Len(t) : s[len + i] = t[i]
      /\ SubSeq(s, 1, len) = a /\ SubSeq(s, len + 1, Len(s)) = t
  <2>1. t \in Seq(Typed)
    BY Zenon DEF Ends
  <2> QED
    BY <2>1, Joined
<1>2. len \in Nat /\ Len(t) \in Nat /\ ARG_MAX \in Nat /\ len <= ARG_MAX
      /\ Len(s) = len + Len(t)
  BY <1>1, ArgMaxAssumption
<1>3. \A i \in 1 .. len : a[i] # " "
  BY Zenon DEF NoSpaces
<1> HIDE DEF s, len
<1>4. S \subseteq Nat
  <2>1. spaces \subseteq 1 .. Len(s)
    BY Zenon
  <2>2. Len(s) \in Nat
    BY <1>2
  <2>3. 1 .. Len(s) \subseteq Nat /\ {Len(s) + 1, ARG_MAX + 1} \subseteq Nat
    BY <1>2, <2>2
  <2> HIDE DEF spaces
  <2> QED
    BY <2>1, <2>3
<1>5. len + 1 \in S
  <2>1. CASE Len(t) = 0
    BY <1>2, <2>1
  <2>2. CASE Len(t) # 0
    <3>1. 1 \in 1 .. Len(t) /\ len + 1 \in 1 .. Len(s) /\ Len(t) >= 1
      BY <1>2, <2>2
    <3>2. s[len + 1] = " "
      BY <1>1, <3>1, Zenon DEF Ends
    <3> QED
      BY <3>1, <3>2
  <2> QED
    BY <2>1, <2>2
<1>6. ASSUME NEW i \in S
      PROVE  len + 1 <= i
  <2> HIDE DEF spaces
  <2>1. CASE i \in spaces
    <3>1. i \in 1 .. Len(s) /\ s[i] = " "
      BY <2>1, Zenon DEF spaces
    <3>2. ~ (i \in 1 .. len)
      BY <1>1, <1>3, <3>1, Zenon
    <3>3. i \in 1 .. Len(s)
      BY <3>1, Zenon
    <3> QED
      BY <1>2, <3>2, <3>3
  <2>2. CASE i = Len(s) + 1 \/ i = ARG_MAX + 1
    BY <1>2, <2>2
  <2> QED
    BY <2>1, <2>2
<1>7. WordLength(s) = len
  <2>1. Min(S) = len + 1
    <3> HIDE DEF S
    <3> QED
      BY <1>4, <1>5, <1>6, MinIs
  <2>2. WordLength(s) = Min(S) - 1
    BY Zenon DEF WordLength
  <2> HIDE DEF S
  <2>3. WordLength(s) = (len + 1) - 1
    BY <2>1, <2>2, Zenon
  <2> QED
    BY <1>2, <2>3
<1>8. Word(s) = a /\ Rest(s) = t
  BY <1>1, <1>7, Zenon DEF Word, Rest
<1> QED
  BY <1>8 DEF s

AllSpaces(s) == s \in Seq(Typed) /\ \A i \in 1 .. Len(s) : s[i] = " "

\* All spaces before a word are skipped.
LEMMA SpacesSkipped ==
  ASSUME NEW gap, AllSpaces(gap), NEW b \in Seq(Typed), NoSpaces(b)
  PROVE  SkipSpaces(gap \o b) = b
<1> DEFINE s == gap \o b
           len == Len(gap)
           others == {i \in 1 .. Len(s) : s[i] # " "}
           S == others \cup {Len(s) + 1}
<1>1. /\ gap \in Seq(Typed) /\ s \in Seq(Typed) /\ Len(s) = len + Len(b)
      /\ \A i \in 1 .. len : s[i] = gap[i]
      /\ \A i \in 1 .. Len(b) : s[len + i] = b[i]
      /\ SubSeq(s, len + 1, Len(s)) = b
  <2>1. gap \in Seq(Typed)
    BY Zenon DEF AllSpaces
  <2> QED
    BY <2>1, Joined
<1>2. len \in Nat /\ Len(b) \in Nat /\ Len(s) = len + Len(b)
  <2>1. len \in Nat /\ Len(b) \in Nat
    BY <1>1, LenProperties
  <2> QED
    BY <1>1, <2>1
<1>3. \A i \in 1 .. len : gap[i] = " "
  BY Zenon DEF AllSpaces
<1> HIDE DEF s, len
<1>4. S \subseteq Nat
  <2>1. others \subseteq 1 .. Len(s)
    BY Zenon
  <2>2. Len(s) \in Nat
    BY <1>2
  <2>3. 1 .. Len(s) \subseteq Nat /\ {Len(s) + 1} \subseteq Nat
    BY <1>2, <2>2
  <2> HIDE DEF others
  <2> QED
    BY <2>1, <2>3
<1>5. len + 1 \in S
  <2>1. CASE Len(b) = 0
    BY <1>2, <2>1
  <2>2. CASE Len(b) # 0
    <3>1. 1 \in 1 .. Len(b) /\ len + 1 \in 1 .. Len(s)
      BY <1>2, <2>2
    <3>2. s[len + 1] # " "
      BY <1>1, <3>1, Zenon DEF NoSpaces
    <3> QED
      BY <3>1, <3>2
  <2> QED
    BY <2>1, <2>2
<1>6. ASSUME NEW i \in S
      PROVE  len + 1 <= i
  <2> HIDE DEF others
  <2>1. CASE i \in others
    <3>1. i \in 1 .. Len(s) /\ s[i] # " "
      BY <2>1, Zenon DEF others
    <3>2. ~ (i \in 1 .. len)
      BY <1>1, <1>3, <3>1, Zenon
    <3>3. i \in 1 .. Len(s)
      BY <3>1, Zenon
    <3> QED
      BY <1>2, <3>2, <3>3
  <2>2. CASE i = Len(s) + 1
    BY <1>2, <2>2
  <2> QED
    BY <2>1, <2>2
<1>7. Min(S) - 1 = len
  <2>1. Min(S) = len + 1
    <3> HIDE DEF S
    <3> QED
      BY <1>4, <1>5, <1>6, MinIs
  <2> HIDE DEF S
  <2>2. (len + 1) - 1 = len
    BY <1>2
  <2> QED
    BY <2>1, <2>2, Zenon
<1>8. SkipSpaces(s) = SubSeq(s, (Min(S) - 1) + 1, Len(s))
  BY Zenon DEF SkipSpaces
<1>9. SkipSpaces(s) = b
  <2> HIDE DEF S
  <2> QED
    BY <1>1, <1>7, <1>8, Zenon
<1> QED
  BY <1>9 DEF s

\* Two texts with spaces between them are the two arguments.
LEMMA PokeIs ==
  ASSUME NEW a, NEW x, IsTyped(a, x), NEW b, NEW y, IsTyped(b, y),
         NEW gap, AllSpaces(gap), Len(gap) >= 1
  PROVE  cmd_poke(a \o gap \o b) = {[addr |-> x, val |-> y]}
<1>1. /\ a \in Seq(Typed) /\ NoSpaces(a) /\ Len(a) \in 1 .. ARG_MAX /\ strtoul_hex(a) = x
      /\ b \in Seq(Typed) /\ NoSpaces(b) /\ Len(b) \in 1 .. ARG_MAX /\ strtoul_hex(b) = y
  BY Zenon DEF IsTyped
<1>2. gap \in Seq(Typed)
  BY Zenon DEF AllSpaces
<1> DEFINE t == gap \o b
<1>3. a \o gap \o b = a \o t
  <2>1. a \in Seq(Typed) /\ b \in Seq(Typed) /\ gap \in Seq(Typed)
    BY <1>1, <1>2
  <2>2. \A p, q, r \in Seq(Typed) : (p \o q) \o r = p \o (q \o r)
    BY ConcatAssociative
  <2> QED
    BY <2>1, <2>2, Zenon
<1>4. Ends(t)
  <2>1. t \in Seq(Typed) /\ \A i \in 1 .. Len(gap) : t[i] = gap[i]
    BY <1>1, <1>2, Joined
  <2>2. 1 \in 1 .. Len(gap)
    BY <1>2
  <2>3. gap[1] = " "
    BY <2>2, Zenon DEF AllSpaces
  <2>4. t[1] = " "
    BY <2>1, <2>2, <2>3, Zenon
  <2> QED
    BY <2>1, <2>4, Zenon DEF Ends
<1>5. SkipSpaces(t) = b
  BY <1>1, SpacesSkipped
<1> HIDE DEF t
<1>6. Word(a \o t) = a /\ Rest(a \o t) = t
  <2>1. Len(a) <= ARG_MAX
    BY <1>1, ArgMaxAssumption
  <2> QED
    BY <1>1, <1>4, <2>1, WordIs
<1>7. Word(b) = b /\ b # <<>>
  <2>1. Len(b) <= ARG_MAX /\ b # <<>>
    BY <1>1, ArgMaxAssumption
  <2>2. Ends(<<>>)
    BY DEF Ends
  <2>3. Word(b \o <<>>) = b
    BY <1>1, <2>1, <2>2, WordIs
  <2>4. b \o <<>> = b
    BY <1>1, ConcatEmptySeq
  <2> QED
    BY <2>1, <2>3, <2>4, Zenon
<1>8. Word(SkipSpaces(Rest(a \o t))) = b
  BY <1>5, <1>6, <1>7, Zenon
<1>9. cmd_poke(a \o t) = {[addr |-> strtoul_hex(Word(a \o t)), val |-> strtoul_hex(b)]}
  BY <1>7, <1>8, Zenon DEF cmd_poke
<1>10. cmd_poke(a \o t) = {[addr |-> x, val |-> y]}
  BY <1>1, <1>6, <1>9, Zenon
<1> QED
  BY <1>3, <1>10, Zenon

\* Nothing but spaces behind the first argument writes nothing.
LEMMA NothingPoked ==
  ASSUME NEW a, NEW x, IsTyped(a, x), NEW gap, AllSpaces(gap)
  PROVE  cmd_poke(a \o gap) = {}
<1>1. a \in Seq(Typed) /\ NoSpaces(a) /\ Len(a) \in 1 .. ARG_MAX
  BY Zenon DEF IsTyped
<1>2. gap \in Seq(Typed)
  BY Zenon DEF AllSpaces
<1>3. Ends(gap)
  <2>1. Len(gap) >= 1 => 1 \in 1 .. Len(gap)
    BY <1>2
  <2>2. Len(gap) >= 1 => gap[1] = " "
    BY <2>1, Zenon DEF AllSpaces
  <2> QED
    BY <1>2, <2>2, Zenon DEF Ends
<1>4. Rest(a \o gap) = gap
  <2>1. Len(a) <= ARG_MAX
    BY <1>1, ArgMaxAssumption
  <2> QED
    BY <1>1, <1>3, <2>1, WordIs
<1>5. <<>> \in Seq(Typed) /\ NoSpaces(<<>>) /\ Len(<<>>) <= ARG_MAX /\ Ends(<<>>)
  BY ArgMaxAssumption DEF NoSpaces, Ends
<1>6. SkipSpaces(gap) = <<>>
  <2>1. SkipSpaces(gap \o <<>>) = <<>>
    BY <1>5, SpacesSkipped
  <2>2. gap \o <<>> = gap
    BY <1>2, ConcatEmptySeq
  <2> QED
    BY <2>1, <2>2, Zenon
<1>7. Word(<<>>) = <<>>
  <2>1. Word(<<>> \o <<>>) = <<>>
    BY <1>5, WordIs
  <2>2. <<>> \o <<>> = <<>>
    BY <1>5, ConcatEmptySeq
  <2> QED
    BY <2>1, <2>2, Zenon
<1>8. Word(SkipSpaces(Rest(a \o gap))) = <<>>
  BY <1>4, <1>6, <1>7, Zenon
<1> QED
  BY <1>8, Zenon DEF cmd_poke

\* The texts c and c c.
LEMMA Doubled ==
  ASSUME NEW S, NEW c \in S
  PROVE  /\ <<c>> \in Seq(S) /\ Len(<<c>>) >= 1 /\ \A i \in 1 .. Len(<<c>>) : <<c>>[i] = c
         /\ <<c, c>> \in Seq(S) /\ Len(<<c, c>>) >= 1 /\ \A i \in 1 .. Len(<<c, c>>) : <<c, c>>[i] = c
OBVIOUS

LEMMA Gaps ==
  /\ AllSpaces(<<" ">>) /\ Len(<<" ">>) >= 1
  /\ AllSpaces(<<" ", " ">>) /\ Len(<<" ", " ">>) >= 1
<1>1. " " \in Typed
  BY DEF Typed
<1> QED
  BY <1>1, Doubled, Zenon DEF AllSpaces

\* For every width of the registers and every room for an argument that holds a
\* whole address: an address shown by val_to_hex and typed back into poke, with "0x"
\* or without, in either case and with any of the gaps, and the value after it, are
\* the address and the value of the write; without a value nothing is written.
THEOREM PokeWritesWhatIsTypedHolds == Spec => []PokeWritesWhatIsTyped
<1>1. Init => PokeWritesWhatIsTyped
  <2> SUFFICES ASSUME n \in Values, d \in Values
               PROVE  PokeWritesWhatIsTyped
    BY DEF Init
  <2> DEFINE addr == val_to_hex(n, hex_chars)
             val == val_to_hex(d, lower_chars)
             bare == SubSeq(val, 3, Len(val))
  <2>1. IsHex(hex_chars) /\ IsHex(lower_chars)
    BY DEF IsHex
  <2>2. IsTyped(addr, n) /\ IsTyped(val, d)
    BY <2>1, AddressTyped
  <2>3. IsTyped(bare, d)
    <3>1. bare = HexDigits(d, lower_chars)
      BY <2>1, AddressTyped
    <3>2. IsTyped(HexDigits(d, lower_chars), d)
      BY <2>1, DigitsTyped
    <3> QED
      BY <3>1, <3>2, Zenon
  <2> HIDE DEF addr, val, bare
  <2>4. ASSUME NEW gap, AllSpaces(gap), Len(gap) >= 1
        PROVE  /\ cmd_poke(addr \o gap \o val) = {[addr |-> n, val |-> d]}
               /\ cmd_poke(bare \o gap \o addr) = {[addr |-> d, val |-> n]}
    <3>1. cmd_poke(addr \o gap \o val) = {[addr |-> n, val |-> d]}
      BY <2>2, <2>4, PokeIs
    <3>2. cmd_poke(bare \o gap \o addr) = {[addr |-> d, val |-> n]}
      BY <2>2, <2>3, <2>4, PokeIs
    <3> QED
      BY <3>1, <3>2
  <2>5. \A gap \in {<<" ">>, <<" ", " ">>} :
          /\ cmd_poke(addr \o gap \o val) = {[addr |-> n, val |-> d]}
          /\ cmd_poke(bare \o gap \o addr) = {[addr |-> d, val |-> n]}
    BY <2>4, Gaps, Zenon
  <2>6. cmd_poke(addr) = {} /\ cmd_poke(addr \o <<" ">>) = {}
    <3>1. AllSpaces(<<" ">>)
      BY Gaps, Zenon
    <3>2. AllSpaces(<<>>)
      BY DEF AllSpaces
    <3>3. cmd_poke(addr \o <<>>) = {} /\ cmd_poke(addr \o <<" ">>) = {}
      BY <2>2, <3>1, <3>2, NothingPoked
    <3>4. addr \o <<>> = addr
      <4>1. addr \in Seq(Typed)
        BY <2>2, Zenon DEF IsTyped
      <4> QED
        BY <4>1, ConcatEmptySeq
    <3> QED
      BY <3>3, <3>4, Zenon
  <2> QED
    BY <2>5, <2>6, Zenon DEF PokeWritesWhatIsTyped, addr, val, bare
<1>2. PokeWritesWhatIsTyped /\ [Next]_<<n, d>> => PokeWritesWhatIsTyped'
  BY DEF PokeWritesWhatIsTyped, Next
<1> QED
  BY <1>1, <1>2, PTL DEF Spec
=============================================================================
