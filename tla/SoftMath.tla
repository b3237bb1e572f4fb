------------------------------ MODULE SoftMath ------------------------------
(***************************************************************************)
(* The multiplication and division that math_ops.c gives a CPU without     *)
(* them, with registers of WIDTH bits, against the arithmetic of TLA+.     *)
(* The state is the pair of arguments of one call; a loop is the function  *)
(* that gives its variables after k turns.                                 *)
(***************************************************************************)
EXTENDS Integers

CONSTANT WIDTH  \* 32, or 64 for __muldi3

ASSUME WidthAssumption == WIDTH \in Nat \ {0}

VARIABLES n, d  \* the arguments, as unsigned registers

\* 1 << i
Pow2[i \in 0 .. WIDTH] == IF i = 0 THEN 1 ELSE 2 * Pow2[i - 1]

Values == 0 .. Pow2[WIDTH] - 1
Wrap(x) == x % Pow2[WIDTH]
Bit(x, i) == (x \div Pow2[i]) % 2

Negative(x) == x >= Pow2[WIDTH - 1]
Neg(x) == Wrap(- x)
Magnitude(x) == IF Negative(x) THEN Neg(x) ELSE x

-----------------------------------------------------------------------------
(* __mulsi3, __muldi3                                                      *)

\* A signed shift, which keeps the sign (mutant of Halved).
HalvedSigned(b) == b \div 2 + (IF Negative(b) THEN Pow2[WIDTH - 1] ELSE 0)

Halved(b) == b \div 2

\* The addend is shifted left and the multiplier right until nothing is left of it.
MulTurn(s) ==
  IF s.b = 0 THEN s
  ELSE [res |-> IF s.b % 2 = 1 THEN Wrap(s.res + s.a) ELSE s.res,
        a   |-> Wrap(s.a * 2),
        b   |-> Halved(s.b)]

\* The loop, which __mulsi3 runs over 32 bits and __muldi3 over 64.
Multiplied(a, b) ==
  LET loop[k \in 0 .. WIDTH] ==
        IF k = 0 THEN [res |-> 0, a |-> a, b |-> b] ELSE MulTurn(loop[k - 1])
  IN  loop[WIDTH]

mul(a, b) == Multiplied(a, b).res

-----------------------------------------------------------------------------
(* __udivsi3, __umodsi3                                                    *)

\* The comparison excludes equality (mutant of Enough).
MoreThan(r, den) == r > den

Enough(r, den) == r >= den

\* One turn of the restoring division, for bit i of num.
Turn(acc, num, den, i) ==
  LET r == Wrap(acc.r * 2) + Bit(num, i) IN
  IF Enough(r, den) THEN [q |-> acc.q + Pow2[i], r |-> r - den]
                    ELSE [q |-> acc.q, r |-> r]

\* From the top bit down.
Divided(num, den) ==
  LET loop[k \in 0 .. WIDTH] ==
        IF k = 0 THEN [q |-> 0, r |-> 0] ELSE Turn(loop[k - 1], num, den, WIDTH - k)
  IN  loop[WIDTH]

udiv(num, den) == Divided(num, den).q
umod(num, den) == Divided(num, den).r

-----------------------------------------------------------------------------
(* __divsi3, __modsi3                                                      *)

div(a, b) ==
  LET q == udiv(Magnitude(a), Magnitude(b)) IN
  IF Negative(a) # Negative(b) THEN Neg(q) ELSE q

SignOfRest(a, b) == Negative(a)

mod(a, b) ==
  LET r == umod(Magnitude(a), Magnitude(b)) IN
  IF SignOfRest(a, b) THEN Neg(r) ELSE r

-----------------------------------------------------------------------------

Init == n \in Values /\ d \in Values
Next == UNCHANGED <<n, d>>
Spec == Init /\ [][Next]_<<n, d>>

-----------------------------------------------------------------------------
(* Properties                                                              *)

\* The value of a register read as a signed number.
Signed(x) == IF x >= Pow2[WIDTH - 1] THEN x - Pow2[WIDTH] ELSE x
Abs(x) == IF x < 0 THEN - x ELSE x

\* Multiplication modulo 2^WIDTH, which serves signed and unsigned alike: also
\* a negative multiplier, which the loop shifts in as unsigned, ends within
\* WIDTH turns.
MulAgrees == Multiplied(n, d).b = 0 /\ mul(n, d) = (n * d) % Pow2[WIDTH]

\* Unsigned: the shift of the remainder never loses a bit, whatever the divisor.
\* Signed, by C99: the quotient is cut towards zero and the rest has the sign of
\* the dividend; the quotient INT_MIN / -1 does not exist in C and wraps here.
DivisionAgrees ==
  d # 0 =>
    LET a == Signed(n)
        b == Signed(d)
        q == (Abs(a) \div Abs(b)) * (IF (a < 0) # (b < 0) THEN -1 ELSE 1)
    IN  /\ udiv(n, d) = n \div d /\ umod(n, d) = n % d
        /\ div(n, d) = Wrap(q) /\ Signed(mod(n, d)) = a - b * q
=============================================================================
