---------------------------- MODULE FloatNumbers ----------------------------
(***************************************************************************)
(* The floating-point arithmetic of the host, which the handlers of        *)
(* op_exec_fpu.c call for their results: the operators of C on float and   *)
(* double, libm and the casts, and the exceptions they leave in fenv.      *)
(*                                                                         *)
(* A format is a record: exp bits of exponent above frac bits of fraction, *)
(* and a sign above both.  A datum is the number its bits make.  What it   *)
(* stands for is a record, neg, m, e: the number m * 2^e with a sign.      *)
(* An operator gives the set of what the host may answer: the bits, and    *)
(* the exceptions raised.                                                  *)
(***************************************************************************)
EXTENDS Integers, FiniteSets

CONSTANT Digits     (* no number that is rounded has more binary digits       *)

(* Rounding: to nearest, up, down, to zero.                                  *)
Modes == {"RN", "RU", "RD", "RZ"}

Least(a, b)    == IF a < b THEN a ELSE b
Greatest(a, b) == IF a > b THEN a ELSE b
Absolute(n)    == IF n < 0 THEN -n ELSE n

SignOf(f)    == 2 ^ (f.exp + f.frac)
InfBits(f)   == (2 ^ f.exp - 1) * 2 ^ f.frac
QuietBit(f)  == 2 ^ (f.frac - 1)
LastPlace(f) == 2 - 2 ^ (f.exp - 1) - f.frac

Minus(f, b)      == b >= SignOf(f)
Magnitude(f, b)  == b % SignOf(f)
Signum(f, neg)   == IF neg THEN SignOf(f) ELSE 0
Opposite(f, b)   == IF Minus(f, b) THEN b - SignOf(f) ELSE b + SignOf(f)
NaN(f, b)        == Magnitude(f, b) > InfBits(f)
Infinite(f, b)   == Magnitude(f, b) = InfBits(f)
Null(f, b)       == Magnitude(f, b) = 0
Quiet(f, b)      == (b \div QuietBit(f)) % 2 = 1
Quieted(f, b)    == IF Quiet(f, b) THEN b ELSE b + QuietBit(f)

Value(f, b) ==
  LET x == Magnitude(f, b) \div 2 ^ f.frac
      y == b % 2 ^ f.frac
  IN [neg |-> Minus(f, b),
      m   |-> IF x = 0 THEN y ELSE y + 2 ^ f.frac,
      e   |-> LastPlace(f) + Greatest(x, 1) - 1]

Answer(bits, raised) == [bits |-> bits, raised |-> raised]
Exactly(bits)        == {Answer(bits, {})}

----------------------------------------------------------------------------
(* Rounding to a format.  A place is the exponent of the last digit kept;    *)
(* of what lies below, no more than all digits of m and one matters.         *)
BitLength(m) == Cardinality({k \in 0 .. Digits - 1 : 2 ^ k <= m})

RoundsUp(mode, neg, whole, rest, half) ==
  \/ mode = "RN" /\ (rest > half \/ (rest = half /\ whole % 2 = 1))
  \/ mode = "RU" /\ rest > 0 /\ ~ neg
  \/ mode = "RD" /\ rest > 0 /\ neg

Largest(f, mode, neg) ==
  IF mode = "RN" \/ mode = (IF neg THEN "RD" ELSE "RU") THEN InfBits(f) ELSE InfBits(f) - 1

(* Whether a number that rounds to the smallest normal one was tiny, hosts   *)
(* tell before they round or after.                                          *)
Rounded(f, mode, n) ==
  LET length == BitLength(n.m)
      place  == Greatest(length + n.e - f.frac - 1, LastPlace(f))
      shift  == Least(place - n.e, length + 1)
      half   == 2 ^ (Greatest(shift, 1) - 1)
      whole  == IF shift <= 0 THEN n.m * 2 ^ (- shift) ELSE n.m \div (2 * half)
      rest   == IF shift <= 0 THEN 0 ELSE n.m % (2 * half)
      bits   == (place - LastPlace(f)) * 2 ^ f.frac + whole
                + (IF RoundsUp(mode, n.neg, whole, rest, half) THEN 1 ELSE 0)
      sign   == Signum(f, n.neg)
  IN IF n.m = 0 THEN Exactly(sign)
     ELSE IF bits >= InfBits(f) THEN {Answer(sign + Largest(f, mode, n.neg), {"O", "I"})}
     ELSE IF rest = 0 THEN Exactly(sign + bits)
     ELSE {Answer(sign + bits, {"I"} \cup u) :
             u \in (IF bits < 2 ^ f.frac THEN {{"U"}}
                    ELSE IF whole < 2 ^ f.frac THEN {{"U"}, {}} ELSE {{}})}

----------------------------------------------------------------------------
(* Exact products and sums; quotients and roots with a last digit that tells *)
(* whether anything is left.  Of a sum of numbers too far apart the smaller  *)
(* is such a digit.                                                          *)
Product(a, b) == [neg |-> a.neg # b.neg, m |-> a.m * b.m, e |-> a.e + b.e]

Sum(f, mode, a, b) ==
  LET h    == IF a.e >= b.e THEN a ELSE b
      l    == IF a.e >= b.e THEN b ELSE a
      keep == f.frac + 2
      far  == h.m # 0 /\ h.e - l.e >= keep + BitLength(l.m)
      up   == IF far THEN keep ELSE IF h.m = 0 THEN 0 ELSE h.e - l.e
      low  == IF far THEN Least(l.m, 1) ELSE l.m
      sum  == (IF h.neg THEN - h.m ELSE h.m) * 2 ^ up + (IF l.neg THEN - low ELSE low)
  IN [neg |-> IF sum = 0 THEN (IF a.m = 0 /\ a.neg = b.neg THEN a.neg ELSE mode = "RD")
              ELSE sum < 0,
      m   |-> Absolute(sum),
      e   |-> IF h.m = 0 THEN l.e ELSE h.e - up]

WithRest(neg, m, rest, e) == [neg |-> neg, m |-> 2 * m + (IF rest THEN 1 ELSE 0), e |-> e - 1]

Ratio(f, a, b) ==
  LET up == 2 * f.frac + 5 - BitLength(a.m)
      n  == a.m * 2 ^ up
  IN WithRest(a.neg # b.neg, n \div b.m, n % b.m # 0, a.e - b.e - up)

RootOf(f, a) ==
  LET up == f.frac + 4 + ((f.frac + a.e) % 2)
      n  == a.m * 2 ^ up
      s  == CHOOSE k \in 0 .. n : k * k <= n /\ n < (k + 1) * (k + 1)
  IN WithRest(FALSE, s, s * s # n, (a.e - up) \div 2)

----------------------------------------------------------------------------
(* +, *, /, sqrt and fma.  Which of several NaNs is passed on, and the sign  *)
(* of one that is made, is up to the host.                                   *)
Passed(f, bs) ==
  LET nans == {b \in bs : NaN(f, b)}
      v    == IF \A b \in nans : Quiet(f, b) THEN {} ELSE {"V"}
  IN {Answer(Quieted(f, b), v) : b \in nans}

Invalid(f) == {Answer(s + InfBits(f) + QuietBit(f), {"V"}) : s \in {0, SignOf(f)}}

Add(f, mode, a, b) ==
  IF NaN(f, a) \/ NaN(f, b) THEN Passed(f, {a, b})
  ELSE IF Infinite(f, a) /\ Infinite(f, b) /\ a # b THEN Invalid(f)
  ELSE IF Infinite(f, a) THEN Exactly(a)
  ELSE IF Infinite(f, b) THEN Exactly(b)
  ELSE Rounded(f, mode, Sum(f, mode, Value(f, a), Value(f, b)))

Subtract(f, mode, a, b) == Add(f, mode, a, IF NaN(f, b) THEN b ELSE Opposite(f, b))

Undetermined(f, a, b) == (Infinite(f, a) /\ Null(f, b)) \/ (Null(f, a) /\ Infinite(f, b))
SignOfProduct(f, a, b) == Signum(f, Minus(f, a) # Minus(f, b))

Multiply(f, mode, a, b) ==
  IF NaN(f, a) \/ NaN(f, b) THEN Passed(f, {a, b})
  ELSE IF Undetermined(f, a, b) THEN Invalid(f)
  ELSE IF Infinite(f, a) \/ Infinite(f, b) THEN Exactly(SignOfProduct(f, a, b) + InfBits(f))
  ELSE Rounded(f, mode, Product(Value(f, a), Value(f, b)))

Divide(f, mode, a, b) ==
  IF NaN(f, a) \/ NaN(f, b) THEN Passed(f, {a, b})
  ELSE IF (Infinite(f, a) /\ Infinite(f, b)) \/ (Null(f, a) /\ Null(f, b)) THEN Invalid(f)
  ELSE IF Infinite(f, a) THEN Exactly(SignOfProduct(f, a, b) + InfBits(f))
  ELSE IF Infinite(f, b) \/ Null(f, a) THEN Exactly(SignOfProduct(f, a, b))
  ELSE IF Null(f, b) THEN {Answer(SignOfProduct(f, a, b) + InfBits(f), {"Z"})}
  ELSE Rounded(f, mode, Ratio(f, Value(f, a), Value(f, b)))

Root(f, mode, a) ==
  IF NaN(f, a) THEN Passed(f, {a})
  ELSE IF Null(f, a) THEN Exactly(a)
  ELSE IF Minus(f, a) THEN Invalid(f)
  ELSE IF Infinite(f, a) THEN Exactly(a)
  ELSE Rounded(f, mode, RootOf(f, Value(f, a)))

(* Of infinity times zero plus a NaN, hosts differ whether it is invalid.    *)
Fused(f, mode, a, b, c) ==
  LET product == SignOfProduct(f, a, b) + InfBits(f)
  IN IF NaN(f, a) \/ NaN(f, b) \/ (NaN(f, c) /\ ~ Undetermined(f, a, b)) THEN Passed(f, {a, b, c})
     ELSE IF Undetermined(f, a, b) THEN Invalid(f) \cup Passed(f, {c})
     ELSE IF Infinite(f, a) \/ Infinite(f, b) THEN Add(f, mode, product, c)
     ELSE IF Infinite(f, c) THEN Exactly(c)
     ELSE Rounded(f, mode, Sum(f, mode, Product(Value(f, a), Value(f, b)), Value(f, c)))

(* a * b + c, which the compiler may round twice or fuse.                    *)
MultiplyAdd(f, mode, a, b, c) ==
  Fused(f, mode, a, b, c) \cup
  UNION {{Answer(s.bits, p.raised \cup s.raised) : s \in Add(f, mode, p.bits, c)} :
           p \in Multiply(f, mode, a, b)}

(* < and ==.  A NaN is neither.                                              *)
Place(f, b)    == IF Minus(f, b) THEN - Magnitude(f, b) ELSE Magnitude(f, b)
Less(f, a, b)  == ~ NaN(f, a) /\ ~ NaN(f, b) /\ Place(f, a) < Place(f, b)
Equal(f, a, b) == ~ NaN(f, a) /\ ~ NaN(f, b) /\ Place(f, a) = Place(f, b)

----------------------------------------------------------------------------
(* Conversions between formats, from integers and to them.                   *)
Converted(f, g, mode, b) ==
  LET y == b % 2 ^ f.frac
      z == IF g.frac >= f.frac THEN y * 2 ^ (g.frac - f.frac) ELSE y \div 2 ^ (f.frac - g.frac)
      s == Signum(g, Minus(f, b)) + InfBits(g)
  IN IF NaN(f, b) THEN {Answer(Quieted(g, s + z), IF Quiet(f, b) THEN {} ELSE {"V"})}
     ELSE IF Infinite(f, b) THEN Exactly(s)
     ELSE Rounded(g, mode, Value(f, b))

FromInteger(f, mode, n) == Rounded(f, mode, [neg |-> n < 0, m |-> Absolute(n), e |-> 0])

(* The integer next to zero, and the one below; of numbers beyond every      *)
(* integer type, one beyond.                                                 *)
Beyond == 2 ^ 28

Whole(f, b) ==
  LET v == Value(f, b)
      n == IF v.e < 0 THEN v.m \div 2 ^ Least(- v.e, BitLength(v.m))
           ELSE IF BitLength(v.m) + v.e > 28 THEN Beyond ELSE v.m * 2 ^ v.e
  IN IF v.neg THEN - n ELSE n

Fraction(f, b) ==
  LET v == Value(f, b) IN v.e < 0 /\ v.m % 2 ^ Least(- v.e, BitLength(v.m) + 1) # 0

Floor(f, b) == IF Fraction(f, b) /\ Minus(f, b) THEN Whole(f, b) - 1 ELSE Whole(f, b)

(* floorf, as a datum.  Hosts differ whether it is inexact.                  *)
Floored(f, mode, b) ==
  IF NaN(f, b) THEN Passed(f, {b})
  ELSE IF Infinite(f, b) \/ ~ Fraction(f, b) THEN Exactly(b)
  ELSE {Answer(o.bits, i) : o \in FromInteger(f, mode, Floor(f, b)), i \in {{}, {"I"}}}

(* A cast of the integer n to a type of lo .. hi, or of a number that has a  *)
(* fraction.  One that does not fit is undefined in C: hosts answer an end   *)
(* of the type, its middle or zero, and raise V; but to an unsigned type     *)
(* some compilers cast through the signed long of the width long, which      *)
(* wraps silently.                                                           *)
Cast(long, lo, hi, n, fraction) ==
  IF lo <= n /\ n <= hi
  THEN {[n |-> n, raised |-> i] : i \in (IF fraction THEN {{}, {"I"}} ELSE {{}})}
  ELSE {[n |-> k, raised |-> {"V"}] :
          k \in {lo, 0, hi} \cup (IF lo = 0 THEN {(hi + 1) \div 2} ELSE {})}
       \cup (IF lo = 0 /\ - (2 ^ (long - 1)) <= n /\ n < 2 ^ (long - 1)
             THEN {[n |-> n % (hi + 1), raised |-> {}]} ELSE {})
=============================================================================
