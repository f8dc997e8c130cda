-------------------------- MODULE FloatInstructions --------------------------
(***************************************************************************)
(* The floating-point instructions: op_exec_fpu.c and the helpers of       *)
(* cpu_fpu_ops.h.  A handler reads its operands from registers, has the    *)
(* host compute, writes the result and adds the exceptions the host raised *)
(* to those of FPST.  FPSR.FS counts as set, so that subnormal operands    *)
(* and results are flushed.                                                *)
(***************************************************************************)
EXTENDS Core

CONSTANTS
  SingleExp,  (* 8: bits of the exponent of a single, which fills a word       *)
  DoubleExp   (* 11: of a double, which fills two                              *)

(* The sum of two doubles as far apart as matters to the last digit kept has *)
(* the most digits, and so has that of a single and a product of singles.    *)
Digits == 3 * (2 * Width - DoubleExp)

ASSUME FloatAssumption ==
  /\ SingleExp \in 2 .. Width - 3
  /\ DoubleExp \in SingleExp + 1 .. Width - 2
  /\ 4 * (Width - SingleExp) <= Digits

(* A law of arithmetic that provers do not know of: powers add up.           *)
ASSUME PowersAssumption ==
  \A m, n \in 0 .. Digits :
    2 ^ m \in Nat \ {0} /\ (m + n <= Digits => 2 ^ (m + n) = 2 ^ m * 2 ^ n)

Host == INSTANCE FloatNumbers

----------------------------------------------------------------------------
(* A format as the macros of cpu_fpu_ops.h read it: of the exponent of a     *)
(* double they miss the lowest bit, and take the lowest three for fraction.  *)
Format(words, exp, missed, shared) ==
  [words |-> words, exp |-> exp, frac |-> words * Width - 1 - exp, missed |-> missed, shared |-> shared]

Single == Format(1, SingleExp, 0, 0)
Double == Format(2, DoubleExp, 1, 3)

ExponentOf(f, b) == LET x == Low(f.exp, b \div 2 ^ f.frac) IN x - Low(f.missed, x)
FractionOf(f, b) == Low(f.frac + f.shared, b)
Full(f)          == 2 ^ f.exp - 1

IsMinus(f, b)     == Host!Minus(f, b)
IsZero(f, b)      == ExponentOf(f, b) = 0 /\ FractionOf(f, b) = 0
IsSubnormal(f, b) == ExponentOf(f, b) = 0 /\ FractionOf(f, b) # 0
IsInf(f, b)       == ExponentOf(f, b) = Full(f) /\ FractionOf(f, b) = 0
IsNan(f, b)       == ExponentOf(f, b) = Full(f) /\ FractionOf(f, b) # 0
IsQnan(f, b)      == IsNan(f, b) /\ Host!Quiet(f, b)
IsSnan(f, b)      == IsNan(f, b) /\ ~ Host!Quiet(f, b)

Qnan(f) == Host!SignOf(f) - 1
Snan(f) == Qnan(f) - Host!QuietBit(f)

Unlawful(b) == {Host!Answer(b, {"V"})}

----------------------------------------------------------------------------
(* The registers of floating point in the bank that is selected, whatever    *)
(* the group.  An exception is added to those FPST has and the sum written   *)
(* to FPSR and FPST.                                                         *)
Selected == fpu.regs[fpu.bank]

(* Were FPSR not told of it:                                                 *)
RaiseInFpst(raised) ==
  [fpu EXCEPT !.regs[fpu.bank].FPST.xc = @ \cup raised, !.regs[fpu.bank].FPST.xp = @ \cup raised]

Raise(raised) ==
  LET xc == Selected.FPST.xc \cup raised
      xp == Selected.FPST.xp \cup raised
  IN IF raised = {} THEN fpu
     ELSE [fpu EXCEPT !.regs[fpu.bank].FPSR.xc = xc, !.regs[fpu.bank].FPSR.xp = xp,
                      !.regs[fpu.bank].FPST.xc = xc, !.regs[fpu.bank].FPST.xp = xp]

WithCondition(state, cc) ==
  [state EXCEPT !.regs[fpu.bank].FPSR.cc = cc, !.regs[fpu.bank].FPCC.cc = cc]

(* Of the rounding two bits are read and compared to 0, 1, 0x10 and 0x11.    *)
RoundType ==
  LET rm == Selected.FPSR.rm
  IN CASE rm = 0 -> "RN" [] rm = 1 -> "RZ" [] rm = 16 -> "RU" [] rm = 17 -> "RD" [] OTHER -> "RN"

----------------------------------------------------------------------------
(* set_subnormal_operand, set_subnormal_result and those for doubles.        *)
Operand(f, b) == IF IsSubnormal(f, b) THEN Host!Signum(f, IsMinus(f, b)) ELSE b

Towards(f, away, b) == Host!Signum(f, IsMinus(f, b)) + (IF away THEN 2 ^ f.frac ELSE 0)

Flushed(f, b) ==
  IF ~ IsSubnormal(f, b) THEN b
  ELSE CASE RoundType = "RU" -> Towards(f, ~ IsMinus(f, b), b)
         [] RoundType = "RD" -> IF IsMinus(f, b) THEN Towards(f, TRUE, b) ELSE 0
         [] OTHER -> 0

FlushedAll(f, answers) == {[a EXCEPT !.bits = Flushed(f, @)] : a \in answers}

----------------------------------------------------------------------------
(* Operands and results.  A double is in two registers, its low word in the  *)
(* first; a long is as well, its low word in the first or in the second.     *)
Datum(f, n) == IF f.words = 1 THEN r[n] ELSE r[n + 1] * Modulus + r[n]

D1(f) == Datum(f, ins.reg1)
D2(f) == Datum(f, ins.reg2)
D3(f) == Datum(f, ins.reg3)
O1(f) == Operand(f, D1(f))
O2(f) == Operand(f, D2(f))
O3(f) == Operand(f, D3(f))

Long           == Modulus * Modulus
LongSigned(n)  == IF n < Long \div 2 THEN n ELSE n - Long
LowFirst(n)    == r[n + 1] * Modulus + r[n]
Swapped(v)     == Low(Width, v) * Modulus + v \div Modulus

(* The low word is extended with its sign before it is joined to the other.  *)
LongJoined(n) == (IF r[n + 1] < SignBit THEN r[n] ELSE Modulus - 1) * Modulus + r[n + 1]

InRegs(f, ns) == \A n \in ns : n + f.words - 1 \in Regs

(* Of a pair that begins with the last register, what follows the registers  *)
(* in memory is written: the group that is selected.                         *)
Placed(f, n, b) ==
  IF f.words = 1 THEN [r EXCEPT ![n] = b, ![0] = 0]
  ELSE IF n + 1 \in Regs THEN [r EXCEPT ![n] = Low(Width, b), ![n + 1] = b \div Modulus, ![0] = 0]
  ELSE [r EXCEPT ![n] = Low(Width, b), ![0] = 0]

Spilled(f, n, b, state) ==
  IF f.words = 2 /\ n + 1 \notin Regs THEN [state EXCEPT !.group = b \div Modulus] ELSE state

(* The registers that the handler checks must exist, or it fails.            *)
Delivers(f, n, checked, answers) ==
  \/ /\ checked
     /\ \E a \in answers :
          /\ r' = Placed(f, n, a.bits)
          /\ fpu' = Spilled(f, n, a.bits, Raise(a.raised))
     /\ Proceed(pc + 4)
     /\ UNCHANGED <<psw, mem>>
  \/ ~ checked /\ Stop

Flushes(f, n, checked, answers) == Delivers(f, n, checked, FlushedAll(f, answers))

----------------------------------------------------------------------------
(* Arithmetic with two operands.                                             *)
Three(f) == InRegs(f, {ins.reg1, ins.reg2, ins.reg3})

Computes(f, answers) == Flushes(f, ins.reg3, Three(f), answers)

Addf(f)  == Computes(f, Host!Add(f, RoundType, O1(f), O2(f)))
(* Were the operands of SUBF in the order of their numbers:                  *)
SubfOtherWay(f) == Computes(f, Host!Subtract(f, RoundType, O1(f), O2(f)))

Subf(f)  == Computes(f, Host!Subtract(f, RoundType, O2(f), O1(f)))
Mulf(f)  == Computes(f, Host!Multiply(f, RoundType, O1(f), O2(f)))
Divf(f)  == Computes(f, Host!Divide(f, RoundType, O2(f), O1(f)))

Addf_s == Executes("addf_s") /\ Addf(Single)
Subf_s == Executes("subf_s") /\ Subf(Single)
Mulf_s == Executes("mulf_s") /\ Mulf(Single)
Divf_s == Executes("divf_s") /\ Divf(Single)
Addf_d == Executes("addf_d") /\ Addf(Double)
Subf_d == Executes("subf_d") /\ Subf(Double)
Mulf_d == Executes("mulf_d") /\ Mulf(Double)
Divf_d == Executes("divf_d") /\ Divf(Double)

(* What is added to the product is not flushed.                              *)
Fused3(c) == Host!Fused(Single, RoundType, O2(Single), O1(Single), c)

Reversed(answers) == {[a EXCEPT !.bits = Host!Opposite(Single, @)] : a \in answers}
Negated3          == Host!Opposite(Single, R3)

Fmaf_s  == Executes("fmaf_s") /\ Computes(Single, Fused3(R3))
Fmsf_s  == Executes("fmsf_s") /\ Computes(Single, Fused3(Negated3))
Fnmaf_s == Executes("fnmaf_s") /\ Computes(Single, Reversed(Fused3(R3)))
Fnmsf_s == Executes("fnmsf_s") /\ Computes(Single, Reversed(Fused3(Negated3)))

(* Multiply, then add: the compiler may fuse them.                           *)
MulAdd(c)       == Host!MultiplyAdd(Single, RoundType, O2(Single), O1(Single), c)
ToReg4(answers) == Flushes(Single, ins.reg4, TRUE, answers)

Subtracted3 ==
  IF Host!NaN(Single, O3(Single)) THEN O3(Single) ELSE Host!Opposite(Single, O3(Single))

Maddf_s  == Executes("maddf_s") /\ ToReg4(MulAdd(O3(Single)))
Msubf_s  == Executes("msubf_s") /\ ToReg4(MulAdd(Subtracted3))
Nmaddf_s == Executes("nmaddf_s") /\ ToReg4(Reversed(MulAdd(O3(Single))))
Nmsubf_s == Executes("nmsubf_s") /\ ToReg4(Reversed(MulAdd(Subtracted3)))

FloatArithmetic == \/ Addf_s \/ Subf_s \/ Mulf_s \/ Divf_s \/ Addf_d \/ Subf_d \/ Mulf_d \/ Divf_d
                \/ Fmaf_s \/ Fmsf_s \/ Fnmaf_s \/ Fnmsf_s
                \/ Maddf_s \/ Msubf_s \/ Nmaddf_s \/ Nmsubf_s

----------------------------------------------------------------------------
(* One operand.                                                              *)
OneOf(f)    == (2 ^ (f.exp - 1) - 1) * 2 ^ f.frac
Two(f)      == InRegs(f, {ins.reg2, ins.reg3})
AsResult(f, answers)  == Flushes(f, ins.reg3, Two(f), answers)
AsItIs(f, b)          == Delivers(f, ins.reg3, Two(f), Host!Exactly(b))

(* What the answer to an operation raised stays raised after the next.       *)
After(a, answers) == {Host!Answer(b.bits, a.raised \cup b.raised) : b \in answers}

Inverse2(f, b) == Host!Divide(f, RoundType, OneOf(f), b)
Rsqrt(b) == UNION {After(a, Inverse2(Double, a.bits)) : a \in Host!Root(Double, RoundType, b)}
ToDouble(b)      == Host!Converted(Single, Double, RoundType, b)
ToSingle(b)      == Host!Converted(Double, Single, RoundType, b)
AsDoubles(answers) == UNION {After(a, ToDouble(a.bits)) : a \in answers}
AsSingles(answers) == UNION {After(a, ToSingle(a.bits)) : a \in answers}

Absf_s   == Executes("absf_s") /\ AsItIs(Single, Host!Magnitude(Single, R2))
Absf_d   == Executes("absf_d") /\ AsResult(Double, Host!Exactly(Host!Magnitude(Double, O2(Double))))
Negf_s   == Executes("negf_s") /\ AsItIs(Single, Host!Opposite(Single, R2))
Sqrtf_s  == Executes("sqrtf_s") /\ AsResult(Single, Host!Root(Single, RoundType, O2(Single)))
Sqrtf_d  == Executes("sqrtf_d") /\ AsResult(Double, Host!Root(Double, RoundType, O2(Double)))
Rsqrtf_d == Executes("rsqrtf_d") /\ AsResult(Double, Rsqrt(O2(Double)))

(* The host's sqrt and quotient are doubles.                                 *)
Rsqrtf_s == /\ Executes("rsqrtf_s")
            /\ LET wide == ToDouble(O2(Single))
               IN AsResult(Single, AsSingles(UNION {After(a, Rsqrt(a.bits)) : a \in wide}))

(* Both keep to the NaNs that are recognised; RECIPF gives the inverse of    *)
(* zero and of infinity no sign.  Nothing is flushed.                        *)
NanAware(f, b, otherwise) ==
  IF IsQnan(f, b) THEN Host!Exactly(Qnan(f))
  ELSE IF IsSnan(f, b) THEN Unlawful(Snan(f))
  ELSE otherwise

Negf_d == /\ Executes("negf_d")
          /\ Delivers(Double, ins.reg3, Two(Double),
                      NanAware(Double, D2(Double), Host!Exactly(Host!Opposite(Double, D2(Double)))))

Recipf(f) ==
  LET b == D2(f)
  IN Delivers(f, ins.reg3, Two(f),
       NanAware(f, b, CASE IsInf(f, b)  -> Host!Exactly(0)
                       [] IsZero(f, b) -> {Host!Answer(Host!InfBits(f), {"Z"})}
                       [] OTHER        -> Inverse2(f, b)))

Recipf_s == Executes("recipf_s") /\ Recipf(Single)
Recipf_d == Executes("recipf_d") /\ Recipf(Double)

(* MAXF and MINF.  A comparison of a NaN may raise V, which only MAXF.D      *)
(* looks for.                                                                *)
Chosen(f, first) == IF first THEN D1(f) ELSE D2(f)
Larger(f)        == Chosen(f, Host!Less(f, D2(f), D1(f)))
Smaller(f)       == Chosen(f, Host!Less(f, D1(f), D2(f)))

Operands(f)    == {D1(f), D2(f)}
SomeSnan(f)    == \E b \in Operands(f) : IsSnan(f, b)
SomeQnan(f)    == \E b \in Operands(f) : IsQnan(f, b)
MayBeInvalid(f) == {{}} \cup {{"V"} : b \in {x \in Operands(f) : Host!NaN(f, x)}}

Picks(f, b) ==
  Delivers(f, ins.reg3, Three(f), IF SomeSnan(f) THEN Unlawful(Qnan(f)) ELSE Host!Exactly(b))

Maxf_s == Executes("maxf_s") /\ Picks(Single, Larger(Single))
Minf_s == Executes("minf_s") /\ Picks(Single, Smaller(Single))
Minf_d == Executes("minf_d") /\ Picks(Double, Smaller(Double))

Maxf_d ==
  /\ Executes("maxf_d")
  /\ Delivers(Double, ins.reg3, InRegs(Double, {ins.reg1, ins.reg2}),
       IF SomeSnan(Double) THEN Unlawful(Qnan(Double))
       ELSE IF SomeQnan(Double) THEN Host!Exactly(Qnan(Double))
       ELSE {Host!Answer(Larger(Double), v) : v \in MayBeInvalid(Double)})

FloatFunctions == \/ Absf_s \/ Absf_d \/ Negf_s \/ Negf_d \/ Sqrtf_s \/ Sqrtf_d \/ Rsqrtf_s \/ Rsqrtf_d
              \/ Recipf_s \/ Recipf_d \/ Maxf_s \/ Minf_s \/ Maxf_d \/ Minf_d

----------------------------------------------------------------------------
(* Comparison.  A condition of four bits says which of less, equal and       *)
(* unordered set the condition bit, and whether unordered is invalid.        *)
Fcond == ins.reg3

Unordered(f) == \E b \in Operands(f) : IsNan(f, b)

(* Were the first operand compared with the second:                          *)
HoldsOtherWay(f) ==
  \/ Unordered(f) /\ Bit(Fcond, 0) = 1
  \/ ~ Unordered(f) /\ \/ Bit(Fcond, 1) = 1 /\ Host!Equal(f, D1(f), D2(f))
                       \/ Bit(Fcond, 2) = 1 /\ Host!Less(f, D1(f), D2(f))

Holds(f) ==
  \/ Unordered(f) /\ Bit(Fcond, 0) = 1
  \/ ~ Unordered(f) /\ \/ Bit(Fcond, 1) = 1 /\ Host!Equal(f, D2(f), D1(f))
                       \/ Bit(Fcond, 2) = 1 /\ Host!Less(f, D2(f), D1(f))

Cmpf(f) ==
  LET cc == Selected.FPSR.cc
  IN \/ /\ InRegs(f, {ins.reg1, ins.reg2})
        /\ fpu' = WithCondition(Raise(IF Unordered(f) /\ Bit(Fcond, 3) = 1 THEN {"V"} ELSE {}),
                                IF Holds(f) THEN cc \cup {ins.bit} ELSE cc \ {ins.bit})
        /\ Proceed(pc + 4)
        /\ UNCHANGED <<r, psw, mem>>
     \/ ~ InRegs(f, {ins.reg1, ins.reg2}) /\ Stop

Cmpf_s == Executes("cmpf_s") /\ Cmpf(Single)
Cmpf_d == Executes("cmpf_d") /\ Cmpf(Double)

Condition == ins.bit \in Selected.FPSR.cc

Moves(f) == Delivers(f, ins.reg3, Three(f), Host!Exactly(Chosen(f, Condition)))

Cmovf_s == Executes("cmovf_s") /\ Moves(Single)
Cmovf_d == Executes("cmovf_d") /\ Moves(Double)
Trfsr   == Executes("trfsr") /\ psw' = Update(psw, [z |-> Condition]) /\ Goto(pc + 4) /\ UNCHANGED r

FloatComparisons == Cmpf_s \/ Cmpf_d \/ Cmovf_s \/ Cmovf_d \/ Trfsr

----------------------------------------------------------------------------
(* Conversions to floating point and between its formats.                    *)
From2(words) == InRegs([words |-> words], {ins.reg2})

FromInteger(f, words, n) ==
  Flushes(f, ins.reg3, From2(words) /\ InRegs(f, {ins.reg3}), Host!FromInteger(f, RoundType, n))

Cvtf_ws  == Executes("cvtf_ws") /\ FromInteger(Single, 1, Signed(R2))
Cvtf_uws == Executes("cvtf_uws") /\ FromInteger(Single, 1, R2)
Cvtf_wd  == Executes("cvtf_wd") /\ FromInteger(Double, 1, Signed(R2))
Cvtf_uwd == Executes("cvtf_uwd") /\ FromInteger(Double, 1, R2)
Cvtf_ls  == Executes("cvtf_ls") /\ FromInteger(Single, 2, LongSigned(LowFirst(ins.reg2)))
Cvtf_uls == Executes("cvtf_uls") /\ FromInteger(Single, 2, LowFirst(ins.reg2))
Cvtf_ld  == Executes("cvtf_ld") /\ FromInteger(Double, 2, LongSigned(LongJoined(ins.reg2)))
Cvtf_uld == Executes("cvtf_uld") /\ FromInteger(Double, 2, LongJoined(ins.reg2))

Cvtf_sd == /\ Executes("cvtf_sd")
           /\ Flushes(Double, ins.reg3, InRegs(Double, {ins.reg3}), ToDouble(O2(Single)))
Cvtf_ds == /\ Executes("cvtf_ds")
           /\ Flushes(Single, ins.reg3, InRegs(Double, {ins.reg2}), ToSingle(O2(Double)))

ToFloats == \/ Cvtf_ws \/ Cvtf_uws \/ Cvtf_wd \/ Cvtf_uwd
            \/ Cvtf_ls \/ Cvtf_uls \/ Cvtf_ld \/ Cvtf_uld \/ Cvtf_sd \/ Cvtf_ds

----------------------------------------------------------------------------
(* Conversions to integers, which truncate whatever the rounding, but for    *)
(* FLOORF.  A cast to a word or a long, with or without sign.                *)
Numbers(words)          == IF words = 1 THEN Modulus ELSE Long
Least(words, signed)    == IF signed THEN - (Numbers(words) \div 2) ELSE 0
Greatest(words, signed) == IF signed THEN Numbers(words) \div 2 - 1 ELSE Numbers(words) - 1

Casted(words, signed, f, b, n) ==
  Host!Cast(2 * Width, Least(words, signed), Greatest(words, signed), n, Host!Fraction(f, b))

Truncated(words, signed, f, b) == Casted(words, signed, f, b, Host!Whole(f, b))

Refused(n) == {[n |-> n, raised |-> {"V"}]}

AsWord(answers) == {Host!Answer(Word(c.n), c.raised) : c \in answers}
AsLong(answers) == {Host!Answer(Swapped(c.n % Long), c.raised) : c \in answers}

(* A single to a word by way of a long, which is then limited to the word;   *)
(* below to the number opposite to the greatest.                             *)
(* Were a number above the greatest not reported:                            *)
LimitedSilently(c, lo, hi) ==
  IF c.n < lo THEN [n |-> lo, raised |-> c.raised \cup {"V"}]
  ELSE IF c.n > hi THEN [c EXCEPT !.n = hi]
  ELSE c

Limited(c, lo, hi) ==
  IF c.n < lo THEN [n |-> lo, raised |-> c.raised \cup {"V"}]
  ELSE IF c.n > hi THEN [n |-> hi, raised |-> c.raised \cup {"V"}]
  ELSE c

SingleToWord(signed, n) ==
  LET b  == R2
      hi == Greatest(1, signed)
      lo == IF signed THEN - hi ELSE 0
      answers == IF IsNan(Single, b) \/ IsInf(Single, b)
                 THEN Refused(IF IsMinus(Single, b) THEN lo ELSE hi)
                 ELSE {Limited(c, lo, hi) : c \in Casted(2, signed, Single, b, n)}
  IN Delivers(Single, ins.reg3, TRUE, AsWord(answers))

Cvtf_sw    == Executes("cvtf_sw") /\ SingleToWord(TRUE, Host!Whole(Single, R2))
Cvtf_suw   == Executes("cvtf_suw") /\ SingleToWord(FALSE, Host!Whole(Single, R2))
Trncf_sw   == Executes("trncf_sw") /\ SingleToWord(TRUE, Host!Whole(Single, R2))
Trncf_suw  == Executes("trncf_suw") /\ SingleToWord(FALSE, Host!Whole(Single, R2))
Floorf_suw == Executes("floorf_suw") /\ SingleToWord(FALSE, Host!Floor(Single, R2))

(* A double to a word: nothing is checked; CEILF.DUW casts to a signed word  *)
(* and leaves the exceptions of the host alone.                              *)
DoubleToWord(answers) == Delivers(Single, ins.reg3, From2(2), AsWord(answers))

Cvtf_dw   == Executes("cvtf_dw") /\ DoubleToWord(Truncated(1, TRUE, Double, O2(Double)))
Cvtf_duw  == Executes("cvtf_duw") /\ DoubleToWord(Truncated(1, FALSE, Double, O2(Double)))
Trncf_dw  == Executes("trncf_dw") /\ DoubleToWord(Truncated(1, TRUE, Double, O2(Double)))
Trncf_duw == Executes("trncf_duw") /\ DoubleToWord(Truncated(1, FALSE, Double, O2(Double)))
Ceilf_duw == /\ Executes("ceilf_duw")
             /\ DoubleToWord({[c EXCEPT !.raised = {}] :
                               c \in Truncated(1, TRUE, Double, O2(Double))})

(* To a long, high word first.                                               *)
ToLong(needed, answers) == Delivers(Double, ins.reg3, needed, AsLong(answers))

DoubleToLong(answers) == ToLong(InRegs(Double, {ins.reg2, ins.reg3}), answers)
SingleToLong(answers) == ToLong(InRegs(Double, {ins.reg3}), answers)

Cvtf_dl  == Executes("cvtf_dl") /\ DoubleToLong(Truncated(2, TRUE, Double, O2(Double)))
Ceilf_dl == Executes("ceilf_dl") /\ DoubleToLong(Truncated(2, TRUE, Double, O2(Double)))
Cvtf_dul == Executes("cvtf_dul") /\ DoubleToLong(Truncated(2, FALSE, Double, O2(Double)))

Trncf_dl ==
  /\ Executes("trncf_dl")
  /\ LET b  == D2(Double)
         hi == Greatest(2, TRUE)
     IN DoubleToLong(IF IsNan(Double, b) \/ IsInf(Double, b)
                     THEN Refused(IF IsMinus(Double, b) THEN - hi ELSE hi)
                     ELSE {Limited(c, - hi, hi) : c \in Truncated(2, TRUE, Double, b)})

(* 2^64 itself passes for a long: the greatest rounds to it when they are    *)
(* compared.  A comparison of a NaN that is not recognised may raise V.      *)
UnsignedLong(f, b, below, n) ==
  LET hi == Greatest(2, FALSE)
  IN IF IsNan(f, b) \/ (IsInf(f, b) /\ IsMinus(f, b)) \/ below THEN Refused(0)
     ELSE IF IsInf(f, b) \/ (~ Host!NaN(f, b) /\ n > Long) THEN Refused(hi)
     ELSE Casted(2, FALSE, f, b, n)

Below0(f, b) == ~ Host!NaN(f, b) /\ IsMinus(f, b) /\ ~ Host!Null(f, b)

Truncates(f, b)  == UnsignedLong(f, b, Below0(f, b), Host!Whole(f, b))
Ceilf_dul == /\ Executes("ceilf_dul")
             /\ LET b == D2(Double)
                    n == Host!Whole(Double, b)
                IN DoubleToLong(UnsignedLong(Double, b, ~ Host!NaN(Double, b) /\ n < 0, n))
Trncf_dul == Executes("trncf_dul") /\ DoubleToLong(Truncates(Double, D2(Double)))
Trncf_sul == Executes("trncf_sul") /\ SingleToLong(Truncates(Single, R2))

(* Infinity of either sign is the greatest, and NaN the least but one.       *)
Trncf_sl ==
  /\ Executes("trncf_sl")
  /\ LET b  == R2
         hi == Greatest(2, TRUE)
     IN SingleToLong(IF IsNan(Single, b) THEN Refused(- hi)
                     ELSE IF IsInf(Single, b) THEN Refused(hi)
                     ELSE Truncated(2, TRUE, Single, b))

(* Of FLOORF.SW and FLOORF.SL the result is written as a float and a double, *)
(* not as an integer; FLOORF.SL and FLOORF.SUL do not check the second       *)
(* register.                                                                 *)
Floored2 == Host!Floored(Single, RoundType, O2(Single))

Floorf_sw  == Executes("floorf_sw") /\ Flushes(Single, ins.reg3, TRUE, Floored2)
Floorf_sl  == Executes("floorf_sl") /\ Flushes(Double, ins.reg3, TRUE, AsDoubles(Floored2))
Floorf_sul == /\ Executes("floorf_sul")
              /\ ToLong(TRUE, UnsignedLong(Single, R2, Below0(Single, R2), Host!Floor(Single, R2)))

ToIntegers == \/ Cvtf_sw \/ Cvtf_suw \/ Trncf_sw \/ Trncf_suw \/ Floorf_suw
               \/ Cvtf_dw \/ Cvtf_duw \/ Trncf_dw \/ Trncf_duw \/ Ceilf_duw
               \/ Cvtf_dl \/ Cvtf_dul \/ Ceilf_dl \/ Ceilf_dul \/ Trncf_dl \/ Trncf_dul
               \/ Trncf_sl \/ Trncf_sul \/ Floorf_sw \/ Floorf_sl \/ Floorf_sul

----------------------------------------------------------------------------
(* Those that print that they are not supported, and fail.                   *)
Unsupported == {"ceilf_dw", "ceilf_sl", "ceilf_sul", "ceilf_suw", "ceilf_sw", "cvtf_sl", "cvtf_sul",
                "floorf_dl", "floorf_dul", "floorf_duw", "floorf_dw"}

NotSupported == running /\ pc \in DOMAIN code /\ ins.op \in Unsupported /\ Stop

----------------------------------------------------------------------------
FloatOps == Unsupported \cup
  {"addf_s", "subf_s", "mulf_s", "divf_s", "addf_d", "subf_d", "mulf_d", "divf_d",
   "fmaf_s", "fmsf_s", "fnmaf_s", "fnmsf_s", "maddf_s", "msubf_s", "nmaddf_s", "nmsubf_s",
   "absf_s", "absf_d", "negf_s", "negf_d", "sqrtf_s", "sqrtf_d", "rsqrtf_s", "rsqrtf_d",
   "recipf_s", "recipf_d", "maxf_s", "minf_s", "maxf_d", "minf_d",
   "cmpf_s", "cmpf_d", "cmovf_s", "cmovf_d", "trfsr",
   "cvtf_ws", "cvtf_uws", "cvtf_wd", "cvtf_uwd", "cvtf_ls", "cvtf_uls", "cvtf_ld", "cvtf_uld",
   "cvtf_sd", "cvtf_ds",
   "cvtf_sw", "cvtf_suw", "trncf_sw", "trncf_suw", "floorf_suw",
   "cvtf_dw", "cvtf_duw", "trncf_dw", "trncf_duw", "ceilf_duw",
   "cvtf_dl", "cvtf_dul", "ceilf_dl", "ceilf_dul", "trncf_dl", "trncf_dul",
   "trncf_sl", "trncf_sul", "floorf_sw", "floorf_sl", "floorf_sul"}

Floats ==
  /\ running /\ pc \in DOMAIN code /\ ins.op \in FloatOps
  /\ FloatArithmetic \/ FloatFunctions \/ FloatComparisons \/ ToFloats \/ ToIntegers \/ NotSupported
=============================================================================
