------------------------------ MODULE MCFloats ------------------------------
(***************************************************************************)
(* Small floating-point programs, run from numbers of every kind, and what *)
(* they compute.  A single has five bits of exponent and two of fraction,  *)
(* a double six and nine; so 60 is 1, 64 is 2, 124 is infinity, 125 a      *)
(* signaling and 126 a quiet NaN, and adding 128 makes them negative.      *)
(***************************************************************************)
EXTENDS Programs

SinglesInOrder == <<{252}, {251}, {188}, {132}, {129}, {0, 128}, {1}, {4}, {60}, {61}, {64}, {123}, {124}>>

Singles == UNION Range(SinglesInOrder) \cup {126, 253}
Doubles == {65024, 48640, 32769, 32768, 0, 1, 512, 15872, 15873, 32255, 32256, 32257, 65280}

(* A double at register n, as input and as a result.                         *)
At(n, b)     == n :> Low(Width, b) @@ n + 1 :> b \div Modulus
Found(s, n)  == s[n + 1] * Modulus + s[n]

OnSingles(c, values) == Program(c, {1, 2}, values)
OnDoubles(c, values) ==
  [Program(c, {}, {}) EXCEPT !.inputs = {At(1, a) @@ At(3, b) : a, b \in values}]

Raised(kind)   == kind \in Selected.FPST.xp
IsNumber(f, b) == ~ Host!NaN(f, b)

----------------------------------------------------------------------------
(* A comparison that holds sets bit 5; the one that is tested sets bit 3,    *)
(* which TRFSR and CMOVF then read.                                          *)
Fconds == <<"F", "UN", "EQ", "UEQ", "OLT", "ULT", "OLE", "ULE",
            "SF", "NGLE", "SEQ", "NGL", "LT", "NGE", "LE", "NGT">>
Signaling == {"SF", "NGLE", "SEQ", "NGL", "LT", "NGE", "LE", "NGT"}

With(i, bit)  == [i EXCEPT !.bit = bit]
CompareSingles(k) ==
  0 :> With(On3("cmpf_s", 1, 1, 3), 5) @@ 4 :> With(On3("cmpf_s", 1, 2, k - 1), 3)
  @@ 8 :> With(Ins("trfsr"), 3) @@ 12 :> With(On3("cmovf_s", 1, 2, 4), 3)
CompareDoubles(k) ==
  0 :> With(On3("cmpf_s", 0, 0, 3), 5) @@ 4 :> With(On3("cmpf_d", 1, 3, k - 1), 3)
  @@ 8 :> With(Ins("trfsr"), 3) @@ 12 :> With(On3("cmovf_d", 1, 3, 5), 3)

FloatsComparing ==
  {OnSingles(CompareSingles(k), Singles) : k \in DOMAIN Fconds}
  \cup {OnDoubles(CompareDoubles(k), Doubles) : k \in DOMAIN Fconds}

(* The numbers that two data stand for, in order: of two on the same side of *)
(* zero the one with the greater exponent is further from it, or the one     *)
(* with the greater digits; zero itself has no sign.                         *)
Further(v, w) == v.e > w.e \/ (v.e = w.e /\ v.m > w.m)

Below(f, a, b) ==
  LET v == Host!Value(f, a)  w == Host!Value(f, b)
  IN \/ v.neg /\ ~ w.neg /\ (v.m # 0 \/ w.m # 0)
     \/ v.neg /\ w.neg /\ Further(v, w)
     \/ ~ v.neg /\ ~ w.neg /\ Further(w, v)

(* What the names of the conditions say of a datum and another, which may be *)
(* in order, and then the one less or greater.                               *)
Says(name, ordered, less, greater) ==
  CASE name \in {"F", "SF"}     -> FALSE
    [] name \in {"UN", "NGLE"}  -> ~ ordered
    [] name \in {"EQ", "SEQ"}   -> ordered /\ ~ (less \/ greater)
    [] name \in {"UEQ", "NGL"}  -> ~ (ordered /\ (greater \/ less))
    [] name \in {"OLT", "LT"}   -> ordered /\ less
    [] name \in {"ULT", "NGE"}  -> ~ (ordered /\ ~ less)
    [] name \in {"OLE", "LE"}   -> ordered /\ ~ greater
    [] name \in {"ULE", "NGT"}  -> ~ (ordered /\ greater)

Tells(k, holds, V) ==
  /\ Selected.FPSR.cc = {5} \cup (IF holds THEN {3} ELSE {})
  /\ Selected.FPCC.cc = Selected.FPSR.cc
  /\ "z" \in psw <=> holds
  /\ Raised("V") <=> V

(* CMPF sets one condition bit and no other to what its condition says of    *)
(* the numbers in reg2 and reg1, TRFSR and CMOVF find it there, and only a   *)
(* signaling condition on NaN is invalid (op_exec_fpu.c:790-860, 1993-2069). *)
(* Of doubles this is said of numbers: what CMPF.D makes of their NaN is not *)
(* what its comment says (op_exec_fpu.c:2022-2035, cpu_fpu_ops.h:50-85).     *)
SinglesCompare(k) ==
  LET a == start.r[1]  b == start.r[2]
      ordered == IsNumber(Single, a) /\ IsNumber(Single, b)
      holds   == Says(Fconds[k], ordered, Below(Single, b, a), Below(Single, a, b))
  IN /\ Tells(k, holds, ~ ordered /\ Fconds[k] \in Signaling)
     /\ r[4] = IF holds THEN a ELSE b

DoublesCompare(k) ==
  LET a == Found(start.r, 1)  b == Found(start.r, 3)
      holds == Says(Fconds[k], TRUE, Below(Double, b, a), Below(Double, a, b))
  IN IsNumber(Double, a) /\ IsNumber(Double, b) =>
       /\ Tells(k, holds, FALSE)
       /\ Found(r, 5) = IF holds THEN a ELSE b

FloatsCompare ==
  pc = 16 /\ code[0].op = "cmpf_s" => \A k \in DOMAIN Fconds :
    /\ Ran(CompareSingles(k)) => SinglesCompare(k)
    /\ Ran(CompareDoubles(k)) => DoublesCompare(k)

----------------------------------------------------------------------------
(* Conversions to integers: the words of the operand and of the result, its  *)
(* sign, and whether it is the floor.                                        *)
To(op, from, words, signed, floor) ==
  [op |-> op, from |-> from, words |-> words, signed |-> signed, floor |-> floor]

ReportingForms ==
  {To("cvtf_sw", Single, 1, TRUE, FALSE),    To("cvtf_suw", Single, 1, FALSE, FALSE),
   To("trncf_sw", Single, 1, TRUE, FALSE),   To("trncf_suw", Single, 1, FALSE, FALSE),
   To("floorf_suw", Single, 1, FALSE, TRUE), To("trncf_sl", Single, 2, TRUE, FALSE),
   To("trncf_sul", Single, 2, FALSE, FALSE), To("floorf_sul", Single, 2, FALSE, TRUE),
   To("cvtf_dw", Double, 1, TRUE, FALSE),    To("trncf_dw", Double, 1, TRUE, FALSE),
   To("cvtf_dl", Double, 2, TRUE, FALSE),    To("ceilf_dl", Double, 2, TRUE, FALSE),
   To("trncf_dl", Double, 2, TRUE, FALSE),   To("ceilf_dul", Double, 2, FALSE, FALSE),
   To("trncf_dul", Double, 2, FALSE, FALSE)}
(* What does not fit may be taken modulo 2^32 or 2^64 by the compiler's cast.*)
WrappingForms ==
  {To("cvtf_duw", Double, 1, FALSE, FALSE),  To("trncf_duw", Double, 1, FALSE, FALSE),
   To("cvtf_dul", Double, 2, FALSE, FALSE)}
ConvertForms == ReportingForms \cup WrappingForms

(* Doubles around every end of the types, and with fractions.                *)
Wholes == {15360, 15872, 16128, 17920, 19454, 19455, 19456, 19968, 20224, 23551, 23552, 23553, 24063,
           24064, 24065}
DoubleSamples == Doubles \cup UNION {{b, b + 32768} : b \in Wholes}

Convert(g) == 0 :> On3(g.op, 1, 2, 4)

WordToDouble == 0 :> On3("cvtf_wd", 0, 2, 3) @@ 4 :> On3("cvtf_dw", 0, 3, 1)
UwordToDouble == 0 :> On3("cvtf_uwd", 0, 2, 3) @@ 4 :> On3("cvtf_duw", 0, 3, 1)
LongToDouble == 0 :> On3("cvtf_ld", 0, 1, 3) @@ 4 :> On3("cvtf_dl", 0, 3, 5)
SingleToLongToSingle ==
  0 :> On3("trncf_sl", 0, 2, 3) @@ 4 :> On("mov_1", 4, 5) @@ 6 :> On("mov_1", 3, 6)
  @@ 8 :> On3("cvtf_ls", 0, 5, 4)

Converting ==
  {[Program(Convert(g), {2}, Words) EXCEPT
      !.inputs = IF g.from = Single THEN @ ELSE {At(2, b) : b \in DoubleSamples}] : g \in ConvertForms}
  \cup {Program(c, {2}, Words) : c \in {WordToDouble, UwordToDouble, SingleToLongToSingle}}
  \cup {Program(LongToDouble, {1, 2}, Edges \cup {3, 85, 254})}

(* Only where no step of the comparison leaves TLC's integers.               *)
IsWhole(f, b, n, floor) ==
  LET v    == Host!Value(f, b)
      a    == Abs(n)
      one  == 2 ^ (- v.e)
  IN /\ n # 0 => (n < 0) = v.neg
     /\ IF v.e >= 0 THEN v.e <= 13 /\ a = v.m * 2 ^ v.e
        ELSE IF v.e < -10 THEN a = IF floor /\ v.neg /\ v.m > 0 THEN 1 ELSE 0
        ELSE IF floor /\ v.neg THEN a <= v.m /\ (a - 1) * one < v.m /\ v.m <= a * one
        ELSE a <= v.m /\ a * one <= v.m /\ v.m < (a + 1) * one

(* Whether the type has room for a number.                                   *)
Fits(g, b) ==
  LET v     == Host!Value(g.from, b)
      whole == IF v.e >= 0 THEN v.m * 2 ^ v.e ELSE v.m \div 2 ^ Min({12, - v.e})
  IN /\ Host!Magnitude(g.from, b) < Host!InfBits(g.from)
     /\ v.e <= 13 /\ whole <= Greatest(g.words, g.signed)
     /\ ~ g.signed => ~ v.neg \/ v.m = 0

(* A conversion to an integer leaves the whole part of the number, or V in   *)
(* FPST: and V only for NaN, infinity and numbers the type has no room for   *)
(* (op_exec_fpu.c:1247-3375); but three wrap such a number without a word.   *)
(* A word, with sign or without, comes back from a double as it was, and a   *)
(* long unless it was inexact: but                                           *)
(* CVTF.LD extends its low word, so that the high word is lost when the low  *)
(* one has its highest bit (op_exec_fpu.c:2216-2251).  A single comes back   *)
(* from a long once its words are swapped.                                   *)
ConvertsOrReports ==
  /\ \A g \in ConvertForms : Ran(Convert(g)) =>
       LET b == IF g.from = Single THEN start.r[2] ELSE Found(start.r, 2)
           w == IF g.words = 1 THEN r[4] ELSE r[4] * Modulus + r[5]
           n == IF g.signed /\ w > Greatest(g.words, TRUE) THEN w - Modulus ^ g.words ELSE w
       IN IF Raised("V") THEN ~ Fits(g, b)
          ELSE \/ IsWhole(g.from, b, n, g.floor)
               \/ g \in WrappingForms /\ ~ Fits(g, b) /\ w = Host!Whole(g.from, b) % Modulus ^ g.words
  /\ Ran(WordToDouble) \/ Ran(UwordToDouble) => r[1] = start.r[2] /\ Selected.FPST.xp = {}
  /\ Ran(LongToDouble) =>
       \/ Raised("I")
       \/ r[6] = start.r[2] /\ r[5] = IF start.r[2] < SignBit THEN start.r[1] ELSE Modulus - 1
  /\ Ran(SingleToLongToSingle) =>
       \/ Selected.FPST.xp # {}
       \/ ~ Host!Fraction(Single, r[4]) /\ IsWhole(Single, start.r[2], Host!Whole(Single, r[4]), FALSE)

----------------------------------------------------------------------------
(* FPSR and what FPST, FPCC and FPCFG show of it.                            *)
ToBank(group, bank) == Ins("ldsr_bsel") @@ [group |-> group, bank |-> bank, reserved |-> FALSE]
Reserved            == Ins("ldsr_bsel") @@ [group |-> 32, bank |-> 0, reserved |-> TRUE]
Writes(reg, value)  == Ins("ldsr") @@ [reg |-> reg, value |-> value]

Cleared == [xc |-> {}, xp |-> {}, if |-> FALSE]
Blank   == FpuReset.regs[0].FPSR

MirrorSteps ==
  {Writes("FPST", Cleared), Writes("FPST", [xc |-> {"V"}, xp |-> {"V", "I"}, if |-> TRUE]),
   Writes("FPCC", [cc |-> {1}]), Writes("FPCFG", [rm |-> 1, xe |-> {"V"}]),
   ToBank(16, 1), ToBank(32, 0), On3("recipf_s", 0, 1, 3), With(On3("cmpf_s", 1, 2, 13), 2)}

Mirroring(i, j, k) == 0 :> ToBank(32, 0) @@ 4 :> i @@ 8 :> j @@ 12 :> k

ClearInFpsr == 0 :> ToBank(32, 0) @@ 4 :> On3("recipf_s", 0, 0, 3) @@ 8 :> Writes("FPSR", Blank)
               @@ 12 :> On3("mulf_s", 1, 2, 4)
FromReserved == 0 :> Reserved @@ 4 :> Writes("FPST", [Cleared EXCEPT !.xp = {"V"}])

MirrorPrograms ==
  {OnSingles(Mirroring(i, j, k), {0, 126}) : i, j, k \in MirrorSteps}
  \cup {OnSingles(ClearInFpsr, Singles), OnSingles(FromReserved, {0})}

(* FPSR is the whole of which FPST, FPCC and FPCFG show parts, in every      *)
(* bank, whatever is written to a part, raised or compared, and whatever     *)
(* bank is selected when (fpu_sync_sysreg, cpu_fpu_ops.h).  Not so after     *)
(* LDSR of FPSR itself: an exception cleared there is back with the next     *)
(* that is raised; nor after BSEL with a reserved bit.                       *)
FpuMirrorsAgree ==
  fpu.regs # FpuReset.regs =>
    IF code = ClearInFpsr
    THEN pc = 16 => Selected.FPSR.xp = IF Selected.FPST.xp = {"Z"} THEN Selected.FPSR.xc
                                       ELSE Selected.FPST.xp
    ELSE code = FromReserved \/ \A b \in Banks :
           LET regs == fpu.regs[b]
           IN /\ [xc |-> regs.FPSR.xc, xp |-> regs.FPSR.xp, if |-> regs.FPSR.if] = regs.FPST
              /\ regs.FPSR.cc = regs.FPCC.cc
              /\ [rm |-> regs.FPSR.rm, xe |-> regs.FPSR.xe] = regs.FPCFG

----------------------------------------------------------------------------
(* Laws of arithmetic.                                                       *)
SubtractTwoWays ==
  0 :> On3("subf_s", 1, 2, 3) @@ 4 :> On3("negf_s", 0, 1, 4) @@ 8 :> On3("addf_s", 4, 2, 4)
SubtractDoubles ==
  0 :> On3("subf_d", 1, 3, 5) @@ 4 :> On3("negf_d", 0, 1, 1) @@ 8 :> On3("addf_d", 1, 3, 3)
DivideTwoWays ==
  0 :> On3("divf_s", 1, 2, 3) @@ 4 :> On3("recipf_s", 0, 1, 4) @@ 8 :> On3("mulf_s", 4, 2, 4)
FuseTwoWays(fused, opposite) ==
  0 :> On("mov_1", 3, 4) @@ 2 :> On3(fused, 1, 2, 3) @@ 6 :> On3(opposite, 1, 2, 4)
AddAfterMultiply ==
  0 :> [On3("maddf_s", 1, 2, 3) EXCEPT !.reg4 = 4] @@ 4 :> On3("fmaf_s", 1, 2, 3)
Extremes == 0 :> On3("maxf_s", 1, 2, 3) @@ 4 :> On3("minf_s", 1, 2, 4)
SquareOfRoot == 0 :> On3("sqrtf_s", 0, 1, 3) @@ 4 :> On3("mulf_s", 3, 3, 4)
ThereAndBack == 0 :> On3("cvtf_sd", 0, 1, 3) @@ 4 :> On3("cvtf_ds", 0, 3, 2)

Powers == {52, 56, 60, 64, 68, 180, 188, 192}

Computing ==
  {OnSingles(SubtractTwoWays, Singles \cup {63, 66, 195}), OnSingles(Extremes, Singles),
   [OnSingles(DivideTwoWays, {}) EXCEPT
      !.inputs = {1 :> a @@ 2 :> b : a \in Powers, b \in Singles \cup {7, 98, 219}}],
   OnDoubles(SubtractDoubles, Doubles \cup {15361, 16001, 48650}),
   Program(SquareOfRoot, {1}, Words), Program(ThereAndBack, {1}, Words)}
  \cup {Program(c, {1, 2, 3}, {0, 1, 61, 66, 124, 126, 132, 191, 195}) :
          c \in {FuseTwoWays("fmaf_s", "fnmaf_s"), FuseTwoWays("fmsf_s", "fnmsf_s"), AddAfterMultiply}}

SameNumber(f, a, b) == IsNumber(f, a) \/ IsNumber(f, b) => a = b

(* SUBF adds what NEGF makes of its first operand.  DIVF by a power of two   *)
(* multiplies with its RECIPF.  FNMAF and FNMSF give the opposite of FMAF    *)
(* and FMSF, but where the result was flushed; MADDF what FMAF gives, or one *)
(* of them was inexact.  MAXF and MINF give both their operands back, in     *)
(* order.  A root that is not inexact squares to its operand, and a single   *)
(* comes back from a double.  A result is never subnormal, and a subnormal   *)
(* operand is as good as zero (op_exec_fpu.c).                               *)
FloatLaws ==
  /\ Ran(SubtractTwoWays) => SameNumber(Single, r[3], r[4]) /\ ~ IsSubnormal(Single, r[3])
  /\ Ran(SubtractDoubles) => SameNumber(Double, Found(r, 3), Found(r, 5))
  /\ Ran(DivideTwoWays) => SameNumber(Single, r[3], r[4])
  /\ \A fused \in {<<"fmaf_s", "fnmaf_s">>, <<"fmsf_s", "fnmsf_s">>} :
       Ran(FuseTwoWays(fused[1], fused[2])) =>
         \/ ~ IsNumber(Single, r[3]) /\ ~ IsNumber(Single, r[4])
         \/ r[4] = Host!Opposite(Single, r[3])
         \/ r[3] = 0 /\ r[4] = 0
  /\ Ran(AddAfterMultiply) /\ ~ IsSubnormal(Single, start.r[3]) /\ ~ Raised("I") =>
       SameNumber(Single, r[3], r[4])
  /\ Ran(Extremes) /\ {start.r[1], start.r[2]} \cap {126, 253} = {} =>
       LET rank(b) == CHOOSE k \in DOMAIN SinglesInOrder : b \in SinglesInOrder[k]
       IN /\ {rank(r[3]), rank(r[4])} = {rank(start.r[1]), rank(start.r[2])}
          /\ rank(r[4]) <= rank(r[3])
  /\ Ran(SquareOfRoot) =>
       Raised("I") \/ Raised("V") \/ SameNumber(Single, r[4] , Operand(Single, start.r[1])) \/ r[4] = 0
  /\ Ran(ThereAndBack) => SameNumber(Single, r[2], Operand(Single, start.r[1]))

----------------------------------------------------------------------------
(* Every instruction by itself; some with a pair of registers beyond the     *)
(* last, and some for which a second register is not looked for.             *)
FloatOperands == {{0, 60}, {66, 125}, {126, 188}}

FloatsAlone ==
  {Program(0 :> i, 1 .. 4, values) :
     values \in FloatOperands,
     i \in {On3(op, 1, 3, 5) : op \in FloatOps} \cup {On3(op, 1, 3, RegNum - 1) : op \in FloatOps}}

FloatPrograms == FloatsComparing \cup Converting \cup MirrorPrograms \cup Computing \cup FloatsAlone
=============================================================================
