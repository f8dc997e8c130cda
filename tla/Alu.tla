-------------------------------- MODULE Alu --------------------------------
(***************************************************************************)
(* The arithmetic of the integer instructions: words of a parametric size, *)
(* the flags op_exec_arithm.c derives from operands, and the conditions    *)
(* that read them.  A word is the number uint32 gives it; Signed is its    *)
(* sint32.  The sums of the code are 64 bits wide, and exact here.         *)
(***************************************************************************)
EXTENDS Integers

CONSTANT SignBit    (* 2^31: the weight of the sign of a word                 *)

ASSUME AluAssumption == SignBit \in Nat \ {0}

Modulus == 2 * SignBit
Words   == 0 .. Modulus - 1

Word(n)   == n % Modulus
Signed(w) == IF w < SignBit THEN w ELSE w - Modulus

(* n is not the value of a sint32.                                           *)
Overflows(n) == n > SignBit - 1 \/ n < - SignBit

----------------------------------------------------------------------------
(* The flags of PSW, and what an instruction makes of some of them.          *)
Flags == {"z", "s", "ov", "cy", "sat"}

Update(psw, changes) ==
  {f \in Flags : IF f \in DOMAIN changes THEN changes[f] ELSE f \in psw}

Zero(w)     == w = 0
Negative(w) == Signed(w) < 0

(* Were the carry that comes in forgotten:                                   *)
CarryOfTwo(a, b, c) == a + b > Modulus - 1

(* Carry out of a + b + c, and borrow: bit 32 of the 64 bits of a - b - c.   *)
Carry(a, b, c)  == a + b + c > Modulus - 1
Borrow(a, b, c) == (a - b - c) % (2 * Modulus) >= Modulus

SumFlags(a, b, c) ==
  [cy |-> Carry(a, b, c),
   ov |-> Overflows(Signed(a) + Signed(b) + c),
   z  |-> Zero(Word(a + b + c)),
   s  |-> Negative(Word(a + b + c))]

(* Was the subtrahend negated as a sint32:                                   *)
DifferenceFlagsNarrow(a, b, c) ==
  [cy |-> Borrow(a, b, c),
   ov |-> Overflows(Signed(a) + Signed(Word(-b)) - c),
   z  |-> Zero(Word(a - b - c)),
   s  |-> Negative(Word(a - b - c))]

DifferenceFlags(a, b, c) ==
  [cy |-> Borrow(a, b, c),
   ov |-> Overflows(Signed(a) - Signed(b) - c),
   z  |-> Zero(Word(a - b - c)),
   s  |-> Negative(Word(a - b - c))]

----------------------------------------------------------------------------
(* op_exec_cond: the conditions of Bcond, ADF, SBF and SASF.                 *)
Conditions(psw) ==
  LET z == "z" \in psw  s == "s" \in psw  ov == "ov" \in psw  cy == "cy" \in psw
  IN [V  |-> ov,           NV |-> ~ ov,
      L  |-> cy,           NL |-> ~ cy,
      E  |-> z,            NE |-> ~ z,
      NH |-> cy \/ z,      H  |-> ~ (cy \/ z),
      N  |-> s,            P  |-> ~ s,
      R  |-> TRUE,         SA |-> "sat" \in psw,
      LT |-> s # ov,       GE |-> s = ov,
      LE |-> s # ov \/ z,  GT |-> ~ (s # ov \/ z)]

ConditionNames ==
  {"V", "NV", "L", "NL", "E", "NE", "NH", "H", "N", "P", "R", "SA", "LT", "GE", "LE", "GT"}

(* setf_chk_cond: those of SETF and CMOV, which read SAT the other way.      *)
SetConditions(psw) == [Conditions(psw) EXCEPT !.SA = "sat" \notin psw]
=============================================================================
