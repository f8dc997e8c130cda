------------------------- MODULE InstructionsProofs -------------------------
(***************************************************************************)
(* The flags and conditions of words of every size, which instruction a    *)
(* step of Instructions executes, what no instruction changes, and that    *)
(* any program leaves every variable with its type.                        *)
(***************************************************************************)
EXTENDS MCInstructions, WellFoundedInduction, FiniteSetTheorems, TLAPS

----------------------------------------------------------------------------
(* The flags and conditions of Alu for words of every size.                  *)


(* A number within one turn of the words is brought back by one turn.        *)
LEMMA Turn ==
  ASSUME NEW n \in Int, NEW m \in Nat \ {0}
  PROVE  /\ n \in 0 .. m - 1 => n % m = n
         /\ n \in -m .. -1 => n % m = n + m
         /\ n \in m .. 2 * m - 1 => n % m = n - m
<1>1. n % m \in 0 .. m - 1
  BY SMT
<1>2. n = m * (n \div m) + (n % m)
  BY SMT
<1> DEFINE q == n \div m
<1>3. q \in Int
  BY SMT
<1>4. n \in 0 .. m - 1 => q = 0
  BY <1>1, <1>2, <1>3, SMT
<1>5. n \in -m .. -1 => q = -1
  BY <1>1, <1>2, <1>3, SMT
<1>6. n \in m .. 2 * m - 1 => q = 1
  BY <1>1, <1>2, <1>3, SMT
<1> QED
  BY <1>1, <1>2, <1>4, <1>5, <1>6, SMT

(* There are words, and they are integers.                                   *)
LEMMA Sizes == Modulus \in Nat \ {0} /\ Words \subseteq Int
BY AluAssumption, SMT DEF Modulus, Words

(* A number within one turn of the words is brought back by one.             *)
LEMMA TurnOfWord ==
  ASSUME NEW n \in Int
  PROVE  /\ n \in 0 .. Modulus - 1 => Word(n) = n
         /\ n \in - Modulus .. -1 => Word(n) = n + Modulus
         /\ n \in Modulus .. 2 * Modulus - 1 => Word(n) = n - Modulus
<1>1. Modulus \in Nat \ {0}
  BY Sizes
<1> QED
  BY <1>1, Turn DEF Word

(* The same of the 64 bits of a difference.                                  *)
LEMMA TurnOfTwo ==
  ASSUME NEW n \in - (2 * Modulus) .. 2 * Modulus - 1
  PROVE  n % (2 * Modulus) = IF n < 0 THEN n + 2 * Modulus ELSE n
<1> DEFINE m == 2 * Modulus
<1>1. m \in Nat \ {0} /\ n \in Int /\ n \in - m .. m - 1
  BY Sizes, SMT
<1> HIDE DEF m
<1>2. /\ n \in 0 .. m - 1 => n % m = n
      /\ n \in - m .. -1 => n % m = n + m
  BY <1>1, Turn
<1>3. n % m = IF n < 0 THEN n + m ELSE n
  BY <1>1, <1>2, SMT
<1> QED
  BY <1>3 DEF m

----------------------------------------------------------------------------
(* The word of a difference with borrow is the difference, brought back by   *)
(* one turn exactly when the borrow goes out; and the sign of the word tells *)
(* that of the exact difference unless OV says that it does not fit          *)
(* (op_chk_and_set_borrow3, op_chk_and_set_overflow3).                       *)
THEOREM DifferenceIsExact ==
  ASSUME NEW a \in Words, NEW b \in Words, NEW c \in {0, 1}
  PROVE  /\ Borrow(a, b, c) <=> a < b + c
         /\ Word(a - b - c) = IF a < b + c THEN a - b - c + Modulus ELSE a - b - c
         /\ (Negative(Word(a - b - c)) # Overflows(Signed(a) - Signed(b) - c))
              <=> Signed(a) - Signed(b) - c < 0
<1> DEFINE n == a - b - c
<1>1. /\ a \in 0 .. Modulus - 1 /\ b \in 0 .. Modulus - 1
      /\ Modulus \in Nat \ {0} /\ 2 * Modulus \in Nat \ {0}
      /\ n \in Int
  BY Sizes, SMT DEF Words
<1>2. n \in - Modulus .. Modulus - 1
  BY <1>1, SMT
<1>3. Word(n) = IF n < 0 THEN n + Modulus ELSE n
  <2> HIDE DEF n
  <2> QED
    BY <1>1, <1>2, TurnOfWord, SMT
<1>4. n % (2 * Modulus) = IF n < 0 THEN n + 2 * Modulus ELSE n
  <2> HIDE DEF n
  <2>1. n \in - (2 * Modulus) .. 2 * Modulus - 1
    BY <1>1, <1>2, SMT
  <2> QED
    BY <2>1, TurnOfTwo
<1>5. Borrow(a, b, c) <=> n < 0
  BY <1>1, <1>2, <1>4, SMT DEF Borrow
<1>6. n < 0 <=> a < b + c
  BY <1>1, SMT
<1>7. (Negative(Word(n)) # Overflows(Signed(a) - Signed(b) - c))
        <=> Signed(a) - Signed(b) - c < 0
  <2> HIDE DEF n
  <2>1. n = a - b - c
    BY DEF n
  <2> QED
    BY AluAssumption, <1>1, <1>2, <1>3, <2>1, SMT DEF Negative, Signed, Overflows, Modulus
<1> QED
  BY <1>3, <1>5, <1>6, <1>7

(* The same of sums with carry (op_chk_and_set_carry3).                      *)
THEOREM SumIsExact ==
  ASSUME NEW a \in Words, NEW b \in Words, NEW c \in {0, 1}
  PROVE  /\ Word(a + b + c) = IF Carry(a, b, c) THEN a + b + c - Modulus ELSE a + b + c
         /\ (Negative(Word(a + b + c)) # Overflows(Signed(a) + Signed(b) + c))
              <=> Signed(a) + Signed(b) + c < 0
<1> DEFINE n == a + b + c
<1>1. /\ a \in 0 .. Modulus - 1 /\ b \in 0 .. Modulus - 1
      /\ Modulus \in Nat \ {0}
      /\ n \in Int
  BY Sizes, SMT DEF Words
<1>2. n \in 0 .. 2 * Modulus - 1
  BY <1>1, SMT
<1>3. Word(n) = IF n > Modulus - 1 THEN n - Modulus ELSE n
  <2> HIDE DEF n
  <2> QED
    BY <1>1, <1>2, TurnOfWord, SMT
<1>4. (Negative(Word(n)) # Overflows(Signed(a) + Signed(b) + c))
        <=> Signed(a) + Signed(b) + c < 0
  <2> HIDE DEF n
  <2>1. n = a + b + c
    BY DEF n
  <2> QED
    BY AluAssumption, <1>1, <1>2, <1>3, <2>1, SMT DEF Negative, Signed, Overflows, Modulus
<1>5. Word(a + b + c) = IF Carry(a, b, c) THEN a + b + c - Modulus ELSE a + b + c
  BY <1>1, <1>3, SMT DEF Carry
<1> QED
  BY <1>4, <1>5

----------------------------------------------------------------------------
(* SUB of the low words and SBF with condition L of the high ones subtract   *)
(* numbers of two words, and the borrow that goes out is that of the whole   *)
(* (op_exec_sub, op_exec_sbf_11).                                            *)
THEOREM TwoWordsSubtract ==
  ASSUME NEW a1 \in Words, NEW a2 \in Words, NEW b1 \in Words, NEW b2 \in Words,
         NEW c, c = IF Borrow(a1, b1, 0) THEN 1 ELSE 0
  PROVE  LET low  == Word(a1 - b1 - 0)
             high == Word(a2 - b2 - c)
             d    == (a2 * Modulus + a1) - (b2 * Modulus + b1)
         IN /\ Borrow(a2, b2, c) <=> d < 0
            /\ high * Modulus + low = IF d < 0 THEN d + Modulus * Modulus ELSE d
<1> DEFINE x == a1 - b1
           y == a2 - b2
           m == Modulus
           low  == Word(a1 - b1 - 0)
           high == Word(a2 - b2 - c)
           d    == (a2 * m + a1) - (b2 * m + b1)
           out  == IF y - c < 0 THEN 1 ELSE 0
<1>1. /\ a1 \in 0 .. m - 1 /\ b1 \in 0 .. m - 1
      /\ a2 \in 0 .. m - 1 /\ b2 \in 0 .. m - 1
      /\ m \in Nat \ {0}
  BY Sizes, SMT DEF Words
<1>2. c \in {0, 1} /\ c = IF x < 0 THEN 1 ELSE 0
  <2>1. Borrow(a1, b1, 0) <=> a1 < b1 + 0
    BY DifferenceIsExact
  <2>2. a1 < b1 + 0 <=> x < 0
    BY <1>1, SMT
  <2> QED
    BY <2>1, <2>2
<1>3. low = x + c * m
  <2>1. low = IF a1 < b1 + 0 THEN a1 - b1 - 0 + m ELSE a1 - b1 - 0
    BY DifferenceIsExact
  <2> QED
    BY <1>1, <1>2, <2>1, SMT
<1>4. /\ Borrow(a2, b2, c) <=> y - c < 0
      /\ high = y - c + out * m
  <2>1. /\ Borrow(a2, b2, c) <=> a2 < b2 + c
        /\ high = IF a2 < b2 + c THEN a2 - b2 - c + m ELSE a2 - b2 - c
    BY <1>2, DifferenceIsExact
  <2>2. a2 < b2 + c <=> y - c < 0
    BY <1>1, <1>2, SMT
  <2> QED
    BY <1>1, <1>2, <2>1, <2>2, SMT
<1>5. d = y * m + x
  BY <1>1, SMT
<1>6. x \in Int /\ y \in Int /\ - m < x /\ x < m
  BY <1>1, SMT
<1> HIDE DEF x, y, m, low, high, d
<1>7. d < 0 <=> y - c < 0
  <2>1. y <= -1 => y * m <= - m
    BY <1>1, <1>6, SMT
  <2>2. y >= 1 => y * m >= m
    BY <1>1, <1>6, SMT
  <2>3. y = 0 => y * m = 0
    BY <1>1, SMT
  <2>4. y * m \in Int
    BY <1>1, <1>6, SMT
  <2> QED
    BY <1>1, <1>2, <1>5, <1>6, <2>1, <2>2, <2>3, <2>4, SMT
<1>8. high * m + low = d + out * (m * m)
  <2>1. out \in Int
    BY SMT
  <2> QED
    BY <1>1, <1>2, <1>3, <1>4, <1>5, <1>6, <2>1, SMT
<1>9. high * m + low = IF d < 0 THEN d + m * m ELSE d
  BY <1>1, <1>5, <1>6, <1>7, <1>8, SMT
<1> QED
  BY <1>4, <1>7, <1>9 DEF m, d, low, high


----------------------------------------------------------------------------
(* After CMP (or SUB) every condition of Bcond, SETF and CMOV means what its *)
(* name says of the two words, unsigned (L, NL, NH, H), signed (LT, GE, LE,  *)
(* GT) or either (E, NE), whatever the flags were before.                    *)
THEOREM ConditionsCompare ==
  ASSUME NEW a \in Words, NEW b \in Words, NEW old \in SUBSET Flags
  PROVE  LET holds == Conditions(Update(old, DifferenceFlags(a, b, 0)))
         IN /\ holds.L <=> a < b
            /\ holds.NL <=> a >= b
            /\ holds.NH <=> a <= b
            /\ holds.H <=> a > b
            /\ holds.E <=> a = b
            /\ holds.NE <=> a # b
            /\ holds.LT <=> Signed(a) < Signed(b)
            /\ holds.GE <=> Signed(a) >= Signed(b)
            /\ holds.LE <=> Signed(a) <= Signed(b)
            /\ holds.GT <=> Signed(a) > Signed(b)
<1> DEFINE after == Update(old, DifferenceFlags(a, b, 0))
           n     == a - b - 0
<1>1. /\ "cy" \in after <=> Borrow(a, b, 0)
      /\ "ov" \in after <=> Overflows(Signed(a) - Signed(b) - 0)
      /\ "z" \in after <=> Zero(Word(n))
      /\ "s" \in after <=> Negative(Word(n))
  BY Zenon DEF Update, DifferenceFlags, Flags
<1>2. /\ a \in 0 .. Modulus - 1 /\ b \in 0 .. Modulus - 1
      /\ Modulus \in Nat \ {0}
  BY Sizes, SMT DEF Words
<1>3. Signed(a) \in Int /\ Signed(b) \in Int /\ (Signed(a) = Signed(b) <=> a = b)
  BY AluAssumption, <1>2, SMT DEF Signed, Modulus
<1>4. "cy" \in after <=> a < b
  BY <1>1, <1>2, DifferenceIsExact, SMT
<1>5. "z" \in after <=> a = b
  BY <1>1, <1>2, DifferenceIsExact, SMT DEF Zero
<1>6. (("s" \in after) # ("ov" \in after)) <=> Signed(a) < Signed(b)
  <2>1. (Negative(Word(n)) # Overflows(Signed(a) - Signed(b) - 0))
          <=> Signed(a) - Signed(b) - 0 < 0
    BY DifferenceIsExact
  <2>2. Signed(a) - Signed(b) - 0 < 0 <=> Signed(a) < Signed(b)
    BY <1>3, SMT
  <2> QED
    BY <1>1, <2>1, <2>2, SMT DEF Negative, Overflows
<1> HIDE DEF after
<1> DEFINE holds == Conditions(after)
<1>7. /\ holds.L <=> a < b
      /\ holds.NL <=> ~ (a < b)
      /\ holds.NH <=> a < b \/ a = b
      /\ holds.H <=> ~ (a < b \/ a = b)
      /\ holds.E <=> a = b
      /\ holds.NE <=> ~ (a = b)
      /\ holds.LT <=> Signed(a) < Signed(b)
      /\ holds.GE <=> ~ (Signed(a) < Signed(b))
      /\ holds.LE <=> Signed(a) < Signed(b) \/ a = b
      /\ holds.GT <=> ~ (Signed(a) < Signed(b) \/ a = b)
  BY <1>4, <1>5, <1>6, Zenon DEF Conditions
<1> HIDE DEF holds
<1>8. /\ ~ (a < b) <=> a >= b
      /\ a < b \/ a = b <=> a <= b
      /\ ~ (Signed(a) < Signed(b)) <=> Signed(a) >= Signed(b)
      /\ Signed(a) < Signed(b) \/ a = b <=> Signed(a) <= Signed(b)
  BY <1>2, <1>3, SMT
<1>9. /\ ~ (a <= b) <=> a > b
      /\ ~ (Signed(a) <= Signed(b)) <=> Signed(a) > Signed(b)
  BY <1>2, <1>3, SMT
<1> QED
  BY <1>7, <1>8, <1>9 DEF holds, after


----------------------------------------------------------------------------
(* Which instruction a step executes.                                        *)

(* Loads, stores, bit operations and special instructions are none of the    *)
(* integer instructions.                                                     *)
LoadOps == {"sldb", "sldbu", "sldh", "sldhu", "sldw", "ldb", "ldbu", "ldh", "ldhu", "ldw",
            "ld_b_14", "ld_bu_14", "ld_h_14", "ld_hu_14", "ld_w_14"}
StoreOps == {"sstb", "ssth", "sstw", "stb", "sth", "stw", "st_b_14", "st_h_14", "st_w_14"}
SpecialOps == {"prepare", "prepare_sp", "prepare_h", "prepare_hi", "prepare_w", "dispose",
               "caxi", "switch", "ldsr_bsel", "ldsr"}

(* A load executes one of the loads.                                         *)
LEMMA LoadsExecute == Loads => ins.op \in LoadOps
BY SMT DEF Loads, LoadOps, Executes, Sldb, Sldbu, Sldh, Sldhu, Sldw, Ldb, Ldbu, Ldh, Ldhu, Ldw,
   Ldb_14, Ldbu_14, Ldh_14, Ldhu_14, Ldw_14

(* A store executes one of the stores.                                       *)
LEMMA StoresExecute == Stores => ins.op \in StoreOps
BY SMT DEF Stores, StoreOps, Executes, Sstb, Ssth, Sstw, Stb, Sth, Stw, Stb_14, Sth_14, Stw_14

(* A bit operation executes one of format 8 or 9.                            *)
LEMMA MemoryBitsExecute == MemoryBits => ins.op \in BitOps8 \cup BitOps9
BY SMT DEF MemoryBits, BitOps8, BitOps9, Executes, Tst1_8, Set1_8, Clr1_8, Not1_8, Tst1_9, Set1_9, Clr1_9, Not1_9

(* A special instruction executes one of its group.                          *)
LEMMA SpecialExecutes == Special => ins.op \in SpecialOps
BY SMT DEF Special, SpecialOps, Executes, Prepare4, PrepareSp, PrepareH, PrepareHi, PrepareW, Prepare,
   Dispose, Caxi, Switch, Bsel, Ldsr

(* The integer instructions, group by group.                                 *)
ArithmeticOps ==
  {"add_1", "add_2", "addi", "adf", "sub", "subr", "cmp_1", "cmp_2", "sbf",
   "mov_1", "mov_2", "mov_6", "movea", "movhi", "setf", "sasf", "cmov_11", "cmov_12",
   "mulh_1", "mulh_2", "mulhi", "mul", "mulu", "mul_12", "mulu_12", "mac", "macu"}
DivisionOps   == {"divh_1", "divh_11", "div", "divq", "divhu", "divu", "divqu"}
SaturationOps == {"satadd_1", "satadd_2", "satadd_11", "satsub_1", "satsub_11", "satsubr_1", "satsubi"}
LogicOps      == {"or", "and", "xor", "not", "tst", "andi", "xori", "ori", "zxb", "zxh", "sxb", "sxh"}
ShiftOps      == {"shl_2", "shr_2", "sar_2", "shl_9", "shr_9", "sar_9", "shl_11", "shr_11", "sar_11"}
SwapSearchOps == {"hsh", "hsw", "bsh", "bsw", "sch0l", "sch1l", "sch0r", "sch1r"}
BranchOps     == {"bcond", "jmp_1", "jmp_6", "jr_6", "jr_5", "jarl_6"}

(* An arithmetic step executes an arithmetic instruction.                    *)
LEMMA ArithmeticExecutes == Arithmetic => ins.op \in ArithmeticOps
BY SMT DEF Arithmetic, ArithmeticOps, Executes, Add_1, Add_2, Addi, Adf, Sub, Subr, Cmp_1, Cmp_2, Sbf,
   Mov_1, Mov_2, Mov_6, Movea, Movhi, Setf, Sasf, Cmov_11, Cmov_12,
   Mulh_1, Mulh_2, Mulhi, Mul, Mulu, Mul_12, Mulu_12, Mac, Macu, OddPair

(* A dividing step executes a division.                                      *)
LEMMA DivisionExecutes == Division => ins.op \in DivisionOps
BY Zenon DEF Division, DivisionOps, Executes, Divh_1, Divh_11, Div, Divhu, Divu

(* A saturating step executes a saturating instruction.                      *)
LEMMA SaturationExecutes == Saturation => ins.op \in SaturationOps
BY SMT DEF Saturation, SaturationOps, Executes, Satadd_1, Satadd_2, Satadd_11, Satsub_1, Satsub_11,
   Satsubr_1, Satsubi

(* A logical step executes a logical instruction.                            *)
LEMMA LogicExecutes == Logic => ins.op \in LogicOps
BY SMT DEF Logic, LogicOps, Executes, Or_1, And_1, Xor_1, Not_1, Tst, Andi, Xori, Ori, Zxb, Zxh, Sxb, Sxh

(* A shifting step executes a shift.                                         *)
LEMMA ShiftsExecute == Shifts => ins.op \in ShiftOps
BY SMT DEF Shifts, ShiftOps, Executes, Shl_2, Shr_2, Sar_2, Shl_9, Shr_9, Sar_9, Shl_11, Shr_11, Sar_11

(* A step that swaps or searches executes a swap or a search.                *)
LEMMA SwapsExecute == SwapsAndSearches => ins.op \in SwapSearchOps
BY Zenon DEF SwapsAndSearches, SwapSearchOps, Executes, Hsh, Hsw, Bsh, Bsw, Sch0l, Sch1l, Sch0r, Sch1r

(* A branching step executes a branch.                                       *)
LEMMA BranchesExecute == Branches => ins.op \in BranchOps
BY SMT DEF Branches, BranchOps, Executes, Bcond, Jmp_1, Jmp_6, Jr_6, Jr_5, Jarl_6

(* A step that executes an instruction of a group is one of that group.      *)
LEMMA GroupOfStep ==
  ASSUME Next, running, pc \in DOMAIN code
  PROVE  /\ ins.op \in ArithmeticOps => Arithmetic
         /\ ins.op \in DivisionOps => Division
         /\ ins.op \in SaturationOps => Saturation
         /\ ins.op \in ShiftOps => Shifts
         /\ ins.op \in SwapSearchOps => SwapsAndSearches
         /\ ins.op \in BranchOps => Branches
         /\ ins.op \in LoadOps => Loads
         /\ ins.op \in StoreOps => Stores
         /\ ins.op \in BitOps8 \cup BitOps9 => MemoryBits
         /\ ins.op \in SpecialOps => Special
<1>1. \/ Arithmetic \/ Division \/ Saturation \/ Logic \/ Shifts \/ SwapsAndSearches \/ Branches
      \/ Loads \/ Stores \/ MemoryBits \/ Special
      \/ ins.op \in WithoutHandler \cup {"undecoded"}
      \/ ins.op \in FloatOps
  BY Zenon DEF Next, WithoutFloats, NotExecuted, Floats, Finished, Halted
<1> DEFINE op == ins.op
<1>2. /\ Arithmetic => op \in ArithmeticOps
      /\ Division => op \in DivisionOps
      /\ Saturation => op \in SaturationOps
      /\ Logic => op \in LogicOps
      /\ Shifts => op \in ShiftOps
      /\ SwapsAndSearches => op \in SwapSearchOps
      /\ Branches => op \in BranchOps
      /\ Loads => op \in LoadOps
      /\ Stores => op \in StoreOps
      /\ MemoryBits => op \in BitOps8 \cup BitOps9
      /\ Special => op \in SpecialOps
  BY ArithmeticExecutes, DivisionExecutes, SaturationExecutes, LogicExecutes, ShiftsExecute, SwapsExecute,
     BranchesExecute, LoadsExecute, StoresExecute, MemoryBitsExecute, SpecialExecutes, Zenon
<1> DEFINE Others == LogicOps \cup LoadOps \cup StoreOps \cup BitOps8 \cup BitOps9 \cup SpecialOps
                      \cup WithoutHandler \cup {"undecoded"} \cup FloatOps
<1> HIDE DEF op
<1>3. op \in ArithmeticOps => op \notin DivisionOps \cup SaturationOps \cup ShiftOps \cup SwapSearchOps \cup BranchOps \cup Others
  BY SMT DEF ArithmeticOps, DivisionOps, SaturationOps, ShiftOps, SwapSearchOps, BranchOps, LogicOps,
     LoadOps, StoreOps, BitOps8, BitOps9, SpecialOps, WithoutHandler, FloatOps, Unsupported
<1>4. op \in DivisionOps => op \notin ArithmeticOps \cup SaturationOps \cup ShiftOps \cup SwapSearchOps \cup BranchOps \cup Others
  BY SMT DEF ArithmeticOps, DivisionOps, SaturationOps, ShiftOps, SwapSearchOps, BranchOps, LogicOps,
     LoadOps, StoreOps, BitOps8, BitOps9, SpecialOps, WithoutHandler, FloatOps, Unsupported
<1>5. op \in SaturationOps => op \notin ArithmeticOps \cup DivisionOps \cup ShiftOps \cup SwapSearchOps \cup BranchOps \cup Others
  BY SMT DEF ArithmeticOps, DivisionOps, SaturationOps, ShiftOps, SwapSearchOps, BranchOps, LogicOps,
     LoadOps, StoreOps, BitOps8, BitOps9, SpecialOps, WithoutHandler, FloatOps, Unsupported
<1>6. op \in ShiftOps => op \notin ArithmeticOps \cup DivisionOps \cup SaturationOps \cup SwapSearchOps \cup BranchOps \cup Others
  BY SMT DEF ArithmeticOps, DivisionOps, SaturationOps, ShiftOps, SwapSearchOps, BranchOps, LogicOps,
     LoadOps, StoreOps, BitOps8, BitOps9, SpecialOps, WithoutHandler, FloatOps, Unsupported
<1>7. op \in SwapSearchOps => op \notin ArithmeticOps \cup DivisionOps \cup SaturationOps \cup ShiftOps \cup BranchOps \cup Others
  BY SMT DEF ArithmeticOps, DivisionOps, SaturationOps, ShiftOps, SwapSearchOps, BranchOps, LogicOps,
     LoadOps, StoreOps, BitOps8, BitOps9, SpecialOps, WithoutHandler, FloatOps, Unsupported
<1>8. op \in BranchOps => op \notin ArithmeticOps \cup DivisionOps \cup SaturationOps \cup ShiftOps \cup SwapSearchOps \cup Others
  BY SMT DEF ArithmeticOps, DivisionOps, SaturationOps, ShiftOps, SwapSearchOps, BranchOps, LogicOps,
     LoadOps, StoreOps, BitOps8, BitOps9, SpecialOps, WithoutHandler, FloatOps, Unsupported
<1> HIDE DEF Others
<1>9. op \in LogicOps \cup LoadOps \cup StoreOps \cup BitOps8 \cup BitOps9 \cup SpecialOps
             \cup WithoutHandler \cup {"undecoded"} \cup FloatOps => op \in Others
  BY DEF Others
<1>10. op = ins.op
  BY DEF op
<1> DEFINE Rest == LogicOps \cup WithoutHandler \cup {"undecoded"} \cup FloatOps
<1>11. op \in LoadOps => op \notin Rest \cup StoreOps \cup BitOps8 \cup BitOps9 \cup SpecialOps
  BY SMT DEF LogicOps, LoadOps, StoreOps, BitOps8, BitOps9, SpecialOps, WithoutHandler, FloatOps, Unsupported
<1>12. op \in StoreOps => op \notin Rest \cup LoadOps \cup BitOps8 \cup BitOps9 \cup SpecialOps
  BY SMT DEF LogicOps, LoadOps, StoreOps, BitOps8, BitOps9, SpecialOps, WithoutHandler, FloatOps, Unsupported
<1>13. op \in BitOps8 \cup BitOps9 => op \notin Rest \cup LoadOps \cup StoreOps \cup SpecialOps
  BY SMT DEF LogicOps, LoadOps, StoreOps, BitOps8, BitOps9, SpecialOps, WithoutHandler, FloatOps, Unsupported
<1>14. op \in SpecialOps => op \notin Rest \cup LoadOps \cup StoreOps \cup BitOps8 \cup BitOps9
  BY SMT DEF LogicOps, LoadOps, StoreOps, BitOps8, BitOps9, SpecialOps, WithoutHandler, FloatOps, Unsupported
<1>15. op \in LogicOps \cup WithoutHandler \cup {"undecoded"} \cup FloatOps => op \in Rest
  OBVIOUS
<1> HIDE DEF Rest
<1>16. /\ ins.op \in ArithmeticOps => Arithmetic
       /\ ins.op \in DivisionOps => Division
       /\ ins.op \in SaturationOps => Saturation
       /\ ins.op \in ShiftOps => Shifts
       /\ ins.op \in SwapSearchOps => SwapsAndSearches
       /\ ins.op \in BranchOps => Branches
  BY <1>1, <1>2, <1>3, <1>4, <1>5, <1>6, <1>7, <1>8, <1>9, <1>10
<1>17. /\ ins.op \in LoadOps => Loads
       /\ ins.op \in StoreOps => Stores
       /\ ins.op \in BitOps8 \cup BitOps9 => MemoryBits
       /\ ins.op \in SpecialOps => Special
  BY <1>1, <1>2, <1>3, <1>4, <1>5, <1>6, <1>7, <1>8, <1>9, <1>10, <1>11, <1>12, <1>13, <1>14, <1>15
<1> QED
  BY <1>16, <1>17

(* A step of an arithmetic instruction is the action of its name.            *)
LEMMA ArithmeticByName ==
  ASSUME Arithmetic
  PROVE  /\ ins.op = "add_1" => Add_1
         /\ ins.op = "add_2" => Add_2
         /\ ins.op = "adf" => Adf
         /\ ins.op = "sub" => Sub
         /\ ins.op = "cmp_1" => Cmp_1
         /\ ins.op = "sbf" => Sbf
         /\ ins.op = "mov_2" => Mov_2
         /\ ins.op = "setf" => Setf
         /\ ins.op = "sasf" => Sasf
         /\ ins.op = "cmov_11" => Cmov_11
         /\ ins.op = "macu" => Macu \/ OddPair
<1>1. /\ Add_1 => ins.op = "add_1"
      /\ Add_2 => ins.op = "add_2"
      /\ Addi => ins.op = "addi"
      /\ Adf => ins.op = "adf"
      /\ Sub => ins.op = "sub"
      /\ Subr => ins.op = "subr"
      /\ Cmp_1 => ins.op = "cmp_1"
      /\ Cmp_2 => ins.op = "cmp_2"
      /\ Sbf => ins.op = "sbf"
      /\ Mov_1 => ins.op = "mov_1"
      /\ Mov_2 => ins.op = "mov_2"
      /\ Mov_6 => ins.op = "mov_6"
      /\ Movea => ins.op = "movea"
      /\ Movhi => ins.op = "movhi"
      /\ Setf => ins.op = "setf"
      /\ Sasf => ins.op = "sasf"
      /\ Cmov_11 => ins.op = "cmov_11"
      /\ Cmov_12 => ins.op = "cmov_12"
      /\ Mulh_1 => ins.op = "mulh_1"
      /\ Mulh_2 => ins.op = "mulh_2"
      /\ Mulhi => ins.op = "mulhi"
      /\ Mul => ins.op = "mul"
      /\ Mulu => ins.op = "mulu"
      /\ Mul_12 => ins.op = "mul_12"
      /\ Mulu_12 => ins.op = "mulu_12"
      /\ Mac => ins.op = "mac"
      /\ Macu => ins.op = "macu"
      /\ OddPair => ins.op \in {"mac", "macu"}
  BY Zenon DEF Executes, Add_1, Add_2, Addi, Adf, Sub, Subr, Cmp_1, Cmp_2, Sbf,
     Mov_1, Mov_2, Mov_6, Movea, Movhi, Setf, Sasf, Cmov_11, Cmov_12,
     Mulh_1, Mulh_2, Mulhi, Mul, Mulu, Mul_12, Mulu_12, Mac, Macu, OddPair
<1> QED
  BY <1>1, Zenon DEF Arithmetic

(* The same of saturation.                                                   *)
LEMMA SaturationByName ==
  ASSUME Saturation
  PROVE  /\ ins.op = "satadd_1" => Satadd_1
         /\ ins.op = "satsub_1" => Satsub_1
         /\ ins.op = "satsubr_1" => Satsubr_1
         /\ ins.op = "satsubi" => Satsubi
<1>1. /\ Satadd_1 => ins.op = "satadd_1"
      /\ Satadd_2 => ins.op = "satadd_2"
      /\ Satadd_11 => ins.op = "satadd_11"
      /\ Satsub_1 => ins.op = "satsub_1"
      /\ Satsub_11 => ins.op = "satsub_11"
      /\ Satsubr_1 => ins.op = "satsubr_1"
      /\ Satsubi => ins.op = "satsubi"
  BY Zenon DEF Executes, Satadd_1, Satadd_2, Satadd_11, Satsub_1, Satsub_11, Satsubr_1, Satsubi
<1> QED
  BY <1>1, Zenon DEF Saturation

(* The same of shifts.                                                       *)
LEMMA ShiftByName ==
  ASSUME Shifts
  PROVE  /\ ins.op = "shl_2" => Shl_2
         /\ ins.op = "shr_2" => Shr_2
         /\ ins.op = "sar_2" => Sar_2
         /\ ins.op = "shl_9" => Shl_9
<1>1. /\ Shl_2 => ins.op = "shl_2"
      /\ Shr_2 => ins.op = "shr_2"
      /\ Sar_2 => ins.op = "sar_2"
      /\ Shl_9 => ins.op = "shl_9"
      /\ Shr_9 => ins.op = "shr_9"
      /\ Sar_9 => ins.op = "sar_9"
      /\ Shl_11 => ins.op = "shl_11"
      /\ Shr_11 => ins.op = "shr_11"
      /\ Sar_11 => ins.op = "sar_11"
  BY Zenon DEF Executes, Shl_2, Shr_2, Sar_2, Shl_9, Shr_9, Sar_9, Shl_11, Shr_11, Sar_11
<1> QED
  BY <1>1, Zenon DEF Shifts

(* A step of a division divides as its name says.                            *)
LEMMA DivisionByName ==
  ASSUME Division
  PROVE  /\ ins.op = "divh_1" => Divh_1
         /\ ins.op = "divh_11" => Divh_11
         /\ ins.op \in {"div", "divq"} => Div
         /\ ins.op = "divhu" => Divhu
         /\ ins.op \in {"divu", "divqu"} => Divu
<1>1. /\ Divh_1 => ins.op = "divh_1"
      /\ Divh_11 => ins.op = "divh_11"
      /\ Div => ins.op \in {"div", "divq"}
      /\ Divhu => ins.op = "divhu"
      /\ Divu => ins.op \in {"divu", "divqu"}
  BY Zenon DEF Executes, Divh_1, Divh_11, Div, Divhu, Divu
<1> QED
  BY <1>1, Zenon DEF Division

(* A step of a load is the action of its name.                               *)
LEMMA LoadByName ==
  ASSUME Loads
  PROVE  /\ ins.op = "sldb" => Sldb
         /\ ins.op = "sldbu" => Sldbu
         /\ ins.op = "sldh" => Sldh
         /\ ins.op = "sldhu" => Sldhu
         /\ ins.op = "sldw" => Sldw
         /\ ins.op = "ldb" => Ldb
         /\ ins.op = "ldbu" => Ldbu
         /\ ins.op = "ldh" => Ldh
         /\ ins.op = "ldhu" => Ldhu
         /\ ins.op = "ldw" => Ldw
         /\ ins.op = "ld_b_14" => Ldb_14
         /\ ins.op = "ld_bu_14" => Ldbu_14
         /\ ins.op = "ld_h_14" => Ldh_14
         /\ ins.op = "ld_hu_14" => Ldhu_14
         /\ ins.op = "ld_w_14" => Ldw_14
<1>1. /\ Sldb => ins.op = "sldb"
      /\ Sldbu => ins.op = "sldbu"
      /\ Sldh => ins.op = "sldh"
      /\ Sldhu => ins.op = "sldhu"
      /\ Sldw => ins.op = "sldw"
      /\ Ldb => ins.op = "ldb"
      /\ Ldbu => ins.op = "ldbu"
      /\ Ldh => ins.op = "ldh"
      /\ Ldhu => ins.op = "ldhu"
      /\ Ldw => ins.op = "ldw"
      /\ Ldb_14 => ins.op = "ld_b_14"
      /\ Ldbu_14 => ins.op = "ld_bu_14"
      /\ Ldh_14 => ins.op = "ld_h_14"
      /\ Ldhu_14 => ins.op = "ld_hu_14"
      /\ Ldw_14 => ins.op = "ld_w_14"
  BY Zenon DEF Executes, Sldb, Sldbu, Sldh, Sldhu, Sldw, Ldb, Ldbu, Ldh, Ldhu, Ldw,
     Ldb_14, Ldbu_14, Ldh_14, Ldhu_14, Ldw_14
<1> QED
  BY <1>1, Zenon DEF Loads

(* A step of a store is the action of its name.                              *)
LEMMA StoreByName ==
  ASSUME Stores
  PROVE  /\ ins.op = "sstb" => Sstb
         /\ ins.op = "ssth" => Ssth
         /\ ins.op = "sstw" => Sstw
         /\ ins.op = "stb" => Stb
         /\ ins.op = "sth" => Sth
         /\ ins.op = "stw" => Stw
         /\ ins.op = "st_b_14" => Stb_14
         /\ ins.op = "st_h_14" => Sth_14
         /\ ins.op = "st_w_14" => Stw_14
<1>1. /\ Sstb => ins.op = "sstb"
      /\ Ssth => ins.op = "ssth"
      /\ Sstw => ins.op = "sstw"
      /\ Stb => ins.op = "stb"
      /\ Sth => ins.op = "sth"
      /\ Stw => ins.op = "stw"
      /\ Stb_14 => ins.op = "st_b_14"
      /\ Sth_14 => ins.op = "st_h_14"
      /\ Stw_14 => ins.op = "st_w_14"
  BY Zenon DEF Executes, Sstb, Ssth, Sstw, Stb, Sth, Stw, Stb_14, Sth_14, Stw_14
<1> QED
  BY <1>1, Zenon DEF Stores

(* A step of a bit operation is the action of its name.                      *)
LEMMA BitByName ==
  ASSUME MemoryBits
  PROVE  /\ ins.op = "tst1_8" => Tst1_8
         /\ ins.op = "set1_8" => Set1_8
         /\ ins.op = "clr1_8" => Clr1_8
         /\ ins.op = "not1_8" => Not1_8
         /\ ins.op = "tst1_9" => Tst1_9
         /\ ins.op = "set1_9" => Set1_9
         /\ ins.op = "clr1_9" => Clr1_9
         /\ ins.op = "not1_9" => Not1_9
<1>1. /\ Tst1_8 => ins.op = "tst1_8"
      /\ Set1_8 => ins.op = "set1_8"
      /\ Clr1_8 => ins.op = "clr1_8"
      /\ Not1_8 => ins.op = "not1_8"
      /\ Tst1_9 => ins.op = "tst1_9"
      /\ Set1_9 => ins.op = "set1_9"
      /\ Clr1_9 => ins.op = "clr1_9"
      /\ Not1_9 => ins.op = "not1_9"
  BY Zenon DEF Executes, Tst1_8, Set1_8, Clr1_8, Not1_8, Tst1_9, Set1_9, Clr1_9, Not1_9
<1> QED
  BY <1>1, Zenon DEF MemoryBits

(* A special step that executes CAXI is that of CAXI.                        *)
LEMMA CaxiByName == Special /\ ins.op = "caxi" => Caxi
<1>1. /\ Prepare4 => ins.op = "prepare"
      /\ PrepareSp => ins.op = "prepare_sp"
      /\ PrepareH => ins.op = "prepare_h"
      /\ PrepareHi => ins.op = "prepare_hi"
      /\ PrepareW => ins.op = "prepare_w"
      /\ Dispose => ins.op = "dispose"
      /\ Switch => ins.op = "switch"
      /\ Bsel => ins.op = "ldsr_bsel"
      /\ Ldsr => ins.op = "ldsr"
  BY Zenon DEF Executes, Prepare4, PrepareSp, PrepareH, PrepareHi, PrepareW, Prepare, Dispose, Switch, Bsel, Ldsr
<1> QED
  BY <1>1, Zenon DEF Special

(* What a step does while the program runs is told by the name of the        *)
(* instruction at pc.                                                        *)
LEMMA Dispatch ==
  ASSUME Next, running, pc \in DOMAIN code
  PROVE  /\ ins.op = "add_1" => Add_1
         /\ ins.op = "add_2" => Add_2
         /\ ins.op = "adf" => Adf
         /\ ins.op = "sub" => Sub
         /\ ins.op = "cmp_1" => Cmp_1
         /\ ins.op = "sbf" => Sbf
         /\ ins.op = "mov_2" => Mov_2
         /\ ins.op = "setf" => Setf
         /\ ins.op = "sasf" => Sasf
         /\ ins.op = "cmov_11" => Cmov_11
         /\ ins.op = "macu" => Macu \/ OddPair
         /\ ins.op = "satadd_1" => Satadd_1
         /\ ins.op = "satsub_1" => Satsub_1
         /\ ins.op = "satsubr_1" => Satsubr_1
         /\ ins.op = "satsubi" => Satsubi
         /\ ins.op = "shl_2" => Shl_2
         /\ ins.op = "shr_2" => Shr_2
         /\ ins.op = "sar_2" => Sar_2
         /\ ins.op = "shl_9" => Shl_9
         /\ ins.op = "divh_1" => Divh_1
         /\ ins.op = "divh_11" => Divh_11
         /\ ins.op \in {"div", "divq"} => Div
         /\ ins.op = "divhu" => Divhu
         /\ ins.op \in {"divu", "divqu"} => Divu
         /\ ins.op = "sch1l" => Sch1l
         /\ ins.op = "bcond" => Bcond
<1>1. /\ {"add_1", "add_2", "adf", "sub", "cmp_1", "sbf", "mov_2", "setf", "sasf", "cmov_11", "macu"}
           \subseteq ArithmeticOps
      /\ {"satadd_1", "satsub_1", "satsubr_1", "satsubi"} \subseteq SaturationOps
      /\ {"shl_2", "shr_2", "sar_2", "shl_9"} \subseteq ShiftOps
      /\ {"divh_1", "divh_11", "div", "divq", "divhu", "divu", "divqu"} \subseteq DivisionOps
      /\ "sch1l" \in SwapSearchOps
      /\ "bcond" \in BranchOps
  BY SMT DEF ArithmeticOps, SaturationOps, ShiftOps, DivisionOps, SwapSearchOps, BranchOps
<1>2. SwapsAndSearches /\ ins.op = "sch1l" => Sch1l
  <2>1. /\ Hsh => ins.op = "hsh"
        /\ Hsw => ins.op = "hsw"
        /\ Bsh => ins.op = "bsh"
        /\ Bsw => ins.op = "bsw"
        /\ Sch0l => ins.op = "sch0l"
        /\ Sch0r => ins.op = "sch0r"
        /\ Sch1r => ins.op = "sch1r"
    BY Zenon DEF Executes, Hsh, Hsw, Bsh, Bsw, Sch0l, Sch0r, Sch1r
  <2> QED
    BY <2>1, Zenon DEF SwapsAndSearches
<1>3. Branches /\ ins.op = "bcond" => Bcond
  <2>1. /\ Jmp_1 => ins.op = "jmp_1"
        /\ Jmp_6 => ins.op = "jmp_6"
        /\ Jr_6 => ins.op = "jr_6"
        /\ Jr_5 => ins.op = "jr_5"
        /\ Jarl_6 => ins.op = "jarl_6"
    BY Zenon DEF Executes, Jmp_1, Jmp_6, Jr_6, Jr_5, Jarl_6
  <2> QED
    BY <2>1, Zenon DEF Branches
<1>4. /\ ins.op \in ArithmeticOps => Arithmetic
      /\ ins.op \in DivisionOps => Division
      /\ ins.op \in SaturationOps => Saturation
      /\ ins.op \in ShiftOps => Shifts
      /\ ins.op \in SwapSearchOps => SwapsAndSearches
      /\ ins.op \in BranchOps => Branches
  BY GroupOfStep
<1> QED
  BY <1>1, <1>2, <1>3, <1>4, ArithmeticByName, SaturationByName, ShiftByName, DivisionByName

----------------------------------------------------------------------------
(* No instruction changes the program or the history, and only BSEL, LDSR    *)
(* and those of floating point the registers of floating point.              *)
Same == code' = code /\ start' = start
Kept == Same /\ fpu' = fpu

(* So it is of the parts that the handlers share.                            *)
LEMMA ProceedKeeps == ASSUME NEW a, Proceed(a) PROVE Same
BY SMT DEF Proceed, Same

(* Stopping the host keeps them.                                             *)
LEMMA StopKeeps == ASSUME Stop PROVE Kept
BY SMT DEF Stop, Kept, Same

(* Going to an address keeps them.                                           *)
LEMMA MovesToKeeps == ASSUME NEW a, MovesTo(a) PROVE Kept
BY ProceedKeeps, SMT DEF MovesTo, Kept

(* Going to the next instruction keeps them.                                 *)
LEMMA AdvanceKeeps == ASSUME NEW a, Advance(a) PROVE Kept
BY MovesToKeeps DEF Advance, Goto

(* Going elsewhere keeps them.                                               *)
LEMMA GotoKeeps == ASSUME NEW a, Goto(a) PROVE Kept
BY MovesToKeeps DEF Goto

(* Writing a result and its flags keeps them.                                *)
LEMMA ResultKeeps == ASSUME NEW d, NEW w, NEW changes, NEW size, Result(d, w, changes, size) PROVE Kept
BY AdvanceKeeps DEF Result

(* Writing a result without flags keeps them.                                *)
LEMMA MoveKeeps == ASSUME NEW d, NEW w, NEW size, Move(d, w, size) PROVE Kept
BY ResultKeeps DEF Move

(* Writing a sum keeps them.                                                 *)
LEMMA SumKeeps == ASSUME NEW d, NEW a, NEW b, NEW c, NEW size, Sum(d, a, b, c, size) PROVE Kept
BY ResultKeeps DEF Sum

(* Writing a difference keeps them.                                          *)
LEMMA DifferenceKeeps == ASSUME NEW d, NEW a, NEW b, NEW c, NEW size, Difference(d, a, b, c, size) PROVE Kept
BY ResultKeeps DEF Difference

(* Writing a pair of registers keeps them.                                   *)
LEMMA PairKeeps == ASSUME NEW low, NEW high, NEW n, Pair(low, high, n) PROVE Kept
BY AdvanceKeeps DEF Pair

(* So it is of the integer instructions.                                     *)
LEMMA ArithmeticKeeps == Arithmetic => Kept
<1> SUFFICES ASSUME Arithmetic PROVE Kept
  OBVIOUS
<1>1. Mulh_1 \/ Mulh_2 \/ Mulhi \/ Mov_1 \/ Mov_2 \/ Mov_6 \/ Movea \/ Movhi \/ Setf \/ Sasf \/ Cmov_11 \/ Cmov_12 => Kept
  BY MoveKeeps, Zenon DEF Mulh_1, Mulh_2, Mulhi, Mov_1, Mov_2, Mov_6, Movea, Movhi, Setf, Sasf, Cmov_11, Cmov_12
<1>2. Add_1 \/ Add_2 \/ Addi \/ Adf => Kept
  BY SumKeeps, Zenon DEF Add_1, Add_2, Addi, Adf
<1>3. Sub \/ Subr \/ Cmp_1 \/ Cmp_2 \/ Sbf => Kept
  BY DifferenceKeeps, Zenon DEF Sub, Subr, Cmp_1, Cmp_2, Sbf
<1>4. Mul \/ Mulu \/ Mul_12 \/ Mulu_12 \/ Mac \/ Macu => Kept
  BY PairKeeps, Zenon DEF Mul, Mulu, Mul_12, Mulu_12, Mac, Macu
<1>5. OddPair => Kept
  BY StopKeeps DEF OddPair
<1> QED
  BY <1>1, <1>2, <1>3, <1>4, <1>5, Zenon DEF Arithmetic

(* Division keeps them.                                                      *)
LEMMA DivisionKeeps == Division => Kept
<1>1. ASSUME NEW size, ByZero(size) PROVE Kept
  BY <1>1, ResultKeeps DEF ByZero
<1>2. ASSUME NEW n, NEW d, NEW ov, NEW rests, NEW size, Divide(n, d, ov, rests, size) PROVE Kept
  <2>1. Advance(size)
    BY <1>2 DEF Divide
  <2> QED
    BY <2>1, AdvanceKeeps
<1>3. ASSUME NEW n, NEW d, NEW ov, NEW rests, NEW size, SignedDivide(n, d, ov, rests, size) PROVE Kept
  BY <1>1, <1>2, <1>3, StopKeeps, Zenon DEF SignedDivide, HostTraps
<1>4. Divh_1 \/ Divh_11 \/ Div => Kept
  BY <1>3, Zenon DEF Divh_1, Divh_11, Div
<1>5. Divhu \/ Divu => Kept
  BY <1>1, <1>2, StopKeeps, Zenon DEF Divhu, Divu
<1> QED
  BY <1>4, <1>5, Zenon DEF Division

(* Saturation keeps them.                                                    *)
LEMMA SaturationKeeps == Saturation => Kept
<1>1. ASSUME NEW d, NEW w, NEW addend, NEW size, Saturate(d, w, addend, size) PROVE Kept
  BY <1>1, ResultKeeps DEF Saturate
<1> QED
  BY <1>1, Zenon DEF Saturation, Satadd_1, Satadd_2, Satadd_11, Satsub_1, Satsub_11, Satsubr_1, Satsubi

(* Logic keeps them.                                                         *)
LEMMA LogicKeeps == Logic => Kept
<1>1. ASSUME NEW d, NEW w, NEW size, Logical(d, w, size) PROVE Kept
  BY <1>1, ResultKeeps DEF Logical
<1>2. Or_1 \/ And_1 \/ Xor_1 \/ Not_1 \/ Tst \/ Andi \/ Xori => Kept
  BY <1>1, Zenon DEF Or_1, And_1, Xor_1, Not_1, Tst, Andi, Xori
<1>3. Ori => Kept
  BY ResultKeeps, Zenon DEF Ori
<1>4. Zxb \/ Zxh \/ Sxb \/ Sxh => Kept
  BY MoveKeeps, Zenon DEF Zxb, Zxh, Sxb, Sxh
<1> QED
  BY <1>2, <1>3, <1>4, Zenon DEF Logic

(* Shifts keep them.                                                         *)
LEMMA ShiftsKeep == Shifts => Kept
<1>1. ASSUME NEW d, NEW w, NEW cy, NEW size, Shift(d, w, cy, size) PROVE Kept
  BY <1>1, ResultKeeps DEF Shift
<1> QED
  BY <1>1, Zenon DEF Shifts, Shl_2, Shr_2, Sar_2, Shl_9, Shr_9, Sar_9, Shl_11, Shr_11, Sar_11

(* Swaps and searches keep them.                                             *)
LEMMA SwapsKeep == SwapsAndSearches => Kept
<1>1. ASSUME NEW w, NEW cy, NEW z, Swap(w, cy, z) PROVE Kept
  BY <1>1, ResultKeeps DEF Swap
<1>2. ASSUME NEW passed, Search(passed) PROVE Kept
  BY <1>2, ResultKeeps DEF Search
<1>3. Hsh \/ Hsw \/ Bsh \/ Bsw => Kept
  BY <1>1, Zenon DEF Hsh, Hsw, Bsh, Bsw
<1>4. Sch0l \/ Sch1l \/ Sch0r \/ Sch1r => Kept
  BY <1>2, Zenon DEF Sch0l, Sch1l, Sch0r, Sch1r
<1> QED
  BY <1>3, <1>4, Zenon DEF SwapsAndSearches

(* Branches keep them.                                                       *)
LEMMA BranchesKeep == Branches => Kept
<1>1. ASSUME NEW a, Branch(a) PROVE Kept
  BY <1>1, GotoKeeps DEF Branch
<1>2. ASSUME NEW d, NEW size, NEW a, Link(d, size, a) PROVE Kept
  <2>1. Goto(a)
    BY <1>2 DEF Link
  <2> QED
    BY <2>1, GotoKeeps
<1>3. Bcond \/ Jmp_1 \/ Jmp_6 \/ Jr_6 => Kept
  BY <1>1, Zenon DEF Bcond, Jmp_1, Jmp_6, Jr_6
<1>4. Jr_5 \/ Jarl_6 => Kept
  BY <1>2, Zenon DEF Jr_5, Jarl_6
<1> QED
  BY <1>3, <1>4, Zenon DEF Branches

(* So it is of those that use memory.                                        *)
LEMMA LoadsKeep == Loads => Kept
<1>1. ASSUME NEW d, NEW a, NEW n, NEW w, NEW size, Load(d, a, n, w, size) PROVE Kept
  BY <1>1, MoveKeeps, StopKeeps, Zenon DEF Load
<1>2. ASSUME NEW d, NEW a, NEW n, NEW size, LoadUnsigned(d, a, n, size) PROVE Kept
  BY <1>1, <1>2, Zenon DEF LoadUnsigned
<1>3. ASSUME NEW d, NEW a, NEW n, NEW size, LoadSigned(d, a, n, size) PROVE Kept
  BY <1>1, <1>3, Zenon DEF LoadSigned
<1>4. Sldb \/ Sldh \/ Ldb \/ Ldh \/ Ldb_14 \/ Ldh_14 => Kept
  BY <1>3, Zenon DEF Sldb, Sldh, Ldb, Ldh, Ldb_14, Ldh_14
<1>5. Sldbu \/ Sldhu \/ Sldw \/ Ldbu \/ Ldhu \/ Ldw \/ Ldbu_14 \/ Ldhu_14 \/ Ldw_14 => Kept
  BY <1>2, Zenon DEF Sldbu, Sldhu, Sldw, Ldbu, Ldhu, Ldw, Ldbu_14, Ldhu_14, Ldw_14
<1> QED
  BY <1>4, <1>5, Zenon DEF Loads

(* Stores keep them.                                                         *)
LEMMA StoresKeep == Stores => Kept
<1>1. ASSUME NEW base, NEW a, NEW n, NEW w, NEW size, Store(base, a, n, w, size) PROVE Kept
  BY <1>1, MovesToKeeps, StopKeeps, Zenon DEF Store
<1> QED
  BY <1>1, Zenon DEF Stores, Sstb, Ssth, Sstw, Stb, Sth, Stw, Stb_14, Sth_14, Stw_14

(* Bit operations keep them.                                                 *)
LEMMA MemoryBitsKeep == MemoryBits => Kept
<1>1. ASSUME NEW a, NEW k, NEW v, BitWrite(a, k, v) PROVE Kept
  BY <1>1, MovesToKeeps DEF BitWrite
<1>2. ASSUME NEW a, NEW k, TestBit(a, k) PROVE Kept
  BY <1>2, GotoKeeps, StopKeeps, Zenon DEF TestBit
<1>3. ASSUME NEW a, NEW k, NEW v, PutBit(a, k, v) PROVE Kept
  BY <1>1, <1>3, StopKeeps, Zenon DEF PutBit
<1>4. ASSUME NEW a, NEW k, InvertBit(a, k) PROVE Kept
  <2>1. BitWrite(a, k, 1 - Bit(mem[a], k)) \/ Stop \/ UNCHANGED <<code, pc, r, mem, fpu, start>>
    BY <1>4, Zenon DEF InvertBit
  <2> QED
    BY <2>1, <1>1, StopKeeps, Zenon DEF Kept, Same
<1>5. Tst1_8 \/ Tst1_9 => Kept
  BY <1>2, Zenon DEF Tst1_8, Tst1_9
<1>6. Set1_8 \/ Clr1_8 \/ Set1_9 \/ Clr1_9 => Kept
  BY <1>3, Zenon DEF Set1_8, Clr1_8, Set1_9, Clr1_9
<1>7. Not1_8 \/ Not1_9 => Kept
  BY <1>4, Zenon DEF Not1_8, Not1_9
<1> QED
  BY <1>5, <1>6, <1>7, Zenon DEF MemoryBits

(* Special instructions keep them, but for BSEL and LDSR, which keep the program.*)
LEMMA SpecialKeeps == Special => Kept \/ (Same /\ (Bsel \/ Ldsr))
<1>1. ASSUME NEW op, NEW size, Prepare(op, size) PROVE Kept
  <2>1. MovesTo(pc + size) \/ UNCHANGED <<code, pc, psw, fpu, start>> \/ Stop
    BY <1>1, Zenon DEF Prepare
  <2> QED
    BY <2>1, MovesToKeeps, StopKeeps, Zenon DEF Kept, Same
<1>2. Dispose => Kept
  <2>1. Dispose => \/ MovesTo(IF ins.reg1 = 0 THEN pc + 4 ELSE r'[ins.reg1])
                   \/ UNCHANGED <<code, pc, psw, mem, fpu, start>>
    BY Zenon DEF Dispose
  <2> QED
    BY <2>1, MovesToKeeps, Zenon DEF Kept, Same
<1>3. Caxi => Kept
  <2>1. Caxi => MovesTo(pc + 4) \/ Stop
    BY Zenon DEF Caxi
  <2> QED
    BY <2>1, MovesToKeeps, StopKeeps, Zenon
<1>4. Switch => Kept
  BY GotoKeeps, StopKeeps, Zenon DEF Switch
<1>5. Bsel => Kept \/ Same
  <2>1. Bsel => Proceed(pc + 4) \/ Stop
    BY Zenon DEF Bsel
  <2> QED
    BY <2>1, ProceedKeeps, StopKeeps, Zenon
<1>6. Ldsr => Same
  BY ProceedKeeps, Zenon DEF Ldsr
<1> QED
  BY <1>1, <1>2, <1>3, <1>4, <1>5, <1>6, Zenon DEF Special, Prepare4, PrepareSp, PrepareH, PrepareHi, PrepareW

(* A program that came to its end, or was stopped, stays as it is.           *)
LEMMA EndedStays ==
  ASSUME Next, ~ (running /\ pc \in DOMAIN code)
  PROVE  UNCHANGED vars
<1>1. /\ Arithmetic => running /\ pc \in DOMAIN code
      /\ Division => running /\ pc \in DOMAIN code
      /\ Saturation => running /\ pc \in DOMAIN code
      /\ Logic => running /\ pc \in DOMAIN code
      /\ Shifts => running /\ pc \in DOMAIN code
      /\ SwapsAndSearches => running /\ pc \in DOMAIN code
      /\ Branches => running /\ pc \in DOMAIN code
  <2>1. Arithmetic => running /\ pc \in DOMAIN code
    BY Zenon DEF Arithmetic, Executes, Add_1, Add_2, Addi, Adf, Sub, Subr, Cmp_1, Cmp_2, Sbf,
       Mov_1, Mov_2, Mov_6, Movea, Movhi, Setf, Sasf, Cmov_11, Cmov_12,
       Mulh_1, Mulh_2, Mulhi, Mul, Mulu, Mul_12, Mulu_12, Mac, Macu, OddPair
  <2>2. (Division => running /\ pc \in DOMAIN code) /\ (Saturation => running /\ pc \in DOMAIN code)
    BY Zenon DEF Executes, Division, Divh_1, Divh_11, Div, Divhu, Divu, Saturation, Satadd_1, Satadd_2,
       Satadd_11, Satsub_1, Satsub_11, Satsubr_1, Satsubi
  <2>3. (Logic => running /\ pc \in DOMAIN code) /\ (Shifts => running /\ pc \in DOMAIN code)
    BY Zenon DEF Executes, Logic, Or_1, And_1, Xor_1, Not_1, Tst, Andi, Xori, Ori, Zxb, Zxh, Sxb, Sxh,
       Shifts, Shl_2, Shr_2, Sar_2, Shl_9, Shr_9, Sar_9, Shl_11, Shr_11, Sar_11
  <2>4. /\ SwapsAndSearches => running /\ pc \in DOMAIN code
        /\ Branches => running /\ pc \in DOMAIN code
    BY Zenon DEF Executes, SwapsAndSearches, Hsh, Hsw, Bsh, Bsw, Sch0l, Sch1l, Sch0r, Sch1r,
       Branches, Bcond, Jmp_1, Jmp_6, Jr_6, Jr_5, Jarl_6
  <2> QED
    BY <2>1, <2>2, <2>3, <2>4
<1>2. /\ Loads => running /\ pc \in DOMAIN code
      /\ Stores => running /\ pc \in DOMAIN code
      /\ MemoryBits => running /\ pc \in DOMAIN code
      /\ Special => running /\ pc \in DOMAIN code
  <2>1. Loads => running /\ pc \in DOMAIN code
    BY Zenon DEF Loads, Executes, Sldb, Sldbu, Sldh, Sldhu, Sldw, Ldb, Ldbu, Ldh, Ldhu, Ldw,
       Ldb_14, Ldbu_14, Ldh_14, Ldhu_14, Ldw_14
  <2>2. (Stores => running /\ pc \in DOMAIN code) /\ (MemoryBits => running /\ pc \in DOMAIN code)
    BY Zenon DEF Executes, Stores, Sstb, Ssth, Sstw, Stb, Sth, Stw, Stb_14, Sth_14, Stw_14,
       MemoryBits, Tst1_8, Set1_8, Clr1_8, Not1_8, Tst1_9, Set1_9, Clr1_9, Not1_9
  <2>3. Special => running /\ pc \in DOMAIN code
    BY Zenon DEF Special, Executes, Prepare4, PrepareSp, PrepareH, PrepareHi, PrepareW, Prepare,
       Dispose, Caxi, Switch, Bsel, Ldsr
  <2> QED
    BY <2>1, <2>2, <2>3
<1>3. (NotExecuted => running /\ pc \in DOMAIN code) /\ (Floats => running /\ pc \in DOMAIN code)
  BY Zenon DEF NotExecuted, Floats, Executes
<1> QED
  BY <1>1, <1>2, <1>3, Zenon DEF Next, WithoutFloats, Finished

(* A float instruction raises exceptions, sets a condition bit, or leaves    *)
(* its registers alone; a double may go past the last general register.      *)
FloatStep ==
  /\ Same
  /\ \/ fpu' = fpu
     \/ \E f, b, raised : fpu' = Spilled(f, ins.reg3, b, Raise(raised))
     \/ \E raised : fpu' = Raise(raised)
     \/ \E raised, cc : fpu' = WithCondition(Raise(raised), cc)

(* So it is of the parts that the handlers share.                            *)
LEMMA DeliversSteps ==
  ASSUME NEW f, NEW checked, NEW answers, Delivers(f, ins.reg3, checked, answers) PROVE FloatStep
<1>1. \/ Proceed(pc + 4) /\ \E a \in answers : fpu' = Spilled(f, ins.reg3, a.bits, Raise(a.raised))
      \/ Stop
  BY Zenon DEF Delivers
<1>2. Stop => Same /\ fpu' = fpu
  BY StopKeeps DEF Kept
<1> QED
  BY <1>1, <1>2, ProceedKeeps, Zenon DEF FloatStep

(* What goes to reg4 is a single, which spills nowhere.                      *)
LEMMA DeliversToReg4Steps ==
  ASSUME NEW checked, NEW answers, Delivers(Single, ins.reg4, checked, answers) PROVE FloatStep
<1>1. \/ Proceed(pc + 4) /\ \E a \in answers : fpu' = Spilled(Single, ins.reg4, a.bits, Raise(a.raised))
      \/ Stop
  BY Zenon DEF Delivers
<1>2. Stop => Same /\ fpu' = fpu
  BY StopKeeps DEF Kept
<1>3. ASSUME NEW b, NEW state PROVE Spilled(Single, ins.reg4, b, state) = state
  BY SMT DEF Spilled, Single, Format
<1> QED
  BY <1>1, <1>2, <1>3, ProceedKeeps, Zenon DEF FloatStep

(* So it is of a result after which a subnormal is flushed.                  *)
LEMMA FlushesSteps ==
  ASSUME NEW f, NEW checked, NEW answers, Flushes(f, ins.reg3, checked, answers) PROVE FloatStep
BY DeliversSteps DEF Flushes

(* So it is of what arithmetic computes.                                     *)
LEMMA ComputesSteps == ASSUME NEW f, NEW answers, Computes(f, answers) PROVE FloatStep
BY FlushesSteps DEF Computes

(* So it is of what a function computes.                                     *)
LEMMA AsResultSteps == ASSUME NEW f, NEW answers, AsResult(f, answers) PROVE FloatStep
BY FlushesSteps DEF AsResult

(* So it is of bits that are moved as they are.                              *)
LEMMA AsItIsSteps == ASSUME NEW f, NEW b, AsItIs(f, b) PROVE FloatStep
BY DeliversSteps DEF AsItIs

(* So it is of fused arithmetic that writes reg4.                            *)
LEMMA ToReg4Steps == ASSUME NEW answers, ToReg4(answers) PROVE FloatStep
BY DeliversToReg4Steps DEF ToReg4, Flushes

(* So it is of the instructions of floating point.                           *)
LEMMA FloatArithmeticSteps == FloatArithmetic => FloatStep
<1>1. Addf_s \/ Subf_s \/ Mulf_s \/ Divf_s \/ Addf_d \/ Subf_d \/ Mulf_d \/ Divf_d => FloatStep
  BY ComputesSteps, Zenon DEF Addf_s, Subf_s, Mulf_s, Divf_s, Addf_d, Subf_d, Mulf_d, Divf_d,
     Addf, Subf, Mulf, Divf
<1>2. Fmaf_s \/ Fmsf_s \/ Fnmaf_s \/ Fnmsf_s => FloatStep
  BY ComputesSteps, Zenon DEF Fmaf_s, Fmsf_s, Fnmaf_s, Fnmsf_s
<1>3. Maddf_s \/ Msubf_s \/ Nmaddf_s \/ Nmsubf_s => FloatStep
  BY ToReg4Steps, Zenon DEF Maddf_s, Msubf_s, Nmaddf_s, Nmsubf_s
<1> QED
  BY <1>1, <1>2, <1>3, Zenon DEF FloatArithmetic

(* Functions of a float step so.                                             *)
LEMMA FloatFunctionsStep == FloatFunctions => FloatStep
<1>1. Absf_s \/ Negf_s => FloatStep
  BY AsItIsSteps, Zenon DEF Absf_s, Negf_s
<1>2. Absf_d \/ Sqrtf_s \/ Sqrtf_d \/ Rsqrtf_d \/ Rsqrtf_s => FloatStep
  BY AsResultSteps, Zenon DEF Absf_d, Sqrtf_s, Sqrtf_d, Rsqrtf_d, Rsqrtf_s
<1>3. Negf_d \/ Recipf_s \/ Recipf_d \/ Maxf_d => FloatStep
  BY DeliversSteps, Zenon DEF Negf_d, Recipf_s, Recipf_d, Recipf, Maxf_d
<1>4. Maxf_s \/ Minf_s \/ Minf_d => FloatStep
  BY DeliversSteps, Zenon DEF Maxf_s, Minf_s, Minf_d, Picks
<1> QED
  BY <1>1, <1>2, <1>3, <1>4, Zenon DEF FloatFunctions

(* Comparisons and conditional moves step so.                                *)
LEMMA FloatComparisonsStep == FloatComparisons => FloatStep
<1>1. ASSUME NEW f, Cmpf(f) PROVE FloatStep
  <2>1. \/ Stop
        \/ Proceed(pc + 4) /\ \E raised, cc : fpu' = WithCondition(Raise(raised), cc)
    BY <1>1, Zenon DEF Cmpf
  <2>2. Stop => Same /\ fpu' = fpu
    BY StopKeeps DEF Kept
  <2> QED
    BY <2>1, <2>2, ProceedKeeps, Zenon DEF FloatStep
<1>2. Cmpf_s \/ Cmpf_d => FloatStep
  BY <1>1, Zenon DEF Cmpf_s, Cmpf_d
<1>3. Cmovf_s \/ Cmovf_d => FloatStep
  BY DeliversSteps, Zenon DEF Cmovf_s, Cmovf_d, Moves
<1>4. Trfsr => FloatStep
  BY GotoKeeps, Zenon DEF Trfsr, Kept, FloatStep
<1> QED
  BY <1>2, <1>3, <1>4, Zenon DEF FloatComparisons

(* Conversions to a float step so.                                           *)
LEMMA ToFloatsSteps == ToFloats => FloatStep
<1>1. ASSUME NEW f, NEW words, NEW n, FromInteger(f, words, n) PROVE FloatStep
  BY <1>1, FlushesSteps DEF FromInteger
<1>2. Cvtf_ws \/ Cvtf_uws \/ Cvtf_wd \/ Cvtf_uwd \/ Cvtf_ls \/ Cvtf_uls \/ Cvtf_ld \/ Cvtf_uld => FloatStep
  BY <1>1, Zenon DEF Cvtf_ws, Cvtf_uws, Cvtf_wd, Cvtf_uwd, Cvtf_ls, Cvtf_uls, Cvtf_ld, Cvtf_uld
<1>3. Cvtf_sd \/ Cvtf_ds => FloatStep
  BY FlushesSteps, Zenon DEF Cvtf_sd, Cvtf_ds
<1> QED
  BY <1>2, <1>3, Zenon DEF ToFloats

(* Conversions to an integer step so.                                        *)
LEMMA ToIntegersSteps == ToIntegers => FloatStep
<1>1. ASSUME NEW signed, NEW n, SingleToWord(signed, n) PROVE FloatStep
  BY <1>1, DeliversSteps, Zenon DEF SingleToWord
<1>2. ASSUME NEW answers, DoubleToWord(answers) PROVE FloatStep
  BY <1>2, DeliversSteps, Zenon DEF DoubleToWord
<1>3. ASSUME NEW needed, NEW answers, ToLong(needed, answers) PROVE FloatStep
  BY <1>3, DeliversSteps, Zenon DEF ToLong
<1>4. Cvtf_sw \/ Cvtf_suw \/ Trncf_sw \/ Trncf_suw \/ Floorf_suw => FloatStep
  BY <1>1, Zenon DEF Cvtf_sw, Cvtf_suw, Trncf_sw, Trncf_suw, Floorf_suw
<1>5. Cvtf_dw \/ Cvtf_duw \/ Trncf_dw \/ Trncf_duw \/ Ceilf_duw => FloatStep
  BY <1>2, Zenon DEF Cvtf_dw, Cvtf_duw, Trncf_dw, Trncf_duw, Ceilf_duw
<1>6. Cvtf_dl \/ Cvtf_dul \/ Ceilf_dl \/ Ceilf_dul \/ Trncf_dl \/ Trncf_dul
      \/ Trncf_sl \/ Trncf_sul \/ Floorf_sul => FloatStep
  BY <1>3, Zenon DEF Cvtf_dl, Cvtf_dul, Ceilf_dl, Ceilf_dul, Trncf_dl, Trncf_dul, Trncf_sl, Trncf_sul,
     Floorf_sul, DoubleToLong, SingleToLong
<1>7. Floorf_sw \/ Floorf_sl => FloatStep
  BY FlushesSteps, Zenon DEF Floorf_sw, Floorf_sl
<1> QED
  BY <1>4, <1>5, <1>6, <1>7, Zenon DEF ToIntegers

(* Every instruction of floating point steps so.                             *)
LEMMA FloatsStep == Floats => FloatStep
<1>1. NotSupported => FloatStep
  BY StopKeeps, Zenon DEF NotSupported, Kept, FloatStep
<1> QED
  BY <1>1, FloatArithmeticSteps, FloatFunctionsStep, FloatComparisonsStep, ToFloatsSteps, ToIntegersSteps,
     Zenon DEF Floats

(* No step changes the program or the history; and one that changes the      *)
(* registers of floating point is BSEL, LDSR or an instruction of floating   *)
(* point.                                                                    *)
LEMMA StepKeeps == Next => Same /\ (fpu' = fpu \/ Bsel \/ Ldsr \/ (Floats /\ FloatStep))
<1>1. Finished => Kept
  BY SMT DEF Finished, vars, Kept, Same
<1>2. NotExecuted => Kept
  BY StopKeeps DEF NotExecuted
<1>3. WithoutFloats => Kept \/ (Same /\ (Bsel \/ Ldsr))
  BY <1>2, ArithmeticKeeps, DivisionKeeps, SaturationKeeps, LogicKeeps, ShiftsKeep, SwapsKeep, BranchesKeep,
     LoadsKeep, StoresKeep, MemoryBitsKeep, SpecialKeeps, Zenon DEF WithoutFloats
<1> QED
  BY <1>1, <1>3, FloatsStep, Zenon DEF Next, Kept, FloatStep

----------------------------------------------------------------------------
(* What the proofs below, and those of the programs, share: how a run        *)
(* starts, powers of two, the parts of a word and its bits.                  *)

(* What a program starts with: words in its registers, of which the first    *)
(* holds zero, flags, and the registers its inputs name.                     *)
Started ==
  /\ start.r \in [Regs -> Words] /\ start.r[0] = 0
  /\ start.psw \in SUBSET Flags
  /\ \E p \in Programs : \E in \in p.inputs, f \in p.flags :
       /\ code = p.code
       /\ start.psw = f
       /\ \A n \in Regs : start.r[n] = IF n \in DOMAIN in THEN in[n] ELSE 0

AtStart == pc = 0 /\ r = start.r /\ psw = start.psw

(* Every program starts so.                                                  *)
LEMMA StartsAtZero == Init => Started /\ AtStart /\ running
<1> SUFFICES ASSUME Init PROVE Started /\ AtStart /\ running
  OBVIOUS
<1>1. PICK p \in Programs : \E in \in p.inputs, f \in p.flags :
        /\ code = p.code
        /\ pc = 0
        /\ r = [n \in Regs |-> IF n \in DOMAIN in THEN in[n] ELSE 0]
        /\ psw = f
        /\ running = TRUE
        /\ start = [r |-> r, psw |-> psw, mem |-> mem]
  BY Zenon DEF Init
<1>2. PICK in \in p.inputs, f \in p.flags :
        /\ code = p.code
        /\ pc = 0
        /\ r = [n \in Regs |-> IF n \in DOMAIN in THEN in[n] ELSE 0]
        /\ psw = f
        /\ running = TRUE
        /\ start = [r |-> r, psw |-> psw, mem |-> mem]
  BY <1>1, Zenon
<1>3. start.r = r /\ start.psw = psw
  BY <1>2
<1>4. /\ DOMAIN in \subseteq Regs \ {0}
      /\ \A n \in DOMAIN in : in[n] \in Words
      /\ f \in SUBSET Flags
  BY CoreAssumption, Zenon DEF Range
<1>5. 0 \in Words /\ 0 \in Regs
  BY CoreAssumption, Sizes, SMT DEF Words, Regs
<1>6. r \in [Regs -> Words] /\ r[0] = 0
  BY <1>2, <1>4, <1>5, Zenon
<1>7. \A n \in Regs : r[n] = IF n \in DOMAIN in THEN in[n] ELSE 0
  BY <1>2, Zenon
<1> QED
  BY <1>2, <1>3, <1>4, <1>6, <1>7, Zenon DEF Started, AtStart

(* The program and the history stay.                                         *)
LEMMA StartedStays == ASSUME Started, [Next]_vars PROVE Started' /\ Same
<1>1. Same
  BY StepKeeps, Zenon DEF vars, Same
<1> QED
  BY <1>1, Zenon DEF Started, Same

(* Powers of no more bits than a word has add up.                            *)
LEMMA WordPowers ==
  \A m, n \in 0 .. Width :
    2 ^ m \in Nat \ {0} /\ (m + n <= Width => 2 ^ (m + n) = 2 ^ m * 2 ^ n)
<1> SUFFICES ASSUME NEW m \in 0 .. Width, NEW n \in 0 .. Width
             PROVE  2 ^ m \in Nat \ {0} /\ (m + n <= Width => 2 ^ (m + n) = 2 ^ m * 2 ^ n)
  OBVIOUS
<1>1. Digits \in Nat /\ Width \in Nat /\ Width <= Digits
  BY CoreAssumption, FloatAssumption, SMT DEF Digits
<1>2. m \in 0 .. Digits /\ n \in 0 .. Digits /\ (m + n <= Width => m + n <= Digits)
  BY <1>1, SMT
<1> QED
  BY <1>2, PowersAssumption

(* What is brought to a word is one.                                         *)
LEMMA WordIsWord == ASSUME NEW n \in Int PROVE Word(n) \in Words
<1>1. Modulus \in Nat \ {0}
  BY Sizes
<1> QED
  BY <1>1, SMT DEF Word, Words

(* A quotient and a remainder that fit together are those of a division.     *)
LEMMA Remainder ==
  ASSUME NEW n \in Int, NEW k \in Int, NEW t \in Nat \ {0}, NEW w \in 0 .. t - 1, n = k * t + w
  PROVE  n % t = w /\ n \div t = k
<1> DEFINE q == n \div t
           x == n % t
           e == (k - q) * t
<1>1. q \in Int /\ x \in 0 .. t - 1
  BY SMT
<1>2. n = t * q + x
  BY SMT
<1> HIDE DEF q, x
<1>3. e \in Int /\ e = x - w
  BY <1>1, <1>2, SMT
<1>4. k - q >= 1 => e >= t
  BY <1>1, SMT
<1>5. k - q <= -1 => e <= - t
  BY <1>1, SMT
<1> HIDE DEF e
<1>6. k = q
  BY <1>1, <1>3, <1>4, <1>5, SMT
<1>7. x = w
  BY <1>1, <1>2, <1>6, SMT
<1> QED
  BY <1>6, <1>7 DEF q, x

(* The quotient that the host computes is the one that rounds to zero.       *)
LEMMA QuotientRounds ==
  ASSUME NEW n \in Int, NEW d \in Int, d # 0
  PROVE  /\ Quotient(n, d) \in Int
         /\ Euclidean(n, d, Quotient(n, d))
         /\ Abs(Quotient(n, d)) <= Abs(n)
         /\ Quotient(n, d) > 0 => (n < 0) = (d < 0)
         /\ Quotient(n, d) = Abs(n) /\ n # 0 => Abs(d) = 1
         /\ n >= 0 /\ d >= 0 => Quotient(n, d) >= 0
<1> DEFINE p == Abs(n)
           e == Abs(d)
           k == p \div e
           x == p % e
           q == Quotient(n, d)
<1>1. p \in Nat /\ e \in Nat \ {0} /\ (p = n \/ p = -n) /\ (e = d \/ e = -d)
  BY SMT DEF Abs
<1>2. q = IF (n < 0) = (d < 0) THEN k ELSE -k
  BY Zenon DEF Quotient
<1>3. /\ p = IF n < 0 THEN -n ELSE n
      /\ e = IF d < 0 THEN -d ELSE d
  BY DEF Abs
<1> HIDE DEF p, e
<1>4. k \in Int /\ x \in 0 .. e - 1 /\ p = e * k + x
  BY <1>1, SMT
<1> HIDE DEF k, x, q
<1> DEFINE ek == e * k
<1>5. k >= 0
  <2>1. k <= -1 => ek <= - e
    BY <1>1, <1>4, SMT
  <2>2. ek \in Int
    BY <1>1, <1>4, SMT
  <2> QED
    BY <1>1, <1>4, <2>1, <2>2, SMT
<1>6. ek >= k /\ (e >= 2 => ek >= 2 * k) /\ ek \in Int
  <2>1. ek \in Int
    BY <1>1, <1>4, SMT
  <2>2. ek >= k
    BY <1>1, <1>4, <1>5, SMT
  <2>3. e >= 2 => ek >= 2 * k
    BY <1>1, <1>4, <1>5, SMT
  <2> QED
    BY <2>1, <2>2, <2>3
<1>7. k <= p /\ (e >= 2 /\ p > 0 => k < p)
  <2> HIDE DEF ek
  <2>1. p = ek + x
    BY <1>4 DEF ek
  <2> QED
    BY <1>1, <1>4, <1>5, <1>6, <2>1, SMT
<1>8. q \in Int /\ Abs(q) <= p /\ (q > 0 => (n < 0) = (d < 0)) /\ (n >= 0 /\ d >= 0 => q >= 0)
  BY <1>1, <1>2, <1>4, <1>5, <1>7, SMT DEF Abs
<1>9. q = p /\ n # 0 => e = 1
  BY <1>1, <1>2, <1>4, <1>5, <1>7, SMT
<1>10. n - q * d = IF n < 0 THEN - x ELSE x
  <2>1. CASE n < 0 /\ d < 0
    BY <1>1, <1>2, <1>3, <1>4, <2>1, SMT
  <2>2. CASE n < 0 /\ ~ (d < 0)
    BY <1>1, <1>2, <1>3, <1>4, <2>2, SMT
  <2>3. CASE ~ (n < 0) /\ d < 0
    BY <1>1, <1>2, <1>3, <1>4, <2>3, SMT
  <2>4. CASE ~ (n < 0) /\ ~ (d < 0)
    BY <1>1, <1>2, <1>3, <1>4, <2>4, SMT
  <2> QED
    BY <2>1, <2>2, <2>3, <2>4, Zenon
<1>11. Euclidean(n, d, q)
  <2> DEFINE rest == n - q * d
  <2>1. rest = IF n < 0 THEN - x ELSE x
    BY <1>10
  <2> HIDE DEF rest
  <2>2. Abs(rest) < e /\ (rest # 0 => (rest < 0) = (n < 0))
    BY <1>1, <1>4, <2>1, SMT DEF Abs
  <2> QED
    BY <2>2 DEF Euclidean, rest, e
<1> QED
  BY <1>8, <1>9, <1>11 DEF q, p, e

(* Signed words are integers, and so are clamped ones.                       *)
LEMMA SignedIsInt ==
  /\ \A w \in Words : Signed(w) \in Int
  /\ \A n \in Int : Clamped(n) \in Int
BY AluAssumption, SMT DEF Words, Signed, Modulus, Clamped

(* A word is parted where SHL moves it: what is left fits below.             *)
LEMMA Parts ==
  ASSUME NEW k \in 0 .. Width
  PROVE  /\ 2 ^ k \in Nat \ {0} /\ 2 ^ (Width - k) \in Nat \ {0}
         /\ Modulus = 2 ^ k * 2 ^ (Width - k)
         /\ k < Width =>
              /\ 2 ^ (Width - k - 1) \in Nat \ {0}
              /\ 2 ^ (Width - k) = 2 * 2 ^ (Width - k - 1)
              /\ SignBit = 2 ^ k * 2 ^ (Width - k - 1)
<1>1. Width \in Nat \ {0} /\ SignBit = 2 ^ (Width - 1)
  BY CoreAssumption, SMT
<1>2. 2 ^ 1 = 2
  BY SMT
<1>3. k \in 0 .. Width /\ Width - k \in 0 .. Width /\ k + (Width - k) = Width
      /\ 1 \in 0 .. Width /\ Width - 1 \in 0 .. Width /\ 1 + (Width - 1) = Width
  BY <1>1, SMT
<1>4. 2 ^ k \in Nat \ {0} /\ 2 ^ (Width - k) \in Nat \ {0} /\ 2 ^ Width = 2 ^ k * 2 ^ (Width - k)
  BY <1>1, <1>3, WordPowers, SMT
<1>5. 2 ^ Width = 2 ^ 1 * 2 ^ (Width - 1)
  <2> DEFINE j == Width - 1
  <2>1. j \in 0 .. Width /\ 1 \in 0 .. Width /\ 1 + j = Width /\ 1 + j <= Width
    BY <1>1, SMT
  <2> HIDE DEF j
  <2>2. 2 ^ (1 + j) = 2 ^ 1 * 2 ^ j
    BY <2>1, WordPowers
  <2> QED
    BY <2>1, <2>2 DEF j
<1>6. Modulus = 2 ^ Width
  BY <1>1, <1>2, <1>5 DEF Modulus
<1>7. ASSUME k < Width
      PROVE  /\ 2 ^ (Width - k - 1) \in Nat \ {0}
             /\ 2 ^ (Width - k) = 2 * 2 ^ (Width - k - 1)
             /\ SignBit = 2 ^ k * 2 ^ (Width - k - 1)
  <2> DEFINE j == Width - k - 1
  <2>1. j \in 0 .. Width /\ 1 + j = Width - k /\ k + j = Width - 1
    BY <1>1, <1>7, SMT
  <2> HIDE DEF j
  <2>2. 2 ^ j \in Nat \ {0} /\ 2 ^ (1 + j) = 2 ^ 1 * 2 ^ j /\ 2 ^ (k + j) = 2 ^ k * 2 ^ j
    <3>1. 1 + j <= Width /\ k + j <= Width
      BY <1>1, <1>3, <2>1, SMT
    <3> QED
      BY <1>3, <2>1, <3>1, WordPowers
  <2> QED
    BY <1>1, <1>2, <2>1, <2>2 DEF j
<1> QED
  BY <1>4, <1>6, <1>7

----------------------------------------------------------------------------
(* The highest bit of a word.                                                *)
Before == {p \in Nat \X Nat : p[1] < p[2]}

(* No naturals go down for ever.                                             *)
LEMMA BeforeIsWellFounded == IsWellFoundedOn(Before, Nat)
BY NatLessThanWellFounded DEF OpToRel, Before

(* A set of naturals that is not empty has a least.                          *)
LEMMA HasLeast ==
  ASSUME NEW T \in SUBSET Nat, T # {}
  PROVE  \E x \in T : \A y \in T : x <= y
<1>1. PICK x \in T : \A y \in T : ~ (<<y, x>> \in Before)
  BY WFMin, BeforeIsWellFounded
<1>2. \A y \in Nat : <<y, x>> \in Before <=> y < x
  BY SMT DEF Before
<1>3. ASSUME NEW y \in T PROVE x <= y
  <2>1. x \in Nat /\ y \in Nat
    OBVIOUS
  <2>2. ~ (y < x)
    BY <1>1, <1>2, <2>1
  <2> QED
    BY <2>1, <2>2, SMT
<1> QED
  BY <1>3

(* The count of a shift is a word.                                           *)
LEMMA CountsAreWords == ASSUME NEW n \in 0 .. Width PROVE n < 2 ^ n
<1> DEFINE T == {m \in Nat : m <= Width /\ ~ (m < 2 ^ m)}
<1> SUFFICES ASSUME T # {} PROVE FALSE
  <2>1. n \in Nat /\ n <= Width
    BY CoreAssumption, SMT
  <2> QED
    BY <2>1
<1>1. T \in SUBSET Nat
  OBVIOUS
<1> HIDE DEF T
<1>2. PICK m \in T : \A y \in T : m <= y
  BY <1>1, HasLeast
<1>3. m \in Nat /\ m <= Width /\ ~ (m < 2 ^ m)
  BY <1>2 DEF T
<1>4. Width \in Nat \ {0}
  BY CoreAssumption, SMT
<1>5. 2 ^ 0 = 1 /\ 2 ^ 1 = 2
  BY SMT
<1>6. m # 0
  <2>1. 0 < 2 ^ 0
    BY <1>5
  <2> QED
    BY <1>3, <2>1
<1> DEFINE j == m - 1
<1>7. j \in Nat /\ j <= Width /\ j + 1 = m /\ j < m /\ j \in 0 .. Width /\ 1 \in 0 .. Width
  BY <1>3, <1>4, <1>6, SMT
<1> HIDE DEF j
<1>8. j < 2 ^ j
  <2>1. j \notin T
    BY <1>1, <1>2, <1>3, <1>7, SMT
  <2> QED
    BY <1>7, <2>1 DEF T
<1>9. 2 ^ j \in Nat \ {0} /\ 2 ^ (j + 1) = 2 ^ j * 2 ^ 1
  BY <1>3, <1>7, WordPowers
<1> QED
  BY <1>3, <1>5, <1>7, <1>8, <1>9, SMT


(* A bank that BSEL selects is one of the three.                             *)
LEMMA BankOfBsel ==
  ASSUME NEW group, NEW n, n \in Range(BanksOf(group))
  PROVE  (CHOOSE k \in DOMAIN BanksOf(group) : BanksOf(group)[k] = n) - 1 \in Banks
<1> DEFINE banks == BanksOf(group)
           k     == CHOOSE k \in DOMAIN banks : banks[k] = n
<1>1. banks \in {<<0, 16, 17>>, <<0, 1, 16>>, <<0, 255>>, <<0>>}
  BY SMT DEF BanksOf
<1>2. DOMAIN banks \subseteq 1 .. 3
  BY <1>1, SMT
<1>3. \E c \in DOMAIN banks : banks[c] = n
  BY Zenon DEF Range
<1>4. k \in DOMAIN banks
  BY <1>3
<1>5. k \in 1 .. 3
  BY <1>2, <1>4
<1> HIDE DEF k
<1>6. k - 1 \in Banks
  BY <1>5, SMT DEF Banks
<1> QED
  BY <1>6 DEF k

(* A power of two is not less than one of a smaller exponent.                *)
LEMMA PowersGrow ==
  ASSUME NEW n \in 0 .. Width, NEW m \in 0 .. n
  PROVE  2 ^ n \in Nat \ {0} /\ 2 ^ m <= 2 ^ n
<1> DEFINE j == n - m
           rest == 2 ^ j
           low  == 2 ^ m
<1>1. Width \in Nat
  BY CoreAssumption
<1>2. m \in 0 .. Width /\ j \in 0 .. Width /\ m + j = n /\ m + j <= Width
  BY <1>1, SMT
<1> HIDE DEF j
<1>3. 2 ^ (m + j) = low * rest /\ low \in Nat \ {0} /\ rest \in Nat \ {0}
  BY <1>2, WordPowers
<1> HIDE DEF low, rest
<1>4. low * rest \in Nat \ {0} /\ low <= low * rest
  BY <1>3, SMT
<1> QED
  BY <1>2, <1>3, <1>4 DEF low

(* What is below a power of two does not reach into its multiples ...        *)
LEMMA BitBelow ==
  ASSUME NEW p \in Nat \ {0}, NEW s \in Nat \ {0}, NEW q, q = p * (2 * s), NEW l \in 0 .. q - 1, NEW x \in Int
  PROVE  ((x * q + l) \div p) % 2 = (l \div p) % 2
<1> DEFINE d == l \div p
           e == l % p
           m == x * s
           y == x * (2 * s) + d
<1>1. q \in Nat \ {0} /\ l \in Int
  BY SMT
<1>2. d \in Int /\ e \in 0 .. p - 1 /\ l = p * d + e
  BY <1>1, SMT
<1>3. m \in Int /\ y = 2 * m + d
  BY <1>2, SMT
<1> HIDE DEF d, e
<1>4. x * q + l = y * p + e
  <2>1. x * q = (x * (2 * s)) * p
    BY SMT
  <2>2. x * (2 * s) \in Int
    BY SMT
  <2> DEFINE z == x * (2 * s)
  <2> HIDE DEF z
  <2>3. z * p + (p * d + e) = (z + d) * p + e
    BY <1>2, <2>2, SMT DEF z
  <2> QED
    BY <1>2, <2>1, <2>3 DEF z
<1>5. y \in Int /\ x * q + l \in Int
  BY <1>1, <1>2, SMT
<1> HIDE DEF y, m
<1>6. (x * q + l) \div p = y
  BY <1>2, <1>4, <1>5, Remainder
<1>7. y % 2 = d % 2
  BY <1>2, <1>3, <1>5, SMT
<1> QED
  BY <1>6, <1>7 DEF d

(* ... and a multiple does not either, into those of a greater one.          *)
LEMMA BitAbove ==
  ASSUME NEW q \in Nat \ {0}, NEW s \in Nat \ {0}, NEW h \in Int, NEW v \in 0 .. 1, NEW l \in 0 .. q - 1
  PROVE  ((2 * h + v) * q + l) \div (q * (2 * s)) = h \div s
<1> DEFINE e == h \div s
           f == h % s
           g == (2 * f + v) * q
           p == q * (2 * s)
           n == (2 * h + v) * q + l
<1>1. e \in Int /\ f \in 0 .. s - 1 /\ h = s * e + f
  BY SMT
<1> HIDE DEF e, f
<1>2. p \in Nat \ {0}
  BY SMT
<1>3. 2 * h + v = 2 * (s * e) + (2 * f + v) /\ 2 * f + v \in 0 .. 2 * s - 1
  BY <1>1, SMT
<1>4. (2 * h + v) * q = e * p + g
  <2> DEFINE t == s * e
             u == 2 * f + v
  <2>1. t \in Int /\ u \in Int
    BY <1>1, SMT
  <2>2. e * p = (2 * t) * q
    BY <1>1, SMT
  <2> HIDE DEF t, u
  <2>3. (2 * t + u) * q = (2 * t) * q + u * q
    BY <2>1, SMT
  <2> QED
    BY <1>3, <2>2, <2>3 DEF t, u
<1>5. g + l \in 0 .. p - 1
  <2> DEFINE u == 2 * f + v
  <2>1. u \in 0 .. 2 * s - 1
    BY <1>3
  <2> HIDE DEF u
  <2>2. u * q >= 0 /\ u * q <= (2 * s - 1) * q /\ u * q \in Int
    BY <2>1, SMT
  <2>3. (2 * s - 1) * q = p - q
    BY SMT
  <2> QED
    BY <1>2, <2>2, <2>3, SMT DEF u
<1>6. g \in Int /\ e * p \in Int
  BY <1>1, <1>2, SMT
<1> HIDE DEF p, g
<1>7. n = e * p + (g + l) /\ n \in Int
  BY <1>4, <1>5, <1>6, SMT
<1> HIDE DEF n
<1>8. n \div p = e
  BY <1>1, <1>2, <1>5, <1>7, Remainder
<1> QED
  BY <1>8 DEF n, p, e

(* The powers below that of a byte.                                          *)
LEMMA PowersOfByte ==
  /\ Byte \in Nat \ {0} /\ Byte <= Width /\ Half = Byte + Byte /\ Width = Half + Half
  /\ 2 ^ Byte \in Nat \ {0}
  /\ \A n \in 0 .. Byte, k \in 0 .. Byte - 1 :
       /\ 2 ^ n \in Nat \ {0}
       /\ n < k => \E s \in Nat \ {0} : 2 ^ k = 2 ^ n * (2 * s)
       /\ n > k => \E s \in Nat \ {0} : 2 ^ n = 2 ^ k * (2 * s)
<1>1. Byte \in Nat \ {0} /\ Byte <= Width /\ Half = Byte + Byte /\ Width = Half + Half /\ Width \in Nat
  BY CoreAssumption, ProgramsAssumption, SMT DEF Byte, Half
<1>2. ASSUME NEW a \in 0 .. Byte, NEW b \in 0 .. Byte, a < b
      PROVE  \E s \in Nat \ {0} : 2 ^ b = 2 ^ a * (2 * s)
  <2> DEFINE c == b - a - 1
             d == b - a
             s == 2 ^ c
  <2>1. /\ a \in 0 .. Width /\ c \in 0 .. Width /\ d \in 0 .. Width /\ 1 \in 0 .. Width
        /\ 1 + c = d /\ a + d = b /\ 1 + c <= Width /\ a + d <= Width
    BY <1>1, <1>2, SMT
  <2> HIDE DEF c, d
  <2>2. s \in Nat \ {0} /\ 2 ^ (1 + c) = 2 ^ 1 * s /\ 2 ^ (a + d) = 2 ^ a * 2 ^ d
    BY <2>1, WordPowers
  <2> HIDE DEF s
  <2>3. 2 ^ 1 * s = 2 * s
    BY <2>2, SMT
  <2> QED
    BY <2>1, <2>2, <2>3
<1>3. \A n \in 0 .. Byte : 2 ^ n \in Nat \ {0}
  <2> TAKE n \in 0 .. Byte
  <2>1. n \in 0 .. Width
    BY <1>1, SMT
  <2> QED
    BY <2>1, WordPowers, CoreAssumption
<1>4. ASSUME NEW n \in 0 .. Byte, NEW k \in 0 .. Byte - 1
      PROVE  /\ n < k => \E s \in Nat \ {0} : 2 ^ k = 2 ^ n * (2 * s)
             /\ n > k => \E s \in Nat \ {0} : 2 ^ n = 2 ^ k * (2 * s)
  <2>1. k \in 0 .. Byte /\ (n > k => k < n)
    BY <1>1, SMT
  <2> QED
    BY <1>2, <2>1
<1>5. Byte \in 0 .. Byte
  BY <1>1, SMT
<1> QED
  BY <1>1, <1>3, <1>4, <1>5

(* What BitWrite makes of a byte.                                            *)
WithBit(w, k, v) == w - Bit(w, k) * 2 ^ k + v * 2 ^ k

(* A bit of a byte that is replaced has the new value, and the others stay.  *)
LEMMA BitReplaced ==
  ASSUME NEW w \in 0 .. 2 ^ Byte - 1, NEW k \in 0 .. Byte - 1, NEW v \in 0 .. 1
  PROVE  /\ WithBit(w, k, v) \in 0 .. 2 ^ Byte - 1
         /\ Bit(w, k) \in 0 .. 1
         /\ Bit(WithBit(w, k, v), k) = v
         /\ \A n \in 0 .. Byte - 1 : n # k => Bit(WithBit(w, k, v), n) = Bit(w, n)
<1> DEFINE q == 2 ^ k
           d == w \div q
           l == w % q
           h == d \div 2
           b == d % 2
           new == (2 * h + v) * q + l
<1>1. q \in Nat \ {0} /\ w \in Nat /\ k \in 0 .. Byte /\ 2 ^ Byte \in Nat \ {0} /\ Byte \in Nat \ {0}
  <2>1. Byte \in Nat \ {0} /\ 2 ^ Byte \in Nat \ {0}
    BY PowersOfByte
  <2>2. k \in 0 .. Byte
    BY <2>1, SMT
  <2> QED
    BY <2>1, <2>2, PowersOfByte, SMT
<1> HIDE DEF q
<1>2. d \in Nat /\ l \in 0 .. q - 1 /\ w = q * d + l
  BY <1>1, SMT
<1> HIDE DEF d, l
<1>3. h \in Nat /\ b \in 0 .. 1 /\ d = 2 * h + b
  BY <1>2, SMT
<1>4. Bit(w, k) = b
  BY DEF Bit, d, q
<1> HIDE DEF h, b
<1>5. w = (2 * h + b) * q + l
  BY <1>1, <1>2, <1>3, SMT
<1>6. WithBit(w, k, v) = new /\ new \in Nat
  <2>1. (2 * h + b) * q - b * q + v * q = (2 * h + v) * q
    BY <1>1, <1>3, SMT
  <2>2. (2 * h + b) * q \in Int /\ b * q \in Int /\ v * q \in Int /\ (2 * h + v) * q \in Nat
    BY <1>1, <1>3, SMT
  <2>3. w - b * q + v * q = new
    BY <1>2, <1>5, <2>1, <2>2, SMT
  <2>4. new \in Nat
    BY <1>2, <2>2, SMT
  <2> QED
    BY <1>4, <2>3, <2>4 DEF WithBit, q
<1>7. Bit(new, k) = v
  <2>1. new \div q = 2 * h + v
    <3>1. 2 * h + v \in Int /\ new \in Int
      BY <1>3, <1>6, SMT
    <3> QED
      BY <1>1, <1>2, <3>1, Remainder
  <2>2. (2 * h + v) % 2 = v
    BY <1>3, SMT
  <2> QED
    BY <2>1, <2>2 DEF Bit, q
<1>8. ASSUME NEW n \in 0 .. Byte, n > k
      PROVE  w \div 2 ^ n = new \div 2 ^ n
  <2>1. PICK s \in Nat \ {0} : 2 ^ n = q * (2 * s)
    BY <1>8, PowersOfByte DEF q
  <2>2. h \in Int
    BY <1>3
  <2>3. ((2 * h + b) * q + l) \div (q * (2 * s)) = h \div s
    BY <1>1, <1>2, <1>3, <2>2, BitAbove
  <2>4. ((2 * h + v) * q + l) \div (q * (2 * s)) = h \div s
    BY <1>1, <1>2, <2>2, BitAbove
  <2> QED
    BY <1>5, <2>1, <2>3, <2>4
<1>9. ASSUME NEW n \in 0 .. Byte - 1, n < k
      PROVE  Bit(w, n) = Bit(new, n)
  <2>1. n \in 0 .. Byte
    BY <1>1, SMT
  <2>2. PICK s \in Nat \ {0} : q = 2 ^ n * (2 * s)
    BY <1>9, <2>1, PowersOfByte DEF q
  <2>3. 2 ^ n \in Nat \ {0} /\ 2 * h + b \in Int /\ 2 * h + v \in Int
    <3>1. 2 ^ n \in Nat \ {0}
      BY <2>1, PowersOfByte
    <3> QED
      BY <1>3, <3>1, SMT
  <2> DEFINE p == 2 ^ n
             x == 2 * h + b
             y == 2 * h + v
  <2> HIDE DEF p, x, y
  <2>4. ((x * q + l) \div p) % 2 = (l \div p) % 2
    BY <1>2, <2>2, <2>3, BitBelow DEF p, x
  <2>5. ((y * q + l) \div p) % 2 = (l \div p) % 2
    BY <1>2, <2>2, <2>3, BitBelow DEF p, y
  <2> QED
    BY <1>5, <2>4, <2>5 DEF Bit, p, x, y
<1>10. new < 2 ^ Byte
  <2>1. w \div 2 ^ Byte = new \div 2 ^ Byte
    <3>1. Byte \in 0 .. Byte /\ Byte > k
      BY <1>1, SMT
    <3> QED
      BY <1>8, <3>1
  <2> DEFINE t == 2 ^ Byte
  <2>2. t \in Nat \ {0}
    BY <1>1
  <2>3. w \in 0 .. t - 1
    OBVIOUS
  <2> HIDE DEF t
  <2>4. w \div t = 0
    <3>1. w = 0 * t + w /\ w \in Int /\ 0 \in Int
      BY <1>1, <2>2, SMT
    <3> QED
      BY <2>2, <2>3, <3>1, Remainder
  <2>5. new \div t = 0
    BY <2>1, <2>4 DEF t
  <2> HIDE DEF new
  <2>6. new = t * (new \div t) + (new % t) /\ (new % t) < t /\ (new % t) \in Nat
    BY <1>6, <2>2, SMT
  <2> QED
    BY <1>6, <2>2, <2>5, <2>6, SMT DEF t
<1> HIDE DEF new
<1>11. new \in 0 .. 2 ^ Byte - 1
  BY <1>1, <1>6, <1>10, SMT
<1>12. ASSUME NEW n \in 0 .. Byte - 1, n # k PROVE Bit(new, n) = Bit(w, n)
  <2>1. n < k \/ (n > k /\ n \in 0 .. Byte)
    BY <1>1, <1>12, SMT
  <2> QED
    BY <1>8, <1>9, <2>1 DEF Bit
<1> QED
  BY <1>3, <1>4, <1>6, <1>7, <1>11, <1>12


(* Half-words and their bytes.                                               *)
LEMMA HalfAndBytes ==
  /\ 2 ^ Byte \in Nat \ {0} /\ 2 ^ Half \in Nat \ {0} /\ 2 ^ Half = 2 ^ Byte * 2 ^ Byte
  /\ Half \in 1 .. Width /\ Half - 1 \in 0 .. Width /\ 2 ^ (Half - 1) \in Nat \ {0}
  /\ 2 ^ Half = 2 * 2 ^ (Half - 1)
<1>1. /\ Byte \in Nat \ {0} /\ Byte <= Width /\ Half = Byte + Byte /\ Width = Half + Half
      /\ 2 ^ Byte \in Nat \ {0}
  BY PowersOfByte
<1>2. Half \in 1 .. Width /\ Half - 1 \in 0 .. Width /\ Byte \in 0 .. Width /\ Byte + Byte <= Width
      /\ 1 \in 0 .. Width /\ Half \in 0 .. Width
  BY <1>1, SMT
<1>3. 2 ^ (Byte + Byte) = 2 ^ Byte * 2 ^ Byte
  BY <1>2, WordPowers
<1> DEFINE j == Half - 1
<1>4. j \in 0 .. Width /\ 1 + j = Half /\ 1 + j <= Width
  BY <1>2, SMT
<1> HIDE DEF j
<1>5. 2 ^ (1 + j) = 2 ^ 1 * 2 ^ j /\ 2 ^ j \in Nat \ {0} /\ 2 ^ Half \in Nat \ {0}
  BY <1>2, <1>4, WordPowers
<1>6. 2 ^ 1 = 2
  BY SMT
<1> QED
  BY <1>1, <1>2, <1>3, <1>4, <1>5, <1>6 DEF j

(* A datum by its exponent and its fraction.                                 *)
LEMMA DatumParts ==
  ASSUME NEW E \in Nat \ {0}, NEW F \in Nat \ {0}, NEW b \in Int
  PROVE  LET x == (b \div F) % E
             y == b % F
         IN /\ x \in 0 .. E - 1 /\ y \in 0 .. F - 1
            /\ b % (E * F) = x * F + y
            /\ (b % (E * F)) \div F = x
<1> DEFINE q == b \div F
           y == b % F
           p == q \div E
           x == q % E
<1>1. q \in Int /\ y \in 0 .. F - 1 /\ b = q * F + y
  BY SMT
<1> HIDE DEF q
<1>2. p \in Int /\ x \in 0 .. E - 1 /\ q = p * E + x
  BY <1>1, SMT
<1> HIDE DEF p, x, y
<1> DEFINE t == E * F
           w == x * F + y
<1>3. t \in Nat \ {0} /\ w \in Int
  BY <1>1, <1>2, SMT
<1>4. 0 <= w /\ w < t
  <2>1. x * F >= 0 /\ x * F <= (E - 1) * F /\ x * F \in Int
    BY <1>2, SMT
  <2>2. (E - 1) * F = E * F - F
    BY SMT
  <2> QED
    BY <1>1, <2>1, <2>2, SMT
<1>5. b = p * t + w
  <2>1. (p * E + x) * F = (p * E) * F + x * F
    BY <1>2, SMT
  <2>2. (p * E) * F = p * (E * F)
    BY <1>2, SMT
  <2>3. (p * E) * F \in Int /\ x * F \in Int
    BY <1>2, SMT
  <2> QED
    BY <1>1, <1>2, <2>1, <2>2, <2>3, SMT
<1> HIDE DEF t, w
<1>6. b % t = w
  BY <1>2, <1>3, <1>4, <1>5, Remainder
<1>7. w \div F = x
  BY <1>1, <1>2, <1>3, Remainder DEF w
<1> QED
  BY <1>1, <1>2, <1>6, <1>7 DEF t, w, q, x, y


(* The sizes of both formats: of the exponent, of the fraction and of both.  *)
LEMMA FormatSizes ==
  ASSUME NEW f \in {Single, Double}
  PROVE  /\ 2 ^ f.exp \in Nat \ {0} /\ 2 ^ f.frac \in Nat \ {0}
         /\ Host!SignOf(f) = 2 ^ f.exp * 2 ^ f.frac
         /\ 2 ^ (f.exp - 1) \in Nat \ {0} /\ 2 ^ f.exp = 2 * 2 ^ (f.exp - 1)
         /\ Host!LastPlace(f) \in Int
<1> DEFINE m == f.exp
           n == f.frac
<1>1. /\ m \in 2 .. 2 * Width /\ n \in 1 .. 2 * Width /\ m + n <= 2 * Width
  <2>1. Single.exp = SingleExp /\ Single.frac = 1 * Width - 1 - SingleExp
    BY DEF Single, Format
  <2>2. Double.exp = DoubleExp /\ Double.frac = 2 * Width - 1 - DoubleExp
    BY DEF Double, Format
  <2>3. Width \in Nat
    BY CoreAssumption
  <2>4. CASE f = Single
    BY <2>1, <2>3, <2>4, FloatAssumption, SMT
  <2>5. CASE f = Double
    BY <2>2, <2>3, <2>5, FloatAssumption, SMT
  <2> QED
    BY <2>4, <2>5
<1> HIDE DEF m, n
<1>2. Width \in Nat
  BY CoreAssumption
<1> DEFINE j == m - 1
<1>0. Digits \in Nat /\ 2 * Width <= Digits
  BY <1>2, FloatAssumption, SMT DEF Digits
<1>3. /\ m \in 0 .. Digits /\ n \in 0 .. Digits /\ j \in 0 .. Digits /\ 1 \in 0 .. Digits
      /\ 1 + j = m /\ 1 + j <= Digits /\ m + n <= Digits
  BY <1>1, <1>2, <1>0, SMT
<1> HIDE DEF j
<1>4. 2 ^ m \in Nat \ {0} /\ 2 ^ n \in Nat \ {0} /\ 2 ^ j \in Nat \ {0} /\ 2 ^ (m + n) = 2 ^ m * 2 ^ n
      /\ 2 ^ (1 + j) = 2 ^ 1 * 2 ^ j
  BY <1>1, <1>3, PowersAssumption
<1>5. 2 ^ 1 = 2
  BY SMT
<1>6. 2 - 2 ^ j - n \in Int
  BY <1>1, <1>4, SMT
<1> QED
  BY <1>3, <1>4, <1>5, <1>6 DEF Host!SignOf, Host!LastPlace, m, n, j

(* The parts of a datum, and what they say of it.                            *)
LEMMA PartsOf ==
  ASSUME NEW f \in {Single, Double}, NEW b \in Int
  PROVE  LET E == 2 ^ f.exp
             F == 2 ^ f.frac
             x == (b \div F) % E
             y == b % F
         IN /\ E \in Nat \ {0} /\ F \in Nat \ {0}
            /\ x \in 0 .. E - 1 /\ y \in 0 .. F - 1
            /\ Host!Magnitude(f, b) = x * F + y
            /\ Host!NaN(f, b) <=> x = E - 1 /\ y # 0
            /\ Host!Value(f, b).neg = Host!Minus(f, b)
            /\ Host!Value(f, b).m = IF x = 0 THEN y ELSE y + F
            /\ Host!Value(f, b).e = Host!LastPlace(f) + (IF x > 1 THEN x ELSE 1) - 1
<1> DEFINE E == 2 ^ f.exp
           F == 2 ^ f.frac
           x == (b \div F) % E
           y == b % F
<1>1. E \in Nat \ {0} /\ F \in Nat \ {0} /\ Host!SignOf(f) = E * F
  BY FormatSizes
<1>2. Host!Magnitude(f, b) = b % (E * F) /\ Host!InfBits(f) = (E - 1) * F
  BY <1>1 DEF Host!Magnitude, Host!InfBits
<1> HIDE DEF E, F
<1>3. x \in 0 .. E - 1 /\ y \in 0 .. F - 1 /\ b % (E * F) = x * F + y /\ (b % (E * F)) \div F = x
  BY <1>1, DatumParts
<1>4. x * F + y > (E - 1) * F <=> x = E - 1 /\ y # 0
  <2> HIDE DEF x, y
  <2>1. x < E - 1 => x * F <= (E - 2) * F
    BY <1>1, <1>3, SMT
  <2>2. (E - 2) * F = (E - 1) * F - F /\ x * F \in Int /\ (E - 1) * F \in Int
    BY <1>1, <1>3, SMT
  <2>3. x = E - 1 => x * F = (E - 1) * F
    OBVIOUS
  <2> QED
    BY <1>1, <1>3, <2>1, <2>2, <2>3, SMT
<1>5. Host!NaN(f, b) <=> x = E - 1 /\ y # 0
  BY <1>2, <1>3, <1>4 DEF Host!NaN
<1>6. /\ Host!Value(f, b).neg = Host!Minus(f, b)
      /\ Host!Value(f, b).m = IF x = 0 THEN y ELSE y + F
      /\ Host!Value(f, b).e = Host!LastPlace(f) + Host!Greatest(x, 1) - 1
  <2>1. Host!Magnitude(f, b) \div 2 ^ f.frac = x
    BY <1>2, <1>3 DEF F
  <2>2. b % 2 ^ f.frac = y /\ 2 ^ f.frac = F
    BY DEF F
  <2> HIDE DEF x, y
  <2> QED
    BY <2>1, <2>2, Zenon DEF Host!Value
<1> QED
  BY <1>1, <1>2, <1>3, <1>5, <1>6 DEF Host!Greatest, E, F

(* A word has Width bits.                                                    *)
LEMMA WholeWord == Modulus = 2 ^ Width
<1>1. Width \in Nat /\ Width \in 0 .. Width /\ Width - Width = 0
  BY CoreAssumption, SMT
<1>2. Modulus = 2 ^ Width * 2 ^ (Width - Width) /\ 2 ^ Width \in Nat
  BY <1>1, Parts
<1>3. 2 ^ 0 = 1
  BY SMT
<1> QED
  BY <1>1, <1>2, <1>3, SMT

----------------------------------------------------------------------------
(* Every step leaves every variable with its type.                           *)

(* What the instructions rely on of registers, flags and memory.             *)
Bytes == 0 .. 2 ^ Byte - 1

CoreTyped ==
  /\ pc \in Words
  /\ r \in [Regs -> Words] /\ r[0] = 0
  /\ psw \in SUBSET Flags
  /\ mem \in [DOMAIN mem -> Bytes]
  /\ running \in BOOLEAN

(* What a step makes of them; the addresses that memory serves are the same. *)
CoreNext ==
  /\ pc' \in Words
  /\ r' \in [Regs -> Words] /\ r'[0] = 0
  /\ psw' \in SUBSET Flags
  /\ mem' \in [DOMAIN mem -> Bytes]
  /\ running' \in BOOLEAN

(* The sizes of words and their parts.                                       *)
LEMMA WordSizes ==
  /\ Width \in Nat /\ Half \in 1 .. Width /\ Byte \in 1 .. Width
  /\ Half = 2 * Byte /\ Width = 2 * Half /\ Half - 1 \in 0 .. Width
  /\ RegNum \in Nat /\ 0 \in Regs /\ SP \in Regs /\ EP \in Regs /\ SP # 0 /\ EP # 0
<1>1. Width \in Nat /\ Width % 4 = 0 /\ EpBits \in 1 .. Width /\ EpBits > 3
  BY CoreAssumption
<1>2. Half = Width \div 2 /\ Byte = Width \div 4
  BY DEF Half, Byte
<1>3. RegNum \in Nat \ {0} /\ {SP, EP} \subseteq (0 .. RegNum - 1) \ {0}
  BY CoreAssumption DEF Regs
<1>4. /\ Half \in 1 .. Width /\ Byte \in 1 .. Width
      /\ Half = 2 * Byte /\ Width = 2 * Half /\ Half - 1 \in 0 .. Width
  BY <1>1, <1>2, SMT
<1>5. 0 \in Regs /\ SP \in Regs /\ EP \in Regs /\ SP # 0 /\ EP # 0
  BY <1>3, SMT DEF Regs
<1> QED
  BY <1>1, <1>3, <1>4, <1>5

(* Zero, one and what the flags are made of.                                 *)
LEMMA SmallestWords == {0, 1} \subseteq Words
<1>1. SignBit \in Nat \ {0}
  BY AluAssumption
<1> QED
  BY <1>1, SMT DEF Words, Modulus

(* Flags that are set are flags.                                             *)
LEMMA UpdateIsFlags == ASSUME NEW flags, NEW changes PROVE Update(flags, changes) \in SUBSET Flags
BY Zenon DEF Update

(* The low bits of a number, and the number they extend to.                  *)
LEMMA LowIsNat ==
  ASSUME NEW bits \in 0 .. Width, NEW n \in Int
  PROVE  Low(bits, n) \in 0 .. 2 ^ bits - 1 /\ 2 ^ bits \in Nat \ {0}
<1>1. bits \in 0 .. Width /\ 2 ^ bits \in Nat \ {0}
  BY WordPowers
<1> DEFINE p == 2 ^ bits
<1>2. p \in Nat \ {0}
  BY <1>1
<1> HIDE DEF p
<1>3. n % p \in 0 .. p - 1
  BY <1>2, SMT
<1> QED
  BY <1>1, <1>3 DEF Low, p

(* Extended with its sign it is an integer.                                  *)
LEMMA ExtendIsInt ==
  ASSUME NEW bits \in 0 .. Width, NEW n \in Int
  PROVE  Extend(bits, n) \in Int
<1>1. Low(bits, n) \in Int /\ 2 ^ bits \in Int
  BY LowIsNat, SMT
<1> QED
  BY <1>1, SMT DEF Extend

(* A register that is written stays a word.                                  *)
LEMMA RegIsWritten ==
  ASSUME NEW f \in [Regs -> Words], NEW d, NEW w \in Words
  PROVE  [f EXCEPT ![d] = w] \in [Regs -> Words]
OBVIOUS

(* So is register 0 when it is cleared.                                      *)
LEMMA ZeroIsWritten ==
  ASSUME NEW f \in [Regs -> Words]
  PROVE  [f EXCEPT ![0] = 0] \in [Regs -> Words] /\ [f EXCEPT ![0] = 0][0] = 0
<1>1. 0 \in Regs /\ 0 \in Words
  BY WordSizes, SmallestWords
<1> QED
  BY <1>1

(* Going to an address keeps the program counter a word.                     *)
LEMMA GotoTyped ==
  ASSUME CoreTyped, NEW a \in Int
  PROVE  /\ Proceed(a) => pc' \in Words /\ running' \in BOOLEAN
         /\ MovesTo(a) => pc' \in Words /\ running' \in BOOLEAN
         /\ Goto(a) => pc' \in Words /\ running' \in BOOLEAN /\ mem' = mem
<1>1. Proceed(a) => pc' \in Words /\ running' \in BOOLEAN
  <2>1. Word(a) \in Words
    BY WordIsWord
  <2> QED
    BY <2>1, Zenon DEF Proceed, CoreTyped
<1> QED
  BY <1>1, Zenon DEF MovesTo, Goto

(* Stopping leaves all as it is.                                             *)
LEMMA StopTyped == ASSUME CoreTyped, Stop PROVE CoreNext
BY Zenon DEF CoreTyped, Stop, CoreNext

(* A result that is a word.                                                  *)
LEMMA ResultTyped ==
  ASSUME CoreTyped, NEW d, NEW w \in Words, NEW changes, NEW size \in Int, Result(d, w, changes, size)
  PROVE  CoreNext
<1>1. r' = [[r EXCEPT ![d] = w] EXCEPT ![0] = 0]
  BY Zenon DEF Result
<1>2. r \in [Regs -> Words] /\ pc + size \in Int
  BY Sizes, SMT DEF CoreTyped
<1>3. r' \in [Regs -> Words] /\ r'[0] = 0
  BY <1>1, <1>2, RegIsWritten, ZeroIsWritten
<1>4. psw' \in SUBSET Flags
  BY UpdateIsFlags DEF Result
<1>5. Goto(pc + size)
  BY DEF Result, Advance
<1>6. pc' \in Words /\ running' \in BOOLEAN /\ mem' = mem
  BY <1>2, <1>5, GotoTyped
<1> QED
  BY <1>3, <1>4, <1>6, Zenon DEF CoreTyped, CoreNext

(* The same without flags.                                                   *)
LEMMA MoveTyped ==
  ASSUME CoreTyped, NEW d, NEW w \in Words, NEW size \in Int, Move(d, w, size)
  PROVE  CoreNext
BY ResultTyped DEF Move

(* Registers that stay.                                                      *)
LEMMA StaysTyped ==
  ASSUME CoreTyped, NEW a \in Int, Goto(a), r' = r, psw' \in SUBSET Flags
  PROVE  CoreNext
<1>1. pc' \in Words /\ running' \in BOOLEAN /\ mem' = mem
  BY GotoTyped
<1> QED
  BY <1>1, Zenon DEF CoreTyped, CoreNext

(* The operands of an instruction.                                           *)
LEMMA OperandsTyped ==
  ASSUME CoreTyped, IsDecoded(ins)
  PROVE  /\ R1 \in Words /\ R2 \in Words /\ R1 \in Int /\ R2 \in Int
         /\ ins.op \notin {"cmpf_s", "cmpf_d"} => R3 \in Words
         /\ Signed(R1) \in Int /\ Signed(R2) \in Int
         /\ ins.imm \in Int /\ ShortImm \in Int /\ HalfImm \in Int
         /\ CondBit \in {0, 1} /\ pc \in Int
<1>1. /\ ins.reg1 \in Regs /\ ins.reg2 \in Regs
      /\ ins.op \notin {"cmpf_s", "cmpf_d"} => ins.reg3 \in Regs
      /\ ins.imm \in Int
  BY Zenon DEF IsDecoded
<1>2. /\ R1 \in Words /\ R2 \in Words
      /\ ins.op \notin {"cmpf_s", "cmpf_d"} => R3 \in Words
      /\ pc \in Words
  BY <1>1, Zenon DEF CoreTyped, R1, R2, R3
<1>3. \A w \in Words : w \in Int /\ Signed(w) \in Int
  BY Sizes, SignedIsInt, SMT
<1>4. ShortBits \in 0 .. Width /\ Half \in 0 .. Width
  BY CoreAssumption, WordSizes, SMT
<1>5. ShortImm \in Int /\ HalfImm \in Int
  BY <1>1, <1>4, ExtendIsInt DEF ShortImm, HalfImm
<1>6. CondBit \in {0, 1}
  BY Zenon DEF CondBit
<1> QED
  BY <1>1, <1>2, <1>3, <1>5, <1>6

(* Sums and differences of words.                                            *)
LEMMA SumTyped ==
  ASSUME CoreTyped, NEW d, NEW a \in Int, NEW b \in Int, NEW c \in Int, NEW size \in Int,
         Sum(d, a, b, c, size) \/ Difference(d, a, b, c, size)
  PROVE  CoreNext
<1>1. Word(a + b + c) \in Words /\ Word(a - b - c) \in Words
  BY WordIsWord
<1> QED
  BY <1>1, ResultTyped DEF Sum, Difference

(* A product in a pair of registers.                                         *)
LEMMA PairTyped ==
  ASSUME CoreTyped, NEW low, NEW high, NEW n \in Int, Pair(low, high, n)
  PROVE  CoreNext
<1> DEFINE one == [r EXCEPT ![low] = Word(n)]
           two == [one EXCEPT ![high] = Word(n \div Modulus)]
<1>1. n \div Modulus \in Int
  BY Sizes, SMT
<1>2. Word(n) \in Words /\ Word(n \div Modulus) \in Words
  BY <1>1, WordIsWord
<1>3. r \in [Regs -> Words] /\ pc + 4 \in Int
  BY Sizes, SMT DEF CoreTyped
<1>4. one \in [Regs -> Words]
  BY <1>2, <1>3, RegIsWritten
<1>5. r' = [two EXCEPT ![0] = 0]
  BY Zenon DEF Pair
<1> HIDE DEF one
<1>6. two \in [Regs -> Words]
  BY <1>2, <1>4, RegIsWritten
<1> HIDE DEF two
<1>7. r' \in [Regs -> Words] /\ r'[0] = 0
  BY <1>5, <1>6, ZeroIsWritten
<1>8. Goto(pc + 4) /\ psw' = psw
  BY DEF Pair, Advance
<1>9. pc' \in Words /\ running' \in BOOLEAN /\ mem' = mem
  BY <1>3, <1>8, GotoTyped
<1> QED
  BY <1>7, <1>8, <1>9, Zenon DEF CoreTyped, CoreNext

(* The register after an even one exists.                                    *)
LEMMA PairExists ==
  ASSUME NEW n \in Regs, n % 2 = 0
  PROVE  n + 1 \in Regs
<1>1. RegNum \in Nat /\ RegNum % 2 = 0
  BY CoreAssumption
<1> QED
  BY <1>1, SMT DEF Regs

(* Arithmetic keeps the types.                                               *)
LEMMA ArithmeticTyped ==
  ASSUME CoreTyped, IsDecoded(ins), Arithmetic
  PROVE  CoreNext
<1>1. /\ R1 \in Words /\ R2 \in Words /\ R1 \in Int /\ R2 \in Int
      /\ Signed(R1) \in Int /\ Signed(R2) \in Int
      /\ ins.imm \in Int /\ ShortImm \in Int /\ HalfImm \in Int
      /\ CondBit \in Int
  BY OperandsTyped
<1>2. Word(ShortImm) \in Words /\ Word(HalfImm) \in Words /\ Word(ins.imm) \in Words
      /\ Word(R1 + HalfImm) \in Words /\ Word(2 * R2 + CondBit) \in Words
  BY <1>1, WordIsWord
<1>3. Word(ShortImm) \in Int /\ Word(HalfImm) \in Int
  BY <1>2, Sizes
<1>4. 0 \in Words /\ 1 \in Words /\ 0 \in Int /\ 2 \in Int /\ 4 \in Int /\ 6 \in Int
  BY SmallestWords
<1>5. ASSUME NEW d, NEW a \in Int, NEW b \in Int, NEW c \in Int, NEW size \in Int,
             Sum(d, a, b, c, size) \/ Difference(d, a, b, c, size)
      PROVE  CoreNext
  BY <1>5, SumTyped
<1>6. Add_1 \/ Add_2 \/ Addi \/ Adf => CoreNext
  BY <1>1, <1>3, <1>4, <1>5, Zenon DEF Add_1, Add_2, Addi, Adf
<1>7. Sub \/ Subr \/ Cmp_1 \/ Cmp_2 \/ Sbf => CoreNext
  BY <1>1, <1>3, <1>4, <1>5, Zenon DEF Sub, Subr, Cmp_1, Cmp_2, Sbf
<1>8. ASSUME NEW d, NEW w \in Words, NEW size \in Int, Move(d, w, size) PROVE CoreNext
  BY <1>8, MoveTyped
<1>9. 2 ^ Half \in Int /\ HalfImm * 2 ^ Half \in Int
  <2>1. 2 ^ Half \in Int
    BY WordSizes, WordPowers
  <2> QED
    BY <1>1, <2>1, SMT
<1>10. Word(R1 + HalfImm * 2 ^ Half) \in Words
  BY <1>1, <1>9, WordIsWord
<1>11. (IF SetCondHolds THEN 1 ELSE 0) \in Words /\ (IF SetCondHolds THEN R1 ELSE R2) \in Words
       /\ (IF SetCondHolds THEN Word(ShortImm) ELSE R2) \in Words
  BY <1>1, <1>2, <1>4, Zenon
<1>12. Mov_1 \/ Mov_2 \/ Mov_6 \/ Movea \/ Movhi => CoreNext
  BY <1>1, <1>2, <1>4, <1>8, <1>10, Zenon DEF Mov_1, Mov_2, Mov_6, Movea, Movhi
<1>13. Setf \/ Sasf \/ Cmov_11 \/ Cmov_12 => CoreNext
  BY <1>2, <1>4, <1>8, <1>11, Zenon DEF Setf, Sasf, Cmov_11, Cmov_12
<1>14. Mulh_1 \/ Mulh_2 \/ Mulhi => CoreNext
  <2>1. Extend(Half, R1) \in Int /\ Extend(Half, R2) \in Int
    BY <1>1, WordSizes, ExtendIsInt, SMT
  <2>2. /\ Extend(Half, R1) * Extend(Half, R2) \in Int
        /\ ShortImm * Extend(Half, R2) \in Int
        /\ Signed(R1) * HalfImm \in Int
    BY <1>1, <2>1, SMT
  <2>3. /\ Word(Extend(Half, R1) * Extend(Half, R2)) \in Words
        /\ Word(ShortImm * Extend(Half, R2)) \in Words
        /\ Word(Signed(R1) * HalfImm) \in Words
    BY <2>2, WordIsWord
  <2> QED
    BY <1>4, <1>8, <2>3, Zenon DEF Mulh_1, Mulh_2, Mulhi
<1>15. ASSUME NEW low, NEW high, NEW n \in Int, Pair(low, high, n) PROVE CoreNext
  BY <1>15, PairTyped
<1>16. Mul \/ Mulu \/ Mul_12 \/ Mulu_12 => CoreNext
  <2>1. MulBits \in 0 .. Width
    BY CoreAssumption, SMT
  <2>2. Extend(MulBits, ins.imm) \in Int /\ Low(MulBits, ins.imm) \in Int
    BY <1>1, <2>1, ExtendIsInt, LowIsNat, SMT
  <2>3. /\ Signed(R1) * Signed(R2) \in Int /\ R1 * R2 \in Int
        /\ Signed(R2) * Extend(MulBits, ins.imm) \in Int /\ R2 * Low(MulBits, ins.imm) \in Int
    BY <1>1, <2>2, SMT
  <2> QED
    BY <1>15, <2>3, Zenon DEF Mul, Mulu, Mul_12, Mulu_12
<1>17. Mac \/ Macu => CoreNext
  <2>1. SUFFICES ASSUME Mac \/ Macu PROVE CoreNext
    OBVIOUS
  <2>2. ins.op \in {"mac", "macu"} /\ ins.reg3 % 2 = 0
    BY <2>1 DEF Mac, Macu, Executes
  <2>3. ins.reg3 \in Regs
    BY <2>2, SMT DEF IsDecoded
  <2>4. ins.reg3 + 1 \in Regs
    BY <2>2, <2>3, PairExists
  <2>5. R3 \in Words /\ r[ins.reg3 + 1] \in Words
    BY <2>3, <2>4, Zenon DEF CoreTyped, R3
  <2>6. R3 \in Int /\ r[ins.reg3 + 1] \in Int /\ Signed(R3) \in Int /\ Signed(r[ins.reg3 + 1]) \in Int
    <3>1. \A w \in Words : w \in Int /\ Signed(w) \in Int
      BY Sizes, SignedIsInt
    <3> QED
      BY <2>5, <3>1, Zenon
  <2>7. Modulus \in Int /\ Joined(R3, r[ins.reg3 + 1]) \in Int
    BY <2>6, Sizes, SMT DEF Joined
  <2>8. /\ Signed(R1) * Signed(R2) + Joined(R3, r[ins.reg3 + 1]) \in Int
        /\ R1 * R2 + r[ins.reg3 + 1] * Modulus + R3 \in Int
    BY <1>1, <2>6, <2>7, SMT
  <2> QED
    BY <1>15, <2>1, <2>8, Zenon DEF Mac, Macu
<1>18. OddPair => CoreNext
  BY StopTyped, Zenon DEF OddPair
<1> QED
  BY <1>6, <1>7, <1>12, <1>13, <1>14, <1>16, <1>17, <1>18, Zenon DEF Arithmetic

(* A quotient of the host is an integer, also of nothing.                    *)
LEMMA QuotientIsInt == ASSUME NEW n \in Int, NEW d \in Int PROVE Quotient(n, d) \in Int
<1>1. CASE d = 0
  BY <1>1, SMT DEF Quotient
<1>2. CASE d # 0
  BY <1>2, QuotientRounds
<1> QED
  BY <1>1, <1>2

(* A quotient and what remains.                                              *)
LEMMA DivideTyped ==
  ASSUME CoreTyped, NEW n \in Int, NEW d \in Int, NEW ov, NEW rests, NEW size \in Int,
         Divide(n, d, ov, rests, size)
  PROVE  CoreNext
<1> DEFINE quotient == Word(Quotient(n, d))
           rest     == Word(n - d * Quotient(n, d))
<1>1. Quotient(n, d) \in Int
  BY QuotientIsInt
<1>2. n - d * Quotient(n, d) \in Int
  BY <1>1, SMT
<1>3. quotient \in Words /\ rest \in Words
  BY <1>1, <1>2, WordIsWord
<1>4. /\ r' = [k \in Regs |-> IF k = 0 THEN 0
                              ELSE IF k \in rests THEN rest
                              ELSE IF k = ins.reg2 THEN quotient ELSE r[k]]
      /\ psw' \in SUBSET Flags
      /\ Goto(pc + size)
  BY UpdateIsFlags, Zenon DEF Divide, Advance
<1> HIDE DEF quotient, rest
<1>5. r' \in [Regs -> Words] /\ r'[0] = 0
  <2>1. 0 \in Words /\ 0 \in Regs
    BY SmallestWords, WordSizes
  <2>2. r \in [Regs -> Words]
    BY DEF CoreTyped
  <2> QED
    BY <1>3, <1>4, <2>1, <2>2, Zenon
<1>6. pc + size \in Int
  BY Sizes, SMT DEF CoreTyped
<1>7. pc' \in Words /\ running' \in BOOLEAN /\ mem' = mem
  BY <1>4, <1>6, GotoTyped
<1> QED
  BY <1>4, <1>5, <1>7, Zenon DEF CoreTyped, CoreNext

(* Division keeps the types.                                                 *)
LEMMA DivisionTyped ==
  ASSUME CoreTyped, IsDecoded(ins), Division
  PROVE  CoreNext
<1>1. /\ R1 \in Words /\ R2 \in Words /\ R1 \in Int /\ R2 \in Int
      /\ Signed(R1) \in Int /\ Signed(R2) \in Int
  BY OperandsTyped
<1>2. 2 \in Int /\ 4 \in Int /\ Extend(Half, R1) \in Int /\ Low(Half, R1) \in Int
  BY <1>1, WordSizes, ExtendIsInt, LowIsNat, SMT
<1>3. ASSUME NEW size \in Int, ByZero(size) PROVE CoreNext
  BY <1>1, <1>3, ResultTyped DEF ByZero
<1>4. ASSUME NEW n \in Int, NEW d \in Int, NEW ov, NEW rests, NEW size \in Int,
             Divide(n, d, ov, rests, size)
      PROVE  CoreNext
  BY <1>4, DivideTyped
<1>5. Stop => CoreNext
  BY StopTyped
<1>6. ASSUME NEW n \in Int, NEW d \in Int, NEW ov, NEW rests, NEW size \in Int,
             SignedDivide(n, d, ov, rests, size)
      PROVE  CoreNext
  BY <1>3, <1>4, <1>5, <1>6, Zenon DEF SignedDivide, HostTraps
<1>7. Divh_1 \/ Divh_11 \/ Div => CoreNext
  BY <1>1, <1>2, <1>6, Zenon DEF Divh_1, Divh_11, Div
<1>8. Divhu \/ Divu => CoreNext
  BY <1>1, <1>2, <1>3, <1>4, <1>5, Zenon DEF Divhu, Divu
<1> QED
  BY <1>7, <1>8, Zenon DEF Division

(* Saturation keeps the types.                                               *)
LEMMA SaturationTyped ==
  ASSUME CoreTyped, IsDecoded(ins), Saturation
  PROVE  CoreNext
<1>1. /\ R1 \in Words /\ R2 \in Words
      /\ Signed(R1) \in Int /\ Signed(R2) \in Int /\ ShortImm \in Int /\ HalfImm \in Int
  BY OperandsTyped
<1>2. - Signed(R1) \in Int /\ - Signed(R2) \in Int /\ - HalfImm \in Int /\ 2 \in Int /\ 4 \in Int
  BY <1>1, SMT
<1>3. ASSUME NEW d, NEW w \in Words, NEW addend \in Int, NEW size \in Int, Saturate(d, w, addend, size)
      PROVE  CoreNext
  <2> DEFINE sum  == Signed(w) + addend
             ends == IF sum < 0 THEN - SignBit ELSE SignBit - 1
             n    == IF Overflows(sum) THEN ends ELSE sum
  <2>1. n \in Int
    BY SignedIsInt, AluAssumption, SMT
  <2>2. Word(n) \in Words
    BY <2>1, WordIsWord
  <2> QED
    BY <1>3, <2>2, ResultTyped DEF Saturate
<1> QED
  BY <1>1, <1>2, <1>3, Zenon DEF Saturation, Satadd_1, Satadd_2, Satadd_11, Satsub_1, Satsub_11,
     Satsubr_1, Satsubi

(* Shifts keep the types.                                                    *)
LEMMA ShiftsTyped ==
  ASSUME CoreTyped, IsDecoded(ins), Shifts
  PROVE  CoreNext
<1>1. R1 \in Int /\ R2 \in Words /\ ins.imm \in Int
  BY OperandsTyped
<1>2. ByImm \in 0 .. Width /\ ByR1 \in 0 .. Width
  <2>1. Width \in Nat \ {0}
    BY WordSizes, SMT
  <2> QED
    BY <1>1, <2>1, SMT DEF ByImm, ByR1
<1>3. ASSUME NEW k \in 0 .. Width
      PROVE  ShiftLeft(R2, k) \in Words /\ ShiftRight(R2, k) \in Words /\ ShiftArithmetic(R2, k) \in Words
  <2> DEFINE p == 2 ^ k
  <2>1. p \in Nat \ {0}
    BY WordPowers
  <2> HIDE DEF p
  <2>2. R2 \in 0 .. Modulus - 1 /\ Signed(R2) \in Int /\ Modulus \in Nat
    BY <1>1, SignedIsInt, Sizes DEF Words
  <2>3. R2 * p \in Int /\ Signed(R2) \div p \in Int /\ R2 \div p \in 0 .. Modulus - 1
    BY <2>1, <2>2, SMT
  <2> QED
    BY <2>3, WordIsWord DEF p, Words, ShiftLeft, ShiftRight, ShiftArithmetic
<1>4. ASSUME NEW d, NEW w \in Words, NEW cy, NEW size \in Int, Shift(d, w, cy, size) PROVE CoreNext
  BY <1>4, ResultTyped DEF Shift
<1>5. 2 \in Int /\ 4 \in Int
  OBVIOUS
<1> QED
  BY <1>2, <1>3, <1>4, <1>5, Zenon DEF Shifts, Shl_2, Shr_2, Sar_2, Shl_9, Shr_9, Sar_9, Shl_11, Shr_11, Sar_11

(* Of two powers of no more bits than a word has, the greater is a multiple  *)
(* of twice the smaller.                                                     *)
LEMMA PowersDivide ==
  ASSUME NEW n \in 0 .. Width, NEW k \in 0 .. Width, k < n
  PROVE  \E s \in Nat \ {0} : 2 ^ n = 2 ^ k * (2 * s)
<1> DEFINE j == n - k
           i == j - 1
<1>1. /\ j \in 0 .. Width /\ i \in 0 .. Width /\ 1 \in 0 .. Width
      /\ k + j = n /\ k + j <= Width /\ 1 + i = j /\ 1 + i <= Width
  BY WordSizes, SMT
<1> HIDE DEF i, j
<1>2. 2 ^ n = 2 ^ k * 2 ^ j /\ 2 ^ j = 2 ^ 1 * 2 ^ i /\ 2 ^ i \in Nat \ {0}
  BY <1>1, WordPowers
<1>3. 2 ^ 1 = 2
  BY SMT
<1> QED
  BY <1>2, <1>3

(* Every set of bits of a word is that of a word.                            *)
LEMMA BitsAreFound ==
  ASSUME NEW n \in 0 .. Width, NEW ks \in SUBSET (0 .. n - 1)
  PROVE  \E w \in 0 .. 2 ^ n - 1 : Bits(w) = ks
<1> DEFINE AllMade(m) == \A s \in SUBSET (0 .. m - 1) : \E w \in 0 .. 2 ^ m - 1 : Bits(w) = s
           Failing   == {m \in Nat : m <= Width /\ ~ AllMade(m)}
<1>1. Width \in Nat
  BY WordSizes
<1>2. SUFFICES ASSUME Failing # {} PROVE FALSE
  <2>1. n \in Nat /\ n <= Width
    BY <1>1, SMT
  <2>2. n \notin Failing => AllMade(n)
    BY <2>1
  <2>3. Failing = {} => AllMade(n)
    BY <2>2
  <2> HIDE DEF Failing
  <2> QED
    BY <2>3
<1>3. PICK m \in Failing : \A y \in Failing : m <= y
  <2>1. Failing \in SUBSET Nat
    OBVIOUS
  <2> HIDE DEF Failing
  <2> QED
    BY <1>2, <2>1, HasLeast
<1>4. m \in Nat /\ m <= Width /\ ~ AllMade(m)
  OBVIOUS
<1>5. m # 0
  <2>1. AllMade(0)
    <3> SUFFICES ASSUME NEW s \in SUBSET (0 .. 0 - 1) PROVE \E w \in 0 .. 2 ^ 0 - 1 : Bits(w) = s
      OBVIOUS
    <3>1. s = {} /\ 2 ^ 0 = 1
      BY SMT
    <3>2. ASSUME NEW k \in 0 .. Width - 1 PROVE Bit(0, k) # 1
      <4>1. 2 ^ k \in Nat \ {0}
        BY <1>1, WordPowers, SMT
      <4> DEFINE p == 2 ^ k
      <4>2. p \in Nat \ {0}
        BY <4>1
      <4> HIDE DEF p
      <4>3. (0 \div p) % 2 = 0
        BY <4>2, SMT
      <4> QED
        BY <4>3 DEF Bit, p
    <3>3. Bits(0) = {}
      BY <3>2, Zenon DEF Bits
    <3>4. 0 \in 0 .. 2 ^ 0 - 1
      BY <3>1, SMT
    <3> QED
      BY <3>1, <3>3, <3>4
  <2> QED
    BY <1>4, <2>1
<1> DEFINE j == m - 1
<1>6. j \in Nat /\ j <= Width /\ j < m /\ j + 1 = m /\ j \in 0 .. Width /\ m \in 0 .. Width /\ j \in 0 .. Width - 1
  BY <1>1, <1>4, <1>5, SMT
<1>7. AllMade(j)
  <2>1. j \notin Failing
    <3>1. ~ (m <= j)
      BY <1>4, <1>6, SMT
    <3> QED
      BY <1>3, <3>1
  <2> QED
    BY <1>6, <2>1
<1>8. PICK ls \in SUBSET (0 .. m - 1) : \A w \in 0 .. 2 ^ m - 1 : Bits(w) # ls
  BY <1>4
<1> HIDE DEF Failing
<1> DEFINE rest == ls \ {j}
           v    == IF j \in ls THEN 1 ELSE 0
<1>9. rest \in SUBSET (0 .. j - 1)
  BY <1>4, <1>6, SMT
<1>10. PICK l \in 0 .. 2 ^ j - 1 : Bits(l) = rest
  BY <1>7, <1>9
<1> HIDE DEF AllMade
<1> DEFINE q == 2 ^ j
           w == v * q + l
<1>11. q \in Nat \ {0} /\ 2 ^ m = 2 * q
  <2>1. 1 \in 0 .. Width /\ j + 1 <= Width
    BY <1>1, <1>4, <1>6, SMT
  <2>2. 2 ^ (j + 1) = 2 ^ j * 2 ^ 1 /\ 2 ^ j \in Nat \ {0}
    BY <1>6, <2>1, WordPowers
  <2>3. 2 ^ 1 = 2
    BY SMT
  <2>4. 2 ^ m = q * 2 /\ q \in Nat \ {0}
    BY <1>6, <2>2, <2>3
  <2> HIDE DEF q
  <2> QED
    BY <2>4, SMT
<1>12. l \in 0 .. q - 1 /\ v \in 0 .. 1
  BY <1>10, SMT
<1>13. w \in 0 .. 2 ^ m - 1
  <2> HIDE DEF q, v
  <2> QED
    BY <1>11, <1>12, SMT
<1>14. ASSUME NEW k \in 0 .. Width - 1 PROVE Bit(w, k) = 1 <=> k \in ls
  <2> DEFINE p == 2 ^ k
  <2>0. k \in 0 .. Width /\ p \in Nat \ {0}
    BY <1>1, WordPowers, SMT
  <2>1. CASE k < j
    <3>1. PICK s \in Nat \ {0} : q = p * (2 * s)
      BY <1>6, <2>0, <2>1, PowersDivide
    <3> HIDE DEF p, q, v
    <3>2. v \in Int
      BY <1>12, SMT
    <3>3. ((v * q + l) \div p) % 2 = (l \div p) % 2
      BY <1>12, <2>0, <3>1, <3>2, BitBelow
    <3>4. Bit(w, k) = Bit(l, k)
      BY <3>3 DEF Bit, p
    <3>5. Bit(l, k) = 1 <=> k \in rest
      BY <1>10, Zenon DEF Bits
    <3>6. k # j
      BY <1>6, <2>1, SMT
    <3> QED
      BY <3>4, <3>5, <3>6
  <2>2. CASE k = j
    <3> HIDE DEF v
    <3>1. v \in Int /\ q \in Nat \ {0} /\ w = v * q + l /\ w \in Int
      <4> HIDE DEF q
      <4> QED
        BY <1>11, <1>12, SMT
    <3> HIDE DEF q, w
    <3>2. w \div q = v
      BY <1>12, <3>1, Remainder
    <3>3. v % 2 = v
      BY <1>12, SMT
    <3>4. Bit(w, k) = v
      BY <2>2, <3>2, <3>3 DEF Bit, q
    <3> QED
      BY <2>2, <3>4 DEF v
  <2>3. CASE k > j
    <3>1. k \notin ls
      BY <1>4, <1>6, <2>3, SMT
    <3>2. m \in 0 .. k
      BY <1>4, <1>6, <2>3, SMT
    <3>3. 2 ^ m <= p
      BY <2>0, <3>2, PowersGrow
    <3> HIDE DEF p, w
    <3>4. w \in 0 .. p - 1
      <4>1. 2 ^ m \in Int
        BY <1>6, WordPowers
      <4> QED
        BY <1>13, <2>0, <3>3, <4>1, SMT
    <3>5. w \div p = 0
      <4>1. w \in Int /\ 0 \in Int /\ w = 0 * p + w
        BY <2>0, <3>4, SMT
      <4> QED
        BY <2>0, <3>4, <4>1, Remainder
    <3>6. Bit(w, k) = 0
      BY <3>5, SMT DEF Bit, p
    <3> QED
      BY <3>1, <3>6
  <2> HIDE DEF w, v, q, p
  <2>4. k < j \/ k = j \/ k > j
    BY <1>6, SMT
  <2> QED
    BY <2>1, <2>2, <2>3, <2>4
<1> HIDE DEF w
<1>15. Bits(w) = ls
  <2>1. ls \subseteq 0 .. Width - 1
    BY <1>1, <1>4, SMT
  <2> QED
    BY <1>14, <2>1, Zenon DEF Bits
<1> QED
  BY <1>8, <1>13, <1>15

(* So what is made of bits is a word.                                        *)
LEMMA OfBitsIsWord ==
  ASSUME NEW ks \in SUBSET (0 .. Width - 1)
  PROVE  OfBits(ks) \in Words
<1>1. Width \in 0 .. Width
  BY WordSizes, SMT
<1>2. \E w \in 0 .. 2 ^ Width - 1 : Bits(w) = ks
  BY <1>1, BitsAreFound
<1>3. \E w \in Words : Bits(w) = ks
  BY <1>2, WholeWord DEF Words
<1> QED
  BY <1>3, Zenon DEF OfBits

(* What has no more bits than a word is one.                                 *)
LEMMA LowIsWord ==
  ASSUME NEW bits \in 0 .. Width
  PROVE  0 .. 2 ^ bits - 1 \subseteq Words
<1>1. 2 ^ bits \in Nat /\ 2 ^ Width \in Nat /\ 2 ^ bits <= 2 ^ Width
  <2>1. Width \in 0 .. Width
    BY WordSizes, SMT
  <2> QED
    BY <2>1, PowersGrow, WordPowers
<1>2. Words = 0 .. 2 ^ Width - 1
  BY WholeWord DEF Words
<1> QED
  BY <1>1, <1>2, SMT

(* Two digits are a number of two digits.                                    *)
LEMMA Joins ==
  ASSUME NEW m \in Nat \ {0}, NEW n \in Nat \ {0}, NEW x \in 0 .. m - 1, NEW y \in 0 .. n - 1
  PROVE  x * n + y \in 0 .. m * n - 1
<1>1. x * n <= (m - 1) * n /\ 0 <= x * n
  BY SMT
<1>2. (m - 1) * n = m * n - n
  BY SMT
<1> QED
  BY <1>1, <1>2, SMT

(* Four bytes are a word.                                                    *)
LEMMA PackIsWord ==
  ASSUME NEW a \in Bytes, NEW b \in Bytes, NEW c \in Bytes, NEW d \in Bytes
  PROVE  Pack(a, b, c, d) \in Words
<1> DEFINE t == 2 ^ Byte
           t2 == t * t
           t3 == t2 * t
           t4 == t3 * t
<1>1. t \in Nat \ {0} /\ t4 = Modulus
  <2>1. t \in Nat \ {0} /\ 2 ^ Half = t * t
    BY HalfAndBytes
  <2>2. 2 ^ Width = 2 ^ Half * 2 ^ Half
    <3>1. Half \in 0 .. Width /\ Half + Half = Width
      BY WordSizes, SMT
    <3>2. 2 ^ (Half + Half) = 2 ^ Half * 2 ^ Half
      BY <3>1, WordPowers, SMT
    <3> QED
      BY <3>1, <3>2
  <2>3. Modulus = (t * t) * (t * t)
    BY <2>1, <2>2, WholeWord
  <2> HIDE DEF t
  <2> QED
    BY <2>1, <2>3, SMT
<1>2. a \in 0 .. t - 1 /\ b \in 0 .. t - 1 /\ c \in 0 .. t - 1 /\ d \in 0 .. t - 1
  BY DEF Bytes
<1> DEFINE x == a * t + b
           y == x * t + c
           z == y * t + d
<1>3. Pack(a, b, c, d) = z
  BY DEF Pack
<1> HIDE DEF t
<1>4. t2 \in Nat \ {0} /\ x \in 0 .. t2 - 1
  <2>1. t2 \in Nat \ {0}
    BY <1>1, SMT
  <2> QED
    BY <1>1, <1>2, <2>1, Joins
<1> HIDE DEF t2, x
<1>5. t3 \in Nat \ {0} /\ y \in 0 .. t3 - 1
  <2>1. t3 \in Nat \ {0}
    BY <1>1, <1>4, SMT
  <2> QED
    BY <1>1, <1>2, <1>4, <2>1, Joins
<1> HIDE DEF t3, y
<1>6. z \in 0 .. t4 - 1
  BY <1>1, <1>2, <1>5, Joins
<1> QED
  BY <1>1, <1>3, <1>6 DEF Words

(* The bytes of a number.                                                    *)
LEMMA ByteOfIsByte ==
  ASSUME NEW w \in Int, NEW k \in 0 .. 3
  PROVE  ByteOf(w, k) \in Bytes
<1>1. Byte * k \in 0 .. Width /\ Byte \in 0 .. Width
  <2>1. Width = 4 * Byte /\ Byte \in Nat
    BY WordSizes, SMT
  <2>2. k = 0 \/ k = 1 \/ k = 2 \/ k = 3
    BY SMT
  <2> QED
    BY <2>1, <2>2, SMT
<1> DEFINE p == 2 ^ (Byte * k)
<1>2. p \in Nat \ {0}
  BY <1>1, WordPowers
<1> HIDE DEF p
<1>3. w \div p \in Int
  BY <1>2, SMT
<1>4. Low(Byte, w \div p) \in 0 .. 2 ^ Byte - 1
  BY <1>1, <1>3, LowIsNat
<1> QED
  BY <1>4 DEF ByteOf, Bytes, p

(* Logic keeps the types.                                                    *)
LEMMA LogicTyped ==
  ASSUME CoreTyped, IsDecoded(ins), Logic
  PROVE  CoreNext
<1>1. R1 \in Words /\ R2 \in Words /\ R1 \in Int /\ ins.imm \in Int
  BY OperandsTyped
<1>2. ASSUME NEW a, NEW b PROVE And(a, b) \in Words /\ Or(a, b) \in Words /\ Xor(a, b) \in Words
  <2>1. /\ Bits(a) \cap Bits(b) \in SUBSET (0 .. Width - 1)
        /\ Bits(a) \cup Bits(b) \in SUBSET (0 .. Width - 1)
        /\ (Bits(a) \cup Bits(b)) \ (Bits(a) \cap Bits(b)) \in SUBSET (0 .. Width - 1)
    BY Zenon DEF Bits
  <2> QED
    BY <2>1, OfBitsIsWord DEF And, Or, Xor
<1>3. Not(R1) \in Words
  BY <1>1, Sizes, SMT DEF Not, Words
<1>4. 0 \in Int /\ 2 \in Int /\ 4 \in Int
  OBVIOUS
<1>5. ASSUME NEW d, NEW w \in Words, NEW size \in Int, Logical(d, w, size) PROVE CoreNext
  BY <1>5, ResultTyped DEF Logical
<1>6. Or_1 \/ And_1 \/ Xor_1 \/ Not_1 \/ Tst \/ Andi \/ Xori => CoreNext
  BY <1>2, <1>3, <1>4, <1>5, Zenon DEF Or_1, And_1, Xor_1, Not_1, Tst, Andi, Xori
<1>7. Ori => CoreNext
  BY <1>2, <1>4, ResultTyped, Zenon DEF Ori
<1>8. /\ Low(Byte, R1) \in Words /\ Low(Half, R1) \in Words
      /\ Word(Extend(Byte, R1)) \in Words /\ Word(Extend(Half, R1)) \in Words
  <2>1. Byte \in 0 .. Width /\ Half \in 0 .. Width
    BY WordSizes, SMT
  <2>2. Low(Byte, R1) \in Words /\ Low(Half, R1) \in Words
    BY <1>1, <2>1, LowIsNat, LowIsWord
  <2>3. Extend(Byte, R1) \in Int /\ Extend(Half, R1) \in Int
    BY <1>1, <2>1, ExtendIsInt
  <2> QED
    BY <2>2, <2>3, WordIsWord
<1>9. ASSUME NEW d, NEW w \in Words, NEW size \in Int, Move(d, w, size) PROVE CoreNext
  BY <1>9, MoveTyped
<1>10. Zxb \/ Zxh \/ Sxb \/ Sxh => CoreNext
  BY <1>4, <1>8, <1>9, Zenon DEF Zxb, Zxh, Sxb, Sxh
<1> QED
  BY <1>6, <1>7, <1>10, Zenon DEF Logic

(* Swaps and searches keep the types.                                        *)
LEMMA SwapsTyped ==
  ASSUME CoreTyped, IsDecoded(ins), SwapsAndSearches
  PROVE  CoreNext
<1>1. R2 \in Words /\ R2 \in Int
  BY OperandsTyped
<1>2. ASSUME NEW w \in Words, NEW cy, NEW z, Swap(w, cy, z) PROVE CoreNext
  BY <1>2, ResultTyped DEF Swap
<1>3. Low(Half, R2) * 2 ^ Half + R2 \div 2 ^ Half \in Words
  <2> DEFINE h == 2 ^ Half
  <2>1. Half \in 0 .. Width /\ Half + Half = Width
    BY WordSizes, SMT
  <2>2. h \in Nat \ {0} /\ Low(Half, R2) \in 0 .. h - 1
    BY <1>1, <2>1, LowIsNat
  <2>3. Modulus = h * h
    BY <2>1, WordPowers, WholeWord, SMT
  <2> HIDE DEF h
  <2> DEFINE q == R2 \div h
  <2>4. q \in 0 .. h - 1
    <3>1. R2 = h * q + (R2 % h) /\ R2 % h \in 0 .. h - 1 /\ q \in Int
      BY <1>1, <2>2, SMT
    <3>2. R2 \in 0 .. h * h - 1
      BY <1>1, <2>3 DEF Words
    <3> HIDE DEF q
    <3>3. q >= h => h * q >= h * h
      BY <2>2, <3>1, SMT
    <3>4. q < 0 => h * q <= - h
      BY <2>2, <3>1, SMT
    <3> QED
      BY <2>2, <3>1, <3>2, <3>3, <3>4, SMT
  <2>5. Low(Half, R2) * h + q \in 0 .. h * h - 1
    BY <2>2, <2>4, Joins
  <2> QED
    BY <2>3, <2>5 DEF Words, h
<1>4. /\ Pack(ByteOf(R2, 2), ByteOf(R2, 3), ByteOf(R2, 0), ByteOf(R2, 1)) \in Words
      /\ Pack(ByteOf(R2, 0), ByteOf(R2, 1), ByteOf(R2, 2), ByteOf(R2, 3)) \in Words
  <2>1. ByteOf(R2, 0) \in Bytes /\ ByteOf(R2, 1) \in Bytes /\ ByteOf(R2, 2) \in Bytes /\ ByteOf(R2, 3) \in Bytes
    BY <1>1, ByteOfIsByte
  <2> QED
    BY <2>1, PackIsWord
<1>5. Hsh \/ Hsw \/ Bsh \/ Bsw => CoreNext
  BY <1>1, <1>2, <1>3, <1>4, Zenon DEF Hsh, Hsw, Bsh, Bsw
<1>6. ASSUME NEW passed \in SUBSET (0 .. Width - 1), Search(passed) PROVE CoreNext
  <2>1. (IF passed = {} THEN 0 ELSE Min(passed) + 1) \in Words
    <3>1. CASE passed = {}
      BY <3>1, SmallestWords
    <3>2. CASE passed # {}
      <4>1. \E x \in passed : \A y \in passed : x <= y
        BY <3>2, HasLeast, SMT
      <4>2. Min(passed) \in passed
        BY <4>1, Zenon DEF Min
      <4> DEFINE n == Min(passed)
      <4>3. n \in 0 .. Width - 1 /\ Width \in Nat
        BY <4>2, WordSizes
      <4> HIDE DEF n
      <4>4. n + 1 \in 0 .. Width /\ Width \in 0 .. Width
        BY <4>3, SMT
      <4>5. Width < 2 ^ Width
        BY <4>4, CountsAreWords
      <4>6. n + 1 \in 0 .. Modulus - 1
        BY <4>3, <4>4, <4>5, WholeWord, Sizes, SMT
      <4> QED
        BY <3>2, <4>6 DEF Words, n
    <3> QED
      BY <3>1, <3>2
  <2> QED
    BY <1>6, <2>1, ResultTyped DEF Search
<1>7. Sch0l \/ Sch1l \/ Sch0r \/ Sch1r => CoreNext
  <2>1. \A v : FromLeft(v) \in SUBSET (0 .. Width - 1) /\ FromRight(v) \in SUBSET (0 .. Width - 1)
    BY Zenon DEF FromLeft, FromRight
  <2> QED
    BY <1>6, <2>1, Zenon DEF Sch0l, Sch1l, Sch0r, Sch1r
<1> QED
  BY <1>5, <1>7, Zenon DEF SwapsAndSearches

(* Branches keep the types.                                                  *)
LEMMA BranchesTyped ==
  ASSUME CoreTyped, IsDecoded(ins), Branches
  PROVE  CoreNext
<1>1. R1 \in Int /\ ins.imm \in Int /\ pc \in Int
  BY OperandsTyped
<1>2. CondBits \in 0 .. Width /\ JumpBits \in 0 .. Width
  BY CoreAssumption, SMT
<1>3. Extend(CondBits, ins.imm) \in Int /\ Extend(JumpBits, ins.imm) \in Int
  BY <1>1, <1>2, ExtendIsInt
<1>4. /\ pc + (IF CondHolds THEN Extend(CondBits, ins.imm) ELSE 2) \in Int
      /\ R1 + ins.imm \in Int /\ pc + ins.imm \in Int
      /\ pc + Extend(JumpBits, ins.imm) \in Int
      /\ pc + 4 \in Int /\ pc + 6 \in Int
  BY <1>1, <1>3, SMT
<1>5. ASSUME NEW a \in Int, Branch(a) PROVE CoreNext
  BY <1>5, StaysTyped, Zenon DEF Branch, CoreTyped
<1>6. ASSUME NEW d, NEW size, pc + size \in Int, NEW a \in Int, Link(d, size, a) PROVE CoreNext
  <2>1. Word(pc + size) \in Words
    BY <1>6, WordIsWord
  <2>2. r' = [[r EXCEPT ![d] = Word(pc + size)] EXCEPT ![0] = 0]
    BY <1>6, Zenon DEF Link
  <2>3. r \in [Regs -> Words]
    BY DEF CoreTyped
  <2>4. r' \in [Regs -> Words] /\ r'[0] = 0
    BY <2>1, <2>2, <2>3, RegIsWritten, ZeroIsWritten
  <2>5. pc' \in Words /\ running' \in BOOLEAN /\ mem' = mem /\ psw' = psw
    BY <1>6, GotoTyped DEF Link
  <2> QED
    BY <2>4, <2>5, Zenon DEF CoreTyped, CoreNext
<1>7. Bcond \/ Jmp_1 \/ Jmp_6 \/ Jr_6 => CoreNext
  BY <1>1, <1>4, <1>5, Zenon DEF Bcond, Jmp_1, Jmp_6, Jr_6
<1>8. Jr_5 \/ Jarl_6 => CoreNext
  BY <1>4, <1>6, Zenon DEF Jr_5, Jarl_6
<1> QED
  BY <1>7, <1>8, Zenon DEF Branches

(* What is read from memory is a word.                                       *)
LEMMA ReadIsWord ==
  ASSUME mem \in [DOMAIN mem -> Bytes], NEW a \in Int, NEW n \in {1, 2, 4}, Readable(a, n)
  PROVE  Read(a, n) \in Words /\ Read(a, n) \in Int
<1> DEFINE b == [k \in 0 .. n - 1 |-> mem[a + k]]
<1>1. ASSUME NEW k \in 0 .. n - 1 PROVE b[k] \in Bytes
  <2>1. a + k \in a .. a + n - 1
    BY SMT
  <2>2. a + k \in DOMAIN mem
    BY <2>1 DEF Readable, Cells
  <2> QED
    BY <2>2
<1>2. 0 \in Bytes
  <2>1. 2 ^ Byte \in Nat \ {0}
    BY HalfAndBytes
  <2> QED
    BY <2>1, SMT DEF Bytes
<1> HIDE DEF b
<1>3. /\ b[0] \in Bytes
      /\ n > 1 => b[1] \in Bytes
      /\ n > 2 => b[2] \in Bytes /\ b[3] \in Bytes
  <2>1. /\ 0 \in 0 .. n - 1
        /\ n > 1 => 1 \in 0 .. n - 1
        /\ n > 2 => 2 \in 0 .. n - 1 /\ 3 \in 0 .. n - 1
    BY SMT
  <2> QED
    BY <1>1, <2>1, Zenon
<1>4. /\ (IF n > 2 THEN b[3] ELSE 0) \in Bytes /\ (IF n > 2 THEN b[2] ELSE 0) \in Bytes
      /\ (IF n > 1 THEN b[1] ELSE 0) \in Bytes
  BY <1>2, <1>3, Zenon
<1>5. OfBytes(b, n) \in Words
  BY <1>3, <1>4, PackIsWord DEF OfBytes
<1>6. Read(a, n) \in Words
  BY <1>5 DEF Read, b
<1> QED
  BY <1>6, Sizes

(* What is written to it are bytes.                                          *)
LEMMA WrittenAreBytes ==
  ASSUME mem \in [DOMAIN mem -> Bytes], NEW a \in Int, NEW n \in {1, 2, 4}, NEW w \in Int
  PROVE  Written(a, n, w) \in [DOMAIN mem -> Bytes]
<1>1. ASSUME NEW c \in Cells(a, n) PROVE ByteOf(w, c - a) \in Bytes
  <2>1. c - a \in 0 .. 3
    BY SMT DEF Cells
  <2> QED
    BY <2>1, ByteOfIsByte
<1> QED
  BY <1>1, Zenon DEF Written

(* Addresses are words.                                                      *)
LEMMA AddressesTyped ==
  ASSUME CoreTyped, IsDecoded(ins)
  PROVE  /\ \A scale \in {1, 2, 4} :
              /\ FromEp(EpBits, scale) \in Int
              /\ FromEp(EpBits - 1, scale) \in Int
              /\ FromEp(EpBits - 3, scale) \in Int
         /\ \A scale \in {1, 2} : FromR1(scale) \in Int
         /\ FarFromR1 \in Int
<1>1. ins.imm \in Int /\ R1 \in Int
  BY OperandsTyped
<1>2. Width \in Nat /\ EpBits \in 0 .. Width /\ EpBits - 1 \in 0 .. Width /\ EpBits - 3 \in 0 .. Width
      /\ LongBits \in 0 .. Width /\ Half \in 0 .. Width
  <2>1. EpBits \in 1 .. Width /\ EpBits > 3 /\ LongBits \in 1 .. Width
    BY CoreAssumption
  <2> QED
    BY <2>1, WordSizes, SMT
<1>3. r[EP] \in Int
  BY WordSizes, Sizes DEF CoreTyped
<1>4. ASSUME NEW bits \in 0 .. Width, NEW scale \in {1, 2, 4} PROVE FromEp(bits, scale) \in Int
  <2>1. Low(bits, ins.imm) \in Int
    BY <1>1, LowIsNat, SMT
  <2>2. r[EP] + Low(bits, ins.imm) * scale \in Int
    BY <1>3, <2>1, SMT
  <2> QED
    BY <2>2, WordIsWord, Sizes DEF FromEp
<1>5. ASSUME NEW scale \in {1, 2} PROVE FromR1(scale) \in Int
  <2>1. ins.imm * scale \in Int
    BY <1>1, SMT
  <2>2. Extend(Half, ins.imm * scale) \in Int
    BY <1>2, <2>1, ExtendIsInt
  <2>3. R1 + Extend(Half, ins.imm * scale) \in Int
    BY <1>1, <2>2, SMT
  <2> QED
    BY <2>3, WordIsWord, Sizes DEF FromR1
<1>6. FarFromR1 \in Int
  <2>1. Extend(LongBits, ins.imm) \in Int
    BY <1>1, <1>2, ExtendIsInt
  <2>2. R1 + Extend(LongBits, ins.imm) \in Int
    BY <1>1, <2>1, SMT
  <2> QED
    BY <2>2, WordIsWord, Sizes DEF FarFromR1
<1> QED
  BY <1>2, <1>4, <1>5, <1>6

(* Loads keep the types.                                                     *)
LEMMA LoadsTyped ==
  ASSUME CoreTyped, IsDecoded(ins), Loads
  PROVE  CoreNext
<1>1. ASSUME NEW d, NEW a \in Int, NEW n \in {1, 2, 4}, NEW size \in Int, LoadUnsigned(d, a, n, size)
      PROVE  CoreNext
  <2>1. CASE Readable(a, n)
    <3>1. Read(a, n) \in Words
      BY <2>1, ReadIsWord DEF CoreTyped
    <3> QED
      BY <1>1, <2>1, <3>1, MoveTyped DEF LoadUnsigned, Load
  <2>2. CASE ~ Readable(a, n)
    BY <1>1, <2>2, StopTyped DEF LoadUnsigned, Load
  <2> QED
    BY <2>1, <2>2
<1>2. ASSUME NEW d, NEW a \in Int, NEW n \in {1, 2}, NEW size \in Int, LoadSigned(d, a, n, size)
      PROVE  CoreNext
  <2>1. CASE Readable(a, n)
    <3>1. Read(a, n) \in Int
      BY <2>1, ReadIsWord DEF CoreTyped
    <3>2. Byte * n \in 0 .. Width
      BY WordSizes, SMT
    <3>3. Word(Extend(Byte * n, Read(a, n))) \in Words
      BY <3>1, <3>2, ExtendIsInt, WordIsWord
    <3> QED
      BY <1>2, <2>1, <3>3, MoveTyped DEF LoadSigned, Load
  <2>2. CASE ~ Readable(a, n)
    BY <1>2, <2>2, StopTyped DEF LoadSigned, Load
  <2> QED
    BY <2>1, <2>2
<1>3. 1 \in {1, 2, 4} /\ 2 \in {1, 2, 4} /\ 4 \in {1, 2, 4} /\ 1 \in {1, 2} /\ 2 \in {1, 2}
      /\ 2 \in Int /\ 4 \in Int /\ 6 \in Int
  OBVIOUS
<1>4. /\ \A scale \in {1, 2, 4} :
           /\ FromEp(EpBits, scale) \in Int
           /\ FromEp(EpBits - 1, scale) \in Int
           /\ FromEp(EpBits - 3, scale) \in Int
      /\ \A scale \in {1, 2} : FromR1(scale) \in Int
      /\ FarFromR1 \in Int
  BY AddressesTyped
<1>5. Sldb \/ Sldh \/ Ldb \/ Ldh \/ Ldb_14 \/ Ldh_14 => CoreNext
  BY <1>2, <1>3, <1>4, Zenon DEF Sldb, Sldh, Ldb, Ldh, Ldb_14, Ldh_14
<1>6. Sldbu \/ Sldhu \/ Sldw \/ Ldbu \/ Ldhu \/ Ldw \/ Ldbu_14 \/ Ldhu_14 \/ Ldw_14 => CoreNext
  BY <1>1, <1>3, <1>4, Zenon DEF Sldbu, Sldhu, Sldw, Ldbu, Ldhu, Ldw, Ldbu_14, Ldhu_14, Ldw_14
<1> QED
  BY <1>5, <1>6, Zenon DEF Loads

(* Stores keep the types.                                                    *)
LEMMA StoresTyped ==
  ASSUME CoreTyped, IsDecoded(ins), Stores
  PROVE  CoreNext
<1>1. ASSUME NEW base, NEW a \in Int, NEW n \in {1, 2, 4}, NEW w \in Int, NEW size \in Int,
             Store(base, a, n, w, size)
      PROVE  CoreNext
  <2>1. CASE Stop
    BY <2>1, StopTyped
  <2>2. CASE mem' = Written(a, n, w) /\ MovesTo(pc + size) /\ UNCHANGED <<r, psw>>
    <3>1. Written(a, n, w) \in [DOMAIN mem -> Bytes]
      BY WrittenAreBytes DEF CoreTyped
    <3>2. pc + size \in Int
      BY OperandsTyped, SMT
    <3>3. pc' \in Words /\ running' \in BOOLEAN
      BY <2>2, <3>2, GotoTyped
    <3> QED
      BY <2>2, <3>1, <3>3, Zenon DEF CoreTyped, CoreNext
  <2> QED
    BY <1>1, <2>1, <2>2, Zenon DEF Store
<1>2. 1 \in {1, 2, 4} /\ 2 \in {1, 2, 4} /\ 4 \in {1, 2, 4} /\ 1 \in {1, 2} /\ 2 \in {1, 2}
      /\ 2 \in Int /\ 4 \in Int /\ 6 \in Int
  OBVIOUS
<1>3. /\ \A scale \in {1, 2, 4} : FromEp(EpBits, scale) \in Int /\ FromEp(EpBits - 1, scale) \in Int
      /\ \A scale \in {1, 2} : FromR1(scale) \in Int
      /\ FarFromR1 \in Int
  BY AddressesTyped
<1>4. R2 \in Int
  BY OperandsTyped
<1>5. Sstb \/ Ssth \/ Sstw \/ Stb \/ Sth \/ Stw => CoreNext
  BY <1>1, <1>2, <1>3, <1>4, Zenon DEF Sstb, Ssth, Sstw, Stb, Sth, Stw
<1>6. Stb_14 \/ Sth_14 \/ Stw_14 => CoreNext
  <2>1. SUFFICES ASSUME Stb_14 \/ Sth_14 \/ Stw_14 PROVE CoreNext
    OBVIOUS
  <2>2. ins.op \notin {"cmpf_s", "cmpf_d"}
    BY <2>1, SMT DEF Stb_14, Sth_14, Stw_14, Executes
  <2>3. R3 \in Int
    BY <2>2, OperandsTyped, Sizes
  <2> QED
    BY <1>1, <1>2, <1>3, <2>1, <2>3, Zenon DEF Stb_14, Sth_14, Stw_14
<1> QED
  BY <1>5, <1>6, Zenon DEF Stores

(* The bit operations keep them.                                             *)
LEMMA MemoryBitsTyped ==
  ASSUME CoreTyped, IsDecoded(ins), MemoryBits
  PROVE  CoreNext
<1>1. pc + 4 \in Int /\ R1 \in Int /\ R2 \in Int /\ FromR1(1) \in Int
  <2>1. pc \in Int /\ R1 \in Int /\ R2 \in Int /\ FromR1(1) \in Int
    BY OperandsTyped, AddressesTyped
  <2> QED
    BY <2>1, SMT
<1>2. ASSUME NEW a \in Int, NEW k, TestBit(a, k) PROVE CoreNext
  <2>1. CASE Stop
    BY <2>1, StopTyped
  <2>2. CASE psw' = BitFlags(mem[a], k) /\ Goto(pc + 4) /\ UNCHANGED r
    <3>1. psw' \in SUBSET Flags
      BY <2>2, UpdateIsFlags DEF BitFlags
    <3> QED
      BY <1>1, <2>2, <3>1, StaysTyped
  <2> QED
    BY <1>2, <2>1, <2>2, Zenon DEF TestBit
<1>3. ASSUME NEW a \in Int, NEW k \in 0 .. Byte - 1, Readable(a, 1) PROVE mem[a] \in Bytes /\ Bit(mem[a], k) \in 0 .. 1
  <2>1. a \in a .. a + 1 - 1
    BY SMT
  <2>2. mem[a] \in Bytes
    BY <1>3, <2>1, Zenon DEF Readable, Cells, CoreTyped
  <2>3. 0 \in 0 .. 1
    OBVIOUS
  <2> QED
    BY <2>2, <2>3, BitReplaced DEF Bytes
<1>4. ASSUME NEW a \in Int, NEW k \in 0 .. Byte - 1, NEW v \in 0 .. 1, BitWrite(a, k, v) PROVE CoreNext
  <2>1. Readable(a, 1)
    BY <1>4 DEF BitWrite, Writable
  <2>2. mem[a] \in Bytes
    BY <1>3, <2>1
  <2>3. mem[a] - Bit(mem[a], k) * 2 ^ k + v * 2 ^ k \in Bytes
    BY <2>2, BitReplaced DEF Bytes, WithBit
  <2>4. mem' = [mem EXCEPT ![a] = mem[a] - Bit(mem[a], k) * 2 ^ k + v * 2 ^ k]
    BY <1>4 DEF BitWrite
  <2>5. mem \in [DOMAIN mem -> Bytes]
    BY DEF CoreTyped
  <2>6. mem' \in [DOMAIN mem -> Bytes]
    BY <2>3, <2>4, <2>5, Zenon
  <2>7. psw' \in SUBSET Flags /\ MovesTo(pc + 4) /\ r' = r
    BY <1>4, UpdateIsFlags DEF BitWrite, BitFlags
  <2>8. pc' \in Words /\ running' \in BOOLEAN
    BY <1>1, <2>7, GotoTyped
  <2> QED
    BY <2>6, <2>7, <2>8, Zenon DEF CoreTyped, CoreNext
<1>5. ASSUME NEW a \in Int, NEW k \in 0 .. Byte - 1, NEW v \in 0 .. 1, PutBit(a, k, v) PROVE CoreNext
  BY <1>4, <1>5, StopTyped, Zenon DEF PutBit
<1>6. ASSUME NEW a \in Int, NEW k \in 0 .. Byte - 1, InvertBit(a, k) PROVE CoreNext
  <2>1. CASE BitWrite(a, k, 1 - Bit(mem[a], k))
    <3>1. Readable(a, 1)
      BY <2>1 DEF BitWrite, Writable
    <3>2. 1 - Bit(mem[a], k) \in 0 .. 1
      BY <1>3, <3>1, SMT
    <3> QED
      BY <1>4, <2>1, <3>2
  <2>2. CASE running' = FALSE /\ psw' = BitFlags(mem[a], k) /\ UNCHANGED <<code, pc, r, mem, fpu, start>>
    <3>1. psw' \in SUBSET Flags
      BY <2>2, UpdateIsFlags DEF BitFlags
    <3> QED
      BY <2>2, <3>1, Zenon DEF CoreTyped, CoreNext
  <2>3. CASE Stop
    BY <2>3, StopTyped
  <2> QED
    BY <1>6, <2>1, <2>2, <2>3, Zenon DEF InvertBit
<1>7. RegBit \in 0 .. Byte - 1
  BY <1>1, WordSizes, SMT DEF RegBit
<1>8. ins.op \in {"tst1_8", "set1_8", "clr1_8", "not1_8"} => ImmBit \in 0 .. Byte - 1
  BY Zenon DEF IsDecoded, ImmBit
<1>9. Tst1_8 \/ Tst1_9 => CoreNext
  BY <1>1, <1>2, Zenon DEF Tst1_8, Tst1_9
<1>10. Set1_8 \/ Clr1_8 \/ Not1_8 => CoreNext
  <2>1. SUFFICES ASSUME Set1_8 \/ Clr1_8 \/ Not1_8 PROVE CoreNext
    OBVIOUS
  <2>2. ImmBit \in 0 .. Byte - 1 /\ 0 \in 0 .. 1 /\ 1 \in 0 .. 1
    BY <1>8, <2>1 DEF Set1_8, Clr1_8, Not1_8, Executes
  <2> QED
    BY <1>1, <1>5, <1>6, <2>1, <2>2, Zenon DEF Set1_8, Clr1_8, Not1_8
<1>11. Set1_9 \/ Clr1_9 \/ Not1_9 => CoreNext
  <2>1. 0 \in 0 .. 1 /\ 1 \in 0 .. 1
    OBVIOUS
  <2> QED
    BY <1>1, <1>5, <1>6, <1>7, <2>1, Zenon DEF Set1_9, Clr1_9, Not1_9
<1> QED
  BY <1>9, <1>10, <1>11, Zenon DEF MemoryBits

(* How many registers are listed, and where they are pushed and popped.      *)
LEMMA ListedTyped ==
  ASSUME CoreTyped, IsDecoded(ins)
  PROVE  /\ \A s \in SUBSET Listed : Cardinality(s) \in Nat
         /\ Listed \in SUBSET Nat /\ Listed \subseteq Regs \ {0}
         /\ r[SP] \in Int /\ Lowered \in Words
         /\ \A i : PushSlot(i) \in Int /\ PopSlot(i) \in Int
         /\ Word(r[SP] + 4 * ins.imm + 4 * Cardinality(Popped)) \in Words
<1>1. Listed \subseteq Regs \ {0} /\ ins.imm \in Int
  BY Zenon DEF IsDecoded, Listed
<1>2. Listed \in SUBSET Nat /\ Regs \in SUBSET Nat
  BY <1>1, WordSizes, SMT DEF Regs
<1>3. \A s \in SUBSET Listed : Cardinality(s) \in Nat
  <2>1. IsFiniteSet(Regs)
    BY WordSizes, FS_Interval, SMT DEF Regs
  <2> SUFFICES ASSUME NEW s \in SUBSET Listed PROVE Cardinality(s) \in Nat
    OBVIOUS
  <2>2. s \in SUBSET Regs
    BY <1>1
  <2>3. IsFiniteSet(s)
    BY <2>1, <2>2, FS_Subset
  <2> QED
    BY <2>3, FS_CardinalityType
<1>4. r[SP] \in Int
  BY WordSizes, Sizes DEF CoreTyped
<1>5. Pushed \in SUBSET Listed /\ Popped \in SUBSET Listed
      /\ \A i : Upto(i) \in SUBSET Listed /\ From(i) \in SUBSET Listed
  BY Zenon DEF Pushed, Popped, Upto, From
<1>6. Lowered \in Words
  <2>1. r[SP] - 4 * Cardinality(Pushed) \in Int
    BY <1>3, <1>4, <1>5, SMT
  <2> QED
    BY <2>1, WordIsWord DEF Lowered
<1>7. ASSUME NEW i PROVE PushSlot(i) \in Int /\ PopSlot(i) \in Int
  <2>1. r[SP] - 4 * Cardinality(Upto(i)) \in Int
        /\ r[SP] + 4 * ins.imm + 4 * (Cardinality(From(i)) - 1) \in Int
    BY <1>1, <1>3, <1>4, <1>5, SMT
  <2> QED
    BY <2>1, WordIsWord, Sizes DEF PushSlot, PopSlot
<1>8. Word(r[SP] + 4 * ins.imm + 4 * Cardinality(Popped)) \in Words
  <2>1. r[SP] + 4 * ins.imm + 4 * Cardinality(Popped) \in Int
    BY <1>1, <1>3, <1>4, <1>5, SMT
  <2> QED
    BY <2>1, WordIsWord
<1> QED
  BY <1>1, <1>2, <1>3, <1>4, <1>6, <1>7, <1>8

(* What is pushed are bytes.                                                 *)
LEMMA PushedAreBytes ==
  ASSUME CoreTyped, IsDecoded(ins)
  PROVE  MemWithPushed \in [DOMAIN mem -> Bytes]
<1>1. ASSUME NEW c \in DOMAIN mem, NEW over \in SUBSET Pushed, over # {},
             \A i \in over : c \in Cells(PushSlot(i), 4)
      PROVE  ByteOf(r[Min(over)], c - PushSlot(Min(over))) \in Bytes
  <2>1. over \in SUBSET Listed
    BY Zenon DEF Pushed
  <2>2. over \in SUBSET Nat
    BY <2>1, ListedTyped
  <2>3. \E x \in over : \A y \in over : x <= y
    BY <1>1, <2>2, HasLeast
  <2>4. Min(over) \in over
    BY <2>3, Zenon DEF Min
  <2>5. r[Min(over)] \in Int
    BY <2>1, <2>4, ListedTyped, Sizes DEF CoreTyped
  <2> DEFINE a == PushSlot(Min(over))
  <2>6. a \in Int /\ c \in a .. a + 4 - 1
    BY <1>1, <2>4, ListedTyped DEF Cells
  <2> HIDE DEF a
  <2>7. c - a \in 0 .. 3
    BY <2>6, SMT
  <2> QED
    BY <2>5, <2>7, ByteOfIsByte DEF a
<1>2. mem \in [DOMAIN mem -> Bytes]
  BY DEF CoreTyped
<1>3. ASSUME NEW c \in DOMAIN mem
      PROVE  LET over == {i \in Pushed : c \in Cells(PushSlot(i), 4)}
             IN (IF over = {} THEN mem[c] ELSE LET i == Min(over) IN ByteOf(r[i], c - PushSlot(i))) \in Bytes
  <2> DEFINE over == {i \in Pushed : c \in Cells(PushSlot(i), 4)}
  <2>1. over \in SUBSET Pushed /\ \A i \in over : c \in Cells(PushSlot(i), 4)
    OBVIOUS
  <2> HIDE DEF over
  <2>2. over = {} => mem[c] \in Bytes
    BY <1>2
  <2>3. over # {} => ByteOf(r[Min(over)], c - PushSlot(Min(over))) \in Bytes
    BY <1>1, <2>1
  <2>4. (IF over = {} THEN mem[c] ELSE ByteOf(r[Min(over)], c - PushSlot(Min(over)))) \in Bytes
    BY <2>2, <2>3, Zenon
  <2> QED
    BY <2>4, Zenon DEF over
<1> QED
  BY <1>3, Zenon DEF MemWithPushed

(* PREPARE keeps the types.                                                  *)
LEMMA PrepareTyped ==
  ASSUME CoreTyped, IsDecoded(ins),
         NEW op \in {"prepare", "prepare_sp", "prepare_h", "prepare_hi", "prepare_w"}, NEW size \in Int,
         Prepare(op, size)
  PROVE  CoreNext
<1>1. Lowered \in Words /\ MemWithPushed \in [DOMAIN mem -> Bytes] /\ ins.imm \in Int /\ ins.ep \in Int
  BY ListedTyped, PushedAreBytes, Zenon DEF IsDecoded
<1>2. r \in [Regs -> Words] /\ r[0] = 0 /\ SP \in Regs /\ EP \in Regs /\ 0 \in Regs /\ SP # 0 /\ EP # 0
  BY WordSizes DEF CoreTyped
<1>3. pc + size \in Int
  BY OperandsTyped, SMT
<1>4. ASSUME NEW sp, sp = Word(Lowered - 4 * ins.imm),
             r' = [r EXCEPT ![SP] = sp, ![EP] = EpAfter(sp)], mem' = MemWithPushed,
             MovesTo(pc + size), UNCHANGED psw
      PROVE  CoreNext
  <2>1. sp \in Words
    <3>1. Lowered - 4 * ins.imm \in Int
      BY <1>1, Sizes, SMT
    <3> QED
      BY <1>4, <3>1, WordIsWord
  <2>2. EpAfter(sp) \in Words
    <3>1. Extend(Half, ins.ep) \in Int /\ ins.ep * 2 ^ Half \in Int
      <4>1. Half \in 0 .. Width
        BY WordSizes, SMT
      <4>2. Extend(Half, ins.ep) \in Int /\ 2 ^ Half \in Int
        BY <1>1, <4>1, ExtendIsInt, WordPowers
      <4> QED
        BY <1>1, <4>2, SMT
    <3>2. /\ Word(Extend(Half, ins.ep)) \in Words /\ Word(ins.ep * 2 ^ Half) \in Words /\ Word(ins.ep) \in Words
          /\ r[EP] \in Words
      BY <1>1, <1>2, <3>1, WordIsWord
    <3>3. ins.op = op
      BY DEF Prepare, Executes
    <3>4. /\ ins.op = "prepare" => EpAfter(sp) = r[EP]
          /\ ins.op = "prepare_sp" => EpAfter(sp) = sp
          /\ ins.op = "prepare_h" => EpAfter(sp) = Word(Extend(Half, ins.ep))
          /\ ins.op = "prepare_hi" => EpAfter(sp) = Word(ins.ep * 2 ^ Half)
          /\ ins.op = "prepare_w" => EpAfter(sp) = Word(ins.ep)
      BY SMT DEF EpAfter
    <3> QED
      BY <2>1, <3>2, <3>3, <3>4
  <2>3. r' = [[r EXCEPT ![SP] = sp] EXCEPT ![EP] = EpAfter(sp)]
    BY <1>4
  <2>4. r' \in [Regs -> Words] /\ r'[0] = 0
    <3>1. r' \in [Regs -> Words]
      BY <1>2, <2>1, <2>2, <2>3, RegIsWritten
    <3>2. r'[0] = r[0]
      BY <1>2, <2>3, Zenon
    <3> QED
      BY <1>2, <3>1, <3>2
  <2>5. pc' \in Words /\ running' \in BOOLEAN
    BY <1>3, <1>4, GotoTyped
  <2> QED
    BY <1>1, <1>4, <2>4, <2>5, Zenon DEF CoreTyped, CoreNext
<1>5. ASSUME r' = [r EXCEPT ![SP] = Lowered], mem' = MemWithPushed, running' = FALSE,
             UNCHANGED <<code, pc, psw, fpu, start>>
      PROVE  CoreNext
  <2>1. r' \in [Regs -> Words]
    BY <1>1, <1>2, <1>5, RegIsWritten
  <2>2. r'[0] = 0
    BY <1>2, <1>5, Zenon
  <2> QED
    BY <1>1, <1>5, <2>1, <2>2, Zenon DEF CoreTyped, CoreNext
<1> QED
  BY <1>4, <1>5, StopTyped, Zenon DEF Prepare

(* So does DISPOSE.                                                          *)
LEMMA DisposeTyped ==
  ASSUME CoreTyped, IsDecoded(ins), Dispose
  PROVE  CoreNext
<1>1. r \in [Regs -> Words] /\ r[0] = 0 /\ mem \in [DOMAIN mem -> Bytes] /\ 0 \in Regs /\ SP # 0
  BY WordSizes DEF CoreTyped
<1> DEFINE sp == Word(r[SP] + 4 * ins.imm + 4 * Cardinality(Popped))
<1>2. sp \in Words /\ Popped \subseteq Listed /\ Listed \in SUBSET Nat /\ 0 \notin Listed
  BY ListedTyped, Zenon DEF Popped
<1>3. r' = [n \in Regs |-> IF n = SP THEN sp ELSE IF n \in Popped THEN Read(PopSlot(n), 4) ELSE r[n]]
  BY Zenon DEF Dispose
<1> HIDE DEF sp
<1>4. ASSUME NEW n \in Popped PROVE Read(PopSlot(n), 4) \in Words
  <2>1. n \in From(n)
    BY <1>2, SMT DEF From
  <2>2. Readable(PopSlot(n), 4)
    BY <2>1, Zenon DEF Popped
  <2>3. PopSlot(n) \in Int
    BY ListedTyped
  <2> QED
    BY <1>1, <2>2, <2>3, ReadIsWord
<1>5. r' \in [Regs -> Words]
  BY <1>1, <1>2, <1>3, <1>4, Zenon
<1>6. r'[0] = 0
  <2>1. 0 \notin Popped
    BY <1>2
  <2> QED
    BY <1>1, <1>3, <2>1, Zenon
<1>7. CASE MovesTo(IF ins.reg1 = 0 THEN pc + 4 ELSE r'[ins.reg1]) /\ UNCHANGED <<psw, mem>>
  <2>1. ins.reg1 \in Regs
    BY Zenon DEF IsDecoded
  <2>2. r'[ins.reg1] \in Int /\ pc + 4 \in Int
    <3>1. r'[ins.reg1] \in Words /\ pc \in Int
      BY <1>5, <2>1, OperandsTyped
    <3>2. pc + 4 \in Int
      BY <3>1, SMT
    <3> QED
      BY <3>1, <3>2, Sizes, Zenon
  <2>3. (IF ins.reg1 = 0 THEN pc + 4 ELSE r'[ins.reg1]) \in Int
    BY <2>2
  <2>4. pc' \in Words /\ running' \in BOOLEAN
    BY <1>7, <2>3, GotoTyped
  <2> QED
    BY <1>5, <1>6, <1>7, <2>4, Zenon DEF CoreTyped, CoreNext
<1>8. CASE running' = FALSE /\ UNCHANGED <<code, pc, psw, mem, fpu, start>>
  BY <1>5, <1>6, <1>8, Zenon DEF CoreTyped, CoreNext
<1> QED
  BY <1>7, <1>8, Zenon DEF Dispose

(* CAXI does.                                                                *)
LEMMA CaxiTyped ==
  ASSUME CoreTyped, IsDecoded(ins), Caxi
  PROVE  CoreNext
<1> DEFINE a     == R1 - (R1 % 4)
           token == Extend(Half, Read(a, 2))
<1>1. a \in Int /\ pc + 4 \in Int /\ R3 \in Int /\ R2 \in Int
  <2>1. ins.op \notin {"cmpf_s", "cmpf_d"}
    BY SMT DEF Caxi, Executes
  <2>2. R1 \in Int /\ R2 \in Int /\ R3 \in Words /\ pc \in Int
    BY <2>1, OperandsTyped
  <2> QED
    BY <2>2, Sizes, SMT
<1>2. \/ /\ Writable(a, 2)
         /\ mem' = Written(a, 2, Exchanged(token))
         /\ r' = [r EXCEPT ![ins.reg3] = Low(Half, token), ![0] = 0]
         /\ psw' = Update(psw, CaxiFlags(token))
         /\ MovesTo(pc + 4)
      \/ Stop
  BY Zenon DEF Caxi
<1> HIDE DEF a
<1>3. CASE /\ Writable(a, 2)
           /\ mem' = Written(a, 2, Exchanged(token))
           /\ r' = [r EXCEPT ![ins.reg3] = Low(Half, token), ![0] = 0]
           /\ psw' = Update(psw, CaxiFlags(token))
           /\ MovesTo(pc + 4)
  <2>1. Readable(a, 2) /\ mem \in [DOMAIN mem -> Bytes] /\ r \in [Regs -> Words]
    BY <1>3 DEF Writable, CoreTyped
  <2>2. Half \in 0 .. Width
    BY WordSizes, SMT
  <2>3. token \in Int
    BY <1>1, <2>1, <2>2, ReadIsWord, ExtendIsInt
  <2> HIDE DEF token
  <2>4. Low(Half, token) \in Words /\ Exchanged(token) \in Int
    BY <1>1, <2>2, <2>3, LowIsNat, LowIsWord DEF Exchanged
  <2>5. mem' \in [DOMAIN mem -> Bytes]
    BY <1>1, <1>3, <2>1, <2>4, WrittenAreBytes
  <2>6. r' = [[r EXCEPT ![ins.reg3] = Low(Half, token)] EXCEPT ![0] = 0]
    BY <1>3, Zenon
  <2>7. r' \in [Regs -> Words] /\ r'[0] = 0
    BY <2>1, <2>4, <2>6, RegIsWritten, ZeroIsWritten
  <2>8. psw' \in SUBSET Flags
    BY <1>3, UpdateIsFlags
  <2>9. pc' \in Words /\ running' \in BOOLEAN
    BY <1>1, <1>3, GotoTyped
  <2> QED
    BY <2>5, <2>7, <2>8, <2>9, Zenon DEF CoreNext
<1> QED
  BY <1>2, <1>3, StopTyped

(* The jump through a table does.                                            *)
LEMMA SwitchTyped ==
  ASSUME CoreTyped, IsDecoded(ins), Switch
  PROVE  CoreNext
<1> DEFINE a == Word(pc + 2 + 2 * R1)
<1>1. a \in Int /\ pc \in Int
  <2>1. R1 \in Int /\ pc \in Int
    BY OperandsTyped
  <2>2. pc + 2 + 2 * R1 \in Int
    BY <2>1, SMT
  <2> QED
    BY <2>1, <2>2, WordIsWord, Sizes
<1>2. \/ Readable(a, 2) /\ Goto(pc + 2 + 2 * Extend(Half, Read(a, 2))) /\ UNCHANGED <<r, psw>>
      \/ Stop
  BY Zenon DEF Switch
<1> HIDE DEF a
<1>3. CASE Readable(a, 2) /\ Goto(pc + 2 + 2 * Extend(Half, Read(a, 2))) /\ UNCHANGED <<r, psw>>
  <2>1. Half \in 0 .. Width /\ mem \in [DOMAIN mem -> Bytes]
    BY WordSizes, SMT DEF CoreTyped
  <2>2. Extend(Half, Read(a, 2)) \in Int
    BY <1>1, <1>3, <2>1, ReadIsWord, ExtendIsInt
  <2>3. pc + 2 + 2 * Extend(Half, Read(a, 2)) \in Int
    BY <1>1, <2>2, SMT
  <2>4. psw' \in SUBSET Flags /\ r' = r
    BY <1>3 DEF CoreTyped
  <2> QED
    BY <1>3, <2>3, <2>4, StaysTyped
<1> QED
  BY <1>2, <1>3, StopTyped

(* And so do all of them.                                                    *)
LEMMA SpecialTyped ==
  ASSUME CoreTyped, IsDecoded(ins), Special
  PROVE  CoreNext
<1>1. Prepare4 \/ PrepareSp \/ PrepareH \/ PrepareHi \/ PrepareW => CoreNext
  <2>1. 4 \in Int /\ 6 \in Int /\ 8 \in Int
    OBVIOUS
  <2> QED
    BY <2>1, PrepareTyped, Zenon DEF Prepare4, PrepareSp, PrepareH, PrepareHi, PrepareW
<1>2. ASSUME Proceed(pc + 4), UNCHANGED <<r, psw, mem>> PROVE CoreNext
  <2>1. pc + 4 \in Int
    BY OperandsTyped, SMT
  <2>2. pc' \in Words /\ running' \in BOOLEAN
    BY <1>2, <2>1, GotoTyped
  <2> QED
    BY <1>2, <2>2, Zenon DEF CoreTyped, CoreNext
<1>3. Bsel => CoreNext
  BY <1>2, StopTyped, Zenon DEF Bsel
<1>4. Ldsr => CoreNext
  BY <1>2, Zenon DEF Ldsr
<1> QED
  BY <1>1, <1>3, <1>4, DisposeTyped, CaxiTyped, SwitchTyped, Zenon DEF Special

----------------------------------------------------------------------------
(* What the host answers is data of the format it was asked for.             *)
Formats    == {Single, Double}
Data(f)    == 0 .. 2 * Host!SignOf(f) - 1
Reports    == SUBSET (Exceptions \ {"E"})
Answers(f) == [bits : Data(f), raised : Reports]

(* The sizes of the formats, of infinity and of the bit that is quiet.       *)
LEMMA FormatBits ==
  ASSUME NEW f \in Formats
  PROVE  /\ f.exp \in 2 .. Digits /\ f.frac \in 1 .. Digits /\ f.words \in {1, 2}
         /\ Digits \in Nat /\ 2 * f.frac + 5 <= Digits
         /\ Host!SignOf(f) \in Nat \ {0} /\ 2 ^ f.frac \in Nat \ {0}
         /\ Host!InfBits(f) \in 1 .. Host!SignOf(f) - 1
         /\ Host!InfBits(f) + 2 ^ f.frac = Host!SignOf(f)
         /\ 2 ^ f.frac = 2 * Host!QuietBit(f) /\ Host!QuietBit(f) \in Nat \ {0}
<1> DEFINE m == f.exp
           n == f.frac
<1>1. /\ f.words \in {1, 2} /\ Digits \in Nat
      /\ m \in 2 .. Digits /\ n \in 1 .. Digits /\ 2 * n + 5 <= Digits
  <2>1. Single.exp = SingleExp /\ Single.frac = 1 * Width - 1 - SingleExp /\ Single.words = 1
    BY DEF Single, Format
  <2>2. Double.exp = DoubleExp /\ Double.frac = 2 * Width - 1 - DoubleExp /\ Double.words = 2
    BY DEF Double, Format
  <2>3. Width \in Nat
    BY CoreAssumption
  <2>4. CASE f = Single
    BY <2>1, <2>3, <2>4, FloatAssumption, SMT DEF Digits
  <2>5. CASE f = Double
    BY <2>2, <2>3, <2>5, FloatAssumption, SMT DEF Digits
  <2> QED
    BY <2>4, <2>5 DEF Formats
<1> DEFINE E == 2 ^ m
           F == 2 ^ n
           Q == 2 ^ (n - 1)
<1>2. E \in Nat \ {0} /\ F \in Nat \ {0} /\ Host!SignOf(f) = E * F /\ E >= 2
  <2>1. E \in Nat \ {0} /\ F \in Nat \ {0} /\ Host!SignOf(f) = E * F
        /\ 2 ^ (f.exp - 1) \in Nat \ {0} /\ E = 2 * 2 ^ (f.exp - 1)
    BY FormatSizes DEF Formats
  <2> HIDE DEF E, F, m
  <2> QED
    BY <2>1, SMT
<1>3. F = 2 * Q /\ Q \in Nat \ {0}
  <2> DEFINE j == n - 1
  <2> HIDE DEF n
  <2>1. j \in 0 .. Digits /\ 1 \in 0 .. Digits /\ 1 + j = n /\ 1 + j <= Digits
    BY <1>1, SMT
  <2> HIDE DEF j
  <2>2. 2 ^ j \in Nat \ {0} /\ 2 ^ (1 + j) = 2 ^ 1 * 2 ^ j
    BY <2>1, PowersAssumption
  <2>3. 2 ^ 1 = 2
    BY SMT
  <2> QED
    BY <2>1, <2>2, <2>3 DEF j
<1>4. Host!InfBits(f) = (E - 1) * F /\ Host!QuietBit(f) = Q
  BY DEF Host!InfBits, Host!QuietBit
<1> HIDE DEF E, F, Q
<1>5. (E - 1) * F + F = E * F /\ (E - 1) * F >= F /\ (E - 1) * F \in Int /\ E * F \in Nat \ {0}
  <2>1. (E - 1) * F = E * F - F /\ E * F \in Nat \ {0}
    BY <1>2, SMT
  <2>2. E * F >= 2 * F
    BY <1>2, SMT
  <2> QED
    BY <1>2, <2>1, <2>2, SMT
<1>6. (E - 1) * F \in 1 .. E * F - 1
  <2> DEFINE t == (E - 1) * F
             s == E * F
  <2> HIDE DEF t, s
  <2>1. t + F = s /\ t >= F /\ t \in Int /\ s \in Nat
    BY <1>5 DEF t, s
  <2>2. t \in 1 .. s - 1
    BY <1>2, <2>1, SMT
  <2> QED
    BY <2>2 DEF t, s
<1> QED
  BY <1>1, <1>2, <1>3, <1>4, <1>5, <1>6 DEF F, E, Q

(* A number has no more digits than are counted.                             *)
LEMMA LengthTyped == ASSUME NEW m PROVE Host!BitLength(m) \in 0 .. Digits
<1> DEFINE ks == {k \in 0 .. Digits - 1 : 2 ^ k <= m}
<1>1. Digits \in Nat
  BY FormatBits DEF Formats
<1>2. IsFiniteSet(0 .. Digits - 1) /\ Cardinality(0 .. Digits - 1) = Digits
  BY <1>1, FS_Interval
<1>3. ks \subseteq 0 .. Digits - 1
  OBVIOUS
<1>4. IsFiniteSet(ks) /\ Cardinality(ks) <= Cardinality(0 .. Digits - 1)
  BY <1>2, <1>3, FS_Subset
<1>5. Cardinality(ks) \in Nat
  BY <1>4, FS_CardinalityType
<1>6. Host!BitLength(m) = Cardinality(ks)
  <2>1. Host!BitLength(m) = Host!Cardinality(ks)
    BY DEF Host!BitLength
  <2> QED
    BY <2>1 DEF Host!Cardinality, Cardinality
<1> HIDE DEF ks
<1> QED
  BY <1>1, <1>2, <1>4, <1>5, <1>6, SMT

(* A number that is rounded: a natural one, times a power of two.            *)
Number == [neg : BOOLEAN, m : Nat, e : Int]

(* An answer of its two parts.                                               *)
LEMMA AnswerTyped ==
  ASSUME NEW f \in Formats, NEW b \in Data(f), NEW k \in Reports
  PROVE  Host!Answer(b, k) \in Answers(f)
BY Zenon DEF Host!Answer, Answers

(* One that raises nothing.                                                  *)
LEMMA ExactlyTyped ==
  ASSUME NEW f \in Formats, NEW b \in Data(f)
  PROVE  Host!Exactly(b) \subseteq Answers(f)
<1>1. {} \in Reports
  BY Zenon DEF Reports
<1> QED
  BY <1>1, AnswerTyped, Zenon DEF Host!Exactly

(* A sign above a number that keeps below it.                                *)
LEMMA SignedTyped ==
  ASSUME NEW f \in Formats, NEW neg, NEW n \in 0 .. Host!SignOf(f) - 1
  PROVE  Host!Signum(f, neg) + n \in Data(f) /\ Host!Signum(f, neg) \in {0, Host!SignOf(f)}
<1> DEFINE S == Host!SignOf(f)
<1>1. S \in Nat \ {0}
  BY FormatBits
<1>2. Host!Signum(f, neg) \in {0, S}
  BY Zenon DEF Host!Signum
<1> HIDE DEF S
<1>3. \A s \in {0, S} : \A k \in 0 .. S - 1 : s + k \in 0 .. 2 * S - 1
  BY <1>1, SMT
<1> QED
  BY <1>2, <1>3 DEF S, Data

(* A sign alone, and with infinity or a NaN below it.                        *)
LEMMA SignsTyped ==
  ASSUME NEW f \in Formats, NEW neg
  PROVE  /\ Host!Signum(f, neg) \in Data(f)
         /\ Host!Signum(f, neg) + Host!InfBits(f) \in Data(f)
         /\ \A s \in {0, Host!SignOf(f)} : s + Host!InfBits(f) + Host!QuietBit(f) \in Data(f)
<1> DEFINE S == Host!SignOf(f)
           I == Host!InfBits(f)
           Q == Host!QuietBit(f)
           F == 2 ^ f.frac
<1>1. S \in Nat \ {0} /\ I \in 1 .. S - 1 /\ I + F = S /\ F = 2 * Q /\ Q \in Nat \ {0}
  BY FormatBits
<1>2. Host!Signum(f, neg) \in {0, S}
  BY Zenon DEF Host!Signum
<1> HIDE DEF S, I, Q, F
<1>3. \A s \in {0, S} : s \in 0 .. 2 * S - 1 /\ s + I \in 0 .. 2 * S - 1 /\ s + I + Q \in 0 .. 2 * S - 1
  BY <1>1, SMT
<1> QED
  BY <1>2, <1>3 DEF S, I, Q, Data

(* What is rounded, to whatever side, is a datum of the format.              *)
LEMMA RoundedTyped ==
  ASSUME NEW f \in Formats, NEW mode, NEW n \in Number
  PROVE  Host!Rounded(f, mode, n) \subseteq Answers(f)
<1> DEFINE length == Host!BitLength(n.m)
           place  == Host!Greatest(length + n.e - f.frac - 1, Host!LastPlace(f))
           shift  == Host!Least(place - n.e, length + 1)
           half   == 2 ^ (Host!Greatest(shift, 1) - 1)
           whole  == IF shift <= 0 THEN n.m * 2 ^ (- shift) ELSE n.m \div (2 * half)
           rest   == IF shift <= 0 THEN 0 ELSE n.m % (2 * half)
           one    == IF Host!RoundsUp(mode, n.neg, whole, rest, half) THEN 1 ELSE 0
           bits   == (place - Host!LastPlace(f)) * 2 ^ f.frac + whole + one
           sign   == Host!Signum(f, n.neg)
           I      == Host!InfBits(f)
           F      == 2 ^ f.frac
           us     == IF bits < 2 ^ f.frac THEN {{"U"}}
                     ELSE IF whole < 2 ^ f.frac THEN {{"U"}, {}} ELSE {{}}
<1>1. Host!Rounded(f, mode, n) =
        IF n.m = 0 THEN Host!Exactly(sign)
        ELSE IF bits >= Host!InfBits(f) THEN {Host!Answer(sign + Host!Largest(f, mode, n.neg), {"O", "I"})}
        ELSE IF rest = 0 THEN Host!Exactly(sign + bits)
        ELSE {Host!Answer(sign + bits, {"I"} \cup u) : u \in us}
  BY Zenon DEF Host!Rounded
<1>2. n.neg \in BOOLEAN /\ n.m \in Nat /\ n.e \in Int
  BY DEF Number
<1>3. /\ f.frac \in 1 .. Digits /\ Digits \in Nat /\ 2 * f.frac + 5 <= Digits /\ F \in Nat \ {0}
      /\ I \in 1 .. Host!SignOf(f) - 1 /\ Host!SignOf(f) \in Nat
  BY FormatBits, SMT
<1>4. Host!LastPlace(f) \in Int
  BY FormatSizes DEF Formats
<1>5. length \in 0 .. Digits
  BY LengthTyped
<1> HIDE DEF length
<1>6. /\ place \in Int /\ place >= Host!LastPlace(f)
      /\ shift \in Int /\ Host!Greatest(shift, 1) - 1 \in 0 .. Digits
      /\ shift <= 0 => - shift \in 0 .. Digits
  <2> DEFINE l == Host!LastPlace(f)
             k == f.frac
             e == n.e
  <2>1. l \in Int /\ k \in 1 .. Digits /\ e \in Int /\ k + 1 <= Digits
    BY <1>2, <1>3, <1>4, SMT
  <2> HIDE DEF l, k, e
  <2>2. place = IF length + e - k - 1 > l THEN length + e - k - 1 ELSE l
    BY Zenon DEF Host!Greatest, l, k, e
  <2> HIDE DEF place
  <2>3. place \in Int /\ place >= l /\ place >= length + e - k - 1
    BY <1>3, <1>5, <2>1, <2>2, SMT
  <2>4. shift = IF place - e < length + 1 THEN place - e ELSE length + 1
    BY Zenon DEF Host!Least, e
  <2> HIDE DEF shift
  <2>5. shift \in Int /\ shift <= length + 1 /\ (shift <= 0 => shift = place - e)
    BY <1>3, <1>5, <2>1, <2>3, <2>4, SMT
  <2>6. Host!Greatest(shift, 1) = IF shift > 1 THEN shift ELSE 1
    BY Zenon DEF Host!Greatest
  <2> QED
    BY <1>3, <1>5, <2>1, <2>3, <2>5, <2>6, SMT DEF l
<1>7. half \in Nat \ {0} /\ (shift <= 0 => 2 ^ (- shift) \in Nat)
  <2> HIDE DEF shift
  <2>1. half \in Nat \ {0}
    BY <1>6, PowersAssumption
  <2>2. shift <= 0 => 2 ^ (- shift) \in Nat
    BY <1>6, PowersAssumption
  <2> QED
    BY <2>1, <2>2
<1> HIDE DEF half
<1>8. whole \in Nat
  <2> DEFINE p == 2 ^ (- shift)
             m == n.m
  <2>1. m \in Nat /\ half \in Nat \ {0} /\ (shift <= 0 => p \in Nat)
    BY <1>2, <1>7
  <2>2. whole = IF shift <= 0 THEN m * p ELSE m \div (2 * half)
    BY Zenon
  <2> HIDE DEF p, m, shift, whole
  <2>3. shift <= 0 => m * p \in Nat
    BY <2>1, SMT
  <2>4. m \div (2 * half) \in Nat
    <3>1. 2 * half \in Nat \ {0}
      BY <2>1, SMT
    <3> DEFINE d == 2 * half
    <3> HIDE DEF d
    <3>2. m \div d \in Nat
      BY <2>1, <3>1, SMT DEF d
    <3> QED
      BY <3>2 DEF d
  <2> QED
    BY <2>2, <2>3, <2>4, Zenon
<1>9. bits \in Nat
  <2> DEFINE q == place - Host!LastPlace(f)
  <2>1. q \in Nat /\ F \in Nat /\ whole \in Nat /\ one \in {0, 1}
    <3> HIDE DEF place
    <3>1. q \in Nat
      BY <1>4, <1>6, SMT
    <3> QED
      BY <1>3, <1>8, <3>1, Zenon
  <2>2. bits = q * F + whole + one
    OBVIOUS
  <2> HIDE DEF q, F, whole, one
  <2>3. q * F \in Nat
    BY <2>1, SMT
  <2> QED
    BY <2>1, <2>2, <2>3, SMT
<1> HIDE DEF bits, whole, rest
<1>10. Host!Exactly(sign) \subseteq Answers(f)
  BY SignsTyped, ExactlyTyped
<1>11. Host!Answer(sign + Host!Largest(f, mode, n.neg), {"O", "I"}) \in Answers(f)
  <2>1. Host!Largest(f, mode, n.neg) \in {I, I - 1}
    BY Zenon DEF Host!Largest
  <2>2. Host!Largest(f, mode, n.neg) \in 0 .. Host!SignOf(f) - 1
    BY <1>3, <2>1, SMT
  <2>3. {"O", "I"} \in Reports
    BY SMT DEF Reports, Exceptions
  <2> QED
    BY <2>2, <2>3, SignedTyped, AnswerTyped
<1>12. ASSUME ~ bits >= I PROVE sign + bits \in Data(f)
  <2>1. bits \in 0 .. Host!SignOf(f) - 1
    BY <1>3, <1>9, <1>12, SMT
  <2> QED
    BY <2>1, SignedTyped
<1>13. ASSUME NEW u \in us PROVE {"I"} \cup u \in Reports
  <2>1. u \in {{"U"}, {}}
    BY Zenon
  <2> QED
    BY <2>1, SMT DEF Reports, Exceptions
<1> HIDE DEF us, sign
<1>14. CASE n.m = 0
  BY <1>1, <1>10, <1>14, Zenon
<1>15. CASE n.m # 0 /\ bits >= I
  BY <1>1, <1>11, <1>15, Zenon
<1>16. CASE n.m # 0 /\ ~ bits >= I /\ rest = 0
  <2>1. Host!Rounded(f, mode, n) = Host!Exactly(sign + bits)
    BY <1>1, <1>16, Zenon
  <2> QED
    BY <1>12, <1>16, <2>1, ExactlyTyped
<1>17. CASE n.m # 0 /\ ~ bits >= I /\ rest # 0
  <2>1. Host!Rounded(f, mode, n) = {Host!Answer(sign + bits, {"I"} \cup u) : u \in us}
    BY <1>1, <1>17, Zenon
  <2>2. \A u \in us : Host!Answer(sign + bits, {"I"} \cup u) \in Answers(f)
    BY <1>12, <1>13, <1>17, AnswerTyped
  <2> QED
    BY <2>1, <2>2, Zenon
<1> QED
  BY <1>14, <1>15, <1>16, <1>17

(* A number below a power of two has no more digits than that.               *)
LEMMA LengthBelow ==
  ASSUME NEW n \in 0 .. Digits, NEW m \in Nat, m < 2 ^ n
  PROVE  Host!BitLength(m) \in 0 .. n
<1> DEFINE ks == {k \in 0 .. Digits - 1 : 2 ^ k <= m}
<1>1. ASSUME NEW k \in 0 .. Digits - 1, 2 ^ k <= m PROVE k \in 0 .. n - 1
  <2>1. Digits \in Nat
    BY FormatBits DEF Formats
  <2> SUFFICES ASSUME k >= n PROVE FALSE
    BY <2>1, SMT
  <2> DEFINE j == k - n
  <2>2. j \in 0 .. Digits /\ n \in 0 .. Digits /\ n + j = k /\ n + j <= Digits
    BY <2>1, SMT
  <2> HIDE DEF j
  <2>3. 2 ^ (n + j) = 2 ^ n * 2 ^ j /\ 2 ^ n \in Nat \ {0} /\ 2 ^ j \in Nat \ {0}
    BY <2>2, PowersAssumption
  <2> DEFINE p == 2 ^ n
             q == 2 ^ j
  <2>4. p \in Nat \ {0} /\ q \in Nat \ {0} /\ p * q <= m /\ m < p
    BY <1>1, <2>2, <2>3
  <2> HIDE DEF p, q
  <2>5. p * q >= p
    BY <2>4, SMT
  <2>6. p * q \in Int
    BY <2>4, SMT
  <2> QED
    BY <2>4, <2>5, <2>6, SMT
<1>2. IsFiniteSet(0 .. n - 1) /\ Cardinality(0 .. n - 1) = n
  BY FS_Interval, SMT
<1>3. ks \subseteq 0 .. n - 1
  BY <1>1, Zenon
<1> HIDE DEF ks
<1>4. Cardinality(ks) \in Nat /\ Cardinality(ks) <= Cardinality(0 .. n - 1)
  BY <1>2, <1>3, FS_Subset, FS_CardinalityType
<1>5. Host!BitLength(m) = Cardinality(ks)
  <2>1. Host!BitLength(m) = Host!Cardinality(ks)
    BY DEF Host!BitLength, ks
  <2> QED
    BY <2>1 DEF Host!Cardinality, Cardinality
<1> QED
  BY <1>2, <1>4, <1>5, SMT

(* The number of a datum has a digit more than its fraction, and is not zero *)
(* when the datum is not.                                                    *)
LEMMA ValueTyped ==
  ASSUME NEW f \in Formats, NEW b \in Data(f)
  PROVE  /\ b \in Int /\ Host!Value(f, b) \in Number
         /\ Host!Value(f, b).m < 2 * 2 ^ f.frac
         /\ Host!BitLength(Host!Value(f, b).m) \in 0 .. f.frac + 1
         /\ ~ Host!Null(f, b) => Host!Value(f, b).m # 0
<1> DEFINE E == 2 ^ f.exp
           F == 2 ^ f.frac
           x == (b \div F) % E
           y == b % F
           v == Host!Value(f, b)
<1>0. b \in Int /\ Host!SignOf(f) \in Int
  BY FormatBits, SMT DEF Data
<1>1. /\ E \in Nat \ {0} /\ F \in Nat \ {0}
      /\ x \in 0 .. E - 1 /\ y \in 0 .. F - 1
      /\ Host!Magnitude(f, b) = x * F + y
      /\ v.neg = Host!Minus(f, b)
      /\ v.m = IF x = 0 THEN y ELSE y + F
      /\ v.e = Host!LastPlace(f) + (IF x > 1 THEN x ELSE 1) - 1
  BY <1>0, PartsOf DEF Formats
<1>2. Host!LastPlace(f) \in Int /\ f.frac \in 1 .. Digits /\ 2 * f.frac + 5 <= Digits /\ Digits \in Nat
  BY FormatSizes, FormatBits DEF Formats
<1>3. v.neg \in BOOLEAN
  <2>1. Host!Minus(f, b) \in BOOLEAN
    BY SMT DEF Host!Minus
  <2> QED
    BY <1>1, <2>1
<1>4. v = [neg |-> v.neg, m |-> v.m, e |-> v.e]
  BY DEF Host!Value
<1>5. Host!Null(f, b) <=> x * F + y = 0
  BY <1>1, Zenon DEF Host!Null
<1> DEFINE l == Host!LastPlace(f)
<1> HIDE DEF E, F, x, y, v, l
<1>6. v.m \in Nat /\ v.m < 2 * F /\ v.e \in Int
  <2>1. l \in Int /\ v.e = l + (IF x > 1 THEN x ELSE 1) - 1
    BY <1>1, <1>2 DEF l
  <2> QED
    BY <1>1, <2>1, SMT
<1>7. v \in Number
  <2>1. [neg |-> v.neg, m |-> v.m, e |-> v.e] \in Number
    BY <1>3, <1>6, Zenon DEF Number
  <2> QED
    BY <1>4, <2>1
<1>8. Host!BitLength(v.m) \in 0 .. f.frac + 1
  <2> DEFINE k == f.frac
  <2>1. k \in 0 .. Digits /\ 1 \in 0 .. Digits /\ 1 + k \in 0 .. Digits
        /\ k + 1 = 1 + k /\ 1 + k <= Digits
    BY <1>2, SMT
  <2>2. 2 ^ (1 + k) = 2 ^ 1 * 2 ^ k
    BY <2>1, PowersAssumption
  <2>3. 2 ^ 1 = 2
    BY SMT
  <2>4. 2 ^ (1 + k) = 2 * F
    BY <2>2, <2>3 DEF F
  <2>5. v.m < 2 ^ (1 + k)
    BY <1>6, <2>4
  <2> HIDE DEF k
  <2>6. Host!BitLength(v.m) \in 0 .. 1 + k
    BY <1>6, <2>1, <2>5, LengthBelow
  <2> QED
    BY <2>1, <2>6 DEF k
<1>9. ~ Host!Null(f, b) => v.m # 0
  <2>1. v.m = 0 => x = 0 /\ y = 0
    BY <1>1, SMT
  <2>2. 0 * F + 0 = 0
    BY <1>1, SMT
  <2> QED
    BY <1>5, <2>1, <2>2
<1> QED
  BY <1>0, <1>6, <1>7, <1>8, <1>9 DEF v, F

(* An exact product is a number.                                             *)
LEMMA ProductTyped ==
  ASSUME NEW a \in Number, NEW b \in Number
  PROVE  Host!Product(a, b) \in Number /\ Host!Product(a, b).m = a.m * b.m
<1>1. a.m \in Nat /\ b.m \in Nat /\ a.e \in Int /\ b.e \in Int
  BY DEF Number
<1>2. a.m * b.m \in Nat /\ a.e + b.e \in Int /\ (a.neg # b.neg) \in BOOLEAN
  BY <1>1, SMT
<1>3. Host!Product(a, b) = [neg |-> a.neg # b.neg, m |-> a.m * b.m, e |-> a.e + b.e]
  BY DEF Host!Product
<1>4. [neg |-> a.neg # b.neg, m |-> a.m * b.m, e |-> a.e + b.e] \in Number
  BY <1>2, Zenon DEF Number
<1> QED
  BY <1>3, <1>4

(* With a last digit for what is left it is one.                             *)
LEMMA RestTyped ==
  ASSUME NEW neg \in BOOLEAN, NEW m \in Nat, NEW rest, NEW e \in Int
  PROVE  Host!WithRest(neg, m, rest, e) \in Number
<1>1. 2 * m + (IF rest THEN 1 ELSE 0) \in Nat /\ e - 1 \in Int
  BY SMT
<1> QED
  BY <1>1, Zenon DEF Host!WithRest, Number

(* A sum, of which no term has too many digits, is one.                      *)
LEMMA SumIsNumber ==
  ASSUME NEW f \in Formats, NEW mode, NEW a \in Number, NEW b \in Number,
         f.frac + 2 + Host!BitLength(a.m) <= Digits, f.frac + 2 + Host!BitLength(b.m) <= Digits
  PROVE  Host!Sum(f, mode, a, b) \in Number
<1> DEFINE h    == IF a.e >= b.e THEN a ELSE b
           l    == IF a.e >= b.e THEN b ELSE a
           keep == f.frac + 2
           far  == h.m # 0 /\ h.e - l.e >= keep + Host!BitLength(l.m)
           up   == IF far THEN keep ELSE IF h.m = 0 THEN 0 ELSE h.e - l.e
           low  == IF far THEN Host!Least(l.m, 1) ELSE l.m
           sum  == (IF h.neg THEN - h.m ELSE h.m) * 2 ^ up + (IF l.neg THEN - low ELSE low)
           neg  == IF sum = 0 THEN (IF a.m = 0 /\ a.neg = b.neg THEN a.neg ELSE mode = "RD") ELSE sum < 0
           e    == IF h.m = 0 THEN l.e ELSE h.e - up
<1>1. Host!Sum(f, mode, a, b) = [neg |-> neg, m |-> Host!Absolute(sum), e |-> e]
  BY Zenon DEF Host!Sum
<1>2. /\ a.m \in Nat /\ a.e \in Int /\ a.neg \in BOOLEAN
      /\ b.m \in Nat /\ b.e \in Int /\ b.neg \in BOOLEAN
  BY DEF Number
<1>3. f.frac \in 1 .. Digits /\ Digits \in Nat
  BY FormatBits
<1>4. h \in Number /\ l \in Number /\ h.e >= l.e /\ keep + Host!BitLength(l.m) <= Digits
  BY <1>2, SMT
<1>5. h.m \in Nat /\ h.e \in Int /\ l.m \in Nat /\ l.e \in Int
  BY <1>4 DEF Number
<1>6. Host!BitLength(l.m) \in 0 .. Digits
  BY LengthTyped
<1> HIDE DEF h, l
<1>7. up \in 0 .. Digits
  BY <1>3, <1>4, <1>5, <1>6, SMT
<1>8. 2 ^ up \in Nat \ {0}
  BY <1>7, PowersAssumption
<1>9. low \in Nat
  BY <1>5, SMT DEF Host!Least
<1> HIDE DEF up, low
<1>10. sum \in Int
  <2> DEFINE p == 2 ^ up
             s == IF h.neg THEN - h.m ELSE h.m
             t == IF l.neg THEN - low ELSE low
  <2>1. p \in Int /\ s \in Int /\ t \in Int
    BY <1>5, <1>8, <1>9, SMT
  <2>2. sum = s * p + t
    OBVIOUS
  <2> HIDE DEF p, s, t, sum
  <2> QED
    BY <2>1, <2>2, SMT
<1>11. neg \in BOOLEAN
  <2> HIDE DEF sum
  <2>1. (sum < 0) \in BOOLEAN /\ (mode = "RD") \in BOOLEAN
    BY SMT
  <2> QED
    BY <1>2, <2>1, Zenon
<1> HIDE DEF sum, neg
<1>12. Host!Absolute(sum) \in Nat
  BY <1>10, SMT DEF Host!Absolute
<1>13. e \in Int
  BY <1>5, <1>7, SMT
<1> HIDE DEF e
<1>14. [neg |-> neg, m |-> Host!Absolute(sum), e |-> e] \in Number
  BY <1>11, <1>12, <1>13, Zenon DEF Number
<1> QED
  BY <1>1, <1>14

(* A quotient is one.                                                        *)
LEMMA RatioTyped ==
  ASSUME NEW f \in Formats, NEW a \in Number, NEW b \in Number, b.m # 0,
         Host!BitLength(a.m) <= f.frac + 1
  PROVE  Host!Ratio(f, a, b) \in Number
<1> DEFINE up == 2 * f.frac + 5 - Host!BitLength(a.m)
           n  == a.m * 2 ^ up
           q  == n \div b.m
           e  == a.e - b.e - up
<1>1. Host!Ratio(f, a, b) = Host!WithRest(a.neg # b.neg, q, n % b.m # 0, e)
  BY Zenon DEF Host!Ratio
<1>2. /\ a.m \in Nat /\ a.e \in Int /\ b.m \in Nat \ {0} /\ b.e \in Int
  BY DEF Number
<1>3. f.frac \in 1 .. Digits /\ Digits \in Nat /\ 2 * f.frac + 5 <= Digits
  BY FormatBits
<1>4. Host!BitLength(a.m) \in 0 .. Digits
  BY LengthTyped
<1>5. up \in 0 .. Digits
  BY <1>3, <1>4, SMT
<1>6. 2 ^ up \in Nat
  BY <1>5, PowersAssumption
<1> HIDE DEF up
<1>7. n \in Nat
  <2> DEFINE p == 2 ^ up
             m == a.m
  <2>1. p \in Nat /\ m \in Nat /\ n = m * p
    BY <1>2, <1>6
  <2> HIDE DEF p, m, n
  <2> QED
    BY <2>1, SMT
<1> HIDE DEF n
<1>8. q \in Nat
  <2> DEFINE d == b.m
  <2>1. d \in Nat \ {0} /\ q = n \div d
    BY <1>2
  <2> HIDE DEF d, q
  <2> QED
    BY <1>7, <2>1, SMT
<1>9. e \in Int
  BY <1>2, <1>5, SMT
<1> HIDE DEF q, e
<1> QED
  BY <1>1, <1>8, <1>9, RestTyped

(* Every number has a root that is next below.                               *)
LEMMA RootExists ==
  ASSUME NEW n \in Nat
  PROVE  \E k \in 0 .. n : k * k <= n /\ n < (k + 1) * (k + 1)
<1> DEFINE T == {k \in Nat : n < (k + 1) * (k + 1)}
<1>1. n \in T
  <2>1. (n + 1) * (n + 1) = n * n + 2 * n + 1 /\ n * n \in Nat
    BY SMT
  <2>2. n < (n + 1) * (n + 1)
    BY <2>1, SMT
  <2> QED
    BY <2>2
<1>2. PICK k \in T : \A j \in T : k <= j
  BY <1>1, HasLeast
<1>3. k \in Nat /\ k <= n /\ n < (k + 1) * (k + 1)
  BY <1>1, <1>2
<1>4. k * k <= n
  <2>1. CASE k = 0
    BY <2>1, SMT
  <2>2. CASE k # 0
    <3> DEFINE j == k - 1
    <3>1. j \in Nat /\ ~ (k <= j) /\ j + 1 = k
      BY <1>3, <2>2, SMT
    <3>2. j \notin T
      BY <1>2, <3>1
    <3>3. ~ (n < (j + 1) * (j + 1))
      BY <3>1, <3>2
    <3>4. ~ (n < k * k)
      BY <3>1, <3>3
    <3>5. k * k \in Nat
      BY <1>3, SMT
    <3> QED
      BY <3>4, <3>5, SMT
  <2> QED
    BY <2>1, <2>2
<1> QED
  BY <1>3, <1>4, SMT

(* A root is a number.                                                       *)
LEMMA RootIsNumber ==
  ASSUME NEW f \in Formats, NEW a \in Number
  PROVE  Host!RootOf(f, a) \in Number
<1> DEFINE up == f.frac + 4 + ((f.frac + a.e) % 2)
           n  == a.m * 2 ^ up
           s  == CHOOSE k \in 0 .. n : k * k <= n /\ n < (k + 1) * (k + 1)
           e  == (a.e - up) \div 2
<1>1. Host!RootOf(f, a) = Host!WithRest(FALSE, s, s * s # n, e)
  BY Zenon DEF Host!RootOf
<1>2. a.m \in Nat /\ a.e \in Int
  BY DEF Number
<1>3. f.frac \in 1 .. Digits /\ Digits \in Nat /\ 2 * f.frac + 5 <= Digits
  BY FormatBits
<1>4. up \in 0 .. Digits
  <2> DEFINE x == f.frac + a.e
  <2>1. x \in Int
    BY <1>2, <1>3, SMT
  <2> HIDE DEF x
  <2>2. x % 2 \in 0 .. 1
    BY <2>1, SMT
  <2>3. up = f.frac + 4 + (x % 2)
    BY DEF x
  <2> QED
    BY <1>3, <2>2, <2>3, SMT
<1>5. 2 ^ up \in Nat
  BY <1>4, PowersAssumption
<1> HIDE DEF up
<1>6. n \in Nat
  <2> DEFINE p == 2 ^ up
             m == a.m
  <2>1. p \in Nat /\ m \in Nat /\ n = m * p
    BY <1>2, <1>5
  <2> HIDE DEF p, m, n
  <2> QED
    BY <2>1, SMT
<1> HIDE DEF n
<1>7. s \in Nat
  <2>1. s \in 0 .. n
    BY <1>6, RootExists, Zenon
  <2> HIDE DEF s
  <2> QED
    BY <1>6, <2>1, SMT
<1>8. e \in Int
  BY <1>2, <1>4, SMT
<1> HIDE DEF s, e
<1> QED
  BY <1>1, <1>7, <1>8, RestTyped

(* Data whose sign is dropped or turned, or that are made quiet.             *)
LEMMA DatumTyped ==
  ASSUME NEW f \in Formats, NEW b \in Data(f)
  PROVE  /\ b \in Int /\ Host!Magnitude(f, b) \in Data(f) /\ Host!Opposite(f, b) \in Data(f)
         /\ Host!Quieted(f, b) \in Data(f)
<1> DEFINE S == Host!SignOf(f)
           E == 2 ^ f.exp
           F == 2 ^ f.frac
           Q == Host!QuietBit(f)
<1>1. S \in Nat \ {0} /\ F = 2 * Q /\ Q \in Nat \ {0} /\ b \in 0 .. 2 * S - 1
  BY FormatBits DEF Data
<1>2. S = E * F /\ E \in Nat \ {0}
  BY FormatSizes DEF Formats
<1>3. /\ Host!Magnitude(f, b) = b % S
      /\ Host!Opposite(f, b) = IF b >= S THEN b - S ELSE b + S
      /\ Host!Quieted(f, b) = IF (b \div Q) % 2 = 1 THEN b ELSE b + Q
  BY Zenon DEF Host!Magnitude, Host!Opposite, Host!Minus, Host!Quieted, Host!Quiet
<1> HIDE DEF S, E, F, Q
<1>4. b % S \in 0 .. 2 * S - 1
  BY <1>1, SMT
<1>5. (IF b >= S THEN b - S ELSE b + S) \in 0 .. 2 * S - 1
  BY <1>1, SMT
<1>6. (b \div Q) % 2 # 1 => b + Q \in 0 .. 2 * S - 1
  <2> DEFINE w == b \div Q
             j == w \div 2
             k == 2 * E
  <2>1. w \in Int /\ w * Q <= b /\ b < w * Q + Q
    BY <1>1, SMT
  <2> HIDE DEF w
  <2>2. j \in Int /\ (w % 2 # 1 => w = 2 * j)
    BY <2>1, SMT
  <2> HIDE DEF j
  <2>3. k \in Nat /\ 2 * S = (2 * k) * Q
    <3>1. S = E * (2 * Q)
      BY <1>1, <1>2
    <3> QED
      BY <1>1, <1>2, <3>1, SMT
  <2> HIDE DEF k
  <2>4. ASSUME w = 2 * j PROVE w * Q + 2 * Q <= (2 * k) * Q
    <3>1. w * Q < (2 * k) * Q
      <4> DEFINE x == w * Q
                 y == (2 * k) * Q
      <4>1. x \in Int /\ y \in Int /\ x <= b /\ b < y
        BY <1>1, <2>1, <2>3, SMT
      <4> HIDE DEF x, y
      <4>2. x < y
        BY <1>1, <4>1, SMT
      <4> QED
        BY <4>2 DEF x, y
    <3>2. j < k
      <4> SUFFICES ASSUME k <= j PROVE FALSE
        BY <2>2, <2>3, SMT
      <4>1. (2 * k) * Q <= (2 * j) * Q
        BY <1>1, <2>2, <2>3, SMT
      <4>2. (2 * j) * Q = w * Q
        BY <2>4
      <4>3. (2 * k) * Q \in Int /\ w * Q \in Int
        BY <1>1, <2>1, <2>3, SMT
      <4> QED
        BY <3>1, <4>1, <4>2, <4>3, SMT
    <3>3. (w + 2) * Q <= (2 * k) * Q
      BY <1>1, <2>1, <2>2, <2>3, <2>4, <3>2, SMT
    <3>4. (w + 2) * Q = w * Q + 2 * Q
      BY <1>1, <2>1, SMT
    <3> QED
      BY <3>3, <3>4
  <2>5. w * Q \in Int
    BY <1>1, <2>1, SMT
  <2>6. ASSUME w % 2 # 1 PROVE b + Q \in 0 .. 2 * S - 1
    <3> DEFINE x == w * Q
               y == (2 * k) * Q
    <3>1. x \in Int /\ x + 2 * Q <= y /\ b < x + Q /\ 2 * S = y
      BY <2>1, <2>2, <2>3, <2>4, <2>5, <2>6
    <3> HIDE DEF x, y
    <3> QED
      BY <1>1, <3>1, SMT
  <2> QED
    BY <2>6 DEF w
<1>7. b \in Int /\ Data(f) = 0 .. 2 * S - 1
  BY <1>1, SMT DEF Data, S
<1> QED
  BY <1>1, <1>3, <1>4, <1>5, <1>6, <1>7, Zenon

(* A NaN that is passed on, and one that is made.                            *)
LEMMA PassedTyped ==
  ASSUME NEW f \in Formats, NEW bs \in SUBSET Data(f)
  PROVE  Host!Passed(f, bs) \subseteq Answers(f) /\ Host!Invalid(f) \subseteq Answers(f)
<1>1. {} \in Reports /\ {"V"} \in Reports
  BY SMT DEF Reports, Exceptions
<1>2. Host!Passed(f, bs) \subseteq Answers(f)
  <2> DEFINE nans == {b \in bs : Host!NaN(f, b)}
             v == IF \A b \in nans : Host!Quiet(f, b) THEN {} ELSE {"V"}
  <2>1. Host!Passed(f, bs) = {Host!Answer(Host!Quieted(f, b), v) : b \in nans}
    BY Zenon DEF Host!Passed
  <2>2. v \in Reports
    BY <1>1, Zenon
  <2> HIDE DEF v
  <2>3. \A b \in nans : Host!Answer(Host!Quieted(f, b), v) \in Answers(f)
    BY <2>2, DatumTyped, AnswerTyped
  <2> QED
    BY <2>1, <2>3, Zenon
<1>3. Host!Invalid(f) \subseteq Answers(f)
  <2>1. \A s \in {0, Host!SignOf(f)} : Host!Answer(s + Host!InfBits(f) + Host!QuietBit(f), {"V"}) \in Answers(f)
    BY <1>1, SignsTyped, AnswerTyped
  <2> QED
    BY <2>1, Zenon DEF Host!Invalid
<1> QED
  BY <1>2, <1>3

(* Sums, differences, products and quotients of data.                        *)
LEMMA AddTyped ==
  ASSUME NEW f \in Formats, NEW mode, NEW a \in Data(f), NEW b \in Data(f)
  PROVE  /\ Host!Add(f, mode, a, b) \subseteq Answers(f)
         /\ Host!Subtract(f, mode, a, b) \subseteq Answers(f)
<1>1. ASSUME NEW c \in Data(f) PROVE Host!Add(f, mode, a, c) \subseteq Answers(f)
  <2> DEFINE sum == Host!Sum(f, mode, Host!Value(f, a), Host!Value(f, c))
  <2>1. sum \in Number
    <3>1. \A d \in Data(f) : Host!Value(f, d) \in Number /\ Host!BitLength(Host!Value(f, d).m) \in 0 .. f.frac + 1
      BY ValueTyped
    <3>2. f.frac \in 1 .. Digits /\ 2 * f.frac + 5 <= Digits /\ Digits \in Nat
      BY FormatBits
    <3>3. \A l \in 0 .. f.frac + 1 : f.frac + 2 + l <= Digits
      BY <3>2, SMT
    <3> QED
      BY <3>1, <3>3, SumIsNumber
  <2> HIDE DEF sum
  <2>2. Host!Rounded(f, mode, sum) \subseteq Answers(f)
    BY <2>1, RoundedTyped
  <2>3. {a, c} \in SUBSET Data(f)
    BY <1>1
  <2>4. /\ Host!Passed(f, {a, c}) \subseteq Answers(f) /\ Host!Invalid(f) \subseteq Answers(f)
        /\ Host!Exactly(a) \subseteq Answers(f) /\ Host!Exactly(c) \subseteq Answers(f)
    BY <1>1, <2>3, PassedTyped, ExactlyTyped
  <2> QED
    BY <2>2, <2>4, Zenon DEF Host!Add, sum
<1>2. Host!Subtract(f, mode, a, b) \subseteq Answers(f)
  <2> DEFINE c == IF Host!NaN(f, b) THEN b ELSE Host!Opposite(f, b)
  <2>1. c \in Data(f)
    BY DatumTyped, Zenon
  <2>2. Host!Subtract(f, mode, a, b) = Host!Add(f, mode, a, c)
    BY Zenon DEF Host!Subtract
  <2> HIDE DEF c
  <2> QED
    BY <1>1, <2>1, <2>2
<1> QED
  BY <1>1, <1>2

(* Of products.                                                              *)
LEMMA MultiplyTyped ==
  ASSUME NEW f \in Formats, NEW mode, NEW a \in Data(f), NEW b \in Data(f)
  PROVE  Host!Multiply(f, mode, a, b) \subseteq Answers(f)
<1> DEFINE product == Host!Product(Host!Value(f, a), Host!Value(f, b))
<1>1. product \in Number
  BY ValueTyped, ProductTyped
<1> HIDE DEF product
<1>2. Host!Rounded(f, mode, product) \subseteq Answers(f)
  BY <1>1, RoundedTyped
<1>3. Host!SignOfProduct(f, a, b) + Host!InfBits(f) \in Data(f)
  BY SignsTyped DEF Host!SignOfProduct
<1>4. {a, b} \in SUBSET Data(f)
  OBVIOUS
<1>5. /\ Host!Passed(f, {a, b}) \subseteq Answers(f) /\ Host!Invalid(f) \subseteq Answers(f)
      /\ Host!Exactly(Host!SignOfProduct(f, a, b) + Host!InfBits(f)) \subseteq Answers(f)
  BY <1>3, <1>4, PassedTyped, ExactlyTyped
<1> QED
  BY <1>2, <1>5, Zenon DEF Host!Multiply, product

(* Of quotients.                                                             *)
LEMMA DivideByTyped ==
  ASSUME NEW f \in Formats, NEW mode, NEW a \in Data(f), NEW b \in Data(f)
  PROVE  Host!Divide(f, mode, a, b) \subseteq Answers(f)
<1> DEFINE ratio == Host!Ratio(f, Host!Value(f, a), Host!Value(f, b))
           sign == Host!SignOfProduct(f, a, b)
<1>1. ~ Host!Null(f, b) => ratio \in Number
  <2>1. /\ Host!Value(f, a) \in Number /\ Host!Value(f, b) \in Number
        /\ Host!BitLength(Host!Value(f, a).m) \in 0 .. f.frac + 1
        /\ ~ Host!Null(f, b) => Host!Value(f, b).m # 0
    BY ValueTyped
  <2>2. \A l \in 0 .. f.frac + 1 : l <= f.frac + 1
    BY FormatBits, SMT
  <2> QED
    BY <2>1, <2>2, RatioTyped
<1> HIDE DEF ratio
<1>2. ~ Host!Null(f, b) => Host!Rounded(f, mode, ratio) \subseteq Answers(f)
  BY <1>1, RoundedTyped
<1>3. sign + Host!InfBits(f) \in Data(f) /\ sign \in Data(f)
  BY SignsTyped DEF Host!SignOfProduct
<1>4. {a, b} \in SUBSET Data(f) /\ {"Z"} \in Reports
  BY SMT DEF Reports, Exceptions
<1>5. /\ Host!Passed(f, {a, b}) \subseteq Answers(f) /\ Host!Invalid(f) \subseteq Answers(f)
      /\ Host!Exactly(sign + Host!InfBits(f)) \subseteq Answers(f)
      /\ Host!Exactly(sign) \subseteq Answers(f)
      /\ {Host!Answer(sign + Host!InfBits(f), {"Z"})} \subseteq Answers(f)
  BY <1>3, <1>4, PassedTyped, ExactlyTyped, AnswerTyped
<1> QED
  BY <1>2, <1>5, Zenon DEF Host!Divide, ratio, sign

(* Of roots.                                                                 *)
LEMMA RootTyped ==
  ASSUME NEW f \in Formats, NEW mode, NEW a \in Data(f)
  PROVE  Host!Root(f, mode, a) \subseteq Answers(f)
<1> DEFINE root == Host!RootOf(f, Host!Value(f, a))
<1>1. root \in Number
  BY ValueTyped, RootIsNumber
<1> HIDE DEF root
<1>2. Host!Rounded(f, mode, root) \subseteq Answers(f)
  BY <1>1, RoundedTyped
<1>3. {a} \in SUBSET Data(f)
  OBVIOUS
<1>4. /\ Host!Passed(f, {a}) \subseteq Answers(f) /\ Host!Invalid(f) \subseteq Answers(f)
      /\ Host!Exactly(a) \subseteq Answers(f)
  BY <1>3, PassedTyped, ExactlyTyped
<1> QED
  BY <1>2, <1>4, Zenon DEF Host!Root, root

(* Of a product and a sum that are rounded once, or twice: singles only.     *)
LEMMA FusedTyped ==
  ASSUME NEW mode, NEW a \in Data(Single), NEW b \in Data(Single), NEW c \in Data(Single)
  PROVE  /\ Host!Fused(Single, mode, a, b, c) \subseteq Answers(Single)
         /\ Host!MultiplyAdd(Single, mode, a, b, c) \subseteq Answers(Single)
<1> DEFINE f == Single
           va == Host!Value(f, a)
           vb == Host!Value(f, b)
           vc == Host!Value(f, c)
           product == Host!Product(va, vb)
           sum == Host!Sum(f, mode, product, vc)
           inf == Host!SignOfProduct(f, a, b) + Host!InfBits(f)
<1>1. f \in Formats
  BY DEF Formats
<1>2. /\ va \in Number /\ vb \in Number /\ vc \in Number
      /\ va.m < 2 * 2 ^ f.frac /\ vb.m < 2 * 2 ^ f.frac
      /\ Host!BitLength(vc.m) \in 0 .. f.frac + 1
  BY <1>1, ValueTyped
<1>3. f.frac \in 1 .. Digits /\ 3 * f.frac + 4 <= Digits /\ Digits \in Nat
  <2>1. Single.frac = 1 * Width - 1 - SingleExp
    BY DEF Single, Format
  <2>2. Width \in Nat
    BY CoreAssumption
  <2> QED
    BY <2>1, <2>2, FloatAssumption, SMT DEF Digits
<1>4. product \in Number /\ product.m = va.m * vb.m
  BY <1>2, ProductTyped
<1>5. Host!BitLength(product.m) \in 0 .. 2 * f.frac + 2
  <2> DEFINE k == f.frac
             l == 1 + k
             x == va.m
             y == vb.m
             p == 2 ^ l
  <2>1. /\ k \in 0 .. Digits /\ 1 \in 0 .. Digits /\ l \in 0 .. Digits /\ 1 + k <= Digits
        /\ l + l \in 0 .. Digits /\ l + l <= Digits /\ l + l = 2 * k + 2
    BY <1>3, SMT
  <2>2. 2 ^ (1 + k) = 2 ^ 1 * 2 ^ k /\ p \in Nat \ {0}
    BY <2>1, PowersAssumption
  <2>3. 2 ^ 1 = 2
    BY SMT
  <2>4. x \in Nat /\ y \in Nat /\ x < p /\ y < p
    <3>1. p = 2 * 2 ^ f.frac
      BY <2>2, <2>3
    <3>2. x \in Nat /\ y \in Nat
      BY <1>2 DEF Number
    <3> QED
      BY <1>2, <3>1, <3>2
  <2>5. 2 ^ (l + l) = p * p
    BY <2>1, PowersAssumption
  <2> HIDE DEF k, l, x, y, p
  <2>6. x * y < p * p /\ x * y \in Nat
    <3>1. x * y <= x * p
      BY <2>2, <2>4, SMT
    <3>2. x * p < p * p
      BY <2>2, <2>4, SMT
    <3>3. x * y \in Nat /\ x * p \in Nat /\ p * p \in Nat
      BY <2>2, <2>4, SMT
    <3> QED
      BY <3>1, <3>2, <3>3, SMT
  <2>7. Host!BitLength(x * y) \in 0 .. l + l
    BY <2>1, <2>5, <2>6, LengthBelow
  <2> QED
    BY <1>4, <2>1, <2>7 DEF x, y, k
<1>6. sum \in Number
  <2>1. \A l \in 0 .. 2 * f.frac + 2 : f.frac + 2 + l <= Digits
    BY <1>3, SMT
  <2>2. \A l \in 0 .. f.frac + 1 : f.frac + 2 + l <= Digits
    BY <1>3, SMT
  <2> HIDE DEF f, va, vb, vc, product
  <2> QED
    BY <1>1, <1>2, <1>4, <1>5, <2>1, <2>2, SumIsNumber
<1> HIDE DEF product, sum, va, vb, vc
<1>7. Host!Rounded(f, mode, sum) \subseteq Answers(f)
  BY <1>1, <1>6, RoundedTyped
<1>8. inf \in Data(f)
  BY <1>1, SignsTyped DEF Host!SignOfProduct
<1>9. {a, b, c} \in SUBSET Data(f) /\ {c} \in SUBSET Data(f)
  OBVIOUS
<1>10. /\ Host!Passed(f, {a, b, c}) \subseteq Answers(f) /\ Host!Passed(f, {c}) \subseteq Answers(f)
       /\ Host!Invalid(f) \subseteq Answers(f)
       /\ Host!Exactly(c) \subseteq Answers(f) /\ Host!Add(f, mode, inf, c) \subseteq Answers(f)
  BY <1>1, <1>8, <1>9, PassedTyped, ExactlyTyped, AddTyped
<1>11. Host!Fused(f, mode, a, b, c) \subseteq Answers(f)
  <2>1. Host!Invalid(f) \cup Host!Passed(f, {c}) \subseteq Answers(f)
    BY <1>10
  <2> QED
    BY <1>7, <1>10, <2>1, Zenon DEF Host!Fused, inf, sum, product, va, vb, vc
<1>12. Host!MultiplyAdd(f, mode, a, b, c) \subseteq Answers(f)
  <2> DEFINE twice == UNION {{Host!Answer(s.bits, p.raised \cup s.raised) : s \in Host!Add(f, mode, p.bits, c)} :
                               p \in Host!Multiply(f, mode, a, b)}
  <2>1. ASSUME NEW p \in Host!Multiply(f, mode, a, b), NEW s \in Host!Add(f, mode, p.bits, c)
        PROVE  Host!Answer(s.bits, p.raised \cup s.raised) \in Answers(f)
    <3>1. p.bits \in Data(f) /\ p.raised \in Reports
      BY <1>1, MultiplyTyped DEF Answers
    <3>2. s \in Answers(f)
      BY <1>1, <3>1, AddTyped
    <3>3. s.bits \in Data(f) /\ s.raised \in Reports
      BY <3>2 DEF Answers
    <3>4. p.raised \cup s.raised \in Reports
      BY <3>1, <3>3 DEF Reports
    <3> QED
      BY <1>1, <3>3, <3>4, AnswerTyped
  <2>2. twice \subseteq Answers(f)
    <3> SUFFICES ASSUME NEW x \in twice PROVE x \in Answers(f)
      OBVIOUS
    <3>1. PICK p \in Host!Multiply(f, mode, a, b) : \E s \in Host!Add(f, mode, p.bits, c) :
                 x = Host!Answer(s.bits, p.raised \cup s.raised)
      BY Zenon
    <3> QED
      BY <2>1, <3>1, Zenon
  <2>3. Host!MultiplyAdd(f, mode, a, b, c) = Host!Fused(f, mode, a, b, c) \cup twice
    BY Zenon DEF Host!MultiplyAdd
  <2> HIDE DEF twice
  <2> QED
    BY <1>11, <2>2, <2>3, Zenon
<1> QED
  BY <1>11, <1>12 DEF f

(* Conversions between the formats.                                          *)
LEMMA ConvertedTyped ==
  ASSUME NEW f \in Formats, NEW g \in Formats, NEW mode, NEW b \in Data(f)
  PROVE  Host!Converted(f, g, mode, b) \subseteq Answers(g)
<1> DEFINE j == f.frac
           k == g.frac
           y == b % 2 ^ f.frac
           z == IF g.frac >= f.frac THEN y * 2 ^ (g.frac - f.frac) ELSE y \div 2 ^ (f.frac - g.frac)
           s == Host!Signum(g, Host!Minus(f, b)) + Host!InfBits(g)
<1>1. /\ j \in 0 .. Digits /\ k \in 0 .. Digits /\ Digits \in Nat
      /\ 2 ^ j \in Nat \ {0} /\ 2 ^ k \in Nat \ {0}
  BY FormatBits, SMT
<1>2. b \in Int
  BY ValueTyped
<1>3. y \in 0 .. 2 ^ j - 1
  <2> DEFINE p == 2 ^ j
  <2>1. p \in Nat \ {0} /\ y = b % p
    BY <1>1
  <2> HIDE DEF p, y
  <2> QED
    BY <1>2, <2>1, SMT DEF p
<1>4. z \in 0 .. 2 ^ k - 1
  <2> DEFINE d == k - j
             e == j - k
             p == 2 ^ j
             q == 2 ^ k
             u == 2 ^ d
             v == 2 ^ e
  <2>1. z = IF k >= j THEN y * u ELSE y \div v
    BY Zenon
  <2>2. p \in Nat \ {0} /\ q \in Nat \ {0} /\ y \in 0 .. p - 1
    BY <1>1, <1>3
  <2>3. CASE k >= j
    <3>1. d \in 0 .. Digits /\ j + d = k /\ j + d <= Digits
      BY <1>1, <2>3, SMT
    <3>2. 2 ^ (j + d) = 2 ^ j * 2 ^ d /\ u \in Nat \ {0}
      BY <1>1, <3>1, PowersAssumption
    <3>3. q = p * u
      BY <3>1, <3>2
    <3> HIDE DEF p, q, u, y, z
    <3>4. y * u <= (p - 1) * u /\ (p - 1) * u = p * u - u /\ y * u \in Nat /\ p * u \in Nat
      BY <2>2, <3>2, SMT
    <3>5. y * u \in 0 .. q - 1
      BY <2>2, <3>2, <3>3, <3>4, SMT
    <3> QED
      BY <2>1, <2>3, <3>5 DEF q
  <2>4. CASE ~ k >= j
    <3>1. e \in 0 .. Digits /\ k + e = j /\ k + e <= Digits
      BY <1>1, <2>4, SMT
    <3>2. 2 ^ (k + e) = 2 ^ k * 2 ^ e /\ v \in Nat \ {0}
      BY <1>1, <3>1, PowersAssumption
    <3>3. p = q * v
      BY <3>1, <3>2
    <3> HIDE DEF p, q, v, y, z
    <3> DEFINE w == y \div v
    <3>4. w \in Nat /\ w * v <= y
      BY <2>2, <3>2, SMT
    <3> HIDE DEF w
    <3>5. w < q
      <4> SUFFICES ASSUME q <= w PROVE FALSE
        BY <2>2, <3>4, SMT
      <4>1. q * v <= w * v
        BY <2>2, <3>2, <3>4, SMT
      <4>2. q * v \in Int /\ w * v \in Int
        BY <2>2, <3>2, <3>4, SMT
      <4> QED
        BY <2>2, <3>3, <3>4, <4>1, <4>2, SMT
    <3>6. w \in 0 .. q - 1
      BY <2>2, <3>4, <3>5, SMT
    <3> QED
      BY <2>1, <2>4, <3>6 DEF q, w
  <2> QED
    BY <2>3, <2>4
<1> HIDE DEF z, y
<1>5. s + z \in Data(g)
  <2> DEFINE n == Host!SignOf(g)
             i == Host!InfBits(g)
             p == 2 ^ k
             t == Host!Signum(g, Host!Minus(f, b))
  <2>1. i \in 1 .. n - 1 /\ i + p = n /\ n \in Nat \ {0} /\ z \in 0 .. p - 1 /\ p \in Nat \ {0}
    BY <1>1, <1>4, FormatBits
  <2>2. t \in {0, n}
    BY Zenon DEF Host!Signum
  <2>3. s = t + i
    OBVIOUS
  <2> HIDE DEF n, i, p, t, s
  <2>4. s + z \in 0 .. 2 * n - 1
    BY <2>1, <2>2, <2>3, SMT
  <2> QED
    BY <2>4 DEF n, Data
<1>6. s \in Data(g)
  BY SignsTyped
<1> HIDE DEF s
<1>7. {} \in Reports /\ {"V"} \in Reports
  BY SMT DEF Reports, Exceptions
<1>8. {Host!Answer(Host!Quieted(g, s + z), IF Host!Quiet(f, b) THEN {} ELSE {"V"})} \subseteq Answers(g)
  <2>1. (IF Host!Quiet(f, b) THEN {} ELSE {"V"}) \in Reports
    BY <1>7, Zenon
  <2>2. Host!Quieted(g, s + z) \in Data(g)
    BY <1>5, DatumTyped
  <2> QED
    BY <2>1, <2>2, AnswerTyped
<1>9. Host!Exactly(s) \subseteq Answers(g) /\ Host!Rounded(g, mode, Host!Value(f, b)) \subseteq Answers(g)
  BY <1>6, ExactlyTyped, ValueTyped, RoundedTyped
<1> QED
  BY <1>8, <1>9, Zenon DEF Host!Converted, s, z, y

(* Conversions of an integer.                                                *)
LEMMA FromIntegerTyped ==
  ASSUME NEW f \in Formats, NEW mode, NEW n \in Int
  PROVE  Host!FromInteger(f, mode, n) \subseteq Answers(f)
<1>1. (n < 0) \in BOOLEAN /\ Host!Absolute(n) \in Nat /\ 0 \in Int
  BY SMT DEF Host!Absolute
<1>2. [neg |-> n < 0, m |-> Host!Absolute(n), e |-> 0] \in Number
  BY <1>1, Zenon DEF Number
<1> QED
  BY <1>2, RoundedTyped DEF Host!FromInteger

(* The integer next to a datum.                                              *)
LEMMA WholeTyped ==
  ASSUME NEW f \in Formats, NEW b \in Data(f)
  PROVE  Host!Whole(f, b) \in Int /\ Host!Floor(f, b) \in Int
<1> DEFINE v == Host!Value(f, b)
           d == 2 ^ Host!Least(- v.e, Host!BitLength(v.m))
           p == 2 ^ v.e
           n == IF v.e < 0 THEN v.m \div d
                ELSE IF Host!BitLength(v.m) + v.e > 28 THEN Host!Beyond ELSE v.m * p
<1>1. Host!Whole(f, b) = IF v.neg THEN - n ELSE n
  BY Zenon DEF Host!Whole
<1>2. v.m \in Nat /\ v.e \in Int
  BY ValueTyped DEF Number
<1>3. Host!BitLength(v.m) \in 0 .. Digits /\ Digits \in Nat
  BY LengthTyped, FormatBits
<1> HIDE DEF v
<1>4. v.e < 0 => d \in Nat \ {0}
  <2>1. v.e < 0 => Host!Least(- v.e, Host!BitLength(v.m)) \in 0 .. Digits
    BY <1>2, <1>3, SMT DEF Host!Least
  <2> QED
    BY <2>1, PowersAssumption
<1>5. p \in Int
  <2> DEFINE e == v.e
  <2>1. e \in Int
    BY <1>2
  <2> HIDE DEF e
  <2>2. 2 ^ e \in Int
    BY <2>1, SMT
  <2> QED
    BY <2>2 DEF e
<1>6. Host!Beyond \in Int
  BY SMT DEF Host!Beyond
<1>7. n \in Int
  <2> DEFINE m == v.m
  <2>1. m \in Nat /\ (v.e < 0 => d \in Nat \ {0})
    BY <1>2, <1>4
  <2>2. n = IF v.e < 0 THEN m \div d ELSE IF Host!BitLength(v.m) + v.e > 28 THEN Host!Beyond ELSE m * p
    OBVIOUS
  <2> HIDE DEF m, d, p, n
  <2>3. v.e < 0 => m \div d \in Int
    BY <2>1, SMT
  <2>4. m * p \in Int
    BY <1>5, <2>1, SMT
  <2> QED
    BY <1>6, <2>2, <2>3, <2>4, Zenon
<1> HIDE DEF n
<1>8. Host!Whole(f, b) \in Int
  BY <1>1, <1>7, SMT
<1>9. Host!Whole(f, b) - 1 \in Int
  BY <1>8, SMT
<1> QED
  BY <1>8, <1>9, Zenon DEF Host!Floor

(* The integer below, as a datum.                                            *)
LEMMA FlooredTyped ==
  ASSUME NEW f \in Formats, NEW mode, NEW b \in Data(f)
  PROVE  Host!Floored(f, mode, b) \subseteq Answers(f)
<1>1. Host!FromInteger(f, mode, Host!Floor(f, b)) \subseteq Answers(f)
  BY WholeTyped, FromIntegerTyped
<1> DEFINE below == {Host!Answer(o.bits, i) : o \in Host!FromInteger(f, mode, Host!Floor(f, b)), i \in {{}, {"I"}}}
<1>2. {} \in Reports /\ {"I"} \in Reports
  BY SMT DEF Reports, Exceptions
<1>3. below \subseteq Answers(f)
  <2>1. \A o \in Host!FromInteger(f, mode, Host!Floor(f, b)) : o.bits \in Data(f)
    BY <1>1 DEF Answers
  <2>2. \A o \in Host!FromInteger(f, mode, Host!Floor(f, b)) : \A i \in {{}, {"I"}} :
          Host!Answer(o.bits, i) \in Answers(f)
    BY <1>2, <2>1, AnswerTyped
  <2> SUFFICES ASSUME NEW x \in below PROVE x \in Answers(f)
    OBVIOUS
  <2>3. PICK o \in Host!FromInteger(f, mode, Host!Floor(f, b)), i \in {{}, {"I"}} : x = Host!Answer(o.bits, i)
    BY SMT
  <2>4. Host!Answer(o.bits, i) \in Answers(f)
    BY <2>2
  <2> QED
    BY <2>3, <2>4
<1>4. {b} \in SUBSET Data(f)
  OBVIOUS
<1>5. Host!Passed(f, {b}) \subseteq Answers(f) /\ Host!Exactly(b) \subseteq Answers(f)
  BY <1>4, PassedTyped, ExactlyTyped
<1>6. Host!Floored(f, mode, b) =
        IF Host!NaN(f, b) THEN Host!Passed(f, {b})
        ELSE IF Host!Infinite(f, b) \/ ~ Host!Fraction(f, b) THEN Host!Exactly(b)
        ELSE below
  BY DEF Host!Floored
<1> HIDE DEF below
<1> QED
  BY <1>3, <1>5, <1>6, Zenon

(* A cast to an integer type, as an integer and what it raises.              *)
Casts == [n : Int, raised : Reports]

(* What the host makes of a cast is one of them.                             *)
LEMMA CastTyped ==
  ASSUME NEW long \in Int, NEW lo \in Int, NEW hi \in Nat, NEW n \in Int, NEW fraction
  PROVE  Host!Cast(long, lo, hi, n, fraction) \subseteq Casts
<1> DEFINE exact == {[n |-> n, raised |-> i] : i \in (IF fraction THEN {{}, {"I"}} ELSE {{}})}
           ends == {lo, 0, hi} \cup (IF lo = 0 THEN {(hi + 1) \div 2} ELSE {})
           unfit == {[n |-> k, raised |-> {"V"}] : k \in ends}
           wrapped == IF lo = 0 /\ - (2 ^ (long - 1)) <= n /\ n < 2 ^ (long - 1)
                      THEN {[n |-> n % (hi + 1), raised |-> {}]} ELSE {}
<1>1. Host!Cast(long, lo, hi, n, fraction) = IF lo <= n /\ n <= hi THEN exact ELSE unfit \cup wrapped
  BY Zenon DEF Host!Cast
<1>2. {} \in Reports /\ {"I"} \in Reports /\ {"V"} \in Reports
  BY SMT DEF Reports, Exceptions
<1>3. ASSUME NEW k \in Int, NEW i \in Reports PROVE [n |-> k, raised |-> i] \in Casts
  BY <1>3, Zenon DEF Casts
<1>4. exact \subseteq Casts
  <2>1. \A i \in (IF fraction THEN {{}, {"I"}} ELSE {{}}) : i \in Reports
    BY <1>2, Zenon
  <2> QED
    BY <1>3, <2>1, Zenon
<1>5. unfit \subseteq Casts
  <2>1. (hi + 1) \div 2 \in Int /\ 0 \in Int /\ hi \in Int
    BY SMT
  <2>2. \A k \in ends : k \in Int
    BY <2>1, Zenon
  <2> QED
    BY <1>2, <1>3, <2>2, Zenon
<1>6. wrapped \subseteq Casts
  <2> DEFINE t == hi + 1
  <2>1. t \in Nat \ {0}
    BY SMT
  <2> HIDE DEF t
  <2>2. n % t \in Int
    BY <2>1, SMT
  <2>3. [n |-> n % (hi + 1), raised |-> {}] \in Casts
    BY <1>2, <1>3, <2>2 DEF t
  <2> QED
    BY <2>3, Zenon
<1> HIDE DEF exact, unfit, wrapped
<1>7. unfit \cup wrapped \subseteq Casts
  BY <1>5, <1>6
<1> QED
  BY <1>1, <1>4, <1>7, Zenon

(* The data of a single are the words, and those of a double two of them.    *)
LEMMA DataSizes ==
  /\ Data(Single) = Words /\ Data(Double) = 0 .. Long - 1
  /\ Modulus \in Nat \ {0} /\ Long \in Nat \ {0} /\ Long = Modulus * Modulus
  /\ Host!SignOf(Double) = Modulus * SignBit /\ SignBit \in Nat \ {0} /\ Modulus = 2 * SignBit
  /\ Modulus \div 2 = SignBit /\ Long \div 2 = Modulus * SignBit
<1>1. Width \in Nat /\ 1 <= Width /\ SignBit = 2 ^ (Width - 1) /\ Modulus = 2 * SignBit /\ SignBit \in Nat \ {0}
  BY CoreAssumption, AluAssumption, WordSizes, SMT DEF Modulus
<1>2. Modulus = 2 ^ Width /\ Modulus \in Nat \ {0}
  BY WholeWord, Sizes
<1>3. Host!SignOf(Single) = SignBit
  <2>1. Single.exp = SingleExp /\ Single.frac = 1 * Width - 1 - SingleExp
    BY DEF Single, Format
  <2>2. SingleExp \in Int
    BY <1>1, FloatAssumption, SMT
  <2>3. Single.exp + Single.frac = Width - 1
    BY <1>1, <2>1, <2>2, SMT
  <2> QED
    BY <1>1, <2>3 DEF Host!SignOf
<1>4. Host!SignOf(Double) = Modulus * SignBit
  <2>1. Double.exp = DoubleExp /\ Double.frac = 2 * Width - 1 - DoubleExp
    BY DEF Double, Format
  <2>2. DoubleExp \in Int /\ SingleExp \in Int
    BY <1>1, FloatAssumption, SMT
  <2> DEFINE j == Width - 1
  <2>3. Double.exp + Double.frac = Width + j
    BY <1>1, <2>1, <2>2, SMT
  <2>4. 2 * Width <= Digits /\ Digits \in Nat
    BY <1>1, FloatAssumption, SMT DEF Digits
  <2>5. Width \in 0 .. Digits /\ j \in 0 .. Digits /\ Width + j <= Digits
    BY <1>1, <2>4, SMT
  <2>6. 2 ^ (Width + j) = 2 ^ Width * 2 ^ j
    BY <2>5, PowersAssumption
  <2> QED
    BY <1>1, <1>2, <2>3, <2>6 DEF Host!SignOf
<1>5. Long = Modulus * Modulus
  BY DEF Long
<1> DEFINE m == Modulus
           s == SignBit
<1>6. m = 2 * s /\ s \in Nat \ {0} /\ m \in Nat \ {0}
  BY <1>1, <1>2
<1> HIDE DEF m, s
<1>7. m * m = 2 * (m * s) /\ m * s \in Nat \ {0} /\ m * m \in Nat \ {0}
  <2>1. m * m = m * (2 * s)
    BY <1>6
  <2> QED
    BY <1>6, <2>1, SMT
<1>8. m \div 2 = s /\ (m * m) \div 2 = m * s
  <2> DEFINE t == m * s
             l == m * m
  <2>1. l = 2 * t /\ t \in Nat
    BY <1>7
  <2> HIDE DEF t, l
  <2>2. l \div 2 = t
    BY <2>1, SMT
  <2>3. m \div 2 = s
    BY <1>6, SMT
  <2> QED
    BY <2>2, <2>3 DEF t, l
<1>9. Data(Single) = 0 .. m - 1
  BY <1>3, <1>6 DEF Data, m, s
<1>10. Data(Double) = 0 .. m * m - 1
  BY <1>4, <1>7 DEF Data, m, s
<1> QED
  BY <1>1, <1>2, <1>4, <1>5, <1>7, <1>8, <1>9, <1>10 DEF m, s, Words

(* The ends of the types.                                                    *)
LEMMA EndsTyped ==
  ASSUME NEW words, NEW signed
  PROVE  Least(words, signed) \in Int /\ Greatest(words, signed) \in Nat
<1>1. Numbers(words) \in {Modulus, Long}
  BY Zenon DEF Numbers
<1> DEFINE t == Modulus * SignBit
<1>2. SignBit \in Nat \ {0} /\ Modulus \in Nat \ {0} /\ Long \in Nat \ {0} /\ t \in Nat \ {0}
      /\ Modulus \div 2 = SignBit /\ Long \div 2 = t
  <2>1. SignBit \in Nat \ {0} /\ Modulus \in Nat \ {0} /\ Long \in Nat \ {0}
        /\ Modulus \div 2 = SignBit /\ Long \div 2 = t
    BY DataSizes
  <2>2. t \in Nat \ {0}
    BY <2>1, SMT
  <2> QED
    BY <2>1, <2>2
<1> HIDE DEF t
<1>3. Numbers(words) \in Nat \ {0} /\ Numbers(words) \div 2 \in Nat \ {0}
  BY <1>1, <1>2, Zenon
<1> DEFINE n == Numbers(words)
           h == n \div 2
<1>4. n \in Nat \ {0} /\ h \in Nat \ {0}
  BY <1>3
<1>5. Least(words, signed) = IF signed THEN - h ELSE 0
  BY Zenon DEF Least
<1>6. Greatest(words, signed) = IF signed THEN h - 1 ELSE n - 1
  BY Zenon DEF Greatest
<1> HIDE DEF n, h
<1> QED
  BY <1>4, <1>5, <1>6, SMT

(* What an instruction makes of casts is casts.                              *)
LEMMA CastedTyped ==
  ASSUME NEW f \in Formats, NEW b \in Data(f), NEW words, NEW signed
  PROVE  /\ \A n \in Int : Casted(words, signed, f, b, n) \subseteq Casts
         /\ Truncated(words, signed, f, b) \subseteq Casts
<1>1. ASSUME NEW n \in Int PROVE Casted(words, signed, f, b, n) \subseteq Casts
  <2>1. 2 * Width \in Int
    BY CoreAssumption, SMT
  <2> QED
    BY <2>1, EndsTyped, CastTyped DEF Casted
<1>2. Host!Whole(f, b) \in Int
  BY WholeTyped
<1> QED
  BY <1>1, <1>2 DEF Truncated

(* Numbers that are refused or limited.                                      *)
LEMMA LimitedTyped ==
  ASSUME NEW lo \in Int, NEW hi \in Int
  PROVE  /\ Refused(lo) \subseteq Casts
         /\ \A c \in Casts : Limited(c, lo, hi) \in Casts
<1>1. {"V"} \in Reports
  BY SMT DEF Reports, Exceptions
<1>2. Refused(lo) \subseteq Casts
  <2>1. [n |-> lo, raised |-> {"V"}] \in Casts
    BY <1>1, Zenon DEF Casts
  <2> QED
    BY <2>1, Zenon DEF Refused
<1>3. ASSUME NEW c \in Casts PROVE Limited(c, lo, hi) \in Casts
  <2>1. c.raised \cup {"V"} \in Reports
    BY <1>1 DEF Casts, Reports
  <2> DEFINE k == c.raised \cup {"V"}
  <2>2. Limited(c, lo, hi) \in {[n |-> lo, raised |-> k], [n |-> hi, raised |-> k], c}
    BY Zenon DEF Limited
  <2> HIDE DEF k
  <2>3. [n |-> lo, raised |-> k] \in Casts /\ [n |-> hi, raised |-> k] \in Casts
    BY <2>1, Zenon DEF Casts, k
  <2> QED
    BY <2>2, <2>3, Zenon
<1> QED
  BY <1>2, <1>3

(* A long without sign.                                                      *)
LEMMA UnsignedTyped ==
  ASSUME NEW f \in Formats, NEW b \in Data(f), NEW below, NEW n \in Int
  PROVE  UnsignedLong(f, b, below, n) \subseteq Casts
<1>1. 0 \in Int /\ Greatest(2, FALSE) \in Int
  <2> DEFINE g == Greatest(2, FALSE)
  <2>1. g \in Nat
    BY EndsTyped
  <2> HIDE DEF g
  <2>2. 0 \in Int /\ g \in Int
    BY <2>1, SMT
  <2> QED
    BY <2>2 DEF g
<1>2. Refused(0) \subseteq Casts /\ Refused(Greatest(2, FALSE)) \subseteq Casts
  BY <1>1, LimitedTyped
<1>3. Casted(2, FALSE, f, b, n) \subseteq Casts
  BY CastedTyped
<1> QED
  BY <1>2, <1>3, Zenon DEF UnsignedLong

(* Of casts, words and longs are written as data.                            *)
LEMMA AsWordTyped ==
  ASSUME NEW casts \in SUBSET Casts
  PROVE  AsWord(casts) \subseteq Answers(Single) /\ AsLong(casts) \subseteq Answers(Double)
<1>1. Single \in Formats /\ Double \in Formats
  BY DEF Formats
<1>2. ASSUME NEW c \in casts PROVE Host!Answer(Word(c.n), c.raised) \in Answers(Single)
  <2>1. c.n \in Int /\ c.raised \in Reports
    BY <1>2 DEF Casts
  <2>2. Word(c.n) \in Data(Single)
    BY <2>1, WordIsWord, DataSizes
  <2> QED
    BY <1>1, <2>1, <2>2, AnswerTyped
<1>3. ASSUME NEW v \in 0 .. Long - 1 PROVE Swapped(v) \in Data(Double)
  <2> DEFINE m == Modulus
             h == v \div m
             l == v % m
  <2>1. m \in Nat \ {0} /\ v \in Int /\ v \in 0 .. m * m - 1
    BY DataSizes, SMT
  <2>2. Low(Width, v) = l
    BY WholeWord DEF Low
  <2>3. Swapped(v) = l * m + h
    BY <2>2 DEF Swapped
  <2> HIDE DEF m
  <2>4. h \in Int /\ h * m <= v /\ l \in 0 .. m - 1 /\ h * m \in Int /\ h >= 0
    BY <2>1, SMT
  <2> HIDE DEF h, l
  <2>5. h < m
    <3> SUFFICES ASSUME m <= h PROVE FALSE
      BY <2>1, <2>4, SMT
    <3>1. m * m <= h * m /\ m * m \in Int
      BY <2>1, <2>4, SMT
    <3> QED
      BY <2>1, <2>4, <3>1, SMT
  <2>6. l * m + h \in 0 .. m * m - 1
    <3>1. l * m <= (m - 1) * m /\ (m - 1) * m = m * m - m /\ l * m \in Nat /\ m * m \in Nat
      BY <2>1, <2>4, SMT
    <3> QED
      BY <2>1, <2>4, <2>5, <3>1, SMT
  <2> QED
    BY <2>3, <2>6, DataSizes DEF m
<1>4. ASSUME NEW c \in casts PROVE Host!Answer(Swapped(c.n % Long), c.raised) \in Answers(Double)
  <2>1. c.n \in Int /\ c.raised \in Reports
    BY <1>4 DEF Casts
  <2>2. Long \in Nat \ {0}
    BY DataSizes
  <2>3. c.n % Long \in 0 .. Long - 1
    <3> DEFINE l == Long
               n == c.n
    <3>1. l \in Nat \ {0} /\ n \in Int
      BY <2>1, <2>2
    <3> HIDE DEF l, n
    <3>2. n % l \in 0 .. l - 1
      BY <3>1, SMT
    <3> QED
      BY <3>2 DEF l, n
  <2> QED
    BY <1>1, <1>3, <2>1, <2>3, AnswerTyped
<1> QED
  BY <1>2, <1>4, Zenon DEF AsWord, AsLong

(* Subnormals that are flushed are data.                                     *)
LEMMA FlushedTyped ==
  ASSUME NEW f \in Formats
  PROVE  /\ \A b \in Data(f) : Operand(f, b) \in Data(f) /\ Flushed(f, b) \in Data(f)
         /\ \A answers \in SUBSET Answers(f) : FlushedAll(f, answers) \subseteq Answers(f)
<1>1. ASSUME NEW away, NEW b PROVE Towards(f, away, b) \in Data(f)
  <2> DEFINE s == Host!SignOf(f)
             p == 2 ^ f.frac
             n == IF away THEN p ELSE 0
  <2>1. s \in Nat \ {0} /\ p \in Nat \ {0} /\ Host!InfBits(f) \in 1 .. s - 1 /\ Host!InfBits(f) + p = s
    BY FormatBits
  <2> HIDE DEF s, p
  <2>2. n \in 0 .. s - 1
    BY <2>1, SMT
  <2>3. Towards(f, away, b) = Host!Signum(f, IsMinus(f, b)) + n
    BY DEF Towards, p
  <2> HIDE DEF n
  <2> QED
    BY <2>2, <2>3, SignedTyped DEF s
<1>2. 0 \in Data(f)
  <2>1. Host!SignOf(f) \in Nat \ {0}
    BY FormatBits
  <2> QED
    BY <2>1, SMT DEF Data
<1>3. ASSUME NEW b \in Data(f) PROVE Operand(f, b) \in Data(f) /\ Flushed(f, b) \in Data(f)
  <2>1. Host!Signum(f, IsMinus(f, b)) \in Data(f)
    BY SignsTyped
  <2>2. Operand(f, b) \in Data(f)
    BY <2>1, Zenon DEF Operand
  <2>3. Flushed(f, b) \in {b, Towards(f, ~ IsMinus(f, b), b), Towards(f, TRUE, b), 0}
    <3>1. CASE ~ IsSubnormal(f, b)
      BY <3>1, Zenon DEF Flushed
    <3>2. CASE IsSubnormal(f, b) /\ RoundType = "RU"
      <4>1. Flushed(f, b) = Towards(f, ~ IsMinus(f, b), b)
        BY <3>2, SMT DEF Flushed
      <4> QED
        BY <4>1
    <3>3. CASE IsSubnormal(f, b) /\ RoundType = "RD"
      <4>1. Flushed(f, b) = IF IsMinus(f, b) THEN Towards(f, TRUE, b) ELSE 0
        BY <3>3, SMT DEF Flushed
      <4> QED
        BY <4>1, Zenon
    <3>4. CASE IsSubnormal(f, b) /\ RoundType # "RU" /\ RoundType # "RD"
      <4>1. Flushed(f, b) = 0
        BY <3>4, SMT DEF Flushed
      <4> QED
        BY <4>1
    <3> QED
      BY <3>1, <3>2, <3>3, <3>4, Zenon
  <2> QED
    BY <1>1, <1>2, <2>2, <2>3
<1>4. ASSUME NEW answers \in SUBSET Answers(f) PROVE FlushedAll(f, answers) \subseteq Answers(f)
  <2>1. ASSUME NEW a \in answers PROVE [a EXCEPT !.bits = Flushed(f, @)] \in Answers(f)
    <3>1. a.bits \in Data(f) /\ a \in Answers(f)
      BY <2>1 DEF Answers
    <3>2. Flushed(f, a.bits) \in Data(f)
      BY <1>3, <3>1
    <3> DEFINE w == Flushed(f, a.bits)
    <3> HIDE DEF w
    <3>3. [a EXCEPT !.bits = w] \in Answers(f)
      BY <3>1, <3>2 DEF Answers, w
    <3> QED
      BY <3>3 DEF w
  <2> QED
    BY <2>1, Zenon DEF FlushedAll
<1> QED
  BY <1>3, <1>4

----------------------------------------------------------------------------
(* The registers of floating point keep their fields.                        *)
FpuRegs == [FPSR  : FieldsOf("FPSR"), FPST  : FieldsOf("FPST"),
            FPCC  : FieldsOf("FPCC"), FPCFG : FieldsOf("FPCFG")]

FpuStates == [group : Nat, bank : Banks, exact : BOOLEAN, regs : [Banks -> FpuRegs]]

(* The fields of each of them.                                               *)
LEMMA FieldsAre ==
  /\ FieldsOf("FPSR") = [cc : SUBSET (0 .. 7), xc : SUBSET Exceptions, xp : Reports,
                         rm : 0 .. 3, xe : Reports, if : BOOLEAN]
  /\ FieldsOf("FPST") = [xc : SUBSET Exceptions, xp : Reports, if : BOOLEAN]
  /\ FieldsOf("FPCC") = [cc : SUBSET (0 .. 7)]
  /\ FieldsOf("FPCFG") = [rm : 0 .. 3, xe : Reports]
<1> DEFINE A == SUBSET (0 .. 7)
           B == SUBSET Exceptions
           C == 0 .. 3
           S == [cc : A, xc : B, xp : Reports, rm : C, xe : Reports, if : BOOLEAN]
           T == [xc : B, xp : Reports, if : BOOLEAN]
           U == [cc : A]
           V == [rm : C, xe : Reports]
<1>1. \A reg : FieldsOf(reg) = CASE reg = "FPSR" -> S [] reg = "FPST" -> T
                                 [] reg = "FPCC" -> U [] reg = "FPCFG" -> V
  BY Zenon DEF FieldsOf, Reports
<1> HIDE DEF S, T, U, V
<1>2. /\ FieldsOf("FPSR") = S /\ FieldsOf("FPST") = T
      /\ FieldsOf("FPCC") = U /\ FieldsOf("FPCFG") = V
  BY <1>1, SMT
<1> QED
  BY <1>2 DEF S, T, U, V

(* A register that is written has its fields.                                *)
LEMMA RegisterWritten ==
  ASSUME NEW regs \in FpuRegs, NEW reg \in {"FPSR", "FPST", "FPCC", "FPCFG"}, NEW v \in FieldsOf(reg)
  PROVE  [regs EXCEPT ![reg] = v] \in FpuRegs
<1> DEFINE S == FieldsOf("FPSR")
           T == FieldsOf("FPST")
           U == FieldsOf("FPCC")
           V == FieldsOf("FPCFG")
<1>1. regs \in [FPSR : S, FPST : T, FPCC : U, FPCFG : V]
  BY DEF FpuRegs
<1>2. \/ reg = "FPSR" /\ v \in S
      \/ reg = "FPST" /\ v \in T
      \/ reg = "FPCC" /\ v \in U
      \/ reg = "FPCFG" /\ v \in V
  OBVIOUS
<1> HIDE DEF S, T, U, V
<1>3. [regs EXCEPT ![reg] = v] \in [FPSR : S, FPST : T, FPCC : U, FPCFG : V]
  <2>1. CASE reg = "FPSR" /\ v \in S
    BY <1>1, <2>1, SMT
  <2>2. CASE reg = "FPST" /\ v \in T
    BY <1>1, <2>2, SMT
  <2>3. CASE reg = "FPCC" /\ v \in U
    BY <1>1, <2>3, SMT
  <2>4. CASE reg = "FPCFG" /\ v \in V
    BY <1>1, <2>4, SMT
  <2> QED
    BY <1>2, <2>1, <2>2, <2>3, <2>4
<1> QED
  BY <1>3 DEF FpuRegs, S, T, U, V

(* So it has when one of them is written.                                    *)
LEMMA FieldWritten ==
  ASSUME NEW regs \in FpuRegs
  PROVE  /\ \A x \in SUBSET (0 .. 7) : /\ [regs EXCEPT !.FPSR.cc = x] \in FpuRegs
                                       /\ [regs EXCEPT !.FPCC.cc = x] \in FpuRegs
         /\ \A x \in SUBSET Exceptions : /\ [regs EXCEPT !.FPSR.xc = x] \in FpuRegs
                                         /\ [regs EXCEPT !.FPST.xc = x] \in FpuRegs
         /\ \A x \in Reports : /\ [regs EXCEPT !.FPSR.xp = x] \in FpuRegs
                               /\ [regs EXCEPT !.FPST.xp = x] \in FpuRegs
                               /\ [regs EXCEPT !.FPSR.xe = x] \in FpuRegs
         /\ \A x \in 0 .. 3 : [regs EXCEPT !.FPSR.rm = x] \in FpuRegs
         /\ \A x \in BOOLEAN : [regs EXCEPT !.FPSR.if = x] \in FpuRegs
         /\ regs.FPSR \in FieldsOf("FPSR") /\ regs.FPST \in FieldsOf("FPST")
         /\ regs.FPCC \in FieldsOf("FPCC") /\ regs.FPCFG \in FieldsOf("FPCFG")
<1> DEFINE A == SUBSET (0 .. 7)
           B == SUBSET Exceptions
           C == 0 .. 3
           L == BOOLEAN
           P == Reports
           sr == regs.FPSR
           fst == regs.FPST
           fc == regs.FPCC
<1>1. /\ sr \in FieldsOf("FPSR") /\ fst \in FieldsOf("FPST") /\ fc \in FieldsOf("FPCC")
      /\ regs.FPCFG \in FieldsOf("FPCFG")
  BY DEF FpuRegs
<1>2. /\ sr \in [cc : A, xc : B, xp : P, rm : C, xe : P, if : L]
      /\ fst \in [xc : B, xp : P, if : L] /\ fc \in [cc : A]
  BY <1>1, FieldsAre
<1> HIDE DEF A, B, C, L, P, sr, fst, fc
<1>3. /\ \A x \in A : [sr EXCEPT !.cc = x] \in [cc : A, xc : B, xp : P, rm : C, xe : P, if : L]
      /\ \A x \in B : [sr EXCEPT !.xc = x] \in [cc : A, xc : B, xp : P, rm : C, xe : P, if : L]
      /\ \A x \in P : [sr EXCEPT !.xp = x] \in [cc : A, xc : B, xp : P, rm : C, xe : P, if : L]
      /\ \A x \in C : [sr EXCEPT !.rm = x] \in [cc : A, xc : B, xp : P, rm : C, xe : P, if : L]
      /\ \A x \in P : [sr EXCEPT !.xe = x] \in [cc : A, xc : B, xp : P, rm : C, xe : P, if : L]
      /\ \A x \in L : [sr EXCEPT !.if = x] \in [cc : A, xc : B, xp : P, rm : C, xe : P, if : L]
  BY <1>2, SMT
<1>4. /\ \A x \in B : [fst EXCEPT !.xc = x] \in [xc : B, xp : P, if : L]
      /\ \A x \in P : [fst EXCEPT !.xp = x] \in [xc : B, xp : P, if : L]
      /\ \A x \in A : [fc EXCEPT !.cc = x] \in [cc : A]
  BY <1>2, SMT
<1>5. /\ \A v \in FieldsOf("FPSR") : [regs EXCEPT !.FPSR = v] \in FpuRegs
      /\ \A v \in FieldsOf("FPST") : [regs EXCEPT !.FPST = v] \in FpuRegs
      /\ \A v \in FieldsOf("FPCC") : [regs EXCEPT !.FPCC = v] \in FpuRegs
  BY RegisterWritten
<1>6. /\ FieldsOf("FPSR") = [cc : A, xc : B, xp : P, rm : C, xe : P, if : L]
      /\ FieldsOf("FPST") = [xc : B, xp : P, if : L] /\ FieldsOf("FPCC") = [cc : A]
  BY FieldsAre DEF A, B, C, L, P
<1>7. ASSUME NEW x
      PROVE  /\ [regs EXCEPT !.FPSR.cc = x] = [regs EXCEPT !.FPSR = [sr EXCEPT !.cc = x]]
             /\ [regs EXCEPT !.FPSR.xc = x] = [regs EXCEPT !.FPSR = [sr EXCEPT !.xc = x]]
             /\ [regs EXCEPT !.FPSR.xp = x] = [regs EXCEPT !.FPSR = [sr EXCEPT !.xp = x]]
             /\ [regs EXCEPT !.FPSR.rm = x] = [regs EXCEPT !.FPSR = [sr EXCEPT !.rm = x]]
             /\ [regs EXCEPT !.FPSR.xe = x] = [regs EXCEPT !.FPSR = [sr EXCEPT !.xe = x]]
             /\ [regs EXCEPT !.FPSR.if = x] = [regs EXCEPT !.FPSR = [sr EXCEPT !.if = x]]
             /\ [regs EXCEPT !.FPST.xc = x] = [regs EXCEPT !.FPST = [fst EXCEPT !.xc = x]]
             /\ [regs EXCEPT !.FPST.xp = x] = [regs EXCEPT !.FPST = [fst EXCEPT !.xp = x]]
             /\ [regs EXCEPT !.FPCC.cc = x] = [regs EXCEPT !.FPCC = [fc EXCEPT !.cc = x]]
  BY Zenon DEF sr, fst, fc
<1>8. ASSUME NEW x \in A PROVE [regs EXCEPT !.FPSR.cc = x] \in FpuRegs /\ [regs EXCEPT !.FPCC.cc = x] \in FpuRegs
  <2>1. [sr EXCEPT !.cc = x] \in FieldsOf("FPSR") /\ [fc EXCEPT !.cc = x] \in FieldsOf("FPCC")
    BY <1>3, <1>4, <1>6
  <2> QED
    BY <1>5, <1>7, <2>1, Zenon
<1>9. ASSUME NEW x \in B PROVE [regs EXCEPT !.FPSR.xc = x] \in FpuRegs /\ [regs EXCEPT !.FPST.xc = x] \in FpuRegs
  <2>1. [sr EXCEPT !.xc = x] \in FieldsOf("FPSR") /\ [fst EXCEPT !.xc = x] \in FieldsOf("FPST")
    BY <1>3, <1>4, <1>6
  <2> QED
    BY <1>5, <1>7, <2>1, Zenon
<1>10. ASSUME NEW x \in P
       PROVE  /\ [regs EXCEPT !.FPSR.xp = x] \in FpuRegs /\ [regs EXCEPT !.FPST.xp = x] \in FpuRegs
              /\ [regs EXCEPT !.FPSR.xe = x] \in FpuRegs
  <2>1. /\ [sr EXCEPT !.xp = x] \in FieldsOf("FPSR") /\ [fst EXCEPT !.xp = x] \in FieldsOf("FPST")
        /\ [sr EXCEPT !.xe = x] \in FieldsOf("FPSR")
    BY <1>3, <1>4, <1>6
  <2> QED
    BY <1>5, <1>7, <2>1, Zenon
<1>11. ASSUME NEW x \in C PROVE [regs EXCEPT !.FPSR.rm = x] \in FpuRegs
  <2>1. [sr EXCEPT !.rm = x] \in FieldsOf("FPSR")
    BY <1>3, <1>6
  <2> QED
    BY <1>5, <1>7, <2>1, Zenon
<1>12. ASSUME NEW x \in L PROVE [regs EXCEPT !.FPSR.if = x] \in FpuRegs
  <2>1. [sr EXCEPT !.if = x] \in FieldsOf("FPSR")
    BY <1>3, <1>6
  <2> QED
    BY <1>5, <1>7, <2>1, Zenon
<1> QED
  BY <1>1, <1>8, <1>9, <1>10, <1>11, <1>12 DEF A, B, C, L, P, sr, fst, fc

(* A bank that is written leaves a state.                                    *)
LEMMA BankWritten ==
  ASSUME NEW state \in FpuStates, NEW b \in Banks, NEW regs \in FpuRegs
  PROVE  [state EXCEPT !.regs[b] = regs] \in FpuStates
<1>1. state \in [group : Nat, bank : Banks, exact : BOOLEAN, regs : [Banks -> FpuRegs]]
  BY DEF FpuStates
<1> DEFINE all == state.regs
           G == Nat
           K == Banks
           L == BOOLEAN
           R == [Banks -> FpuRegs]
<1>2. all \in R
  BY <1>1
<1>3. [all EXCEPT ![b] = regs] \in R
  BY <1>2
<1>4. [state EXCEPT !.regs[b] = regs] = [state EXCEPT !.regs = [all EXCEPT ![b] = regs]]
  BY Zenon
<1>5. state \in [group : G, bank : K, exact : L, regs : R]
  BY <1>1
<1> HIDE DEF all, G, K, L, R
<1>6. \A x \in R : [state EXCEPT !.regs = x] \in [group : G, bank : K, exact : L, regs : R]
  BY <1>5, SMT
<1> QED
  BY <1>3, <1>4, <1>6 DEF FpuStates, G, K, L, R

(* An exception that is raised leaves a state, and the bank it had.          *)
LEMMA RaiseTyped ==
  ASSUME fpu \in FpuStates, NEW raised \in Reports
  PROVE  Raise(raised) \in FpuStates /\ Raise(raised).bank = fpu.bank
<1> DEFINE b == fpu.bank
           u == Selected.FPST.xc \cup raised
           v == Selected.FPST.xp \cup raised
           S1 == [fpu EXCEPT !.regs[b].FPSR.xc = u]
           S2 == [S1 EXCEPT !.regs[b].FPSR.xp = v]
           S3 == [S2 EXCEPT !.regs[b].FPST.xc = u]
           S4 == [S3 EXCEPT !.regs[b].FPST.xp = v]
<1>1. \A s \in FpuStates : s.bank \in Banks /\ \A c \in Banks : s.regs[c] \in FpuRegs
  BY Zenon DEF FpuStates
<1>2. b \in Banks /\ Selected \in FpuRegs
  BY <1>1 DEF Selected
<1>3. u \in SUBSET Exceptions /\ v \in Reports
  <2>1. Selected.FPST \in [xc : SUBSET Exceptions, xp : Reports, if : BOOLEAN]
    BY <1>2, FieldWritten, FieldsAre
  <2>2. Selected.FPST.xc \in SUBSET Exceptions /\ Selected.FPST.xp \in Reports
    BY <2>1
  <2>3. raised \subseteq Exceptions
    BY Zenon DEF Reports
  <2> QED
    BY <2>2, <2>3, Zenon DEF Reports
<1>4. raised # {} => Raise(raised) = S4
  BY Zenon DEF Raise, Selected
<1> HIDE DEF u, v
<1>5. /\ S1 = [fpu EXCEPT !.regs[b] = [fpu.regs[b] EXCEPT !.FPSR.xc = u]]
      /\ S2 = [S1 EXCEPT !.regs[b] = [S1.regs[b] EXCEPT !.FPSR.xp = v]]
      /\ S3 = [S2 EXCEPT !.regs[b] = [S2.regs[b] EXCEPT !.FPST.xc = u]]
      /\ S4 = [S3 EXCEPT !.regs[b] = [S3.regs[b] EXCEPT !.FPST.xp = v]]
  OBVIOUS
<1> HIDE DEF S1, S2, S3, S4, b
<1>6. ASSUME NEW s \in FpuStates, NEW x \in FpuRegs
      PROVE  [s EXCEPT !.regs[b] = x] \in FpuStates /\ [s EXCEPT !.regs[b] = x].bank = s.bank
  <2>1. [s EXCEPT !.regs[b] = x].bank = s.bank
    BY Zenon DEF FpuStates
  <2> QED
    BY <1>2, <2>1, BankWritten
<1>7. S1 \in FpuStates /\ S1.bank = fpu.bank
  <2>1. [fpu.regs[b] EXCEPT !.FPSR.xc = u] \in FpuRegs
    BY <1>1, <1>2, <1>3, FieldWritten
  <2> QED
    BY <1>5, <1>6, <2>1
<1>8. S2 \in FpuStates /\ S2.bank = fpu.bank
  <2>1. [S1.regs[b] EXCEPT !.FPSR.xp = v] \in FpuRegs
    BY <1>1, <1>2, <1>3, <1>7, FieldWritten
  <2> QED
    BY <1>5, <1>6, <1>7, <2>1
<1>9. S3 \in FpuStates /\ S3.bank = fpu.bank
  <2>1. [S2.regs[b] EXCEPT !.FPST.xc = u] \in FpuRegs
    BY <1>1, <1>2, <1>3, <1>8, FieldWritten
  <2> QED
    BY <1>5, <1>6, <1>8, <2>1
<1>10. S4 \in FpuStates /\ S4.bank = fpu.bank
  <2>1. [S3.regs[b] EXCEPT !.FPST.xp = v] \in FpuRegs
    BY <1>1, <1>2, <1>3, <1>9, FieldWritten
  <2> QED
    BY <1>5, <1>6, <1>9, <2>1
<1>11. raised = {} => Raise(raised) = fpu
  BY Zenon DEF Raise
<1> QED
  BY <1>4, <1>10, <1>11

(* So do the condition bits that are written.                                *)
LEMMA ConditionTyped ==
  ASSUME fpu \in FpuStates, NEW state \in FpuStates, NEW cc \in SUBSET (0 .. 7)
  PROVE  WithCondition(state, cc) \in FpuStates
<1> DEFINE b == fpu.bank
           S1 == [state EXCEPT !.regs[b].FPSR.cc = cc]
           S2 == [S1 EXCEPT !.regs[b].FPCC.cc = cc]
<1>1. \A s \in FpuStates : s.bank \in Banks /\ \A c \in Banks : s.regs[c] \in FpuRegs
  BY Zenon DEF FpuStates
<1>2. b \in Banks
  BY <1>1
<1>3. WithCondition(state, cc) = S2
  BY DEF WithCondition
<1>4. /\ S1 = [state EXCEPT !.regs[b] = [state.regs[b] EXCEPT !.FPSR.cc = cc]]
      /\ S2 = [S1 EXCEPT !.regs[b] = [S1.regs[b] EXCEPT !.FPCC.cc = cc]]
  OBVIOUS
<1> HIDE DEF S1, S2, b
<1>5. S1 \in FpuStates
  <2>1. [state.regs[b] EXCEPT !.FPSR.cc = cc] \in FpuRegs
    BY <1>1, <1>2, FieldWritten
  <2> QED
    BY <1>2, <1>4, <2>1, BankWritten
<1>6. S2 \in FpuStates
  <2>1. [S1.regs[b] EXCEPT !.FPCC.cc = cc] \in FpuRegs
    BY <1>1, <1>2, <1>5, FieldWritten
  <2> QED
    BY <1>2, <1>4, <1>5, <2>1, BankWritten
<1> QED
  BY <1>3, <1>6

(* So does what is written past the last register.                           *)
LEMMA SpilledTyped ==
  ASSUME NEW f \in Formats, NEW n, NEW b \in Data(f), NEW state \in FpuStates
  PROVE  Spilled(f, n, b, state) \in FpuStates
<1> DEFINE m == Modulus
           g == b \div m
<1>1. m \in Nat \ {0}
  BY DataSizes
<1>2. b \in Nat
  <2>1. Host!SignOf(f) \in Nat
    BY FormatBits
  <2> QED
    BY <2>1, SMT DEF Data
<1>3. Spilled(f, n, b, state) \in {[state EXCEPT !.group = g], state}
  BY Zenon DEF Spilled
<1> HIDE DEF m
<1>4. g \in Nat
  BY <1>1, <1>2, SMT
<1> HIDE DEF g
<1>5. [state EXCEPT !.group = g] \in FpuStates
  <2> DEFINE G == Nat
             K == Banks
             L == BOOLEAN
             R == [Banks -> FpuRegs]
  <2>1. state \in [group : G, bank : K, exact : L, regs : R] /\ g \in G
    BY <1>4 DEF FpuStates
  <2> HIDE DEF G, K, L, R
  <2>2. [state EXCEPT !.group = g] \in [group : G, bank : K, exact : L, regs : R]
    BY <2>1, SMT
  <2> QED
    BY <2>2 DEF FpuStates, G, K, L, R
<1> QED
  BY <1>3, <1>5

(* So does BSEL.                                                             *)
LEMMA BselTyped ==
  ASSUME fpu \in FpuStates, Bsel
  PROVE  fpu' \in FpuStates
<1> DEFINE banks == BanksOf(ins.group)
           known == ins.group \in DOMAIN GroupOf /\ ins.bank \in Range(banks)
           group == GroupOf[ins.group]
           bank  == (CHOOSE k \in DOMAIN banks : banks[k] = ins.bank) - 1
           exact == ins.group = 32 /\ ~ ins.reserved
<1>1. \/ known /\ fpu' = [fpu EXCEPT !.group = group, !.bank = bank, !.exact = exact]
      \/ Stop
  BY Zenon DEF Bsel
<1>2. CASE Stop
  BY <1>2 DEF Stop
<1>3. CASE known /\ fpu' = [fpu EXCEPT !.group = group, !.bank = bank, !.exact = exact]
  <2>1. bank \in Banks
    BY <1>3, BankOfBsel
  <2>2. group \in Nat
    BY <1>3, SMT DEF GroupOf
  <2>3. exact \in BOOLEAN
    BY Zenon
  <2> HIDE DEF group, bank, banks, known, exact
  <2> DEFINE G == Nat
             K == Banks
             L == BOOLEAN
             R == [Banks -> FpuRegs]
  <2>4. fpu \in [group : G, bank : K, exact : L, regs : R] /\ group \in G /\ bank \in K /\ exact \in L
    BY <2>1, <2>2, <2>3 DEF FpuStates
  <2> HIDE DEF G, K, L, R
  <2> DEFINE S1 == [fpu EXCEPT !.group = group]
             S2 == [S1 EXCEPT !.bank = bank]
             S3 == [S2 EXCEPT !.exact = exact]
  <2>5. fpu' = S3
    BY <1>3
  <2>6. S1 \in [group : G, bank : K, exact : L, regs : R]
    BY <2>4, SMT
  <2> HIDE DEF S1
  <2>7. S2 \in [group : G, bank : K, exact : L, regs : R]
    BY <2>4, <2>6, SMT
  <2> HIDE DEF S2
  <2>8. S3 \in [group : G, bank : K, exact : L, regs : R]
    BY <2>4, <2>7, SMT
  <2> QED
    BY <2>5, <2>8 DEF FpuStates, G, K, L, R
<1> QED
  BY <1>1, <1>2, <1>3

(* And LDSR, whose synchronisation copies fields of the same types.          *)
LEMMA SyncedTyped ==
  ASSUME NEW regs \in FpuRegs, NEW reg
  PROVE  Synced(regs, reg) \in FpuRegs
<1>1. /\ regs.FPST \in [xc : SUBSET Exceptions, xp : Reports, if : BOOLEAN]
      /\ regs.FPCC \in [cc : SUBSET (0 .. 7)]
      /\ regs.FPCFG \in [rm : 0 .. 3, xe : Reports]
  BY FieldWritten, FieldsAre
<1> DEFINE x == regs.FPST.xc
           p == regs.FPST.xp
           i == regs.FPST.if
           c == regs.FPCC.cc
           m == regs.FPCFG.rm
           e == regs.FPCFG.xe
           T == [[[regs EXCEPT !.FPSR.xc = x] EXCEPT !.FPSR.xp = p] EXCEPT !.FPSR.if = i]
           U == [regs EXCEPT !.FPSR.cc = c]
           V == [[regs EXCEPT !.FPSR.rm = m] EXCEPT !.FPSR.xe = e]
<1>2. x \in SUBSET Exceptions /\ p \in Reports /\ i \in BOOLEAN
  BY <1>1
<1>3. c \in SUBSET (0 .. 7) /\ m \in 0 .. 3 /\ e \in Reports
  BY <1>1
<1>4. Synced(regs, reg) = CASE reg = "FPST" -> T [] reg = "FPCC" -> U [] reg = "FPCFG" -> V [] OTHER -> regs
  BY Zenon DEF Synced
<1> HIDE DEF x, p, i, c, m, e
<1>5. T \in FpuRegs /\ U \in FpuRegs /\ V \in FpuRegs
  <2> DEFINE T1 == [regs EXCEPT !.FPSR.xc = x]
             T2 == [T1 EXCEPT !.FPSR.xp = p]
             V1 == [regs EXCEPT !.FPSR.rm = m]
  <2>1. T1 \in FpuRegs /\ V1 \in FpuRegs /\ U \in FpuRegs
    BY <1>2, <1>3, FieldWritten
  <2> HIDE DEF T1, V1
  <2>2. T2 \in FpuRegs /\ [V1 EXCEPT !.FPSR.xe = e] \in FpuRegs
    BY <1>2, <1>3, <2>1, FieldWritten
  <2> HIDE DEF T2
  <2>3. [T2 EXCEPT !.FPSR.if = i] \in FpuRegs
    BY <1>2, <2>2, FieldWritten
  <2> QED
    BY <2>1, <2>2, <2>3 DEF T1, T2, V1
<1> HIDE DEF T, U, V
<1>6. Synced(regs, reg) \in {T, U, V, regs}
  <2>1. CASE reg = "FPST"
    BY <1>4, <2>1, SMT
  <2>2. CASE reg = "FPCC"
    BY <1>4, <2>2, SMT
  <2>3. CASE reg = "FPCFG"
    BY <1>4, <2>3, SMT
  <2>4. CASE reg \notin {"FPST", "FPCC", "FPCFG"}
    BY <1>4, <2>4, SMT
  <2> QED
    BY <2>1, <2>2, <2>3, <2>4
<1> QED
  BY <1>5, <1>6

(* So LDSR leaves a state too.                                               *)
LEMMA LdsrTyped ==
  ASSUME fpu \in FpuStates, IsDecoded(ins), Ldsr
  PROVE  fpu' \in FpuStates
<1> DEFINE b       == fpu.bank
           written == [fpu.regs[b] EXCEPT ![ins.reg] = ins.value]
           regs    == IF fpu.exact THEN Synced(written, ins.reg) ELSE written
<1>1. fpu' \in {[fpu EXCEPT !.regs[b] = regs], fpu}
  BY Zenon DEF Ldsr
<1>2. ins.reg \in {"FPSR", "FPST", "FPCC", "FPCFG"} /\ ins.value \in FieldsOf(ins.reg)
  BY Zenon DEF Ldsr, Executes, IsDecoded
<1>3. b \in Banks /\ fpu.regs[b] \in FpuRegs
  BY Zenon DEF FpuStates
<1>4. written \in FpuRegs
  BY <1>2, <1>3, RegisterWritten
<1> HIDE DEF written, b
<1>5. regs \in FpuRegs
  BY <1>4, SyncedTyped
<1> QED
  BY <1>1, <1>3, <1>5, BankWritten

(* The registers a core starts with.                                         *)
LEMMA ResetTyped == FpuReset \in FpuStates
<1> DEFINE none == {}
           no   == FALSE
           o    == 0
           sr   == [cc |-> none, xc |-> none, xp |-> none, rm |-> o, xe |-> none, if |-> no]
           fst  == [xc |-> none, xp |-> none, if |-> no]
           fc   == [cc |-> none]
           cfg  == [rm |-> o, xe |-> none]
           regs == [FPSR |-> sr, FPST |-> fst, FPCC |-> fc, FPCFG |-> cfg]
           all  == [b \in Banks |-> regs]
<1>1. FpuReset = [group |-> o, bank |-> o, exact |-> no, regs |-> all]
  BY DEF FpuReset
<1>2. /\ none \in SUBSET (0 .. 7) /\ none \in SUBSET Exceptions /\ none \in Reports
      /\ no \in BOOLEAN
  BY Zenon DEF Reports
<1>3. o \in 0 .. 3 /\ o \in Nat /\ o \in Banks
  BY SMT DEF Banks
<1> HIDE DEF none, no, o
<1>4. /\ sr \in [cc : SUBSET (0 .. 7), xc : SUBSET Exceptions, xp : Reports,
                 rm : 0 .. 3, xe : Reports, if : BOOLEAN]
      /\ fst \in [xc : SUBSET Exceptions, xp : Reports, if : BOOLEAN]
      /\ fc \in [cc : SUBSET (0 .. 7)] /\ cfg \in [rm : 0 .. 3, xe : Reports]
  BY <1>2, <1>3, Zenon
<1>5. /\ sr \in FieldsOf("FPSR") /\ fst \in FieldsOf("FPST")
      /\ fc \in FieldsOf("FPCC") /\ cfg \in FieldsOf("FPCFG")
  BY <1>4, FieldsAre
<1> HIDE DEF sr, fst, fc, cfg
<1>6. regs \in FpuRegs
  BY <1>5, Zenon DEF FpuRegs
<1> HIDE DEF regs
<1>7. all \in [Banks -> FpuRegs]
  BY <1>6
<1> HIDE DEF all
<1> QED
  BY <1>1, <1>2, <1>3, <1>7, Zenon DEF FpuStates

----------------------------------------------------------------------------
(* Two words make a datum of the double, and it has two.                     *)
LEMMA JoinedTyped ==
  /\ \A h, l \in Words : h * Modulus + l \in Data(Double)
  /\ \A b \in Data(Double) : Low(Width, b) \in Words /\ b \div Modulus \in Words
<1> DEFINE m == Modulus
<1>1. m \in Nat \ {0} /\ Words = 0 .. m - 1 /\ Data(Double) = 0 .. m * m - 1
  BY DataSizes DEF Words
<1>2. \A b : Low(Width, b) = b % m
  BY WholeWord DEF Low
<1> HIDE DEF m
<1>3. ASSUME NEW h \in 0 .. m - 1, NEW l \in 0 .. m - 1 PROVE h * m + l \in 0 .. m * m - 1
  <2>1. h * m <= (m - 1) * m /\ (m - 1) * m = m * m - m /\ h * m \in Nat /\ m * m \in Nat
    BY <1>1, SMT
  <2> QED
    BY <1>1, <2>1, SMT
<1>4. ASSUME NEW b \in 0 .. m * m - 1 PROVE (b % m) \in 0 .. m - 1 /\ b \div m \in 0 .. m - 1
  <2> DEFINE h == b \div m
             l == b % m
  <2>1. b \in Int /\ m * m \in Int /\ 0 <= b /\ b < m * m
    BY <1>1, SMT
  <2>2. h \in Int /\ h * m <= b /\ l \in 0 .. m - 1 /\ h * m \in Int /\ h >= 0
    BY <1>1, <2>1, SMT
  <2> HIDE DEF h, l
  <2>3. h < m
    <3> SUFFICES ASSUME m <= h PROVE FALSE
      BY <1>1, <2>2, SMT
    <3>1. m * m <= h * m
      BY <1>1, <2>2, SMT
    <3> QED
      BY <2>1, <2>2, <3>1, SMT
  <2>4. h \in 0 .. m - 1
    BY <1>1, <2>2, <2>3, SMT
  <2> QED
    BY <2>2, <2>4 DEF h, l
<1>5. \A h, l \in Words : h * m + l \in Data(Double)
  BY <1>1, <1>3
<1>6. \A b \in Data(Double) : Low(Width, b) \in Words /\ b \div m \in Words
  BY <1>1, <1>2, <1>4
<1> QED
  BY <1>5, <1>6 DEF m

(* What registers that there are hold is a datum.                            *)
LEMMA ReadTyped ==
  ASSUME CoreTyped, NEW f \in Formats, NEW n \in Regs, f = Double => n + 1 \in Regs
  PROVE  Datum(f, n) \in Data(f) /\ Operand(f, Datum(f, n)) \in Data(f)
<1>1. Single.words = 1 /\ Double.words = 2
  BY SMT DEF Single, Double, Format
<1>2. r \in [Regs -> Words]
  BY DEF CoreTyped
<1>3. CASE f = Single
  <2>1. Datum(f, n) = r[n]
    BY <1>1, <1>3, SMT DEF Datum
  <2> QED
    BY <1>2, <1>3, <2>1, DataSizes, FlushedTyped
<1>4. CASE f = Double
  <2>1. Datum(f, n) = r[n + 1] * Modulus + r[n]
    BY <1>1, <1>4, SMT DEF Datum
  <2>2. r[n + 1] \in Words /\ r[n] \in Words
    BY <1>2, <1>4
  <2>3. Datum(f, n) \in Data(f)
    BY <1>4, <2>1, <2>2, JoinedTyped
  <2> QED
    BY <2>3, FlushedTyped
<1> QED
  BY <1>3, <1>4 DEF Formats

(* The registers that are checked are there.                                 *)
LEMMA InRegsMeans ==
  ASSUME NEW f \in Formats, NEW ns, InRegs(f, ns), NEW n \in ns, n \in Regs
  PROVE  f = Double => n + 1 \in Regs
<1>1. Double.words = 2 /\ n \in Int
  BY SMT DEF Double, Format, Regs
<1>2. n + f.words - 1 \in Regs
  BY Zenon DEF InRegs
<1>3. f = Double => n + f.words - 1 = n + 1
  BY <1>1, SMT
<1> QED
  BY <1>2, <1>3

(* A result that is written leaves words in the registers.                   *)
LEMMA PlacedTyped ==
  ASSUME CoreTyped, NEW f \in Formats, NEW n, NEW b \in Data(f)
  PROVE  Placed(f, n, b) \in [Regs -> Words] /\ Placed(f, n, b)[0] = 0
<1>1. Single.words = 1 /\ Double.words = 2
  BY SMT DEF Single, Double, Format
<1>2. r \in [Regs -> Words]
  BY DEF CoreTyped
<1>3. CASE f = Single
  <2>1. Placed(f, n, b) = [[r EXCEPT ![n] = b] EXCEPT ![0] = 0]
    BY <1>1, <1>3, Zenon DEF Placed
  <2>2. b \in Words
    BY <1>3, DataSizes
  <2> QED
    BY <1>2, <2>1, <2>2, RegIsWritten, ZeroIsWritten
<1>4. CASE f = Double
  <2> DEFINE l == Low(Width, b)
             h == b \div Modulus
             p == [r EXCEPT ![n] = l]
             q == [p EXCEPT ![n + 1] = h]
  <2>1. l \in Words /\ h \in Words
    BY <1>4, JoinedTyped
  <2> HIDE DEF l, h
  <2>2. p \in [Regs -> Words]
    BY <1>2, <2>1, RegIsWritten
  <2>3. q \in [Regs -> Words]
    BY <2>1, <2>2, RegIsWritten
  <2>4. f.words # 1
    BY <1>1, <1>4, SMT
  <2>5. Placed(f, n, b) \in {[q EXCEPT ![0] = 0], [p EXCEPT ![0] = 0]}
    BY <2>4, Zenon DEF Placed, l, h
  <2> HIDE DEF p, q
  <2> QED
    BY <2>2, <2>3, <2>5, ZeroIsWritten
<1> QED
  BY <1>3, <1>4 DEF Formats

(* So a handler that answers keeps the types, if it answers with data.       *)
LEMMA DeliversTyped ==
  ASSUME CoreTyped, fpu \in FpuStates, NEW f \in Formats, NEW n, NEW checked, NEW answers,
         checked => answers \subseteq Answers(f), Delivers(f, n, checked, answers)
  PROVE  CoreNext /\ fpu' \in FpuStates
<1>1. CASE Stop
  <2>1. fpu' = fpu
    BY <1>1 DEF Stop
  <2> QED
    BY <1>1, <2>1, StopTyped
<1>2. CASE /\ checked
           /\ \E a \in answers : r' = Placed(f, n, a.bits) /\ fpu' = Spilled(f, n, a.bits, Raise(a.raised))
           /\ Proceed(pc + 4)
           /\ UNCHANGED <<psw, mem>>
  <2>1. PICK a \in answers : r' = Placed(f, n, a.bits) /\ fpu' = Spilled(f, n, a.bits, Raise(a.raised))
    BY <1>2
  <2>2. a.bits \in Data(f) /\ a.raised \in Reports
    BY <1>2, <2>1 DEF Answers
  <2>3. r' \in [Regs -> Words] /\ r'[0] = 0
    BY <2>1, <2>2, PlacedTyped
  <2>4. fpu' \in FpuStates
    BY <2>1, <2>2, RaiseTyped, SpilledTyped
  <2>5. pc + 4 \in Int
    BY Sizes, SMT DEF CoreTyped
  <2>6. pc' \in Words /\ running' \in BOOLEAN
    BY <1>2, <2>5, GotoTyped
  <2> QED
    BY <1>2, <2>3, <2>4, <2>6, Zenon DEF CoreTyped, CoreNext
<1> QED
  BY <1>1, <1>2, Zenon DEF Delivers

(* The same when a subnormal result is flushed.                              *)
LEMMA FlushesTyped ==
  ASSUME CoreTyped, fpu \in FpuStates, NEW f \in Formats, NEW n, NEW checked, NEW answers,
         checked => answers \subseteq Answers(f), Flushes(f, n, checked, answers)
  PROVE  CoreNext /\ fpu' \in FpuStates
<1>1. checked => FlushedAll(f, answers) \subseteq Answers(f)
  BY FlushedTyped
<1> QED
  BY <1>1, DeliversTyped DEF Flushes

----------------------------------------------------------------------------
(* Answers that are made of answers.                                         *)
LEMMA AfterTyped ==
  ASSUME NEW f \in Formats, NEW a, a.raised \in Reports, NEW answers \in SUBSET Answers(f)
  PROVE  After(a, answers) \subseteq Answers(f)
<1>1. ASSUME NEW b \in answers PROVE Host!Answer(b.bits, a.raised \cup b.raised) \in Answers(f)
  <2>1. b.bits \in Data(f) /\ b.raised \in Reports
    BY <1>1 DEF Answers
  <2>2. a.raised \cup b.raised \in Reports
    BY <2>1, Zenon DEF Reports
  <2> QED
    BY <2>1, <2>2, AnswerTyped
<1> QED
  BY <1>1, Zenon DEF After

(* The constants of a format, and answers that raise V.                      *)
LEMMA ConstantsTyped ==
  ASSUME NEW f \in Formats
  PROVE  /\ OneOf(f) \in Data(f) /\ Qnan(f) \in Data(f) /\ Snan(f) \in Data(f)
         /\ 0 \in Data(f) /\ Host!InfBits(f) \in Data(f)
         /\ \A b \in Data(f) : Unlawful(b) \subseteq Answers(f)
<1> DEFINE S == Host!SignOf(f)
           I == Host!InfBits(f)
           Q == Host!QuietBit(f)
           F == 2 ^ f.frac
           E == 2 ^ f.exp
           G == 2 ^ (f.exp - 1)
<1>1. S \in Nat \ {0} /\ I \in 1 .. S - 1 /\ I + F = S /\ F = 2 * Q /\ Q \in Nat \ {0}
  BY FormatBits
<1>2. S = E * F /\ E = 2 * G /\ G \in Nat \ {0} /\ F \in Nat \ {0} /\ I = (E - 1) * F
  <2>1. G \in Nat \ {0} /\ E = 2 * G /\ S = E * F
    BY FormatSizes DEF Formats
  <2> QED
    BY <2>1, FormatBits DEF Host!InfBits
<1>3. Qnan(f) = S - 1 /\ Snan(f) = S - 1 - Q /\ OneOf(f) = (G - 1) * F /\ Data(f) = 0 .. 2 * S - 1
  BY DEF Qnan, Snan, OneOf, Data
<1> HIDE DEF S, I, Q, F, E, G
<1>4. S - 1 \in 0 .. 2 * S - 1 /\ S - 1 - Q \in 0 .. 2 * S - 1 /\ 0 \in 0 .. 2 * S - 1 /\ I \in 0 .. 2 * S - 1
  BY <1>1, SMT
<1>5. (G - 1) * F \in 0 .. 2 * S - 1
  <2>1. (2 * G) * F = 2 * (G * F) /\ (G - 1) * F = G * F - F /\ G * F \in Nat /\ G * F >= F
    <3>1. G * F \in Nat /\ G * F >= F
      BY <1>2, SMT
    <3>2. (2 * G) * F = 2 * (G * F) /\ (G - 1) * F = G * F - F
      BY <1>2, SMT
    <3> QED
      BY <3>1, <3>2
  <2> DEFINE x == G * F
  <2>2. S = 2 * x /\ (G - 1) * F = x - F /\ x \in Nat /\ x >= F
    BY <1>2, <2>1
  <2> HIDE DEF x
  <2>3. x - F \in 0 .. 2 * S - 1
    BY <1>1, <1>2, <2>2, SMT
  <2> QED
    BY <2>2, <2>3
<1>6. {"V"} \in Reports
  BY SMT DEF Reports, Exceptions
<1>7. \A b \in Data(f) : Unlawful(b) \subseteq Answers(f)
  BY <1>6, AnswerTyped, Zenon DEF Unlawful
<1> QED
  BY <1>3, <1>4, <1>5, <1>7 DEF I

(* Answers to one operation after another.                                   *)
LEMMA ChainsTyped ==
  /\ \A b \in Data(Double) : Rsqrt(b) \subseteq Answers(Double)
  /\ \A answers \in SUBSET Answers(Single) :
       AsDoubles(answers) \subseteq Answers(Double) /\ Reversed(answers) \subseteq Answers(Single)
  /\ \A answers \in SUBSET Answers(Double) : AsSingles(answers) \subseteq Answers(Single)
  /\ \A b \in Data(Single) : ToDouble(b) \subseteq Answers(Double)
  /\ \A b \in Data(Double) : ToSingle(b) \subseteq Answers(Single)
<1>1. Single \in Formats /\ Double \in Formats
  BY DEF Formats
<1>2. \A f \in Formats : \A a \in Answers(f) : a.bits \in Data(f) /\ a.raised \in Reports
  BY DEF Answers
<1>3. ASSUME NEW b \in Data(Single) PROVE ToDouble(b) \subseteq Answers(Double)
  BY <1>1, ConvertedTyped DEF ToDouble
<1>4. ASSUME NEW b \in Data(Double) PROVE ToSingle(b) \subseteq Answers(Single)
  BY <1>1, ConvertedTyped DEF ToSingle
<1>5. ASSUME NEW b \in Data(Double) PROVE Rsqrt(b) \subseteq Answers(Double)
  <2>1. ASSUME NEW a \in Host!Root(Double, RoundType, b)
        PROVE  After(a, Inverse2(Double, a.bits)) \subseteq Answers(Double)
    <3>1. a \in Answers(Double)
      BY <1>1, <2>1, RootTyped
    <3>2. Inverse2(Double, a.bits) \subseteq Answers(Double)
      BY <1>1, <1>2, <3>1, ConstantsTyped, DivideByTyped DEF Inverse2
    <3> QED
      BY <1>1, <1>2, <3>1, <3>2, AfterTyped
  <2> SUFFICES ASSUME NEW c \in Rsqrt(b) PROVE c \in Answers(Double)
    OBVIOUS
  <2>2. PICK a \in Host!Root(Double, RoundType, b) : c \in After(a, Inverse2(Double, a.bits))
    BY DEF Rsqrt
  <2> QED
    BY <2>1, <2>2
<1>6. ASSUME NEW answers \in SUBSET Answers(Single) PROVE AsDoubles(answers) \subseteq Answers(Double)
  <2>1. ASSUME NEW a \in answers PROVE After(a, ToDouble(a.bits)) \subseteq Answers(Double)
    <3>1. a.bits \in Data(Single) /\ a.raised \in Reports
      BY <1>1, <1>2
    <3>2. ToDouble(a.bits) \subseteq Answers(Double)
      BY <1>3, <3>1
    <3> QED
      BY <1>1, <3>1, <3>2, AfterTyped
  <2> SUFFICES ASSUME NEW c \in AsDoubles(answers) PROVE c \in Answers(Double)
    OBVIOUS
  <2>2. PICK a \in answers : c \in After(a, ToDouble(a.bits))
    BY DEF AsDoubles
  <2> QED
    BY <2>1, <2>2
<1>7. ASSUME NEW answers \in SUBSET Answers(Double) PROVE AsSingles(answers) \subseteq Answers(Single)
  <2>1. ASSUME NEW a \in answers PROVE After(a, ToSingle(a.bits)) \subseteq Answers(Single)
    <3>1. a.bits \in Data(Double) /\ a.raised \in Reports
      BY <1>1, <1>2
    <3>2. ToSingle(a.bits) \subseteq Answers(Single)
      BY <1>4, <3>1
    <3> QED
      BY <1>1, <3>1, <3>2, AfterTyped
  <2> SUFFICES ASSUME NEW c \in AsSingles(answers) PROVE c \in Answers(Single)
    OBVIOUS
  <2>2. PICK a \in answers : c \in After(a, ToSingle(a.bits))
    BY DEF AsSingles
  <2> QED
    BY <2>1, <2>2
<1>8. ASSUME NEW answers \in SUBSET Answers(Single) PROVE Reversed(answers) \subseteq Answers(Single)
  <2>1. ASSUME NEW a \in answers PROVE [a EXCEPT !.bits = Host!Opposite(Single, @)] \in Answers(Single)
    <3> DEFINE w == Host!Opposite(Single, a.bits)
    <3>1. a \in Answers(Single) /\ w \in Data(Single)
      BY <1>1, <1>2, DatumTyped
    <3> HIDE DEF w
    <3>2. [a EXCEPT !.bits = w] \in Answers(Single)
      BY <3>1 DEF Answers
    <3> QED
      BY <3>2 DEF w
  <2> QED
    BY <2>1, Zenon DEF Reversed
<1> QED
  BY <1>3, <1>4, <1>5, <1>6, <1>7, <1>8

(* What is made of NaNs and of other operands.                               *)
LEMMA NanAwareTyped ==
  ASSUME NEW f \in Formats, NEW b, NEW otherwise, otherwise \subseteq Answers(f)
  PROVE  NanAware(f, b, otherwise) \subseteq Answers(f)
<1>1. Host!Exactly(Qnan(f)) \subseteq Answers(f) /\ Unlawful(Snan(f)) \subseteq Answers(f)
  BY ConstantsTyped, ExactlyTyped
<1> QED
  BY <1>1, Zenon DEF NanAware

----------------------------------------------------------------------------
(* The operands of an instruction, where its registers are there.            *)
LEMMA OperandData ==
  ASSUME CoreTyped, IsDecoded(ins), NEW f \in Formats, NEW ns, f = Double => InRegs(f, ns)
  PROVE  /\ ins.reg1 \in ns => D1(f) \in Data(f) /\ O1(f) \in Data(f)
         /\ ins.reg2 \in ns => D2(f) \in Data(f) /\ O2(f) \in Data(f)
         /\ ins.reg3 \in ns /\ ins.op \notin {"cmpf_s", "cmpf_d"} => D3(f) \in Data(f) /\ O3(f) \in Data(f)
<1>1. ASSUME NEW n \in Regs, n \in ns PROVE Datum(f, n) \in Data(f) /\ Operand(f, Datum(f, n)) \in Data(f)
  <2>1. f = Double => n + 1 \in Regs
    <3> SUFFICES ASSUME f = Double PROVE n + 1 \in Regs
      OBVIOUS
    <3> QED
      BY <1>1, InRegsMeans
  <2> QED
    BY <2>1, ReadTyped
<1>2. /\ ins.reg1 \in Regs /\ ins.reg2 \in Regs
      /\ ins.op \notin {"cmpf_s", "cmpf_d"} => ins.reg3 \in Regs
  BY Zenon DEF IsDecoded
<1> QED
  BY <1>1, <1>2 DEF D1, D2, D3, O1, O2, O3

(* Those of singles always are.                                              *)
LEMMA SingleOperands ==
  ASSUME CoreTyped, IsDecoded(ins)
  PROVE  /\ R2 \in Data(Single) /\ D1(Single) \in Data(Single) /\ D2(Single) \in Data(Single)
         /\ O1(Single) \in Data(Single) /\ O2(Single) \in Data(Single)
         /\ ins.op \notin {"cmpf_s", "cmpf_d"} => R3 \in Data(Single) /\ O3(Single) \in Data(Single)
<1> DEFINE ns == {ins.reg1, ins.reg2, ins.reg3}
<1>1. Single \in Formats /\ Single # Double
  <2>1. Single.words = 1 /\ Double.words = 2
    BY SMT DEF Single, Double, Format
  <2> QED
    BY <2>1, SMT DEF Formats
<1>2. R2 \in Data(Single) /\ (ins.op \notin {"cmpf_s", "cmpf_d"} => R3 \in Data(Single))
  BY OperandsTyped, DataSizes
<1>3. /\ ins.reg1 \in ns => D1(Single) \in Data(Single) /\ O1(Single) \in Data(Single)
      /\ ins.reg2 \in ns => D2(Single) \in Data(Single) /\ O2(Single) \in Data(Single)
      /\ ins.reg3 \in ns /\ ins.op \notin {"cmpf_s", "cmpf_d"} =>
           D3(Single) \in Data(Single) /\ O3(Single) \in Data(Single)
  BY <1>1, OperandData
<1> QED
  BY <1>2, <1>3

(* Arithmetic keeps the types.                                               *)
LEMMA FloatArithmeticTyped ==
  ASSUME CoreTyped, fpu \in FpuStates, IsDecoded(ins), FloatArithmetic
  PROVE  CoreNext /\ fpu' \in FpuStates
<1>1. Single \in Formats /\ Double \in Formats
  BY DEF Formats
<1>2. ins.op \notin {"cmpf_s", "cmpf_d"}
  BY SMT DEF FloatArithmetic, Executes, Addf_s, Subf_s, Mulf_s, Divf_s, Addf_d, Subf_d, Mulf_d, Divf_d,
     Fmaf_s, Fmsf_s, Fnmaf_s, Fnmsf_s, Maddf_s, Msubf_s, Nmaddf_s, Nmsubf_s
<1>3. ASSUME NEW f \in Formats, NEW answers, Three(f) => answers \subseteq Answers(f), Computes(f, answers)
      PROVE  CoreNext /\ fpu' \in FpuStates
  BY <1>3, FlushesTyped DEF Computes
<1>4. ASSUME NEW f \in Formats, Addf(f) \/ Subf(f) \/ Mulf(f) \/ Divf(f)
      PROVE  CoreNext /\ fpu' \in FpuStates
  <2>1. Three(f) => O1(f) \in Data(f) /\ O2(f) \in Data(f)
    BY OperandData DEF Three
  <2>2. Three(f) => /\ Host!Add(f, RoundType, O1(f), O2(f)) \subseteq Answers(f)
                    /\ Host!Subtract(f, RoundType, O2(f), O1(f)) \subseteq Answers(f)
                    /\ Host!Multiply(f, RoundType, O1(f), O2(f)) \subseteq Answers(f)
                    /\ Host!Divide(f, RoundType, O2(f), O1(f)) \subseteq Answers(f)
    BY <2>1, AddTyped, MultiplyTyped, DivideByTyped
  <2> QED
    BY <1>3, <1>4, <2>2, Zenon DEF Addf, Subf, Mulf, Divf
<1>5. Addf_s \/ Subf_s \/ Mulf_s \/ Divf_s \/ Addf_d \/ Subf_d \/ Mulf_d \/ Divf_d =>
        CoreNext /\ fpu' \in FpuStates
  BY <1>1, <1>4, Zenon DEF Addf_s, Subf_s, Mulf_s, Divf_s, Addf_d, Subf_d, Mulf_d, Divf_d
<1>6. /\ O1(Single) \in Data(Single) /\ O2(Single) \in Data(Single)
      /\ R3 \in Data(Single) /\ O3(Single) \in Data(Single)
  BY <1>2, SingleOperands
<1>7. Negated3 \in Data(Single) /\ Subtracted3 \in Data(Single)
  <2>1. Host!Opposite(Single, R3) \in Data(Single) /\ Host!Opposite(Single, O3(Single)) \in Data(Single)
    BY <1>1, <1>6, DatumTyped
  <2> QED
    BY <1>6, <2>1, Zenon DEF Negated3, Subtracted3
<1>8. ASSUME NEW c \in Data(Single)
      PROVE  /\ Fused3(c) \subseteq Answers(Single) /\ MulAdd(c) \subseteq Answers(Single)
             /\ Reversed(Fused3(c)) \subseteq Answers(Single) /\ Reversed(MulAdd(c)) \subseteq Answers(Single)
  <2>1. Fused3(c) \subseteq Answers(Single) /\ MulAdd(c) \subseteq Answers(Single)
    BY <1>6, FusedTyped DEF Fused3, MulAdd
  <2> QED
    BY <2>1, ChainsTyped
<1>9. Fmaf_s \/ Fmsf_s \/ Fnmaf_s \/ Fnmsf_s => CoreNext /\ fpu' \in FpuStates
  BY <1>1, <1>3, <1>6, <1>7, <1>8, Zenon DEF Fmaf_s, Fmsf_s, Fnmaf_s, Fnmsf_s
<1>10. ASSUME NEW answers \in SUBSET Answers(Single), ToReg4(answers) PROVE CoreNext /\ fpu' \in FpuStates
  BY <1>1, <1>10, FlushesTyped DEF ToReg4
<1>11. Maddf_s \/ Msubf_s \/ Nmaddf_s \/ Nmsubf_s => CoreNext /\ fpu' \in FpuStates
  BY <1>6, <1>7, <1>8, <1>10, Zenon DEF Maddf_s, Msubf_s, Nmaddf_s, Nmsubf_s
<1> QED
  BY <1>5, <1>9, <1>11, Zenon DEF FloatArithmetic

(* So do the functions of one operand, the greater and the less.             *)
LEMMA FloatFunctionsTyped ==
  ASSUME CoreTyped, fpu \in FpuStates, IsDecoded(ins), FloatFunctions
  PROVE  CoreNext /\ fpu' \in FpuStates
<1>1. Single \in Formats /\ Double \in Formats
  BY DEF Formats
<1>2. ASSUME NEW f \in Formats, Two(f) PROVE D2(f) \in Data(f) /\ O2(f) \in Data(f)
  BY <1>2, OperandData DEF Two
<1>3. ASSUME NEW f \in Formats, NEW answers, Two(f) => answers \subseteq Answers(f), AsResult(f, answers)
      PROVE  CoreNext /\ fpu' \in FpuStates
  BY <1>3, FlushesTyped DEF AsResult
<1>4. ASSUME NEW b \in Data(Single), AsItIs(Single, b) PROVE CoreNext /\ fpu' \in FpuStates
  BY <1>1, <1>4, ExactlyTyped, DeliversTyped DEF AsItIs
<1>5. R2 \in Data(Single) /\ O2(Single) \in Data(Single)
  BY SingleOperands
<1>6. Absf_s \/ Negf_s => CoreNext /\ fpu' \in FpuStates
  <2>1. Host!Magnitude(Single, R2) \in Data(Single) /\ Host!Opposite(Single, R2) \in Data(Single)
    BY <1>1, <1>5, DatumTyped
  <2> QED
    BY <1>4, <2>1, Zenon DEF Absf_s, Negf_s
<1>7. Absf_d => CoreNext /\ fpu' \in FpuStates
  <2>1. Two(Double) => Host!Exactly(Host!Magnitude(Double, O2(Double))) \subseteq Answers(Double)
    BY <1>1, <1>2, DatumTyped, ExactlyTyped
  <2> QED
    BY <1>1, <1>3, <2>1, Zenon DEF Absf_d
<1>8. Sqrtf_s \/ Sqrtf_d => CoreNext /\ fpu' \in FpuStates
  <2>1. ASSUME NEW f \in Formats PROVE Two(f) => Host!Root(f, RoundType, O2(f)) \subseteq Answers(f)
    BY <1>2, RootTyped
  <2> QED
    BY <1>1, <1>3, <2>1, Zenon DEF Sqrtf_s, Sqrtf_d
<1>9. Rsqrtf_d => CoreNext /\ fpu' \in FpuStates
  <2>1. Two(Double) => Rsqrt(O2(Double)) \subseteq Answers(Double)
    BY <1>1, <1>2, ChainsTyped
  <2> QED
    BY <1>1, <1>3, <2>1, Zenon DEF Rsqrtf_d
<1>10. Rsqrtf_s => CoreNext /\ fpu' \in FpuStates
  <2> DEFINE wide    == ToDouble(O2(Single))
             inverse == UNION {After(a, Rsqrt(a.bits)) : a \in wide}
  <2>1. wide \subseteq Answers(Double)
    BY <1>5, ChainsTyped
  <2>2. ASSUME NEW a \in wide PROVE After(a, Rsqrt(a.bits)) \subseteq Answers(Double)
    <3>1. a \in Answers(Double)
      BY <2>1, <2>2
    <3>2. a.bits \in Data(Double) /\ a.raised \in Reports
      BY <3>1 DEF Answers
    <3> QED
      BY <1>1, <3>2, ChainsTyped, AfterTyped
  <2>3. inverse \subseteq Answers(Double)
    <3> SUFFICES ASSUME NEW c \in inverse PROVE c \in Answers(Double)
      OBVIOUS
    <3>1. PICK a \in wide : c \in After(a, Rsqrt(a.bits))
      OBVIOUS
    <3> QED
      BY <2>2, <3>1
  <2>4. Rsqrtf_s => AsResult(Single, AsSingles(inverse))
    BY DEF Rsqrtf_s
  <2> HIDE DEF inverse
  <2>5. AsSingles(inverse) \subseteq Answers(Single)
    BY <2>3, ChainsTyped
  <2> QED
    BY <1>1, <1>3, <2>4, <2>5
<1>11. Negf_d => CoreNext /\ fpu' \in FpuStates
  <2> DEFINE answers == NanAware(Double, D2(Double), Host!Exactly(Host!Opposite(Double, D2(Double))))
  <2>1. Two(Double) => answers \subseteq Answers(Double)
    <3>1. Two(Double) => Host!Exactly(Host!Opposite(Double, D2(Double))) \subseteq Answers(Double)
      BY <1>1, <1>2, DatumTyped, ExactlyTyped
    <3> QED
      BY <1>1, <3>1, NanAwareTyped
  <2>2. Negf_d => Delivers(Double, ins.reg3, Two(Double), answers)
    BY Zenon DEF Negf_d
  <2> HIDE DEF answers
  <2> QED
    BY <1>1, <2>1, <2>2, DeliversTyped
<1>12. ASSUME NEW f \in Formats, Recipf(f) PROVE CoreNext /\ fpu' \in FpuStates
  <2> DEFINE b == D2(f)
             zero == Host!Exactly(0)
             huge == {Host!Answer(Host!InfBits(f), {"Z"})}
             quotient == Inverse2(f, b)
             other == CASE IsInf(f, b) -> zero [] IsZero(f, b) -> huge [] OTHER -> quotient
  <2>1. zero \subseteq Answers(f)
    BY ConstantsTyped, ExactlyTyped
  <2>2. huge \subseteq Answers(f)
    <3>1. {"Z"} \in Reports
      BY SMT DEF Reports, Exceptions
    <3> QED
      BY <3>1, ConstantsTyped, AnswerTyped
  <2>3. Two(f) => quotient \subseteq Answers(f)
    BY <1>2, ConstantsTyped, DivideByTyped DEF Inverse2
  <2>4. Delivers(f, ins.reg3, Two(f), NanAware(f, b, other))
    BY <1>12, Zenon DEF Recipf
  <2> HIDE DEF zero, huge, quotient
  <2>5. other \in {zero, huge, quotient}
    <3>1. CASE IsInf(f, b) /\ IsZero(f, b)
      <4>1. other \in {zero, huge}
        BY <3>1, Zenon
      <4> QED
        BY <4>1
    <3>2. CASE IsInf(f, b) /\ ~ IsZero(f, b)
      BY <3>2, SMT
    <3>3. CASE ~ IsInf(f, b) /\ IsZero(f, b)
      BY <3>3, SMT
    <3>4. CASE ~ IsInf(f, b) /\ ~ IsZero(f, b)
      BY <3>4, SMT
    <3> QED
      BY <3>1, <3>2, <3>3, <3>4
  <2> HIDE DEF other
  <2>6. Two(f) => NanAware(f, b, other) \subseteq Answers(f)
    BY <2>1, <2>2, <2>3, <2>5, NanAwareTyped
  <2> QED
    BY <2>4, <2>6, DeliversTyped
<1>13. ASSUME NEW f \in Formats, NEW ns, ns \in {{ins.reg1, ins.reg2, ins.reg3}, {ins.reg1, ins.reg2}}
       PROVE  /\ InRegs(f, ns) => \A first : Chosen(f, first) \in Data(f)
              /\ Unlawful(Qnan(f)) \subseteq Answers(f) /\ Host!Exactly(Qnan(f)) \subseteq Answers(f)
  <2>1. InRegs(f, ns) => D1(f) \in Data(f) /\ D2(f) \in Data(f)
    BY <1>13, OperandData
  <2> QED
    BY <2>1, ConstantsTyped, ExactlyTyped, Zenon DEF Chosen
<1>14. ASSUME NEW f \in Formats, NEW first, Picks(f, Chosen(f, first)) PROVE CoreNext /\ fpu' \in FpuStates
  <2> DEFINE answers == IF SomeSnan(f) THEN Unlawful(Qnan(f)) ELSE Host!Exactly(Chosen(f, first))
  <2>1. Three(f) => answers \subseteq Answers(f)
    BY <1>13, ExactlyTyped, Zenon DEF Three
  <2>2. Delivers(f, ins.reg3, Three(f), answers)
    BY <1>14, Zenon DEF Picks
  <2> HIDE DEF answers
  <2> QED
    BY <2>1, <2>2, DeliversTyped
<1>15. Maxf_s \/ Minf_s \/ Minf_d => CoreNext /\ fpu' \in FpuStates
  BY <1>1, <1>14, Zenon DEF Maxf_s, Minf_s, Minf_d, Larger, Smaller
<1>16. Maxf_d => CoreNext /\ fpu' \in FpuStates
  <2> DEFINE f == Double
             larger == {Host!Answer(Larger(f), v) : v \in MayBeInvalid(f)}
             answers == IF SomeSnan(f) THEN Unlawful(Qnan(f))
                        ELSE IF SomeQnan(f) THEN Host!Exactly(Qnan(f)) ELSE larger
             checked == InRegs(f, {ins.reg1, ins.reg2})
  <2>1. checked => Larger(f) \in Data(f)
    BY <1>1, <1>13 DEF Larger
  <2>2. MayBeInvalid(f) \subseteq Reports
    BY SMT DEF MayBeInvalid, Reports, Exceptions
  <2>3. checked => larger \subseteq Answers(f)
    BY <1>1, <2>1, <2>2, AnswerTyped
  <2>4. Maxf_d => Delivers(f, ins.reg3, checked, answers)
    BY Zenon DEF Maxf_d
  <2> HIDE DEF larger
  <2>5. checked => answers \subseteq Answers(f)
    BY <1>1, <1>13, <2>3, Zenon
  <2> HIDE DEF answers, checked
  <2> QED
    BY <1>1, <2>4, <2>5, DeliversTyped
<1>17. Recipf_s \/ Recipf_d => CoreNext /\ fpu' \in FpuStates
  BY <1>1, <1>12, Zenon DEF Recipf_s, Recipf_d
<1> QED
  BY <1>6, <1>7, <1>8, <1>9, <1>10, <1>11, <1>15, <1>16, <1>17, Zenon DEF FloatFunctions

(* So do comparisons, conditional moves and TRFSR.                           *)
LEMMA FloatComparisonsTyped ==
  ASSUME CoreTyped, fpu \in FpuStates, IsDecoded(ins), FloatComparisons
  PROVE  CoreNext /\ fpu' \in FpuStates
<1>1. Single \in Formats /\ Double \in Formats /\ pc + 4 \in Int
  <2>1. pc + 4 \in Int
    BY Sizes, SMT DEF CoreTyped
  <2> QED
    BY <2>1 DEF Formats
<1>2. ASSUME NEW f, ins.op \in {"cmpf_s", "cmpf_d"}, Cmpf(f) PROVE CoreNext /\ fpu' \in FpuStates
  <2> DEFINE cc     == Selected.FPSR.cc
             raised == IF Unordered(f) /\ Bit(Fcond, 3) = 1 THEN {"V"} ELSE {}
             after  == IF Holds(f) THEN cc \cup {ins.bit} ELSE cc \ {ins.bit}
  <2>1. \/ fpu' = WithCondition(Raise(raised), after) /\ Proceed(pc + 4) /\ UNCHANGED <<r, psw, mem>>
        \/ Stop
    BY <1>2, Zenon DEF Cmpf
  <2>2. raised \in Reports
    <3>1. {"V"} \in Reports /\ {} \in Reports
      BY SMT DEF Reports, Exceptions
    <3> QED
      BY <3>1, Zenon
  <2>3. ins.bit \in 0 .. 7
    <3>1. ins.bit \in IF ins.op \in {"tst1_8", "set1_8", "clr1_8", "not1_8"} THEN 0 .. Byte - 1 ELSE 0 .. 7
      BY Zenon DEF IsDecoded
    <3>2. ins.op \notin {"tst1_8", "set1_8", "clr1_8", "not1_8"}
      BY <1>2, SMT
    <3> QED
      BY <3>1, <3>2, Zenon
  <2>4. cc \in SUBSET (0 .. 7)
    <3>1. Selected \in FpuRegs
      BY Zenon DEF FpuStates, Selected
    <3>2. Selected.FPSR \in FieldsOf("FPSR")
      BY <3>1, FieldWritten
    <3>3. Selected.FPSR \in [cc : SUBSET (0 .. 7), xc : SUBSET Exceptions, xp : Reports,
                            rm : 0 .. 3, xe : Reports, if : BOOLEAN]
      BY <3>2, FieldsAre
    <3> QED
      BY <3>3
  <2> HIDE DEF cc, raised
  <2>5. after \in SUBSET (0 .. 7)
    BY <2>3, <2>4, Zenon
  <2> HIDE DEF after
  <2>6. CASE fpu' = WithCondition(Raise(raised), after) /\ Proceed(pc + 4) /\ UNCHANGED <<r, psw, mem>>
    <3>1. fpu' \in FpuStates
      BY <2>2, <2>5, <2>6, RaiseTyped, ConditionTyped
    <3>2. pc' \in Words /\ running' \in BOOLEAN
      BY <1>1, <2>6, GotoTyped
    <3> QED
      BY <2>6, <3>1, <3>2, Zenon DEF CoreTyped, CoreNext
  <2>7. CASE Stop
    <3>1. fpu' = fpu
      BY <2>7 DEF Stop
    <3> QED
      BY <2>7, <3>1, StopTyped
  <2> QED
    BY <2>1, <2>6, <2>7
<1>3. Cmpf_s \/ Cmpf_d => CoreNext /\ fpu' \in FpuStates
  <2>1. Cmpf_s => ins.op \in {"cmpf_s", "cmpf_d"} /\ Cmpf(Single)
    BY Zenon DEF Cmpf_s, Executes
  <2>2. Cmpf_d => ins.op \in {"cmpf_s", "cmpf_d"} /\ Cmpf(Double)
    BY Zenon DEF Cmpf_d, Executes
  <2> QED
    BY <1>2, <2>1, <2>2
<1>4. ASSUME NEW f \in Formats, Moves(f) PROVE CoreNext /\ fpu' \in FpuStates
  <2>1. Three(f) => D1(f) \in Data(f) /\ D2(f) \in Data(f)
    BY OperandData DEF Three
  <2>2. Three(f) => Chosen(f, Condition) \in Data(f)
    BY <2>1, Zenon DEF Chosen
  <2>3. Three(f) => Host!Exactly(Chosen(f, Condition)) \subseteq Answers(f)
    BY <2>2, ExactlyTyped
  <2> QED
    BY <1>4, <2>3, DeliversTyped DEF Moves
<1>5. Cmovf_s \/ Cmovf_d => CoreNext /\ fpu' \in FpuStates
  BY <1>1, <1>4, Zenon DEF Cmovf_s, Cmovf_d
<1>6. Trfsr => CoreNext /\ fpu' \in FpuStates
  <2> SUFFICES ASSUME Trfsr PROVE CoreNext /\ fpu' \in FpuStates
    OBVIOUS
  <2>1. psw' \in SUBSET Flags /\ Goto(pc + 4) /\ r' = r
    BY UpdateIsFlags DEF Trfsr
  <2>2. fpu' = fpu
    BY <2>1 DEF Goto, MovesTo
  <2> QED
    BY <1>1, <2>1, <2>2, StaysTyped
<1> QED
  BY <1>3, <1>5, <1>6, Zenon DEF FloatComparisons

(* So do conversions to floating point.                                      *)
LEMMA ToFloatsTyped ==
  ASSUME CoreTyped, fpu \in FpuStates, IsDecoded(ins), ToFloats
  PROVE  CoreNext /\ fpu' \in FpuStates
<1>1. Single \in Formats /\ Double \in Formats
  BY DEF Formats
<1>2. ASSUME NEW f \in Formats, NEW words, NEW n, From2(words) => n \in Int, FromInteger(f, words, n)
      PROVE  CoreNext /\ fpu' \in FpuStates
  <2> DEFINE checked == From2(words) /\ InRegs(f, {ins.reg3})
  <2>1. checked => Host!FromInteger(f, RoundType, n) \subseteq Answers(f)
    BY <1>2, FromIntegerTyped
  <2>2. Flushes(f, ins.reg3, checked, Host!FromInteger(f, RoundType, n))
    BY <1>2 DEF FromInteger
  <2> HIDE DEF checked
  <2> QED
    BY <2>1, <2>2, FlushesTyped
<1>3. R2 \in Int /\ Signed(R2) \in Int
  BY OperandsTyped
<1>4. Cvtf_ws \/ Cvtf_uws \/ Cvtf_wd \/ Cvtf_uwd => CoreNext /\ fpu' \in FpuStates
  BY <1>1, <1>2, <1>3, Zenon DEF Cvtf_ws, Cvtf_uws, Cvtf_wd, Cvtf_uwd
<1>5. From2(2) => /\ LowFirst(ins.reg2) \in Int /\ LongSigned(LowFirst(ins.reg2)) \in Int
                  /\ LongJoined(ins.reg2) \in Int /\ LongSigned(LongJoined(ins.reg2)) \in Int
  <2> SUFFICES ASSUME From2(2)
               PROVE  /\ LowFirst(ins.reg2) \in Int /\ LongSigned(LowFirst(ins.reg2)) \in Int
                      /\ LongJoined(ins.reg2) \in Int /\ LongSigned(LongJoined(ins.reg2)) \in Int
    OBVIOUS
  <2> DEFINE n == ins.reg2
             m == Modulus
             l == Long
  <2>1. n \in Regs /\ n + 1 \in Regs
    <3>1. n \in Regs
      BY Zenon DEF IsDecoded
    <3>2. n + 2 - 1 \in Regs
      BY Zenon DEF From2, InRegs
    <3>3. n + 2 - 1 = n + 1
      BY <3>1, SMT DEF Regs
    <3> QED
      BY <3>1, <3>2, <3>3
  <2> DEFINE a == r[n]
             b == r[n + 1]
  <2>2. a \in Int /\ b \in Int /\ m \in Int /\ l \in Int
    <3>1. a \in Words /\ b \in Words
      BY <2>1 DEF CoreTyped
    <3>2. \A w \in Words : w \in Int
      BY Sizes, SMT
    <3>3. m \in Nat \ {0} /\ l \in Nat \ {0}
      BY DataSizes
    <3> HIDE DEF a, b, m, l
    <3>4. m \in Int /\ l \in Int
      BY <3>3, SMT
    <3> QED
      BY <3>1, <3>2, <3>4
  <2>3. LowFirst(n) = b * m + a
    BY DEF LowFirst
  <2>4. LongJoined(n) = (IF b < SignBit THEN a ELSE m - 1) * m + b
    BY DEF LongJoined
  <2>5. \A v : LongSigned(v) = IF v < l \div 2 THEN v ELSE v - l
    BY DEF LongSigned
  <2> HIDE DEF n, m, l, a, b
  <2>6. LowFirst(n) \in Int /\ LongJoined(n) \in Int
    <3>1. b * m \in Int /\ a * m \in Int /\ (m - 1) * m \in Int
      BY <2>2, SMT
    <3>2. b * m + a \in Int /\ a * m + b \in Int /\ (m - 1) * m + b \in Int
      BY <2>2, <3>1, SMT
    <3>3. LongJoined(n) \in {a * m + b, (m - 1) * m + b}
      BY <2>4, Zenon
    <3> QED
      BY <2>3, <3>2, <3>3, Zenon
  <2>7. \A v \in Int : LongSigned(v) \in Int
    BY <2>2, <2>5, SMT
  <2> QED
    BY <2>6, <2>7 DEF n
<1>6. Cvtf_ls \/ Cvtf_uls \/ Cvtf_ld \/ Cvtf_uld => CoreNext /\ fpu' \in FpuStates
  BY <1>1, <1>2, <1>5, Zenon DEF Cvtf_ls, Cvtf_uls, Cvtf_ld, Cvtf_uld
<1>7. Cvtf_sd => CoreNext /\ fpu' \in FpuStates
  <2>1. ToDouble(O2(Single)) \subseteq Answers(Double)
    BY SingleOperands, ChainsTyped
  <2> QED
    BY <1>1, <2>1, FlushesTyped DEF Cvtf_sd
<1>8. Cvtf_ds => CoreNext /\ fpu' \in FpuStates
  <2>1. InRegs(Double, {ins.reg2}) => O2(Double) \in Data(Double)
    BY <1>1, OperandData
  <2>2. InRegs(Double, {ins.reg2}) => ToSingle(O2(Double)) \subseteq Answers(Single)
    BY <2>1, ChainsTyped
  <2> QED
    BY <1>1, <2>2, FlushesTyped DEF Cvtf_ds
<1> QED
  BY <1>4, <1>6, <1>7, <1>8, Zenon DEF ToFloats

(* So do conversions to integers.                                            *)
LEMMA ToIntegersTyped ==
  ASSUME CoreTyped, fpu \in FpuStates, IsDecoded(ins), ToIntegers
  PROVE  CoreNext /\ fpu' \in FpuStates
<1>1. Single \in Formats /\ Double \in Formats
  BY DEF Formats
<1>2. R2 \in Data(Single) /\ O2(Single) \in Data(Single)
  BY SingleOperands
<1>3. ASSUME NEW signed, NEW n \in Int, SingleToWord(signed, n) PROVE CoreNext /\ fpu' \in FpuStates
  <2> DEFINE b  == R2
             hi == Greatest(1, signed)
             lo == IF signed THEN - hi ELSE 0
             limited == {Limited(c, lo, hi) : c \in Casted(2, signed, Single, b, n)}
             at == IF IsMinus(Single, b) THEN lo ELSE hi
             casts == IF IsNan(Single, b) \/ IsInf(Single, b) THEN Refused(at) ELSE limited
  <2>1. Delivers(Single, ins.reg3, TRUE, AsWord(casts))
    BY <1>3, Zenon DEF SingleToWord
  <2>2. hi \in Nat
    BY EndsTyped
  <2>3. Casted(2, signed, Single, b, n) \subseteq Casts
    BY <1>1, <1>2, CastedTyped
  <2> HIDE DEF hi
  <2>4. lo \in Int /\ hi \in Int
    BY <2>2, SMT
  <2> HIDE DEF lo
  <2>5. at \in Int
    BY <2>4, Zenon
  <2>6. limited \subseteq Casts
    BY <2>3, <2>4, LimitedTyped
  <2> HIDE DEF at, limited
  <2>7. Refused(at) \subseteq Casts
    BY <2>5, LimitedTyped
  <2>8. casts \subseteq Casts
    BY <2>6, <2>7, Zenon
  <2> HIDE DEF casts
  <2>9. AsWord(casts) \subseteq Answers(Single)
    BY <2>8, AsWordTyped
  <2> QED
    BY <1>1, <2>1, <2>9, DeliversTyped
<1>4. Cvtf_sw \/ Cvtf_suw \/ Trncf_sw \/ Trncf_suw \/ Floorf_suw => CoreNext /\ fpu' \in FpuStates
  <2>1. Host!Whole(Single, R2) \in Int /\ Host!Floor(Single, R2) \in Int
    BY <1>1, <1>2, WholeTyped
  <2> QED
    BY <1>3, <2>1, Zenon DEF Cvtf_sw, Cvtf_suw, Trncf_sw, Trncf_suw, Floorf_suw
<1>5. ASSUME NEW casts, From2(2) => casts \subseteq Casts, DoubleToWord(casts)
      PROVE  CoreNext /\ fpu' \in FpuStates
  <2>1. From2(2) => AsWord(casts) \subseteq Answers(Single)
    BY <1>5, AsWordTyped
  <2> QED
    BY <1>1, <1>5, <2>1, DeliversTyped DEF DoubleToWord
<1>6. From2(2) => InRegs(Double, {ins.reg2})
  <2>1. Double.words = 2
    BY SMT DEF Double, Format
  <2> QED
    BY <2>1, Zenon DEF From2, InRegs
<1>7. ASSUME NEW ns, InRegs(Double, ns), ins.reg2 \in ns
      PROVE  D2(Double) \in Data(Double) /\ O2(Double) \in Data(Double)
  BY <1>1, <1>7, OperandData
<1>8. ASSUME NEW b \in Data(Double), NEW words, NEW signed PROVE Truncated(words, signed, Double, b) \subseteq Casts
  BY <1>1, CastedTyped
<1>9. Cvtf_dw \/ Cvtf_duw \/ Trncf_dw \/ Trncf_duw => CoreNext /\ fpu' \in FpuStates
  <2>1. From2(2) => /\ Truncated(1, TRUE, Double, O2(Double)) \subseteq Casts
                    /\ Truncated(1, FALSE, Double, O2(Double)) \subseteq Casts
    BY <1>6, <1>7, <1>8
  <2> QED
    BY <1>5, <2>1, Zenon DEF Cvtf_dw, Cvtf_duw, Trncf_dw, Trncf_duw
<1>10. Ceilf_duw => CoreNext /\ fpu' \in FpuStates
  <2> DEFINE casts == Truncated(1, TRUE, Double, O2(Double))
             quiet == {[c EXCEPT !.raised = {}] : c \in casts}
  <2>1. From2(2) => casts \subseteq Casts
    BY <1>6, <1>7, <1>8
  <2> HIDE DEF casts
  <2>2. ASSUME NEW c \in Casts PROVE [c EXCEPT !.raised = {}] \in Casts
    <3>1. {} \in Reports
      BY Zenon DEF Reports
    <3> QED
      BY <3>1 DEF Casts
  <2>3. From2(2) => quiet \subseteq Casts
    BY <2>1, <2>2, Zenon
  <2>4. Ceilf_duw => DoubleToWord(quiet)
    BY DEF Ceilf_duw, casts
  <2> HIDE DEF quiet
  <2> QED
    BY <1>5, <2>3, <2>4
<1>11. ASSUME NEW needed, NEW casts, needed => casts \subseteq Casts, ToLong(needed, casts)
       PROVE  CoreNext /\ fpu' \in FpuStates
  <2>1. needed => AsLong(casts) \subseteq Answers(Double)
    BY <1>11, AsWordTyped
  <2> QED
    BY <1>1, <1>11, <2>1, DeliversTyped DEF ToLong
<1> DEFINE both == InRegs(Double, {ins.reg2, ins.reg3})
<1>12. both => D2(Double) \in Data(Double) /\ O2(Double) \in Data(Double)
  BY <1>7
<1>13. ASSUME NEW casts, both => casts \subseteq Casts, DoubleToLong(casts) PROVE CoreNext /\ fpu' \in FpuStates
  BY <1>11, <1>13 DEF DoubleToLong
<1>14. ASSUME NEW casts, casts \subseteq Casts, SingleToLong(casts) PROVE CoreNext /\ fpu' \in FpuStates
  BY <1>11, <1>14 DEF SingleToLong
<1> HIDE DEF both
<1>15. Cvtf_dl \/ Ceilf_dl \/ Cvtf_dul => CoreNext /\ fpu' \in FpuStates
  <2>1. both => /\ Truncated(2, TRUE, Double, O2(Double)) \subseteq Casts
                /\ Truncated(2, FALSE, Double, O2(Double)) \subseteq Casts
    BY <1>8, <1>12
  <2> QED
    BY <1>13, <2>1, Zenon DEF Cvtf_dl, Ceilf_dl, Cvtf_dul
<1> DEFINE hi == Greatest(2, TRUE)
<1>16. hi \in Int /\ - hi \in Int
  <2>1. hi \in Nat
    BY EndsTyped
  <2> HIDE DEF hi
  <2> QED
    BY <2>1, SMT
<1>17. Refused(hi) \subseteq Casts /\ Refused(- hi) \subseteq Casts
       /\ \A c \in Casts : Limited(c, - hi, hi) \in Casts
  <2> HIDE DEF hi
  <2> QED
    BY <1>16, LimitedTyped
<1>18. Trncf_dl => CoreNext /\ fpu' \in FpuStates
  <2> DEFINE b == D2(Double)
             cast == Truncated(2, TRUE, Double, b)
             limited == {Limited(c, - hi, hi) : c \in cast}
             casts == IF IsNan(Double, b) \/ IsInf(Double, b)
                      THEN Refused(IF IsMinus(Double, b) THEN - hi ELSE hi) ELSE limited
  <2>1. Trncf_dl => DoubleToLong(casts)
    BY Zenon DEF Trncf_dl
  <2>2. both => cast \subseteq Casts
    BY <1>8, <1>12
  <2> HIDE DEF hi, cast
  <2>3. both => limited \subseteq Casts
    BY <1>17, <2>2
  <2> HIDE DEF limited
  <2>4. Refused(IF IsMinus(Double, b) THEN - hi ELSE hi) \subseteq Casts
    BY <1>17, Zenon
  <2>5. both => casts \subseteq Casts
    BY <2>3, <2>4, Zenon
  <2> HIDE DEF casts
  <2> QED
    BY <1>13, <2>1, <2>5
<1>19. Ceilf_dul => CoreNext /\ fpu' \in FpuStates
  <2> DEFINE b == D2(Double)
             n == Host!Whole(Double, b)
             casts == UnsignedLong(Double, b, ~ Host!NaN(Double, b) /\ n < 0, n)
  <2>1. Ceilf_dul => DoubleToLong(casts)
    BY DEF Ceilf_dul
  <2>2. both => casts \subseteq Casts
    <3>1. both => b \in Data(Double) /\ n \in Int
      BY <1>1, <1>12, WholeTyped
    <3> HIDE DEF n, b
    <3> QED
      BY <1>1, <3>1, UnsignedTyped
  <2> HIDE DEF casts
  <2> QED
    BY <1>13, <2>1, <2>2
<1>20. ASSUME NEW f \in Formats, NEW b \in Data(f)
       PROVE  /\ Truncates(f, b) \subseteq Casts
              /\ UnsignedLong(f, b, Below0(f, b), Host!Floor(f, b)) \subseteq Casts
  BY WholeTyped, UnsignedTyped DEF Truncates
<1>21. Trncf_dul => CoreNext /\ fpu' \in FpuStates
  <2>1. both => Truncates(Double, D2(Double)) \subseteq Casts
    BY <1>1, <1>12, <1>20
  <2> QED
    BY <1>13, <2>1 DEF Trncf_dul
<1>22. Trncf_sul \/ Floorf_sul => CoreNext /\ fpu' \in FpuStates
  <2>1. /\ Truncates(Single, R2) \subseteq Casts
        /\ UnsignedLong(Single, R2, Below0(Single, R2), Host!Floor(Single, R2)) \subseteq Casts
    BY <1>1, <1>2, <1>20
  <2> QED
    BY <1>11, <1>14, <2>1, Zenon DEF Trncf_sul, Floorf_sul
<1>23. Trncf_sl => CoreNext /\ fpu' \in FpuStates
  <2> DEFINE cast == Truncated(2, TRUE, Single, R2)
             casts == IF IsNan(Single, R2) THEN Refused(- hi) ELSE IF IsInf(Single, R2) THEN Refused(hi) ELSE cast
  <2>1. Trncf_sl => SingleToLong(casts)
    BY Zenon DEF Trncf_sl
  <2>2. cast \subseteq Casts
    BY <1>1, <1>2, CastedTyped
  <2> HIDE DEF hi, cast
  <2>3. casts \subseteq Casts
    BY <1>17, <2>2, Zenon
  <2> HIDE DEF casts
  <2> QED
    BY <1>14, <2>1, <2>3
<1>24. Floorf_sw \/ Floorf_sl => CoreNext /\ fpu' \in FpuStates
  <2>1. Floored2 \subseteq Answers(Single)
    BY <1>1, <1>2, FlooredTyped DEF Floored2
  <2>2. AsDoubles(Floored2) \subseteq Answers(Double)
    BY <2>1, ChainsTyped
  <2> QED
    BY <1>1, <2>1, <2>2, FlushesTyped, Zenon DEF Floorf_sw, Floorf_sl
<1> QED
  BY <1>4, <1>9, <1>10, <1>15, <1>18, <1>19, <1>21, <1>22, <1>23, <1>24, Zenon DEF ToIntegers

(* So does every instruction of floating point.                              *)
LEMMA FloatsTyped ==
  ASSUME CoreTyped, fpu \in FpuStates, IsDecoded(ins), Floats
  PROVE  CoreNext /\ fpu' \in FpuStates
<1>1. NotSupported => CoreNext /\ fpu' \in FpuStates
  <2> SUFFICES ASSUME NotSupported PROVE CoreNext /\ fpu' \in FpuStates
    OBVIOUS
  <2>1. Stop
    BY DEF NotSupported
  <2>2. fpu' = fpu
    BY <2>1 DEF Stop
  <2> QED
    BY <2>1, <2>2, StopTyped
<1> QED
  BY <1>1, FloatArithmeticTyped, FloatFunctionsTyped, FloatComparisonsTyped, ToFloatsTyped, ToIntegersTyped,
     Zenon DEF Floats

----------------------------------------------------------------------------
(* The invariant: what is relied on, and what the program and the history    *)
(* are.                                                                      *)
TypedSoFar ==
  /\ CoreTyped
  /\ fpu \in FpuStates
  /\ code \in Codes
  /\ DOMAIN mem = DOMAIN start.mem
  /\ Started

(* It holds at the start.                                                    *)
LEMMA TypedAtStart == Init => TypedSoFar
<1> SUFFICES ASSUME Init PROVE TypedSoFar
  OBVIOUS
<1>1. Started /\ AtStart /\ running = TRUE
  BY StartsAtZero, Zenon DEF Init
<1>2. PICK p \in Programs : /\ code = p.code /\ mem = p.mem /\ fpu = FpuReset
                            /\ start = [r |-> r, psw |-> psw, mem |-> mem]
  BY Zenon DEF Init
<1>3. code \in Codes /\ DOMAIN mem = DOMAIN start.mem
  BY <1>2 DEF Codes
<1>4. mem \in [DOMAIN mem -> Bytes]
  <2>1. p.mem \in [DOMAIN p.mem -> 0 .. 2 ^ Byte - 1]
    BY CoreAssumption, Zenon DEF Byte
  <2> QED
    BY <1>2, <2>1, Zenon DEF Bytes
<1>5. fpu \in FpuStates
  BY <1>2, ResetTyped
<1>6. pc \in Words /\ r \in [Regs -> Words] /\ r[0] = 0 /\ psw \in SUBSET Flags
  BY <1>1, SmallestWords, Zenon DEF AtStart, Started
<1> QED
  BY <1>1, <1>3, <1>4, <1>5, <1>6, Zenon DEF TypedSoFar, CoreTyped

(* The instruction to execute is decoded.                                    *)
LEMMA DecodedInstruction ==
  ASSUME code \in Codes, pc \in DOMAIN code
  PROVE  IsDecoded(ins)
<1>1. PICK p \in Programs : code = p.code
  BY DEF Codes
<1>2. IsDecoded(p.code[pc])
  BY <1>1, DecodedAssumption
<1> QED
  BY <1>1, <1>2 DEF ins

(* A step of an instruction keeps the types.                                 *)
LEMMA StepTyped ==
  ASSUME CoreTyped, fpu \in FpuStates, IsDecoded(ins), Next, running, pc \in DOMAIN code
  PROVE  CoreNext /\ fpu' \in FpuStates
<1>1. CASE Floats
  BY <1>1, FloatsTyped
<1>2. CASE WithoutFloats
  <2>1. NotExecuted => CoreNext
    BY StopTyped, Zenon DEF NotExecuted
  <2>2. CoreNext
    <3>1. Arithmetic => CoreNext
      BY ArithmeticTyped
    <3>2. Division => CoreNext
      BY DivisionTyped
    <3>3. Saturation => CoreNext
      BY SaturationTyped
    <3>4. Logic => CoreNext
      BY LogicTyped
    <3>5. Shifts => CoreNext
      BY ShiftsTyped
    <3>6. SwapsAndSearches => CoreNext
      BY SwapsTyped
    <3>7. Branches => CoreNext
      BY BranchesTyped
    <3>8. Loads => CoreNext
      BY LoadsTyped
    <3>9. Stores => CoreNext
      BY StoresTyped
    <3>10. MemoryBits => CoreNext
      BY MemoryBitsTyped
    <3>11. Special => CoreNext
      BY SpecialTyped
    <3> QED
      BY <1>2, <2>1, <3>1, <3>2, <3>3, <3>4, <3>5, <3>6, <3>7, <3>8, <3>9, <3>10, <3>11,
         Zenon DEF WithoutFloats
  <2>3. fpu' = fpu \/ Bsel \/ Ldsr
    <3>1. NotExecuted => Kept
      BY StopKeeps DEF NotExecuted
    <3> QED
      BY <1>2, <3>1, ArithmeticKeeps, DivisionKeeps, SaturationKeeps, LogicKeeps, ShiftsKeep, SwapsKeep,
         BranchesKeep, LoadsKeep, StoresKeep, MemoryBitsKeep, SpecialKeeps, Zenon DEF WithoutFloats, Kept
  <2>4. fpu' \in FpuStates
    BY <2>3, BselTyped, LdsrTyped
  <2> QED
    BY <2>2, <2>4
<1> QED
  BY <1>1, <1>2, Zenon DEF Next, Finished, Halted

(* So every step keeps the invariant.                                        *)
LEMMA TypedStays ==
  ASSUME TypedSoFar, [Next]_vars
  PROVE  TypedSoFar'
<1>1. Started' /\ Same
  BY StartedStays DEF TypedSoFar
<1>2. CASE UNCHANGED vars
  BY <1>1, <1>2, Zenon DEF vars, TypedSoFar, CoreTyped
<1>3. CASE Next /\ running /\ pc \in DOMAIN code
  <2>1. IsDecoded(ins)
    BY <1>3, DecodedInstruction DEF TypedSoFar
  <2>2. CoreNext /\ fpu' \in FpuStates
    BY <1>3, <2>1, StepTyped DEF TypedSoFar
  <2>3. mem' \in [DOMAIN mem -> Bytes]
    BY <2>2 DEF CoreNext
  <2>4. DOMAIN mem' = DOMAIN mem
    BY <2>3
  <2>5. CoreTyped'
    BY <2>2, <2>4, Zenon DEF CoreNext, CoreTyped, Bytes
  <2>6. DOMAIN mem' = DOMAIN start'.mem /\ code' \in Codes
    BY <1>1, <2>4, Zenon DEF TypedSoFar, Same
  <2> QED
    BY <1>1, <2>2, <2>5, <2>6, Zenon DEF TypedSoFar
<1>4. CASE Next /\ ~ (running /\ pc \in DOMAIN code)
  BY <1>2, <1>4, EndedStays
<1> QED
  BY <1>2, <1>3, <1>4

(* And it says that every variable has its type.                             *)
LEMMA TypedMeans == TypedSoFar => TypeOK
<1> SUFFICES ASSUME TypedSoFar PROVE TypeOK
  OBVIOUS
<1>1. CoreTyped /\ fpu \in FpuStates /\ code \in Codes /\ DOMAIN mem = DOMAIN start.mem /\ Started
  BY DEF TypedSoFar
<1>2. mem \in [DOMAIN start.mem -> 0 .. 2 ^ Byte - 1]
  BY <1>1 DEF CoreTyped, Bytes
<1>3. fpu.bank \in Banks /\ fpu.exact \in BOOLEAN /\ fpu.regs \in [Banks -> FpuRegs]
  BY <1>1 DEF FpuStates
<1>4. ASSUME NEW b \in Banks PROVE FpuTypeOK(fpu.regs[b])
  <2> DEFINE regs == fpu.regs[b]
  <2>1. regs \in FpuRegs
    BY <1>3
  <2>2. /\ regs.FPSR \in [cc : SUBSET (0 .. 7), xc : SUBSET Exceptions, xp : Reports,
                          rm : 0 .. 3, xe : Reports, if : BOOLEAN]
        /\ regs.FPST \in [xc : SUBSET Exceptions, xp : Reports, if : BOOLEAN]
        /\ regs.FPCC \in [cc : SUBSET (0 .. 7)]
        /\ regs.FPCFG \in [rm : 0 .. 3, xe : Reports]
    BY <2>1, FieldWritten, FieldsAre
  <2> HIDE DEF regs
  <2>3. /\ regs.FPSR.cc \in SUBSET (0 .. 7) /\ regs.FPSR.xc \in SUBSET Exceptions
        /\ regs.FPSR.xp \in Reports /\ regs.FPSR.rm \in 0 .. 3 /\ regs.FPSR.xe \in Reports
        /\ regs.FPSR.if \in BOOLEAN
    BY <2>2
  <2>4. /\ regs.FPST.xc \in SUBSET Exceptions /\ regs.FPST.xp \in Reports /\ regs.FPST.if \in BOOLEAN
        /\ regs.FPCC.cc \in SUBSET (0 .. 7) /\ regs.FPCFG.rm \in 0 .. 3 /\ regs.FPCFG.xe \in Reports
    BY <2>2
  <2>5. FpuTypeOK(regs)
    BY <2>3, <2>4, Zenon DEF FpuTypeOK, Reports
  <2> QED
    BY <2>5 DEF regs
<1> QED
  BY <1>1, <1>2, <1>3, <1>4, Zenon DEF TypeOK, CoreTyped, Started

(* Every variable keeps its type whatever the program: registers, flags and  *)
(* bytes, and the fields of the registers of floating point in every bank.   *)
(* Nothing but instructions as op_parse finds them is asked of the program.  *)
THEOREM TypesAreKept == Spec => []TypeOK
<1>1. Init => TypedSoFar
  BY TypedAtStart
<1>2. TypedSoFar /\ [Next]_vars => TypedSoFar'
  BY TypedStays
<1>3. TypedSoFar => TypeOK
  BY TypedMeans
<1> QED
  BY <1>1, <1>2, <1>3, PTL DEF Spec
=============================================================================
