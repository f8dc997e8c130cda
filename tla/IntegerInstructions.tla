------------------------- MODULE IntegerInstructions -------------------------
(***************************************************************************)
(* The integer instructions: op_exec_arithm.c, op_exec_sat.c,              *)
(* op_exec_logic.c, op_exec_branch.c and the searches of op_exec_bit.c.    *)
(* Every handler is an action.                                             *)
(***************************************************************************)
EXTENDS Core

----------------------------------------------------------------------------
(* Sums, differences, comparisons.                                           *)
Add_1 == Executes("add_1") /\ Sum(ins.reg2, R2, R1, 0, 2)

Add_2 == Executes("add_2") /\ Sum(ins.reg2, R2, Word(ShortImm), 0, 2)
Addi  == Executes("addi") /\ Sum(ins.reg2, Word(HalfImm), R1, 0, 4)
Adf   == Executes("adf") /\ Sum(ins.reg3, R2, R1, CondBit, 4)
Sub   == Executes("sub") /\ Difference(ins.reg2, R2, R1, 0, 2)
Subr  == Executes("subr") /\ Difference(ins.reg2, R1, R2, 0, 2)
Cmp_1 == Executes("cmp_1") /\ Difference(0, R2, R1, 0, 2)
Cmp_2 == Executes("cmp_2") /\ Difference(0, R2, Word(ShortImm), 0, 2)
Sbf   == Executes("sbf") /\ Difference(ins.reg3, R2, R1, CondBit, 4)

(* Moves.                                                                    *)
Mov_1   == Executes("mov_1") /\ Move(ins.reg2, R1, 2)
Mov_2   == Executes("mov_2") /\ Move(ins.reg2, Word(ShortImm), 2)
Mov_6   == Executes("mov_6") /\ Move(ins.reg1, Word(ins.imm), 6)
Movea   == Executes("movea") /\ Move(ins.reg2, Word(R1 + HalfImm), 4)
Movhi   == Executes("movhi") /\ Move(ins.reg2, Word(R1 + HalfImm * 2 ^ Half), 4)
Setf    == Executes("setf") /\ Move(ins.reg2, IF SetCondHolds THEN 1 ELSE 0, 4)
Sasf    == Executes("sasf") /\ Move(ins.reg2, Word(2 * R2 + CondBit), 4)
Cmov_11 == Executes("cmov_11") /\ Move(ins.reg3, IF SetCondHolds THEN R1 ELSE R2, 4)
Cmov_12 == Executes("cmov_12") /\ Move(ins.reg3, IF SetCondHolds THEN Word(ShortImm) ELSE R2, 4)

----------------------------------------------------------------------------
(* Products.  MULHI multiplies the whole register; a product of two words    *)
(* goes to two registers, and the higher one wins when they are the same.    *)
Mulh_1 == Executes("mulh_1") /\ Move(ins.reg2, Word(Extend(Half, R1) * Extend(Half, R2)), 2)
Mulh_2 == Executes("mulh_2") /\ Move(ins.reg2, Word(ShortImm * Extend(Half, R2)), 2)
Mulhi  == Executes("mulhi") /\ Move(ins.reg2, Word(Signed(R1) * HalfImm), 4)

Pair(low, high, n) ==
  /\ r' = [r EXCEPT ![low] = Word(n), ![high] = Word(n \div Modulus), ![0] = 0]
  /\ UNCHANGED psw
  /\ Advance(4)

Mul     == Executes("mul") /\ Pair(ins.reg2, ins.reg3, Signed(R1) * Signed(R2))
Mulu    == Executes("mulu") /\ Pair(ins.reg2, ins.reg3, R1 * R2)
Mul_12  == Executes("mul_12") /\ Pair(ins.reg2, ins.reg3, Signed(R2) * Extend(MulBits, ins.imm))
Mulu_12 == Executes("mulu_12") /\ Pair(ins.reg2, ins.reg3, R2 * Low(MulBits, ins.imm))

(* The addend of MAC: the low word is extended before the two are joined, so *)
(* that a negative one covers the high word.                                 *)
Joined(low, high) == IF Negative(low) THEN Signed(low) ELSE Signed(high) * Modulus + low

(* Register pairs are even, or the handler fails.                            *)
Mac  == /\ Executes("mac") /\ ins.reg3 % 2 = 0
        /\ Pair(ins.reg4, ins.reg4 + 1, Signed(R1) * Signed(R2) + Joined(R3, r[ins.reg3 + 1]))
Macu == /\ Executes("macu") /\ ins.reg3 % 2 = 0
        /\ Pair(ins.reg4, ins.reg4 + 1, R1 * R2 + r[ins.reg3 + 1] * Modulus + R3)
OddPair == (Executes("mac") \/ Executes("macu")) /\ ins.reg3 % 2 # 0 /\ Stop

Arithmetic ==
  \/ Add_1 \/ Add_2 \/ Addi \/ Adf \/ Sub \/ Subr \/ Cmp_1 \/ Cmp_2 \/ Sbf
  \/ Mov_1 \/ Mov_2 \/ Mov_6 \/ Movea \/ Movhi \/ Setf \/ Sasf \/ Cmov_11 \/ Cmov_12
  \/ Mulh_1 \/ Mulh_2 \/ Mulhi \/ Mul \/ Mulu \/ Mul_12 \/ Mulu_12 \/ Mac \/ Macu \/ OddPair

----------------------------------------------------------------------------
(* Quotients and remainders.  The test for zero reads the whole divisor,     *)
(* also where only its lower half divides; what the host does with a zero    *)
(* half, or with a quotient too large, is its own affair: the x86 traps, the *)
(* Arm answers zero, or the quotient's lower word.  The flags are those of   *)
(* reg2 after both writes, of which the remainder's is the last.             *)
Abs(n)         == IF n < 0 THEN -n ELSE n

(* Did the host round down:                                                  *)
QuotientFloor(n, d) == IF d = 0 THEN 0 ELSE IF d < 0 THEN (-n) \div (-d) ELSE n \div d

Quotient(n, d) == IF d = 0 THEN 0
                  ELSE IF (n < 0) = (d < 0) THEN Abs(n) \div Abs(d) ELSE -(Abs(n) \div Abs(d))

ByZero(size) ==
  R1 = 0 /\ Result(ins.reg2, R2, [ov |-> TRUE, z |-> Zero(R2), s |-> Negative(R2)], size)

Divide(n, d, ov, rests, size) ==
  LET quotient == Word(Quotient(n, d))
      rest     == Word(n - d * Quotient(n, d))
      seen     == IF ins.reg2 \in rests THEN rest ELSE quotient
  IN /\ R1 # 0
     /\ r' = [k \in Regs |-> IF k = 0 THEN 0
                             ELSE IF k \in rests THEN rest
                             ELSE IF k = ins.reg2 THEN quotient ELSE r[k]]
     /\ psw' = Update(psw, [ov |-> ov, z |-> Zero(seen), s |-> Negative(seen)])
     /\ Advance(size)

HostTraps(n, d) == R1 # 0 /\ (d = 0 \/ Overflows(Quotient(n, d))) /\ Stop

SignedDivide(n, d, ov, rests, size) ==
  ByZero(size) \/ Divide(n, d, ov, rests, size) \/ HostTraps(n, d)

Divh_1  == Executes("divh_1") /\ SignedDivide(Signed(R2), Extend(Half, R1), FALSE, {}, 2)
Divh_11 == Executes("divh_11") /\ SignedDivide(Signed(R2), Extend(Half, R1), FALSE, {ins.reg3}, 4)
Div     == /\ Executes("div") \/ Executes("divq")
           /\ SignedDivide(Signed(R2), Signed(R1),
                           Signed(R1) = -1 /\ R2 = SignBit, {ins.reg3}, 4)
Divhu   == /\ Executes("divhu")
           /\ LET d == Low(Half, R1)
              IN ByZero(4) \/ Divide(R2, d, FALSE, {ins.reg3}, 4) \/ (R1 # 0 /\ d = 0 /\ Stop)
Divu    == /\ Executes("divu") \/ Executes("divqu")
           /\ ByZero(4) \/ Divide(R2, R1, FALSE, {ins.reg3}, 4)

Division == Divh_1 \/ Divh_11 \/ Div \/ Divhu \/ Divu

----------------------------------------------------------------------------
(* op_satadd: a word and an exact addend.  Carry is that of the addition, so *)
(* for a difference it is not a borrow; Z and S are those of the exact sum.  *)

(* Did SAT follow the last sum:                                              *)
SaturateForgets(d, w, addend, size) ==
  LET sum  == Signed(w) + addend
      ends == IF sum < 0 THEN - SignBit ELSE SignBit - 1
  IN Result(d, Word(IF Overflows(sum) THEN ends ELSE sum),
            [cy  |-> Carry(w, Word(addend), 0), ov |-> Overflows(sum),
             sat |-> Overflows(sum), z |-> sum = 0, s |-> sum < 0],
            size)

Saturate(d, w, addend, size) ==
  LET sum   == Signed(w) + addend
      ends  == IF sum < 0 THEN - SignBit ELSE SignBit - 1
  IN Result(d, Word(IF Overflows(sum) THEN ends ELSE sum),
            [cy  |-> Carry(w, Word(addend), 0), ov |-> Overflows(sum),
             sat |-> "sat" \in psw \/ Overflows(sum), z |-> sum = 0, s |-> sum < 0],
            size)

Satadd_1  == Executes("satadd_1") /\ Saturate(ins.reg2, R2, Signed(R1), 2)
Satadd_2  == Executes("satadd_2") /\ Saturate(ins.reg2, R2, ShortImm, 2)
Satadd_11 == Executes("satadd_11") /\ Saturate(ins.reg3, R2, Signed(R1), 4)
Satsub_1  == Executes("satsub_1") /\ Saturate(ins.reg2, R2, - Signed(R1), 2)
Satsub_11 == Executes("satsub_11") /\ Saturate(ins.reg3, R2, - Signed(R1), 4)
Satsubr_1 == Executes("satsubr_1") /\ Saturate(ins.reg2, R1, - Signed(R2), 2)
Satsubi   == Executes("satsubi") /\ Saturate(ins.reg2, R1, - HalfImm, 4)

Saturation ==
  Satadd_1 \/ Satadd_2 \/ Satadd_11 \/ Satsub_1 \/ Satsub_11 \/ Satsubr_1 \/ Satsubi

----------------------------------------------------------------------------
(* Logic.  ORI is the one that leaves OV alone.                              *)
And(a, b) == OfBits(Bits(a) \cap Bits(b))
Or(a, b)  == OfBits(Bits(a) \cup Bits(b))
Xor(a, b) == OfBits((Bits(a) \cup Bits(b)) \ (Bits(a) \cap Bits(b)))
Not(a)    == Modulus - 1 - a

SignFlags(w)  == [z |-> Zero(w), s |-> Negative(w)]
LogicFlags(w) == [ov |-> FALSE, z |-> Zero(w), s |-> Negative(w)]
Logical(d, w, size) == Result(d, w, LogicFlags(w), size)

Or_1   == Executes("or") /\ Logical(ins.reg2, Or(R2, R1), 2)
And_1  == Executes("and") /\ Logical(ins.reg2, And(R2, R1), 2)
Xor_1  == Executes("xor") /\ Logical(ins.reg2, Xor(R2, R1), 2)
Not_1  == Executes("not") /\ Logical(ins.reg2, Not(R1), 2)
Tst    == Executes("tst") /\ Logical(0, And(R2, R1), 2)
Andi   == Executes("andi") /\ Logical(ins.reg2, And(R1, Low(Half, ins.imm)), 4)
Xori   == Executes("xori") /\ Logical(ins.reg2, Xor(R1, Low(Half, ins.imm)), 4)
Ori    == Executes("ori") /\ LET w == Or(R1, Low(Half, ins.imm)) IN Result(ins.reg2, w, SignFlags(w), 4)

Zxb == Executes("zxb") /\ Move(ins.reg1, Low(Byte, R1), 2)
Zxh == Executes("zxh") /\ Move(ins.reg1, Low(Half, R1), 2)
Sxb == Executes("sxb") /\ Move(ins.reg1, Word(Extend(Byte, R1)), 2)
Sxh == Executes("sxh") /\ Move(ins.reg1, Word(Extend(Half, R1)), 2)

Logic == \/ Or_1 \/ And_1 \/ Xor_1 \/ Not_1 \/ Tst \/ Andi \/ Xori \/ Ori
         \/ Zxb \/ Zxh \/ Sxb \/ Sxh

----------------------------------------------------------------------------
(* Shifts, by less than the word.  The flags are those of reg2 after the     *)
(* write, which for the forms with a third register is another one; SAR with *)
(* three registers fills with zeros.                                         *)
ShiftLeft(w, k)       == Word(w * 2 ^ k)
ShiftRight(w, k)      == w \div 2 ^ k
ShiftArithmetic(w, k) == Word(Signed(w) \div 2 ^ k)

LastLeft(w, k)  == k > 0 /\ Bit(w, Width - k) = 1
LastRight(w, k) == k > 0 /\ Bit(w, k - 1) = 1

Shift(d, w, cy, size) ==
  LET seen == IF d = ins.reg2 THEN w ELSE R2
  IN Result(d, w, [cy |-> cy, ov |-> FALSE, z |-> Zero(seen), s |-> Negative(seen)], size)

ByImm == ins.imm % Width
ByR1  == R1 % Width

Shl_2  == Executes("shl_2") /\ Shift(ins.reg2, ShiftLeft(R2, ByImm), LastLeft(R2, ByImm), 2)
Shr_2  == Executes("shr_2") /\ Shift(ins.reg2, ShiftRight(R2, ByImm), LastRight(R2, ByImm), 2)
Sar_2  == Executes("sar_2") /\ Shift(ins.reg2, ShiftArithmetic(R2, ByImm), LastRight(R2, ByImm), 2)
Shl_9  == Executes("shl_9") /\ Shift(ins.reg2, ShiftLeft(R2, ByR1), LastLeft(R2, ByR1), 4)
Shr_9  == Executes("shr_9") /\ Shift(ins.reg2, ShiftRight(R2, ByR1), LastRight(R2, ByR1), 4)
Sar_9  == Executes("sar_9") /\ Shift(ins.reg2, ShiftArithmetic(R2, ByR1), LastRight(R2, ByR1), 4)
Shl_11 == Executes("shl_11") /\ Shift(ins.reg3, ShiftLeft(R2, ByR1), LastLeft(R2, ByR1), 4)
Shr_11 == Executes("shr_11") /\ Shift(ins.reg3, ShiftRight(R2, ByR1), LastRight(R2, ByR1), 4)
Sar_11 == Executes("sar_11") /\ Shift(ins.reg3, ShiftRight(R2, ByR1), LastRight(R2, ByR1), 4)

Shifts == Shl_2 \/ Shr_2 \/ Sar_2 \/ Shl_9 \/ Shr_9 \/ Sar_9 \/ Shl_11 \/ Shr_11 \/ Sar_11

----------------------------------------------------------------------------
(* Swaps of halves and bytes.  The program counter moves by two, though the  *)
(* format has four bytes.                                                    *)
Swap(w, cy, z) ==
  Result(ins.reg3, w, [cy |-> cy, ov |-> FALSE, z |-> z, s |-> Negative(w)], 2)

LowHalfZero(w) == Low(Half, w) = 0
ZeroByte(w, k) == ByteOf(w, k) = 0

Hsh == Executes("hsh") /\ Swap(R2, LowHalfZero(R2), LowHalfZero(R2))
Hsw == Executes("hsw") /\ LET w == Low(Half, R2) * 2 ^ Half + R2 \div 2 ^ Half
                          IN Swap(w, LowHalfZero(R2) \/ R2 < 2 ^ Half, Zero(w))
Bsh == Executes("bsh") /\ LET w == Pack(ByteOf(R2, 2), ByteOf(R2, 3), ByteOf(R2, 0), ByteOf(R2, 1))
                          IN Swap(w, \E k \in 0 .. 1 : ZeroByte(w, k), LowHalfZero(w))
Bsw == Executes("bsw") /\ LET w == Pack(ByteOf(R2, 0), ByteOf(R2, 1), ByteOf(R2, 2), ByteOf(R2, 3))
                          IN Swap(w, \E k \in 0 .. 3 : ZeroByte(w, k), LowHalfZero(w))

(* Searches: one more than the bits before the first that has the value, and *)
(* 0 if none has.  CY is set in both branches of the code.                   *)

(* Were the bits counted from zero:                                          *)
SearchFromZero(passed) ==
  Result(ins.reg3, IF passed = {} THEN 0 ELSE Min(passed),
         [cy |-> TRUE, ov |-> FALSE, s |-> FALSE, z |-> passed = {}], 4)

Search(passed) ==
  Result(ins.reg3, IF passed = {} THEN 0 ELSE Min(passed) + 1,
         [cy |-> TRUE, ov |-> FALSE, s |-> FALSE, z |-> passed = {}], 4)

FromLeft(v)  == {n \in 0 .. Width - 1 : Bit(R2, Width - 1 - n) = v}
FromRight(v) == {n \in 0 .. Width - 1 : Bit(R2, n) = v}

Sch0l == Executes("sch0l") /\ Search(FromLeft(0))
Sch1l == Executes("sch1l") /\ Search(FromLeft(1))
Sch0r == Executes("sch0r") /\ Search(FromRight(0))
Sch1r == Executes("sch1r") /\ Search(FromRight(1))

SwapsAndSearches == Hsh \/ Hsw \/ Bsh \/ Bsw \/ Sch0l \/ Sch1l \/ Sch0r \/ Sch1r

----------------------------------------------------------------------------
(* Branches.  The six-byte forms take the displacement of a whole word; JR   *)
(* is JARL to register 0, which keeps no link.                               *)
Branch(a) == Goto(a) /\ UNCHANGED <<r, psw>>

Link(d, size, a) ==
  /\ r' = [r EXCEPT ![d] = Word(pc + size), ![0] = 0]
  /\ UNCHANGED psw
  /\ Goto(a)

Bcond  == Executes("bcond") /\ Branch(pc + IF CondHolds THEN Extend(CondBits, ins.imm) ELSE 2)
Jmp_1  == Executes("jmp_1") /\ Branch(R1)
Jmp_6  == Executes("jmp_6") /\ Branch(R1 + ins.imm)
Jr_6   == Executes("jr_6") /\ Branch(pc + ins.imm)
Jr_5   == Executes("jr_5") /\ Link(ins.reg2, 4, pc + Extend(JumpBits, ins.imm))
Jarl_6 == Executes("jarl_6") /\ Link(ins.reg1, 6, pc + ins.imm)

Branches == Bcond \/ Jmp_1 \/ Jmp_6 \/ Jr_6 \/ Jr_5 \/ Jarl_6
==============================================================================
