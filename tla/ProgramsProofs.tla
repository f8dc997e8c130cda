--------------------------- MODULE ProgramsProofs ---------------------------
(***************************************************************************)
(* What the small programs of MCInstructions compute, for words of every   *)
(* size and whatever the registers and flags they start from.              *)
(***************************************************************************)
EXTENDS InstructionsProofs

----------------------------------------------------------------------------
(* The steps of a program.                                                   *)

(* Small numbers are words.                                                  *)
LEMMA SmallWords == ASSUME NEW n \in 0 .. 16 PROVE Word(n) = n /\ n \in Words
<1>1. n \in Int /\ n \in 0 .. Modulus - 1
  BY ProgramsAssumption, Sizes, SMT
<1> QED
  BY <1>1, TurnOfWord DEF Words

(* The programs name registers.                                              *)
LEMMA NamedRegs == 0 .. 5 \subseteq Regs
BY ProgramsAssumption, CoreAssumption, SMT DEF Regs

(* The fields of the instructions that programs are written with.            *)
LEMMA Fields ==
  ASSUME NEW op
  PROVE  /\ Ins(op).op = op /\ Ins(op).reg1 = 1 /\ Ins(op).reg2 = 2 /\ Ins(op).reg3 = 3 /\ Ins(op).reg4 = 4
         /\ \A a, b : /\ On(op, a, b).op = op /\ On(op, a, b).reg1 = a /\ On(op, a, b).reg2 = b
                      /\ On(op, a, b).reg3 = 3
         /\ \A a, b, c : /\ On3(op, a, b, c).op = op /\ On3(op, a, b, c).reg1 = a
                         /\ On3(op, a, b, c).reg2 = b /\ On3(op, a, b, c).reg3 = c
                         /\ On3(op, a, b, c).reg4 = 4
         /\ \A i, b : /\ WithImm(op, i, b).op = op /\ WithImm(op, i, b).imm = i
                      /\ WithImm(op, i, b).reg1 = 1 /\ WithImm(op, i, b).reg2 = b
BY SMT DEF Ins, On, On3, WithImm

(* A result is written to its register, unless that is the first one.        *)
LEMMA ResultWrites ==
  ASSUME NEW d \in Regs, NEW w, NEW changes, NEW size, Result(d, w, changes, size),
         r \in [Regs -> Words], r[0] = 0
  PROVE  /\ r' = [n \in Regs |-> IF n # 0 /\ n = d THEN w ELSE r[n]]
         /\ d = 0 => r' = r
         /\ psw' = Update(psw, changes)
         /\ pc' = Word(pc + size)
         /\ running' = running
<1>1. r' = [r EXCEPT ![d] = w, ![0] = 0]
  BY DEF Result
<1>2. r' = [n \in Regs |-> IF n # 0 /\ n = d THEN w ELSE r[n]]
  <2>1. r' = [[r EXCEPT ![d] = w] EXCEPT ![0] = 0]
    BY <1>1
  <2>2. r' = [n \in Regs |-> IF n = 0 THEN 0 ELSE IF n = d THEN w ELSE r[n]]
    BY <2>1, Zenon
  <2> QED
    BY <2>2, SMT
<1>3. d = 0 => r' = r
  BY <1>2, SMT
<1> QED
  BY <1>2, <1>3, Zenon DEF Result, Advance, Goto, MovesTo, Proceed

----------------------------------------------------------------------------
(* Comparisons.                                                              *)

(* A comparison is true or false.                                            *)
LEMMA ComparisonIsBoolean ==
  ASSUME NEW a \in Words, NEW b \in Words
  PROVE  \A n \in Compared : Comparison(a, b)[n] \in BOOLEAN
<1> DEFINE x == Signed(a)
           y == Signed(b)
           c == Comparison(a, b)
<1>1. /\ c.V = Overflows(x - y)
      /\ c.NV = ~ Overflows(x - y)
      /\ c.L = (a < b)
      /\ c.NL = (a >= b)
      /\ c.E = (a = b)
      /\ c.NE = (a # b)
      /\ c.NH = (a <= b)
      /\ c.H = (a > b)
      /\ c.R = TRUE
      /\ c.LT = (x < y)
      /\ c.GE = (x >= y)
      /\ c.LE = (x <= y)
      /\ c.GT = (x > y)
  BY Zenon DEF Comparison
<1>2. Overflows(x - y) \in BOOLEAN
  BY DEF Overflows
<1> HIDE DEF x, y, c
<1>3. \A n \in Compared : c[n] \in BOOLEAN
  <2>1. /\ (a < b) \in BOOLEAN /\ (a >= b) \in BOOLEAN /\ (a <= b) \in BOOLEAN /\ (a > b) \in BOOLEAN
        /\ (x < y) \in BOOLEAN /\ (x >= y) \in BOOLEAN /\ (x <= y) \in BOOLEAN /\ (x > y) \in BOOLEAN
        /\ (a = b) \in BOOLEAN /\ (a # b) \in BOOLEAN /\ (~ Overflows(x - y)) \in BOOLEAN
    BY SMT
  <2> QED
    BY <1>1, <1>2, <2>1, Zenon DEF Compared
<1> QED
  BY <1>3 DEF c

(* After a comparison each condition says of the flags what it says of the   *)
(* operands, and SETF and CMOV read it as Bcond does.                        *)
LEMMA ConditionsMean ==
  ASSUME NEW a \in Words, NEW b \in Words, NEW flags \in SUBSET Flags, NEW k \in Compared
  PROVE  LET after == Update(flags, DifferenceFlags(a, b, 0))
         IN /\ Conditions(after)[k] = Comparison(a, b)[k]
            /\ SetConditions(after)[k] = Comparison(a, b)[k]
<1> DEFINE after == Update(flags, DifferenceFlags(a, b, 0))
<1>1. /\ Conditions(after).L <=> a < b
      /\ Conditions(after).NL <=> a >= b
      /\ Conditions(after).NH <=> a <= b
      /\ Conditions(after).H <=> a > b
      /\ Conditions(after).E <=> a = b
      /\ Conditions(after).NE <=> a # b
      /\ Conditions(after).LT <=> Signed(a) < Signed(b)
      /\ Conditions(after).GE <=> Signed(a) >= Signed(b)
      /\ Conditions(after).LE <=> Signed(a) <= Signed(b)
      /\ Conditions(after).GT <=> Signed(a) > Signed(b)
  BY ConditionsCompare
<1>2. "ov" \in after <=> Overflows(Signed(a) - Signed(b))
  <2>1. "ov" \in after <=> Overflows(Signed(a) - Signed(b) - 0)
    BY Zenon DEF Update, DifferenceFlags, Flags
  <2>2. Signed(a) - Signed(b) - 0 = Signed(a) - Signed(b)
    BY AluAssumption, SMT DEF Words, Signed, Modulus
  <2> QED
    BY <2>1, <2>2
<1> HIDE DEF after
<1>3. /\ Conditions(after).V <=> "ov" \in after
      /\ Conditions(after).NV <=> ~ ("ov" \in after)
      /\ Conditions(after).R
  BY Zenon DEF Conditions
<1>4. \A n \in Compared : Conditions(after)[n] \in BOOLEAN
  <2> DEFINE z  == "z" \in after
             s  == "s" \in after
             ov == "ov" \in after
             cy == "cy" \in after
             c  == Conditions(after)
  <2>1. /\ c.V = ov
        /\ c.NV = ~ ov
        /\ c.L = cy
        /\ c.NL = ~ cy
        /\ c.E = z
        /\ c.NE = ~ z
        /\ c.NH = (cy \/ z)
        /\ c.H = ~ (cy \/ z)
        /\ c.R = TRUE
        /\ c.LT = (s # ov)
        /\ c.GE = (s = ov)
        /\ c.LE = (s # ov \/ z)
        /\ c.GT = ~ (s # ov \/ z)
    BY Zenon DEF Conditions
  <2>2. z \in BOOLEAN /\ s \in BOOLEAN /\ ov \in BOOLEAN /\ cy \in BOOLEAN
    OBVIOUS
  <2> HIDE DEF z, s, ov, cy, c
  <2>3. \A n \in Compared : c[n] \in BOOLEAN
    BY <2>1, <2>2, Zenon DEF Compared
  <2> QED
    BY <2>3 DEF c
<1>5. \A n \in Compared : SetConditions(after)[n] = Conditions(after)[n]
  BY Zenon DEF SetConditions, Conditions, Compared
<1>6. \A n \in Compared : Comparison(a, b)[n] \in BOOLEAN
  BY ComparisonIsBoolean
<1>7. \A n \in Compared : Conditions(after)[n] <=> Comparison(a, b)[n]
  <2> DEFINE c == Conditions(after)
             m == Comparison(a, b)
  <2>1. /\ m.L <=> a < b
        /\ m.NL <=> a >= b
        /\ m.NH <=> a <= b
        /\ m.H <=> a > b
        /\ m.E <=> a = b
        /\ m.NE <=> a # b
        /\ m.LT <=> Signed(a) < Signed(b)
        /\ m.GE <=> Signed(a) >= Signed(b)
        /\ m.LE <=> Signed(a) <= Signed(b)
        /\ m.GT <=> Signed(a) > Signed(b)
        /\ m.V <=> Overflows(Signed(a) - Signed(b))
        /\ m.NV <=> ~ Overflows(Signed(a) - Signed(b))
        /\ m.R
    BY Zenon DEF Comparison
  <2> HIDE DEF c, m
  <2>2. /\ c.L <=> m.L
        /\ c.NL <=> m.NL
        /\ c.NH <=> m.NH
        /\ c.H <=> m.H
        /\ c.E <=> m.E
        /\ c.NE <=> m.NE
        /\ c.LT <=> m.LT
        /\ c.GE <=> m.GE
        /\ c.LE <=> m.LE
        /\ c.GT <=> m.GT
        /\ c.V <=> m.V
        /\ c.NV <=> m.NV
        /\ c.R <=> m.R
    BY <1>1, <1>2, <1>3, <2>1, Zenon DEF c
  <2>3. \A n \in Compared : c[n] <=> m[n]
    BY <2>2, Zenon DEF Compared
  <2> QED
    BY <2>3 DEF c, m
<1>8. Conditions(after)[k] = Comparison(a, b)[k]
  BY <1>4, <1>6, <1>7, Zenon
<1> QED
  BY <1>5, <1>8 DEF after

(* CMP leaves the registers, and the flags of the difference.                *)
LEMMA CmpStep ==
  ASSUME Next, running, pc \in DOMAIN code, ins = Ins("cmp_1"), r \in [Regs -> Words], r[0] = 0
  PROVE  r' = r /\ psw' = Update(psw, DifferenceFlags(r[2], r[1], 0)) /\ pc' = Word(pc + 2)
<1>1. ins.op = "cmp_1" /\ ins.reg1 = 1 /\ ins.reg2 = 2
  BY Fields
<1>2. Difference(0, r[2], r[1], 0, 2)
  BY Dispatch, <1>1 DEF Cmp_1, R1, R2
<1>3. 0 \in Regs
  BY NamedRegs, SMT
<1> QED
  BY <1>2, <1>3, ResultWrites DEF Difference

(* The flags after the comparison of the inputs.                             *)
Compares  == Update(start.psw, DifferenceFlags(start.r[2], start.r[1], 0))
Meets(k)  == Comparison(start.r[2], start.r[1])[k]
AfterCmp  == pc = 2 /\ r = start.r /\ psw = Compares

(* Where SETF, CMOV and Bcond leave a program that started from zero in r3.  *)
ComparesSoFar(k) ==
  /\ code = SetsIf(k) => AtStart \/ AfterCmp \/ (pc = 6 /\ r[3] = IF Meets(k) THEN 1 ELSE 0)
  /\ code = SelectsIf(k) =>
       AtStart \/ AfterCmp \/ (pc = 6 /\ r[3] = IF Meets(k) THEN start.r[1] ELSE start.r[2])
  /\ code = BranchesIf(k) =>
       \/ AtStart
       \/ AfterCmp
       \/ pc = 4 /\ r = start.r /\ ~ Meets(k)
       \/ pc = 6 /\ (r[3] = 0) = Meets(k)

(* CMP is the first instruction of the three programs, at 0.                 *)
LEMMA CmpFirst ==
  ASSUME NEW k \in Compared, code \in {SetsIf(k), SelectsIf(k), BranchesIf(k)},
         Next, running, Started, AtStart
  PROVE  AfterCmp'
<1>1. /\ DOMAIN SetsIf(k) = {0, 2} /\ SetsIf(k)[0] = Ins("cmp_1")
      /\ DOMAIN SelectsIf(k) = {0, 2} /\ SelectsIf(k)[0] = Ins("cmp_1")
      /\ DOMAIN BranchesIf(k) = {0, 2, 4} /\ BranchesIf(k)[0] = Ins("cmp_1")
  BY SMT DEF SetsIf, SelectsIf, BranchesIf, :>, @@
<1>2. pc = 0 /\ pc \in DOMAIN code /\ ins = Ins("cmp_1")
  BY <1>1, SMT DEF AtStart, ins
<1>3. r' = r /\ psw' = Update(psw, DifferenceFlags(r[2], r[1], 0)) /\ pc' = Word(0 + 2)
  BY <1>2, CmpStep DEF Started, AtStart
<1>4. Word(0 + 2) = 2
  BY SmallWords, SMT
<1>5. start' = start
  BY StepKeeps, Zenon DEF Same
<1> QED
  BY <1>3, <1>4, <1>5, Zenon DEF AfterCmp, AtStart, Compares

(* SETF and CMOV read the flags that CMP left.                               *)
LEMMA SetsOrSelects ==
  ASSUME NEW k \in Compared, Next, running, Started, AfterCmp
  PROVE  /\ code = SetsIf(k) => pc' = 6 /\ r'[3] = IF Meets(k) THEN 1 ELSE 0
         /\ code = SelectsIf(k) => pc' = 6 /\ r'[3] = IF Meets(k) THEN start.r[1] ELSE start.r[2]
<1>1. /\ DOMAIN SetsIf(k) = {0, 2} /\ SetsIf(k)[2] = If(WithImm("setf", 0, 3), k)
      /\ DOMAIN SelectsIf(k) = {0, 2} /\ SelectsIf(k)[2] = If(Ins("cmov_11"), k)
  BY SMT DEF SetsIf, SelectsIf, :>, @@
<1>2. Word(2 + 4) = 6 /\ 3 \in Regs /\ {1, 2} \subseteq Regs
  BY SmallWords, NamedRegs, SMT
<1>3. SetConditions(psw)[k] = Meets(k)
  <2>1. start.r[2] \in Words /\ start.r[1] \in Words /\ start.psw \in SUBSET Flags
    BY <1>2 DEF Started
  <2> QED
    BY <2>1, ConditionsMean DEF AfterCmp, Compares, Meets
<1>4. r \in [Regs -> Words] /\ r[0] = 0
  BY DEF Started, AfterCmp
<1>5. ASSUME code = SetsIf(k)
      PROVE  pc' = 6 /\ r'[3] = IF Meets(k) THEN 1 ELSE 0
  <2>1. pc = 2 /\ pc \in DOMAIN code /\ ins = If(WithImm("setf", 0, 3), k)
    BY <1>1, <1>5, SMT DEF AfterCmp, ins
  <2>2. ins.op = "setf" /\ ins.reg2 = 3 /\ ins.cond = k
    BY <2>1, SMT DEF If, WithImm, Ins
  <2> DEFINE w == IF Meets(k) THEN 1 ELSE 0
  <2>3. Result(3, w, <<>>, 4)
    BY <1>3, <2>1, <2>2, Dispatch, Zenon DEF Setf, Move, SetCondHolds
  <2> HIDE DEF w
  <2>4. r' = [n \in Regs |-> IF n # 0 /\ n = 3 THEN w ELSE r[n]] /\ pc' = Word(2 + 4)
    BY <1>2, <1>4, <2>1, <2>3, ResultWrites, Zenon
  <2> QED
    BY <1>2, <2>4, SMT DEF w
<1>6. ASSUME code = SelectsIf(k)
      PROVE  pc' = 6 /\ r'[3] = IF Meets(k) THEN start.r[1] ELSE start.r[2]
  <2>1. pc = 2 /\ pc \in DOMAIN code /\ ins = If(Ins("cmov_11"), k)
    BY <1>1, <1>6, SMT DEF AfterCmp, ins
  <2>2. ins.op = "cmov_11" /\ ins.reg1 = 1 /\ ins.reg2 = 2 /\ ins.reg3 = 3 /\ ins.cond = k
    BY <2>1, SMT DEF If, Ins
  <2> DEFINE w == IF Meets(k) THEN r[1] ELSE r[2]
  <2>3. Result(3, w, <<>>, 4)
    BY <1>3, <2>1, <2>2, Dispatch, Zenon DEF Cmov_11, Move, SetCondHolds, R1, R2
  <2> HIDE DEF w
  <2>4. r' = [n \in Regs |-> IF n # 0 /\ n = 3 THEN w ELSE r[n]] /\ pc' = Word(2 + 4)
    BY <1>2, <1>4, <2>1, <2>3, ResultWrites, Zenon
  <2> QED
    BY <1>2, <2>4, SMT DEF w, AfterCmp
<1> QED
  BY <1>5, <1>6

(* The displacement that jumps over one instruction is positive.             *)
LEMMA ShortJump == Extend(CondBits, 4) = 4
<1>1. CondBits \in Nat /\ CondBits > 3 /\ CondBits <= Width /\ Width \in Nat
  BY ProgramsAssumption, CoreAssumption, SMT
<1> DEFINE rest == 2 ^ (CondBits - 4)
           half == 2 ^ (CondBits - 1)
           all  == 2 ^ CondBits
<1>2. rest \in Nat \ {0} /\ half = 8 * rest /\ all = 2 * half
  <2>1. /\ CondBits - 4 \in 0 .. Width /\ 3 \in 0 .. Width /\ CondBits - 1 \in 0 .. Width /\ 1 \in 0 .. Width
        /\ 3 + (CondBits - 4) = CondBits - 1 /\ 1 + (CondBits - 1) = CondBits
        /\ CondBits - 1 <= Width
    BY <1>1, SMT
  <2>2. rest \in Nat \ {0} /\ half = 2 ^ 3 * rest
    BY <2>1, WordPowers
  <2>3. all = 2 ^ 1 * half
    BY <2>1, <1>1, WordPowers
  <2> QED
    BY <2>2, <2>3, SMT
<1> HIDE DEF rest, half, all
<1>3. all \in Nat \ {0} /\ 4 \in 0 .. all - 1 /\ 4 < half
  BY <1>2, SMT
<1>4. 4 % all = 4
  BY <1>3, Turn, SMT
<1> QED
  BY <1>3, <1>4 DEF Extend, Low, all, half

(* An immediate of one is not extended to zero.                              *)
LEMMA OneIsExtended == Word(Extend(ShortBits, 1)) # 0
<1>1. ShortBits \in Nat /\ ShortBits > 0 /\ ShortBits <= Width /\ Width \in Nat
  BY CoreAssumption, SMT
<1> DEFINE half == 2 ^ (ShortBits - 1)
           all  == 2 ^ ShortBits
<1>2. half \in Nat \ {0} /\ all = 2 * half
  <2>1. ShortBits - 1 \in 0 .. Width /\ 1 \in 0 .. Width /\ 1 + (ShortBits - 1) = ShortBits
    BY <1>1, SMT
  <2>2. half \in Nat \ {0} /\ all = 2 ^ 1 * half
    BY <2>1, <1>1, WordPowers
  <2> QED
    BY <2>2, SMT
<1> HIDE DEF half, all
<1>3. all \in Nat \ {0} /\ 1 \in 0 .. all - 1
  BY <1>2, SMT
<1>4. 1 % all = 1
  BY <1>3, Turn, SMT
<1>5. Extend(ShortBits, 1) = IF 1 < half THEN 1 ELSE 1 - all
  BY <1>4 DEF Extend, Low, half, all
<1>6. Extend(ShortBits, 1) \in {1, -1}
  BY <1>2, <1>5, SMT
<1>7. Word(1) = 1
  BY SmallWords, SMT
<1>8. Word(-1) = Modulus - 1
  <2>1. -1 \in - Modulus .. -1 /\ -1 \in Int
    BY Sizes, SMT
  <2>2. Word(-1) = -1 + Modulus
    BY <2>1, TurnOfWord
  <2> QED
    BY <2>2, Sizes, SMT
<1>9. Modulus > 16 /\ Modulus \in Nat
  BY ProgramsAssumption, Sizes
<1>10. Word(Extend(ShortBits, 1)) \in {1, Modulus - 1}
  BY <1>6, <1>7, <1>8
<1> QED
  BY <1>9, <1>10, SMT

(* Bcond reads the flags that CMP left.                                      *)
LEMMA BranchesOnCmp ==
  ASSUME NEW k \in Compared, code = BranchesIf(k), Next, running, Started, AfterCmp
  PROVE  r' = r /\ pc' = IF Meets(k) THEN 6 ELSE 4
<1>1. DOMAIN BranchesIf(k) = {0, 2, 4} /\ BranchesIf(k)[2] = If(WithImm("bcond", 4, 0), k)
  BY SMT DEF BranchesIf, :>, @@
<1>2. Word(2 + 4) = 6 /\ Word(2 + 2) = 4 /\ {1, 2} \subseteq Regs
  BY SmallWords, NamedRegs, SMT
<1>3. Conditions(psw)[k] = Meets(k)
  <2>1. start.r[2] \in Words /\ start.r[1] \in Words /\ start.psw \in SUBSET Flags
    BY <1>2 DEF Started
  <2> QED
    BY <2>1, ConditionsMean DEF AfterCmp, Compares, Meets
<1>4. pc = 2 /\ pc \in DOMAIN code /\ ins = If(WithImm("bcond", 4, 0), k)
  BY <1>1, SMT DEF AfterCmp, ins
<1>5. ins.op = "bcond" /\ ins.imm = 4 /\ ins.cond = k
  BY <1>4, SMT DEF If, WithImm, Ins
<1>6. r' = r /\ pc' = Word(2 + IF Meets(k) THEN 4 ELSE 2)
  BY <1>3, <1>4, <1>5, Dispatch, ShortJump, Zenon DEF Bcond, Branch, Goto, MovesTo, Proceed, CondHolds
<1> QED
  BY <1>2, <1>6, SMT

(* What Bcond jumped over puts one into r3.                                  *)
LEMMA OneInR3 ==
  ASSUME NEW k \in Compared, code = BranchesIf(k), Next, running, Started, pc = 4, r = start.r
  PROVE  r'[3] # 0 /\ pc' = 6
<1>1. DOMAIN BranchesIf(k) = {0, 2, 4} /\ BranchesIf(k)[4] = WithImm("mov_2", 1, 3)
  BY SMT DEF BranchesIf, :>, @@
<1>2. Word(4 + 2) = 6 /\ 3 \in Regs
  BY SmallWords, NamedRegs, SMT
<1>3. pc \in DOMAIN code /\ ins = WithImm("mov_2", 1, 3)
  BY <1>1, SMT DEF ins
<1>4. ins.op = "mov_2" /\ ins.imm = 1 /\ ins.reg2 = 3
  BY <1>3, Fields
<1> DEFINE w == Word(Extend(ShortBits, 1))
<1>5. Result(3, w, <<>>, 2)
  BY <1>3, <1>4, Dispatch, Zenon DEF Mov_2, Move, ShortImm
<1> HIDE DEF w
<1>6. r' = [n \in Regs |-> IF n # 0 /\ n = 3 THEN w ELSE r[n]] /\ pc' = Word(4 + 2)
  <2>1. r \in [Regs -> Words] /\ r[0] = 0
    BY Zenon DEF Started
  <2> QED
    BY <1>2, <1>5, <2>1, ResultWrites, Zenon
<1>7. w # 0
  BY OneIsExtended DEF w
<1> QED
  BY <1>2, <1>6, <1>7, SMT

(* A step takes each of the three programs one instruction further.          *)
LEMMA ComparesOn ==
  ASSUME Started, NEW k \in Compared, ComparesSoFar(k), [Next]_vars
  PROVE  ComparesSoFar(k)'
<1>1. code' = code /\ start' = start
  BY StepKeeps, Zenon DEF vars, Same
<1>2. Meets(k)' = Meets(k)
  BY <1>1, Zenon DEF Meets
<1>3. /\ DOMAIN SetsIf(k) = {0, 2}
      /\ DOMAIN SelectsIf(k) = {0, 2}
      /\ DOMAIN BranchesIf(k) = {0, 2, 4}
  BY SMT DEF SetsIf, SelectsIf, BranchesIf, :>, @@
<1>4. CASE UNCHANGED vars
  BY <1>4, Zenon DEF vars, ComparesSoFar, AtStart, AfterCmp, Compares, Meets
<1>5. CASE Next /\ ~ (running /\ pc \in DOMAIN code)
  BY <1>4, <1>5, EndedStays
<1>6. CASE Next /\ running /\ pc \in DOMAIN code
  <2>1. code \in {SetsIf(k), SelectsIf(k), BranchesIf(k)} /\ AtStart => AfterCmp'
    BY <1>6, CmpFirst
  <2>2. ASSUME code = SetsIf(k)
        PROVE  AfterCmp' \/ (pc' = 6 /\ r'[3] = IF Meets(k) THEN 1 ELSE 0)
    <3>1. AtStart \/ AfterCmp
      BY <1>3, <1>6, <2>2, SMT DEF ComparesSoFar
    <3> QED
      BY <1>6, <2>1, <2>2, <3>1, SetsOrSelects
  <2>3. ASSUME code = SelectsIf(k)
        PROVE  AfterCmp' \/ (pc' = 6 /\ r'[3] = IF Meets(k) THEN start.r[1] ELSE start.r[2])
    <3>1. AtStart \/ AfterCmp
      BY <1>3, <1>6, <2>3, SMT DEF ComparesSoFar
    <3> QED
      BY <1>6, <2>1, <2>3, <3>1, SetsOrSelects
  <2>4. ASSUME code = BranchesIf(k)
        PROVE  \/ AfterCmp'
               \/ pc' = 4 /\ r' = start.r /\ ~ Meets(k)
               \/ pc' = 6 /\ (r'[3] = 0) = Meets(k)
    <3>1. AtStart \/ AfterCmp \/ (pc = 4 /\ r = start.r /\ ~ Meets(k))
      BY <1>3, <1>6, <2>4, SMT DEF ComparesSoFar
    <3>2. start.r[3] = 0
      <4>1. 3 \in Regs
        BY NamedRegs, SMT
      <4>2. \E p \in Programs : \E in \in p.inputs :
              code = p.code /\ start.r[3] = IF 3 \in DOMAIN in THEN in[3] ELSE 0
        BY <4>1, Zenon DEF Started
      <4> QED
        BY <2>4, <4>2, StartsAssumption, Zenon DEF BranchesFromZero
    <3>3. Meets(k) \in BOOLEAN
      <4>1. start.r[2] \in Words /\ start.r[1] \in Words
        BY NamedRegs, SMT DEF Started
      <4> QED
        BY <4>1, ComparisonIsBoolean DEF Meets
    <3>4. CASE AtStart
      BY <1>6, <2>1, <2>4, <3>4
    <3>5. CASE AfterCmp
      <4>1. r' = start.r /\ pc' = IF Meets(k) THEN 6 ELSE 4
        BY <1>6, <2>4, <3>5, BranchesOnCmp DEF AfterCmp
      <4> QED
        BY <3>2, <3>3, <4>1, SMT
    <3>6. CASE pc = 4 /\ r = start.r /\ ~ Meets(k)
      <4>1. r'[3] # 0 /\ pc' = 6
        BY <1>6, <2>4, <3>6, OneInR3
      <4> QED
        BY <3>3, <3>6, <4>1, SMT
    <3> QED
      BY <3>1, <3>4, <3>5, <3>6
  <2> QED
    BY <1>1, <1>2, <2>2, <2>3, <2>4, Zenon DEF ComparesSoFar
<1> QED
  BY <1>4, <1>5, <1>6

(* After CMP every condition means the comparison of the two words as        *)
(* unsigned or as signed integers, also where their difference overflows,    *)
(* and SETF, CMOV and Bcond agree on it (op_exec_arithm.c, op_exec_branch.c),*)
(* for words, immediates and register files of every size.                   *)
THEOREM ConditionsAgree == Spec => []ComparesAsIntegers
<1> DEFINE IInv == Started /\ \A k \in Compared : ComparesSoFar(k)
<1>1. Init => IInv
  BY StartsAtZero, Zenon DEF ComparesSoFar
<1>2. IInv /\ [Next]_vars => IInv'
  <2> SUFFICES ASSUME IInv, [Next]_vars PROVE IInv'
    OBVIOUS
  <2>1. Started'
    BY StartedStays
  <2>2. ASSUME NEW k \in Compared PROVE ComparesSoFar(k)'
    BY <2>2, ComparesOn
  <2> QED
    BY <2>1, <2>2
<1>3. IInv => ComparesAsIntegers
  <2> SUFFICES ASSUME IInv, NEW k \in Compared
               PROVE  /\ Ran(SetsIf(k)) => (r[3] = 1) = Meets(k)
                      /\ Ran(SelectsIf(k)) => r[3] = IF Meets(k) THEN start.r[1] ELSE start.r[2]
                      /\ Ran(BranchesIf(k)) => (r[3] = 0) = Meets(k)
    BY Zenon DEF ComparesAsIntegers, Meets
  <2>1. /\ DOMAIN SetsIf(k) = {0, 2}
        /\ DOMAIN SelectsIf(k) = {0, 2}
        /\ DOMAIN BranchesIf(k) = {0, 2, 4}
    BY SMT DEF SetsIf, SelectsIf, BranchesIf, :>, @@
  <2>2. Meets(k) \in BOOLEAN
    <3>1. start.r[2] \in Words /\ start.r[1] \in Words
      BY NamedRegs, SMT DEF Started
    <3> QED
      BY <3>1, ComparisonIsBoolean DEF Meets
  <2>3. Ran(SetsIf(k)) => r[3] = IF Meets(k) THEN 1 ELSE 0
    BY <2>1, SMT DEF Ran, ComparesSoFar, AtStart, AfterCmp
  <2>4. Ran(SetsIf(k)) => (r[3] = 1) = Meets(k)
    BY <2>2, <2>3, SMT
  <2>5. Ran(SelectsIf(k)) => r[3] = IF Meets(k) THEN start.r[1] ELSE start.r[2]
    BY <2>1, SMT DEF Ran, ComparesSoFar, AtStart, AfterCmp
  <2>6. Ran(BranchesIf(k)) => (r[3] = 0) = Meets(k)
    BY <2>1, SMT DEF Ran, ComparesSoFar, AtStart, AfterCmp
  <2> QED
    BY <2>4, <2>5, <2>6
<1> QED
  BY <1>1, <1>2, <1>3, PTL DEF Spec

----------------------------------------------------------------------------
(* Numbers of two words.                                                     *)

(* The high word decides, of a number of two words and a whole multiple.     *)
LEMMA HighDecides ==
  ASSUME NEW x \in Int, NEW k \in Int, NEW l \in Words
  PROVE  x * Modulus + l < k * Modulus <=> x < k
<1> DEFINE m == Modulus
           a == x * m
           b == k * m
           e == (k - x) * m
<1>1. m \in Nat \ {0} /\ l \in 0 .. m - 1 /\ l \in Int
  BY Sizes, SMT DEF Words
<1> HIDE DEF m
<1>2. a \in Int /\ b \in Int /\ e \in Int /\ e = b - a
  BY <1>1, SMT
<1>3. k - x >= 1 => e >= m
  BY <1>1, SMT
<1>4. k - x <= 0 => e <= 0
  BY <1>1, SMT
<1> HIDE DEF a, b, e
<1>5. a + l < b <=> x < k
  BY <1>1, <1>2, <1>3, <1>4, SMT
<1> QED
  BY <1>5 DEF a, b, m

(* As a signed integer a number of two words has its high word signed.       *)
LEMMA WideSignedHigh ==
  ASSUME NEW low \in Words, NEW high \in Words
  PROVE  WideSigned(Wide(low, high)) = Signed(high) * Modulus + low
<1>1. high \in Int /\ low \in Int /\ SignBit \in Int /\ Modulus \in Int
  BY AluAssumption, Sizes, SMT DEF Words
<1>2. Wide(low, high) < SignBit * Modulus <=> high < SignBit
  BY <1>1, HighDecides DEF Wide
<1>3. (high * Modulus + low) - Modulus * Modulus = (high - Modulus) * Modulus + low
  BY <1>1, SMT
<1>4. CASE high < SignBit
  BY <1>2, <1>4, Zenon DEF WideSigned, Signed, Wide
<1>5. CASE ~ (high < SignBit)
  <2>1. WideSigned(Wide(low, high)) = (high * Modulus + low) - Modulus * Modulus
    <3>1. WideSigned(Wide(low, high)) = Wide(low, high) - Modulus * Modulus
      BY <1>2, <1>5, Zenon DEF WideSigned
    <3> QED
      BY <3>1 DEF Wide
  <2>2. Signed(high) = high - Modulus
    BY <1>5, Zenon DEF Signed
  <2> QED
    BY <1>3, <2>1, <2>2, Zenon
<1> QED
  BY <1>4, <1>5

(* A signed number of two words fits when its high word does.                *)
LEMMA WideOverflowsHigh ==
  ASSUME NEW x \in Int, NEW low \in Words
  PROVE  WideOverflows(x * Modulus + low) <=> Overflows(x)
<1>1. SignBit \in Int /\ - SignBit \in Int /\ Modulus \in Int /\ low \in Int
  BY AluAssumption, Sizes, SMT DEF Words
<1>2. x * Modulus + low < SignBit * Modulus <=> x < SignBit
  BY <1>1, HighDecides
<1>3. x * Modulus + low < (- SignBit) * Modulus <=> x < - SignBit
  BY <1>1, HighDecides
<1>4. (- SignBit) * Modulus = - (SignBit * Modulus)
  BY <1>1, SMT
<1> DEFINE n == x * Modulus + low
           e == SignBit * Modulus
<1>5. n \in Int /\ e \in Int
  BY <1>1, SMT
<1> HIDE DEF n, e
<1>6. /\ n >= e <=> ~ (n < e)
      /\ x > SignBit - 1 <=> ~ (x < SignBit)
  BY <1>1, <1>5, SMT
<1> QED
  BY <1>2, <1>3, <1>4, <1>6 DEF WideOverflows, Overflows, n, e

(* A sum or difference of two words that leaves them by one turn.            *)
LEMMA WideTurn ==
  ASSUME NEW low \in Words, NEW high \in Words, NEW out \in {0, 1}, NEW n \in Int
  PROVE  /\ n = Wide(low, high) + out * (Modulus * Modulus)
              => WideWord(n) = Wide(low, high) /\ (n # WideWord(n) <=> out = 1)
         /\ n = Wide(low, high) - out * (Modulus * Modulus)
              => WideWord(n) = Wide(low, high) /\ (n < 0 <=> out = 1)
<1> DEFINE m == Modulus
           t == m * m
           w == high * m + low
<1>1. m \in Nat \ {0} /\ low \in 0 .. m - 1 /\ high \in 0 .. m - 1
  BY Sizes, SMT DEF Words
<1> HIDE DEF m
<1>2. t \in Nat \ {0} /\ w \in Nat
  BY <1>1, SMT
<1>3. w < t
  <2>1. low \in Words /\ high \in Int /\ Modulus \in Int /\ high < m
    BY <1>1, SMT DEF m
  <2>2. high * Modulus + low < Modulus * Modulus <=> high < Modulus
    BY <2>1, HighDecides
  <2> QED
    BY <2>1, <2>2 DEF w, t, m
<1>4. w = Wide(low, high)
  BY DEF w, m, Wide
<1> HIDE DEF t, w
<1>5. n = w + out * t => n % t = w /\ (n # n % t <=> out = 1)
  <2>1. CASE out = 0
    <3>1. n = w + out * t => n = w /\ n \in 0 .. t - 1
      BY <1>2, <1>3, <2>1, SMT
    <3> QED
      BY <3>1, <2>1, <1>2, Turn
  <2>2. CASE out = 1
    <3>1. n = w + out * t => n = w + t /\ n \in t .. 2 * t - 1 /\ n - t = w /\ n # w
      BY <1>2, <1>3, <2>2, SMT
    <3> QED
      BY <3>1, <2>2, <1>2, Turn
  <2> QED
    BY <2>1, <2>2
<1>6. n = w - out * t => n % t = w /\ (n < 0 <=> out = 1)
  <2>1. CASE out = 0
    <3>1. n = w - out * t => n = w /\ n \in 0 .. t - 1 /\ ~ (n < 0)
      BY <1>2, <1>3, <2>1, SMT
    <3> QED
      BY <3>1, <2>1, <1>2, Turn
  <2>2. CASE out = 1
    <3>1. n = w - out * t => n \in - t .. -1 /\ n + t = w /\ n < 0
      BY <1>2, <1>3, <2>2, SMT
    <3> QED
      BY <3>1, <2>2, <1>2, Turn
  <2> QED
    BY <2>1, <2>2
<1> QED
  BY <1>4, <1>5, <1>6 DEF WideWord, t, m

(* ADD of the low words and ADF with condition L of the high ones add        *)
(* numbers of two words; the carry and OV that the second leaves are those   *)
(* of the whole (op_exec_add, op_exec_adf_11).                               *)
LEMMA TwoWordsAdd ==
  ASSUME NEW a1 \in Words, NEW a2 \in Words, NEW b1 \in Words, NEW b2 \in Words,
         NEW c, c = IF Carry(a1, b1, 0) THEN 1 ELSE 0
  PROVE  LET low  == Word(a1 + b1 + 0)
             high == Word(a2 + b2 + c)
             a    == Wide(a1, a2)
             b    == Wide(b1, b2)
         IN /\ Wide(low, high) = WideWord(a + b)
            /\ Carry(a2, b2, c) <=> a + b # WideWord(a + b)
            /\ Overflows(Signed(a2) + Signed(b2) + c) <=> WideOverflows(WideSigned(a) + WideSigned(b))
<1> DEFINE m    == Modulus
           low  == Word(a1 + b1 + 0)
           high == Word(a2 + b2 + c)
           n    == Wide(a1, a2) + Wide(b1, b2)
           out  == IF Carry(a2, b2, c) THEN 1 ELSE 0
<1>1. /\ a1 \in 0 .. m - 1 /\ b1 \in 0 .. m - 1
      /\ a2 \in 0 .. m - 1 /\ b2 \in 0 .. m - 1
      /\ m \in Nat \ {0} /\ c \in {0, 1} /\ out \in {0, 1}
  BY Sizes, SMT DEF Words
<1>2. low = a1 + b1 - c * m
  <2>1. low = IF Carry(a1, b1, 0) THEN a1 + b1 + 0 - Modulus ELSE a1 + b1 + 0
    BY SumIsExact
  <2> QED
    BY <1>1, <2>1, SMT
<1>3. high = a2 + b2 + c - out * m
  <2>1. high = IF Carry(a2, b2, c) THEN a2 + b2 + c - Modulus ELSE a2 + b2 + c
    BY <1>1, SumIsExact
  <2> QED
    BY <1>1, <2>1, SMT
<1>4. low \in Words /\ high \in Words
  <2>1. a1 + b1 + 0 \in Int /\ a2 + b2 + c \in Int
    BY <1>1, SMT
  <2> QED
    BY <2>1, WordIsWord
<1>5. low \in Int /\ high \in Int
  BY <1>4, SMT DEF Words
<1>6. n = (a2 * m + a1) + (b2 * m + b1)
  BY DEF Wide
<1> HIDE DEF m, low, high, out, n
<1>7. n = high * m + low + out * (m * m) /\ n \in Int
  BY <1>1, <1>2, <1>3, <1>5, <1>6, SMT
<1>8. n = Wide(low, high) + out * (Modulus * Modulus)
  BY <1>7 DEF Wide, m
<1>9. WideWord(n) = Wide(low, high) /\ (n # WideWord(n) <=> out = 1)
  BY <1>1, <1>4, <1>7, <1>8, WideTurn
<1>10. Carry(a2, b2, c) <=> n # WideWord(n)
  BY <1>9 DEF out
<1> DEFINE x == Signed(a2)
           y == Signed(b2)
<1>11. x \in Int /\ y \in Int
  BY <1>1, AluAssumption, SMT DEF Signed, m, Modulus
<1>12. WideSigned(Wide(a1, a2)) = x * m + a1 /\ WideSigned(Wide(b1, b2)) = y * m + b1
  BY WideSignedHigh DEF m
<1> HIDE DEF x, y
<1>13. (x * m + a1) + (y * m + b1) = (x + y + c) * m + low
  BY <1>1, <1>2, <1>11, SMT
<1>14. WideOverflows((x + y + c) * m + low) <=> Overflows(x + y + c)
  <2>1. x + y + c \in Int
    BY <1>1, <1>11, SMT
  <2> QED
    BY <1>4, <2>1, WideOverflowsHigh DEF m
<1>15. WideOverflows(WideSigned(Wide(a1, a2)) + WideSigned(Wide(b1, b2))) <=> Overflows(x + y + c)
  BY <1>12, <1>13, <1>14
<1> QED
  BY <1>9, <1>10, <1>15 DEF low, high, n, x, y

(* The same of SUB and SBF (op_exec_sub, op_exec_sbf_11).                    *)
LEMMA TwoWordsSub ==
  ASSUME NEW a1 \in Words, NEW a2 \in Words, NEW b1 \in Words, NEW b2 \in Words,
         NEW c, c = IF Borrow(a1, b1, 0) THEN 1 ELSE 0
  PROVE  LET low  == Word(a1 - b1 - 0)
             high == Word(a2 - b2 - c)
             a    == Wide(a1, a2)
             b    == Wide(b1, b2)
         IN /\ Wide(low, high) = WideWord(a - b)
            /\ Borrow(a2, b2, c) <=> a < b
            /\ Overflows(Signed(a2) - Signed(b2) - c) <=> WideOverflows(WideSigned(a) - WideSigned(b))
<1> DEFINE m    == Modulus
           low  == Word(a1 - b1 - 0)
           high == Word(a2 - b2 - c)
           n    == Wide(a1, a2) - Wide(b1, b2)
           out  == IF Borrow(a2, b2, c) THEN 1 ELSE 0
<1>1. /\ a1 \in 0 .. m - 1 /\ b1 \in 0 .. m - 1
      /\ a2 \in 0 .. m - 1 /\ b2 \in 0 .. m - 1
      /\ m \in Nat \ {0} /\ c \in {0, 1} /\ out \in {0, 1}
  BY Sizes, SMT DEF Words
<1>2. low = a1 - b1 + c * m
  <2>1. /\ Borrow(a1, b1, 0) <=> a1 < b1 + 0
        /\ low = IF a1 < b1 + 0 THEN a1 - b1 - 0 + Modulus ELSE a1 - b1 - 0
    BY DifferenceIsExact
  <2> QED
    BY <1>1, <2>1, SMT
<1>3. high = a2 - b2 - c + out * m
  <2>1. /\ Borrow(a2, b2, c) <=> a2 < b2 + c
        /\ high = IF a2 < b2 + c THEN a2 - b2 - c + Modulus ELSE a2 - b2 - c
    BY <1>1, DifferenceIsExact
  <2> QED
    BY <1>1, <2>1, SMT
<1>4. low \in Words /\ high \in Words
  <2>1. a1 - b1 - 0 \in Int /\ a2 - b2 - c \in Int
    BY <1>1, SMT
  <2> QED
    BY <2>1, WordIsWord
<1>5. low \in Int /\ high \in Int
  BY <1>4, SMT DEF Words
<1>6. n = (a2 * m + a1) - (b2 * m + b1)
  BY DEF Wide
<1> HIDE DEF m, low, high, out, n
<1>7. n = (high * m + low) - out * (m * m) /\ n \in Int
  BY <1>1, <1>2, <1>3, <1>5, <1>6, SMT
<1>8. n = Wide(low, high) - out * (Modulus * Modulus)
  BY <1>7 DEF Wide, m
<1>9. WideWord(n) = Wide(low, high) /\ (n < 0 <=> out = 1)
  BY <1>1, <1>4, <1>7, <1>8, WideTurn
<1>10. Borrow(a2, b2, c) <=> Wide(a1, a2) < Wide(b1, b2)
  <2>1. n < 0 <=> a2 * m + a1 < b2 * m + b1
    <3> DEFINE p == a2 * m
               q == b2 * m
    <3>1. p \in Int /\ q \in Int /\ n = (p + a1) - (q + b1)
      BY <1>1, <1>6, SMT
    <3> HIDE DEF p, q
    <3>2. n < 0 <=> p + a1 < q + b1
      BY <1>1, <3>1, SMT
    <3> QED
      BY <3>2 DEF p, q
  <2> QED
    BY <1>9, <2>1 DEF out, Wide, m
<1> DEFINE x == Signed(a2)
           y == Signed(b2)
<1>11. x \in Int /\ y \in Int
  BY <1>1, AluAssumption, SMT DEF Signed, m, Modulus
<1>12. WideSigned(Wide(a1, a2)) = x * m + a1 /\ WideSigned(Wide(b1, b2)) = y * m + b1
  BY WideSignedHigh DEF m
<1> HIDE DEF x, y
<1>13. (x * m + a1) - (y * m + b1) = (x - y - c) * m + low
  BY <1>1, <1>2, <1>11, SMT
<1>14. WideOverflows((x - y - c) * m + low) <=> Overflows(x - y - c)
  <2>1. x - y - c \in Int
    BY <1>1, <1>11, SMT
  <2> QED
    BY <1>4, <2>1, WideOverflowsHigh DEF m
<1>15. WideOverflows(WideSigned(Wide(a1, a2)) - WideSigned(Wide(b1, b2))) <=> Overflows(x - y - c)
  BY <1>12, <1>13, <1>14
<1> QED
  BY <1>9, <1>10, <1>15 DEF low, high, n, x, y

(* SHL by one and SASF with condition L double a number of two words.        *)
LEMMA TwoWordsDouble ==
  ASSUME NEW a1 \in Words, NEW a2 \in Words, NEW c, c = IF LastLeft(a1, 1) THEN 1 ELSE 0
  PROVE  Wide(ShiftLeft(a1, 1), Word(2 * a2 + c)) = WideWord(2 * Wide(a1, a2))
<1> DEFINE m    == Modulus
           low  == Word(a1 * 2 ^ 1)
           high == Word(2 * a2 + c)
           n    == 2 * Wide(a1, a2)
           out  == IF 2 * a2 + c >= m THEN 1 ELSE 0
<1>1. /\ a1 \in 0 .. m - 1 /\ a2 \in 0 .. m - 1
      /\ m \in Nat \ {0} /\ c \in {0, 1} /\ out \in {0, 1}
  BY Sizes, SMT DEF Words
<1>2. c = IF a1 < SignBit THEN 0 ELSE 1
  <2>1. SignBit = 2 ^ (Width - 1) /\ SignBit \in Nat \ {0} /\ m = 2 * SignBit
    BY CoreAssumption, AluAssumption, SMT DEF Modulus
  <2>2. a1 < SignBit => a1 \div SignBit = 0
    <3>1. a1 < SignBit => a1 \in 0 .. SignBit - 1 /\ a1 = 0 * SignBit + a1
      BY <1>1, <2>1, SMT
    <3> QED
      BY <3>1, <1>1, <2>1, Remainder, SMT
  <2>3. ~ (a1 < SignBit) => a1 \div SignBit = 1
    <3> DEFINE w == a1 - SignBit
    <3>1. ~ (a1 < SignBit) => w \in 0 .. SignBit - 1 /\ a1 = 1 * SignBit + w
      BY <1>1, <2>1, SMT
    <3>2. a1 \in Int /\ 1 \in Int
      BY <1>1, SMT
    <3> HIDE DEF w
    <3>3. SignBit \in Nat \ {0}
      BY <2>1
    <3>4. ASSUME w \in 0 .. SignBit - 1, a1 = 1 * SignBit + w PROVE a1 \div SignBit = 1
      BY <3>2, <3>3, <3>4, Remainder
    <3> QED
      BY <3>1, <3>4
  <2>4. LastLeft(a1, 1) <=> (a1 \div SignBit) % 2 = 1
    BY <2>1, SMT DEF LastLeft, Bit
  <2> QED
    BY <2>2, <2>3, <2>4, SMT
<1>3. low = 2 * a1 - c * m
  <2>1. a1 * 2 ^ 1 = 2 * a1 /\ 2 * a1 \in Int /\ m = 2 * SignBit /\ SignBit \in Nat
    BY <1>1, AluAssumption, SMT DEF Modulus
  <2>2. CASE a1 < SignBit
    <3>1. 2 * a1 \in 0 .. Modulus - 1 /\ c = 0
      BY <1>1, <1>2, <2>1, <2>2, SMT
    <3>2. Word(2 * a1) = 2 * a1
      BY <2>1, <3>1, TurnOfWord
    <3> QED
      BY <1>1, <2>1, <3>1, <3>2, SMT
  <2>3. CASE ~ (a1 < SignBit)
    <3>1. 2 * a1 \in Modulus .. 2 * Modulus - 1 /\ c = 1
      BY <1>1, <1>2, <2>1, <2>3, SMT
    <3>2. Word(2 * a1) = 2 * a1 - Modulus
      BY <2>1, <3>1, TurnOfWord
    <3> QED
      BY <1>1, <2>1, <3>1, <3>2, SMT
  <2> QED
    BY <2>2, <2>3
<1>4. high = 2 * a2 + c - out * m
  <2>1. 2 * a2 + c \in Int /\ 2 * a2 + c \in 0 .. 2 * Modulus - 1
    BY <1>1, SMT
  <2> DEFINE s == 2 * a2 + c
  <2> HIDE DEF s
  <2>2. /\ s \in 0 .. Modulus - 1 => Word(s) = s
        /\ s \in Modulus .. 2 * Modulus - 1 => Word(s) = s - Modulus
    BY <2>1, TurnOfWord DEF s
  <2>3. Word(s) = s - out * m
    BY <1>1, <2>1, <2>2, SMT DEF s
  <2> QED
    BY <1>1, <2>3, SMT DEF s
<1>5. low \in Words /\ high \in Words
  <2>1. a1 * 2 ^ 1 \in Int /\ 2 * a2 + c \in Int
    BY <1>1, SMT
  <2> QED
    BY <2>1, WordIsWord
<1>6. low \in Int /\ high \in Int
  BY <1>5, SMT DEF Words
<1>7. n = 2 * (a2 * m + a1)
  BY DEF Wide
<1> HIDE DEF m, low, high, out, n
<1>8. n = high * m + low + out * (m * m) /\ n \in Int
  BY <1>1, <1>3, <1>4, <1>6, <1>7, SMT
<1>9. n = Wide(low, high) + out * (Modulus * Modulus)
  BY <1>8 DEF Wide, m
<1>10. WideWord(n) = Wide(low, high)
  BY <1>1, <1>5, <1>8, <1>9, WideTurn
<1> QED
  BY <1>10 DEF low, high, n, ShiftLeft

(* The words of the pair that MACU writes are those of the whole number.     *)
LEMMA PairOfWords ==
  ASSUME NEW n \in Nat
  PROVE  Wide(Word(n), Word(n \div Modulus)) = WideWord(n)
<1> DEFINE m == Modulus
           q == n \div m
           l == n % m
           p == q \div m
           h == q % m
           t == m * m
           w == h * m + l
<1>1. m \in Nat \ {0}
  BY Sizes
<1> HIDE DEF m
<1>2. q \in Int /\ l \in 0 .. m - 1 /\ n = m * q + l
  BY <1>1, SMT
<1> HIDE DEF q, l
<1>3. p \in Int /\ h \in 0 .. m - 1 /\ q = m * p + h
  BY <1>1, <1>2, SMT
<1> HIDE DEF p, h
<1>4. t \in Nat \ {0} /\ w \in Int /\ w >= 0 /\ n = p * t + w
  BY <1>1, <1>2, <1>3, SMT
<1>5. w < t
  <2>1. l \in Words /\ h \in Int /\ Modulus \in Int /\ h < Modulus
    BY <1>1, <1>2, <1>3, SMT DEF m, Words
  <2>2. h * Modulus + l < Modulus * Modulus
    BY <2>1, HighDecides
  <2> QED
    BY <2>2 DEF w, t, m
<1> HIDE DEF t, w
<1>6. n % t = w
  <2>1. w \in 0 .. t - 1
    BY <1>4, <1>5, SMT
  <2> QED
    BY <1>3, <1>4, <2>1, Remainder
<1> QED
  BY <1>6 DEF t, w, h, l, q, m, Wide, WideWord, Word

(* What the programs have computed when they end.                            *)
Addend == Wide(start.r[1], start.r[2])
Augend == Wide(start.r[3], start.r[4])

Added ==
  /\ Wide(r[3], r[4]) = WideWord(Augend + Addend)
  /\ "cy" \in psw <=> Augend + Addend # WideWord(Augend + Addend)
  /\ "ov" \in psw <=> WideOverflows(WideSigned(Augend) + WideSigned(Addend))
Subtracted ==
  /\ Wide(r[3], r[4]) = WideWord(Augend - Addend)
  /\ "cy" \in psw <=> Augend < Addend
  /\ "ov" \in psw <=> WideOverflows(WideSigned(Augend) - WideSigned(Addend))

(* What they have computed after the first instruction, that of the low word.*)
AddedLow ==
  /\ r = [start.r EXCEPT ![3] = Word(start.r[3] + start.r[1] + 0)]
  /\ "cy" \in psw <=> Carry(start.r[3], start.r[1], 0)
SubtractedLow ==
  /\ r = [start.r EXCEPT ![3] = Word(start.r[3] - start.r[1] - 0)]
  /\ "cy" \in psw <=> Borrow(start.r[3], start.r[1], 0)
DoubledLow ==
  /\ r = [start.r EXCEPT ![1] = ShiftLeft(start.r[1], 1)]
  /\ "cy" \in psw <=> LastLeft(start.r[1], 1)

WideSoFar ==
  /\ code = WideAdd => AtStart \/ (pc = 2 /\ AddedLow) \/ (pc = 6 /\ Added)
  /\ code = WideSub => AtStart \/ (pc = 2 /\ SubtractedLow) \/ (pc = 6 /\ Subtracted)
  /\ code = WideDouble =>
       \/ AtStart
       \/ pc = 2 /\ DoubledLow
       \/ pc = 6 /\ Wide(r[1], r[2]) = WideWord(2 * Addend)
  /\ code = WideMacu =>
       \/ AtStart
       \/ pc = 4 /\ Wide(r[4], r[5]) = WideWord(start.r[1] * start.r[2] + Wide(start.r[2], start.r[3]))

(* The instructions of the four programs.                                    *)
LEMMA WideCode ==
  /\ DOMAIN WideAdd = {0, 2} /\ DOMAIN WideSub = {0, 2}
  /\ WideAdd[0] = On("add_1", 1, 3) /\ WideAdd[2] = If(On3("adf", 2, 4, 4), "L")
  /\ WideSub[0] = On("sub", 1, 3) /\ WideSub[2] = If(On3("sbf", 2, 4, 4), "L")
  /\ DOMAIN WideDouble = {0, 2} /\ DOMAIN WideMacu = {0}
  /\ WideDouble[0] = WithImm("shl_2", 1, 1) /\ WideDouble[2] = If(WithImm("sasf", 0, 2), "L")
  /\ WideMacu[0] = [On3("macu", 1, 2, 2) EXCEPT !.reg4 = 4]
BY SMT DEF WideAdd, WideSub, WideDouble, WideMacu, :>, @@

(* The flags that the instructions leave, and the condition L of CY.         *)
LEMMA CarryFlags ==
  ASSUME NEW flags, NEW a, NEW b, NEW c
  PROVE  /\ "cy" \in Update(flags, SumFlags(a, b, c)) <=> Carry(a, b, c)
         /\ "ov" \in Update(flags, SumFlags(a, b, c)) <=> Overflows(Signed(a) + Signed(b) + c)
         /\ "cy" \in Update(flags, DifferenceFlags(a, b, c)) <=> Borrow(a, b, c)
         /\ "ov" \in Update(flags, DifferenceFlags(a, b, c)) <=> Overflows(Signed(a) - Signed(b) - c)
         /\ Conditions(flags)["L"] <=> "cy" \in flags
<1>1. /\ "cy" \in Update(flags, SumFlags(a, b, c)) <=> Carry(a, b, c)
      /\ "ov" \in Update(flags, SumFlags(a, b, c)) <=> Overflows(Signed(a) + Signed(b) + c)
  BY Zenon DEF Update, SumFlags, Flags
<1>2. /\ "cy" \in Update(flags, DifferenceFlags(a, b, c)) <=> Borrow(a, b, c)
      /\ "ov" \in Update(flags, DifferenceFlags(a, b, c)) <=> Overflows(Signed(a) - Signed(b) - c)
  BY Zenon DEF Update, DifferenceFlags, Flags
<1>3. Conditions(flags)["L"] <=> "cy" \in flags
  BY Zenon DEF Conditions
<1> QED
  BY <1>1, <1>2, <1>3

(* ADD of the low words, and ADF of the high ones.                           *)
LEMMA AddsOn ==
  ASSUME code = WideAdd, Next, running, Started
  PROVE  /\ AtStart => pc' = 2 /\ AddedLow'
         /\ pc = 2 /\ AddedLow => pc' = 6 /\ Added'
<1>1. Word(0 + 2) = 2 /\ Word(2 + 4) = 6 /\ {0, 1, 2, 3, 4} \subseteq Regs
  BY SmallWords, NamedRegs, SMT
<1>2. start' = start
  BY StepKeeps, Zenon DEF Same
<1> DEFINE s == start.r
<1>3. s \in [Regs -> Words] /\ s[0] = 0 /\ start.r' = s
  BY <1>2 DEF Started
<1>4. ASSUME AtStart PROVE pc' = 2 /\ AddedLow'
  <2>1. pc = 0 /\ pc \in DOMAIN code /\ ins = On("add_1", 1, 3) /\ r = s
    BY <1>4, WideCode, SMT DEF AtStart, ins
  <2>2. ins.op = "add_1" /\ ins.reg1 = 1 /\ ins.reg2 = 3
    BY <2>1, Fields
  <2> DEFINE w == Word(s[3] + s[1] + 0)
             changes == SumFlags(s[3], s[1], 0)
  <2>3. Result(3, w, changes, 2)
    BY <2>1, <2>2, Dispatch, Zenon DEF Add_1, Sum, R1, R2
  <2> HIDE DEF w, changes
  <2>4. /\ r' = [n \in Regs |-> IF n # 0 /\ n = 3 THEN w ELSE r[n]]
        /\ psw' = Update(psw, changes) /\ pc' = Word(0 + 2)
    <3>1. 3 \in Regs /\ r \in [Regs -> Words] /\ r[0] = 0
      BY <1>1, <1>3, <2>1, SMT
    <3> QED
      BY <2>1, <2>3, <3>1, ResultWrites, Zenon
  <2>5. r' = [s EXCEPT ![3] = w]
    BY <1>1, <1>3, <2>1, <2>4, SMT
  <2>6. "cy" \in psw' <=> Carry(s[3], s[1], 0)
    BY <2>4, CarryFlags DEF changes
  <2> QED
    BY <1>1, <1>2, <2>4, <2>5, <2>6, Zenon DEF AddedLow, w
<1>5. ASSUME pc = 2, AddedLow PROVE pc' = 6 /\ Added'
  <2> DEFINE c   == IF Carry(s[3], s[1], 0) THEN 1 ELSE 0
             low == Word(s[3] + s[1] + 0)
             w   == Word(s[4] + s[2] + c)
             changes == SumFlags(s[4], s[2], c)
  <2>1. pc \in DOMAIN code /\ ins = If(On3("adf", 2, 4, 4), "L")
    BY <1>5, WideCode, SMT DEF ins
  <2>2. ins.op = "adf" /\ ins.reg1 = 2 /\ ins.reg2 = 4 /\ ins.reg3 = 4 /\ ins.cond = "L"
    BY <2>1, SMT DEF If, On3, Ins
  <2>3. CondBit = c
    BY <1>5, <2>2, CarryFlags, Zenon DEF CondBit, CondHolds, AddedLow
  <2>4. /\ s[1] \in Words /\ s[2] \in Words /\ s[3] \in Words /\ s[4] \in Words
        /\ s[3] + s[1] + 0 \in Int
    BY <1>1, <1>3, Sizes, SMT DEF Words
  <2>5. low \in Words
    BY <2>4, WordIsWord
  <2> HIDE DEF c, low
  <2>6. r \in [Regs -> Words] /\ r[0] = 0 /\ r[2] = s[2] /\ r[3] = low /\ r[4] = s[4]
    BY <1>1, <1>3, <1>5, <2>5, SMT DEF AddedLow, low
  <2>7. Result(4, w, changes, 4)
    BY <1>5, <2>1, <2>2, <2>3, <2>6, Dispatch, Zenon DEF Adf, Sum, R1, R2
  <2> HIDE DEF w, changes
  <2>8. /\ r' = [n \in Regs |-> IF n # 0 /\ n = 4 THEN w ELSE r[n]]
        /\ psw' = Update(psw, changes) /\ pc' = Word(2 + 4)
    BY <1>1, <1>5, <2>6, <2>7, ResultWrites, Zenon
  <2>9. r'[3] = low /\ r'[4] = w
    BY <1>1, <2>6, <2>8, SMT
  <2>10. /\ "cy" \in psw' <=> Carry(s[4], s[2], c)
         /\ "ov" \in psw' <=> Overflows(Signed(s[4]) + Signed(s[2]) + c)
    BY <2>8, CarryFlags DEF changes
  <2>11. /\ Wide(low, w) = WideWord(Augend + Addend)
         /\ Carry(s[4], s[2], c) <=> Augend + Addend # WideWord(Augend + Addend)
         /\ Overflows(Signed(s[4]) + Signed(s[2]) + c) <=> WideOverflows(WideSigned(Augend) + WideSigned(Addend))
    BY <2>4, TwoWordsAdd DEF c, low, w, Augend, Addend
  <2>12. Augend' = Augend /\ Addend' = Addend
    BY <1>2 DEF Augend, Addend
  <2> QED
    BY <1>1, <2>8, <2>9, <2>10, <2>11, <2>12 DEF Added
<1> QED
  BY <1>4, <1>5

(* SUB of the low words, and SBF of the high ones.                           *)
LEMMA SubtractsOn ==
  ASSUME code = WideSub, Next, running, Started
  PROVE  /\ AtStart => pc' = 2 /\ SubtractedLow'
         /\ pc = 2 /\ SubtractedLow => pc' = 6 /\ Subtracted'
<1>1. Word(0 + 2) = 2 /\ Word(2 + 4) = 6 /\ {0, 1, 2, 3, 4} \subseteq Regs
  BY SmallWords, NamedRegs, SMT
<1>2. start' = start
  BY StepKeeps, Zenon DEF Same
<1> DEFINE s == start.r
<1>3. s \in [Regs -> Words] /\ s[0] = 0 /\ start.r' = s
  BY <1>2 DEF Started
<1>4. ASSUME AtStart PROVE pc' = 2 /\ SubtractedLow'
  <2>1. pc = 0 /\ pc \in DOMAIN code /\ ins = On("sub", 1, 3) /\ r = s
    BY <1>4, WideCode, SMT DEF AtStart, ins
  <2>2. ins.op = "sub" /\ ins.reg1 = 1 /\ ins.reg2 = 3
    BY <2>1, Fields
  <2> DEFINE w == Word(s[3] - s[1] - 0)
             changes == DifferenceFlags(s[3], s[1], 0)
  <2>3. Result(3, w, changes, 2)
    BY <2>1, <2>2, Dispatch, Zenon DEF Sub, Difference, R1, R2
  <2> HIDE DEF w, changes
  <2>4. /\ r' = [n \in Regs |-> IF n # 0 /\ n = 3 THEN w ELSE r[n]]
        /\ psw' = Update(psw, changes) /\ pc' = Word(0 + 2)
    <3>1. 3 \in Regs /\ r \in [Regs -> Words] /\ r[0] = 0
      BY <1>1, <1>3, <2>1, SMT
    <3> QED
      BY <2>1, <2>3, <3>1, ResultWrites, Zenon
  <2>5. r' = [s EXCEPT ![3] = w]
    BY <1>1, <1>3, <2>1, <2>4, SMT
  <2>6. "cy" \in psw' <=> Borrow(s[3], s[1], 0)
    BY <2>4, CarryFlags DEF changes
  <2> QED
    BY <1>1, <1>2, <2>4, <2>5, <2>6, Zenon DEF SubtractedLow, w
<1>5. ASSUME pc = 2, SubtractedLow PROVE pc' = 6 /\ Subtracted'
  <2> DEFINE c   == IF Borrow(s[3], s[1], 0) THEN 1 ELSE 0
             low == Word(s[3] - s[1] - 0)
             w   == Word(s[4] - s[2] - c)
             changes == DifferenceFlags(s[4], s[2], c)
  <2>1. pc \in DOMAIN code /\ ins = If(On3("sbf", 2, 4, 4), "L")
    BY <1>5, WideCode, SMT DEF ins
  <2>2. ins.op = "sbf" /\ ins.reg1 = 2 /\ ins.reg2 = 4 /\ ins.reg3 = 4 /\ ins.cond = "L"
    BY <2>1, SMT DEF If, On3, Ins
  <2>3. CondBit = c
    BY <1>5, <2>2, CarryFlags, Zenon DEF CondBit, CondHolds, SubtractedLow
  <2>4. /\ s[1] \in Words /\ s[2] \in Words /\ s[3] \in Words /\ s[4] \in Words
        /\ s[3] - s[1] - 0 \in Int
    BY <1>1, <1>3, Sizes, SMT DEF Words
  <2>5. low \in Words
    BY <2>4, WordIsWord
  <2> HIDE DEF c, low
  <2>6. r \in [Regs -> Words] /\ r[0] = 0 /\ r[2] = s[2] /\ r[3] = low /\ r[4] = s[4]
    BY <1>1, <1>3, <1>5, <2>5, SMT DEF SubtractedLow, low
  <2>7. Result(4, w, changes, 4)
    BY <1>5, <2>1, <2>2, <2>3, <2>6, Dispatch, Zenon DEF Sbf, Difference, R1, R2
  <2> HIDE DEF w, changes
  <2>8. /\ r' = [n \in Regs |-> IF n # 0 /\ n = 4 THEN w ELSE r[n]]
        /\ psw' = Update(psw, changes) /\ pc' = Word(2 + 4)
    BY <1>1, <1>5, <2>6, <2>7, ResultWrites, Zenon
  <2>9. r'[3] = low /\ r'[4] = w
    BY <1>1, <2>6, <2>8, SMT
  <2>10. /\ "cy" \in psw' <=> Borrow(s[4], s[2], c)
         /\ "ov" \in psw' <=> Overflows(Signed(s[4]) - Signed(s[2]) - c)
    BY <2>8, CarryFlags DEF changes
  <2>11. /\ Wide(low, w) = WideWord(Augend - Addend)
         /\ Borrow(s[4], s[2], c) <=> Augend < Addend
         /\ Overflows(Signed(s[4]) - Signed(s[2]) - c) <=> WideOverflows(WideSigned(Augend) - WideSigned(Addend))
    BY <2>4, TwoWordsSub DEF c, low, w, Augend, Addend
  <2>12. Augend' = Augend /\ Addend' = Addend
    BY <1>2 DEF Augend, Addend
  <2> QED
    BY <1>1, <2>8, <2>9, <2>10, <2>11, <2>12 DEF Subtracted
<1> QED
  BY <1>4, <1>5

(* SHL of the low word, and SASF of the high one.                            *)
LEMMA DoublesOn ==
  ASSUME code = WideDouble, Next, running, Started
  PROVE  /\ AtStart => pc' = 2 /\ DoubledLow'
         /\ pc = 2 /\ DoubledLow => pc' = 6 /\ (Wide(r[1], r[2]) = WideWord(2 * Addend))'
<1>1. Word(0 + 2) = 2 /\ Word(2 + 4) = 6 /\ {0, 1, 2} \subseteq Regs
  BY SmallWords, NamedRegs, SMT
<1>2. start' = start
  BY StepKeeps, Zenon DEF Same
<1> DEFINE s == start.r
<1>3. s \in [Regs -> Words] /\ s[0] = 0 /\ start.r' = s
  BY <1>2 DEF Started
<1>4. ASSUME AtStart PROVE pc' = 2 /\ DoubledLow'
  <2>1. pc = 0 /\ pc \in DOMAIN code /\ ins = WithImm("shl_2", 1, 1) /\ r = s
    BY <1>4, WideCode, SMT DEF AtStart, ins
  <2>2. ins.op = "shl_2" /\ ins.imm = 1 /\ ins.reg2 = 1
    BY <2>1, Fields
  <2>3. ByImm = 1
    <3>1. Width \in Nat \ {0} /\ 1 \in 0 .. Width - 1
      BY CoreAssumption, SMT
    <3>2. 1 % Width = 1
      BY <3>1, Turn
    <3> QED
      BY <2>2, <3>2 DEF ByImm
  <2> DEFINE w == ShiftLeft(s[1], 1)
             changes == [cy |-> LastLeft(s[1], 1), ov |-> FALSE, z |-> Zero(w), s |-> Negative(w)]
  <2>4. Result(1, w, changes, 2)
    BY <2>1, <2>2, <2>3, Dispatch, Zenon DEF Shl_2, Shift, R2
  <2>5. "cy" \in Update(psw, changes) <=> LastLeft(s[1], 1)
    BY Zenon DEF Update, Flags
  <2> HIDE DEF w, changes
  <2>6. 1 \in Regs /\ r \in [Regs -> Words] /\ r[0] = 0
    BY <1>1, <1>3, <2>1, SMT
  <2>7. /\ r' = [n \in Regs |-> IF n # 0 /\ n = 1 THEN w ELSE r[n]]
        /\ psw' = Update(psw, changes) /\ pc' = Word(0 + 2)
    BY <2>1, <2>4, <2>6, ResultWrites, Zenon
  <2>8. r' = [s EXCEPT ![1] = w]
    BY <1>1, <1>3, <2>1, <2>7, SMT
  <2> QED
    BY <1>1, <1>2, <2>5, <2>7, <2>8, Zenon DEF DoubledLow, w
<1>5. ASSUME pc = 2, DoubledLow PROVE pc' = 6 /\ (Wide(r[1], r[2]) = WideWord(2 * Addend))'
  <2> DEFINE c   == IF LastLeft(s[1], 1) THEN 1 ELSE 0
             low == ShiftLeft(s[1], 1)
             w   == Word(2 * s[2] + c)
  <2>1. pc \in DOMAIN code /\ ins = If(WithImm("sasf", 0, 2), "L")
    BY <1>5, WideCode, SMT DEF ins
  <2>2. ins.op = "sasf" /\ ins.reg2 = 2 /\ ins.cond = "L"
    BY <2>1, SMT DEF If, WithImm, Ins
  <2>3. CondBit = c
    BY <1>5, <2>2, CarryFlags, Zenon DEF CondBit, CondHolds, DoubledLow
  <2>4. s[1] \in Words /\ s[2] \in Words
    BY <1>1, <1>3, SMT
  <2>5. low \in Words
    <3>1. s[1] * 2 ^ 1 \in Int
      BY <2>4, Sizes, SMT DEF Words
    <3> QED
      BY <3>1, WordIsWord DEF ShiftLeft
  <2> HIDE DEF c, low
  <2>6. r \in [Regs -> Words] /\ r[0] = 0 /\ r[1] = low /\ r[2] = s[2]
    BY <1>1, <1>3, <1>5, <2>5, SMT DEF DoubledLow, low
  <2>7. Result(2, w, <<>>, 4)
    BY <1>5, <2>1, <2>2, <2>3, <2>6, Dispatch, Zenon DEF Sasf, Move, R2
  <2> HIDE DEF w
  <2>8. r' = [n \in Regs |-> IF n # 0 /\ n = 2 THEN w ELSE r[n]] /\ pc' = Word(2 + 4)
    BY <1>1, <1>5, <2>6, <2>7, ResultWrites, Zenon
  <2>9. r'[1] = low /\ r'[2] = w
    BY <1>1, <2>6, <2>8, SMT
  <2>10. Wide(low, w) = WideWord(2 * Addend)
    BY <2>4, TwoWordsDouble DEF c, low, w, Addend
  <2>11. Addend' = Addend
    BY <1>2 DEF Addend
  <2> QED
    BY <1>1, <2>8, <2>9, <2>10, <2>11
<1> QED
  BY <1>4, <1>5

(* MACU writes both words at once.                                           *)
LEMMA MacuOn ==
  ASSUME code = WideMacu, Next, running, Started, AtStart
  PROVE  pc' = 4 /\ Wide(r'[4], r'[5]) = WideWord(start.r[1] * start.r[2] + Wide(start.r[2], start.r[3]))
<1> DEFINE s == start.r
           n == s[1] * s[2] + s[3] * Modulus + s[2]
<1>1. Word(0 + 4) = 4 /\ {1, 2, 3, 4, 5} \subseteq Regs
  BY SmallWords, NamedRegs, SMT
<1>2. pc = 0 /\ pc \in DOMAIN code /\ ins = [On3("macu", 1, 2, 2) EXCEPT !.reg4 = 4] /\ r = s
  BY WideCode, SMT DEF AtStart, ins
<1>3. ins.op = "macu" /\ ins.reg1 = 1 /\ ins.reg2 = 2 /\ ins.reg3 = 2 /\ ins.reg4 = 4
  BY <1>2, SMT DEF On3, Ins
<1>4. 2 % 2 = 0 /\ 2 + 1 = 3 /\ 4 + 1 = 5
  BY SMT
<1>5. Macu
  BY <1>2, <1>3, <1>4, Dispatch, Zenon DEF OddPair
<1>6. Pair(4, 5, n)
  BY <1>2, <1>3, <1>4, <1>5, Zenon DEF Macu, R1, R2, R3
<1> HIDE DEF n
<1>7. /\ r' = [[[r EXCEPT ![4] = Word(n)] EXCEPT ![5] = Word(n \div Modulus)] EXCEPT ![0] = 0]
      /\ pc' = Word(0 + 4)
  BY <1>2, <1>6, Zenon DEF Pair, Advance, Goto, MovesTo, Proceed
<1>8. r'[4] = Word(n) /\ r'[5] = Word(n \div Modulus)
  BY <1>1, <1>2, <1>7, SMT DEF Started
<1>9. n \in Nat
  <2>1. s[1] \in Nat /\ s[2] \in Nat /\ s[3] \in Nat /\ Modulus \in Nat
    BY <1>1, Sizes, SMT DEF Started, Words
  <2> QED
    BY <2>1, SMT DEF n
<1>10. Wide(r'[4], r'[5]) = WideWord(n)
  BY <1>8, <1>9, PairOfWords
<1>11. n = s[1] * s[2] + (s[3] * Modulus + s[2])
  <2>1. s[1] \in Int /\ s[2] \in Int /\ s[3] \in Int /\ Modulus \in Int
    BY <1>1, Sizes, SMT DEF Started, Words
  <2> QED
    BY <2>1, SMT DEF n
<1> QED
  BY <1>1, <1>7, <1>10, <1>11 DEF Wide

(* A step takes each of the four programs one instruction further.           *)
LEMMA WideOn == ASSUME Started, WideSoFar, [Next]_vars PROVE WideSoFar'
<1>1. code' = code /\ start' = start
  BY StepKeeps, Zenon DEF vars, Same
<1>2. CASE UNCHANGED vars
  BY <1>2, Zenon DEF vars, WideSoFar, AtStart, AddedLow, SubtractedLow, DoubledLow, Added, Subtracted, Addend, Augend
<1>3. CASE Next /\ ~ (running /\ pc \in DOMAIN code)
  BY <1>2, <1>3, EndedStays
<1>4. CASE Next /\ running /\ pc \in DOMAIN code
  <2>1. ASSUME code = WideAdd PROVE (pc' = 2 /\ AddedLow') \/ (pc' = 6 /\ Added')
    <3>1. AtStart \/ (pc = 2 /\ AddedLow)
      BY <1>4, <2>1, WideCode, SMT DEF WideSoFar
    <3> QED
      BY <1>4, <2>1, <3>1, AddsOn
  <2>2. ASSUME code = WideSub PROVE (pc' = 2 /\ SubtractedLow') \/ (pc' = 6 /\ Subtracted')
    <3>1. AtStart \/ (pc = 2 /\ SubtractedLow)
      BY <1>4, <2>2, WideCode, SMT DEF WideSoFar
    <3> QED
      BY <1>4, <2>2, <3>1, SubtractsOn
  <2>3. ASSUME code = WideDouble
        PROVE (pc' = 2 /\ DoubledLow') \/ (pc' = 6 /\ (Wide(r[1], r[2]) = WideWord(2 * Addend))')
    <3>1. AtStart \/ (pc = 2 /\ DoubledLow)
      BY <1>4, <2>3, WideCode, SMT DEF WideSoFar
    <3> QED
      BY <1>4, <2>3, <3>1, DoublesOn
  <2>4. ASSUME code = WideMacu
        PROVE  pc' = 4 /\ (Wide(r[4], r[5]) = WideWord(start.r[1] * start.r[2] + Wide(start.r[2], start.r[3])))'
    <3>1. AtStart
      BY <1>4, <2>4, WideCode, SMT DEF WideSoFar
    <3> QED
      BY <1>1, <1>4, <2>4, <3>1, MacuOn
  <2> QED
    BY <1>1, <2>1, <2>2, <2>3, <2>4, Zenon DEF WideSoFar
<1> QED
  BY <1>2, <1>3, <1>4

(* The carry and the borrow that one word leaves are what ADF, SBF and SASF  *)
(* need to continue with the next: sums, differences and doubles of two      *)
(* words, with the flags of the whole, and the sums of MACU, are exact, for  *)
(* words of every size.                                                      *)
THEOREM WideIsExact == Spec => []WideArithmetic
<1> DEFINE IInv == Started /\ WideSoFar
<1>1. Init => IInv
  BY StartsAtZero, Zenon DEF WideSoFar
<1>2. IInv /\ [Next]_vars => IInv'
  BY StartedStays, WideOn
<1>3. IInv => WideArithmetic
  <2> SUFFICES ASSUME WideSoFar PROVE WideArithmetic
    OBVIOUS
  <2>1. /\ Ran(WideAdd) => Added
        /\ Ran(WideSub) => Subtracted
        /\ Ran(WideDouble) => Wide(r[1], r[2]) = WideWord(2 * Addend)
        /\ Ran(WideMacu) =>
             Wide(r[4], r[5]) = WideWord(start.r[1] * start.r[2] + Wide(start.r[2], start.r[3]))
    BY WideCode, SMT DEF Ran, WideSoFar, AtStart
  <2> QED
    BY <2>1, Zenon DEF WideArithmetic, Added, Subtracted, Addend, Augend
<1> QED
  BY <1>1, <1>2, <1>3, PTL DEF Spec

----------------------------------------------------------------------------
(* Divisions.                                                                *)

(* What fits a signed word is what its word stands for.                      *)
LEMMA SignedOfWord ==
  ASSUME NEW n \in - SignBit .. SignBit - 1
  PROVE  Signed(Word(n)) = n
<1>1. SignBit \in Nat \ {0} /\ Modulus = 2 * SignBit /\ n \in Int
  BY AluAssumption, SMT DEF Modulus
<1>2. CASE n >= 0
  <2>1. n \in 0 .. Modulus - 1
    BY <1>1, <1>2, SMT
  <2> QED
    BY <1>1, <1>2, <2>1, TurnOfWord, SMT DEF Signed
<1>3. CASE n < 0
  <2>1. n \in - Modulus .. -1
    BY <1>1, <1>3, SMT
  <2> QED
    BY <1>1, <1>3, <2>1, TurnOfWord, SMT DEF Signed
<1> QED
  BY <1>1, <1>2, <1>3, SMT

(* A signed word is within its bounds, and at the lower one only for 2^31.   *)
LEMMA SignedRange ==
  ASSUME NEW w \in Words
  PROVE  Signed(w) \in - SignBit .. SignBit - 1 /\ (Signed(w) = - SignBit <=> w = SignBit)
BY AluAssumption, SMT DEF Words, Signed, Modulus

(* The low half of a word, as either integer, of which zero has none.        *)
LEMMA HalfRange ==
  ASSUME NEW w \in Words
  PROVE  /\ Low(Half, w) \in Nat /\ Extend(Half, w) \in Int
         /\ w = 0 => Low(Half, w) = 0 /\ Extend(Half, w) = 0
<1>1. Width \in Nat \ {0} /\ Width % 4 = 0
  BY CoreAssumption, SMT
<1>2. Half \in 0 .. Width /\ Half - 1 \in 0 .. Width
  <2>1. Width >= 2
    BY <1>1, SMT
  <2> QED
    BY <1>1, <2>1, SMT DEF Half
<1> DEFINE all  == 2 ^ Half
           half == 2 ^ (Half - 1)
<1>3. all \in Nat \ {0} /\ half \in Nat \ {0}
  BY <1>1, <1>2, WordPowers, SMT
<1> HIDE DEF all, half
<1>4. w \in Int
  BY Sizes
<1>5. w % all \in Nat
  BY <1>3, <1>4, SMT
<1>6. 0 \in 0 .. all - 1
  BY <1>3, SMT
<1>7. 0 % all = 0
  BY <1>3, <1>6, Turn
<1>8. Extend(Half, w) = IF w % all < half THEN w % all ELSE (w % all) - all
  BY DEF Extend, Low, all, half
<1> QED
  BY <1>3, <1>5, <1>7, <1>8, SMT DEF Low, all

(* What a division has done when it comes to its end.                        *)
Divided(op) ==
  LET n == Value(op, start.r[2])
      d == Divisor(op)
      q == Value(op, r[2])
  IN /\ start.r[1] = 0 => r = start.r /\ "ov" \in psw
     /\ TooLarge(op) => ("ov" \in psw <=> op \in WholeDivisor)
     /\ d # 0 /\ ~ TooLarge(op) =>
          /\ "ov" \notin psw
          /\ Euclidean(n, d, q)
          /\ op # "divh_1" => r[3] = Word(n - q * d)
          /\ "s" \in psw <=> Signed(r[2]) < 0

DividesSoFar(op) ==
  code = 0 :> Ins(op) =>
    \/ AtStart /\ (~ running => Divisor(op) = 0 \/ TooLarge(op))
    \/ pc \in {2, 4} /\ running /\ Divided(op)

(* The registers and flags that a quotient and its remainder leave.          *)
LEMMA DivideWrites ==
  ASSUME NEW n \in Int, NEW d \in Int, NEW ov \in BOOLEAN, NEW rests \in {{}, {3}}, NEW size,
         Divide(n, d, ov, rests, size), ins.reg2 = 2
  PROVE  /\ r'[2] = Word(Quotient(n, d))
         /\ 3 \in rests => r'[3] = Word(n - d * Quotient(n, d))
         /\ "ov" \in psw' <=> ov
         /\ "s" \in psw' <=> Negative(r'[2])
         /\ pc' = Word(pc + size) /\ running' = running
<1> DEFINE quotient == Word(Quotient(n, d))
           rest     == Word(n - d * Quotient(n, d))
<1>1. 2 \notin rests /\ {2, 3} \subseteq Regs
  BY NamedRegs, SMT
<1>2. /\ r' = [k \in Regs |-> IF k = 0 THEN 0
                              ELSE IF k \in rests THEN rest
                              ELSE IF k = 2 THEN quotient ELSE r[k]]
      /\ psw' = Update(psw, [ov |-> ov, z |-> Zero(quotient), s |-> Negative(quotient)])
      /\ Advance(size)
  BY <1>1, Zenon DEF Divide
<1> HIDE DEF quotient, rest
<1>3. r'[2] = quotient /\ (3 \in rests => r'[3] = rest)
  BY <1>1, <1>2, SMT
<1>4. /\ "ov" \in psw' <=> ov
      /\ "s" \in psw' <=> Negative(quotient)
  BY <1>2, Zenon DEF Update, Flags
<1> QED
  BY <1>2, <1>3, <1>4, Zenon DEF quotient, rest, Advance, Goto, MovesTo, Proceed

(* A division by the whole zero reports it.                                  *)
LEMMA ByZeroReports ==
  ASSUME NEW size, ByZero(size), ins.reg1 = 1, ins.reg2 = 2, Started, AtStart
  PROVE  /\ start.r[1] = 0 /\ r' = start.r /\ "ov" \in psw'
         /\ pc' = Word(pc + size) /\ running' = running
<1> DEFINE w == r[2]
           changes == [ov |-> TRUE, z |-> Zero(w), s |-> Negative(w)]
<1>1. r[1] = 0
  BY Zenon DEF ByZero, R1, R2
<1>2. Result(2, w, changes, size)
  BY Zenon DEF ByZero, R1, R2
<1>3. "ov" \in Update(psw, changes)
  BY Zenon DEF Update, Flags
<1> HIDE DEF w, changes
<1>4. 2 \in Regs /\ r \in [Regs -> Words] /\ r[0] = 0
  BY NamedRegs, SMT DEF Started, AtStart
<1>5. /\ r' = [k \in Regs |-> IF k # 0 /\ k = 2 THEN w ELSE r[k]]
      /\ psw' = Update(psw, changes) /\ pc' = Word(pc + size) /\ running' = running
  BY <1>2, <1>4, ResultWrites, Zenon
<1>6. r' = r
  BY <1>4, <1>5, SMT DEF w
<1> QED
  BY <1>1, <1>3, <1>5, <1>6 DEF AtStart

(* The signed divisions.                                                     *)
LEMMA SignedDivides ==
  ASSUME NEW op \in (WholeDivisor \cup HalfDivisor) \ Unsigned,
         NEW ov \in BOOLEAN, ov <=> op \in WholeDivisor /\ TooLarge(op),
         NEW size \in {2, 4},
         SignedDivide(Signed(start.r[2]), Divisor(op), ov, IF op = "divh_1" THEN {} ELSE {3}, size),
         ins.reg1 = 1, ins.reg2 = 2, Started, AtStart, running, start' = start
  PROVE  \/ AtStart' /\ (Divisor(op) = 0 \/ TooLarge(op))
         \/ pc' = size /\ running' /\ Divided(op)'
<1> DEFINE n == Signed(start.r[2])
           d == Divisor(op)
           rests == IF op = "divh_1" THEN {} ELSE {3}
           q == Quotient(n, d)
<1>1. start.r[1] \in Words /\ start.r[2] \in Words /\ r = start.r
  BY NamedRegs, SMT DEF Started, AtStart
<1>2. \A w : Value(op, w) = Signed(w)
  BY Zenon DEF Value
<1>3. d \in Int /\ (start.r[1] = 0 => d = 0)
  <2>1. d = Signed(start.r[1]) \/ d = Extend(Half, start.r[1])
    BY Zenon DEF Divisor, Value
  <2>2. Signed(start.r[1]) \in Int /\ (start.r[1] = 0 => Signed(start.r[1]) = 0)
    BY <1>1, AluAssumption, SMT DEF Signed, Words, Modulus
  <2> QED
    BY <1>1, <2>1, <2>2, HalfRange
<1>4. n \in - SignBit .. SignBit - 1 /\ (n = - SignBit <=> start.r[2] = SignBit) /\ SignBit \in Nat \ {0}
  BY <1>1, SignedRange, AluAssumption
<1>5. TooLarge(op) <=> n = - SignBit /\ d = -1
  BY <1>4, Zenon DEF TooLarge
<1>6. Divisor(op)' = Divisor(op) /\ TooLarge(op)' = TooLarge(op)
  BY Zenon DEF Divisor, TooLarge
<1>7. n \in Int /\ pc = 0 /\ Word(0 + size) = size
  <2>1. Word(0 + size) = size
    BY SmallWords, SMT
  <2> QED
    BY <1>4, <2>1, SMT DEF AtStart
<1> HIDE DEF n, d
<1>8. d # 0 => (Overflows(q) => TooLarge(op))
  <2> SUFFICES ASSUME d # 0, Overflows(q) PROVE TooLarge(op)
    OBVIOUS
  <2>1. /\ q \in Int /\ Abs(q) <= Abs(n)
        /\ q > 0 => (n < 0) = (d < 0)
        /\ q = Abs(n) /\ n # 0 => Abs(d) = 1
    BY <1>3, <1>7, QuotientRounds
  <2> HIDE DEF q
  <2>2. q = SignBit /\ n = - SignBit
    BY <1>4, <2>1, SMT DEF Overflows, Abs
  <2> QED
    BY <1>3, <1>4, <1>5, <2>1, <2>2, SMT DEF Abs
<1>9. CASE ByZero(size)
  <2>1. start.r[1] = 0 /\ r' = start.r /\ "ov" \in psw' /\ pc' = size /\ running' = running
    BY <1>7, <1>9, ByZeroReports
  <2>2. d = 0 /\ ~ TooLarge(op)
    BY <1>3, <1>5, <2>1, SMT
  <2>3. Divided(op)'
    BY <1>6, <2>1, <2>2, Zenon DEF Divided, d
  <2> QED
    BY <2>1, <2>3
<1>10. CASE HostTraps(n, d)
  <2>1. (d = 0 \/ Overflows(q)) /\ Stop
    BY <1>10 DEF HostTraps
  <2>2. AtStart'
    BY <2>1, Zenon DEF Stop, AtStart
  <2> QED
    BY <1>8, <2>1, <2>2 DEF d
<1>11. CASE Divide(n, d, ov, rests, size)
  <2>1. rests \in {{}, {3}} /\ (op # "divh_1" => 3 \in rests)
    BY SMT
  <2> HIDE DEF rests
  <2>2. start.r[1] # 0
    BY <1>1, <1>11, Zenon DEF Divide, R1
  <2>3. /\ r'[2] = Word(q)
        /\ 3 \in rests => r'[3] = Word(n - d * q)
        /\ "ov" \in psw' <=> ov
        /\ "s" \in psw' <=> Negative(r'[2])
        /\ pc' = Word(pc + size) /\ running' = running
    <3>1. n \in Int /\ d \in Int
      BY <1>3, <1>7
    <3>2. rests \in {{}, {3}}
      BY <2>1
    <3>3. r'[2] = Word(Quotient(n, d)) /\ (3 \in rests => r'[3] = Word(n - d * Quotient(n, d)))
      BY <1>11, <3>1, <3>2, DivideWrites, Zenon
    <3>4. "ov" \in psw' <=> ov
      BY <1>11, <3>1, <3>2, DivideWrites, Zenon
    <3>5. "s" \in psw' <=> Negative(r'[2])
      BY <1>11, <3>1, <3>2, DivideWrites, Zenon
    <3>6. pc' = Word(pc + size) /\ running' = running
      <4>1. Advance(size)
        BY <1>11, Zenon DEF Divide
      <4> QED
        BY <4>1, Zenon DEF Advance, Goto, MovesTo, Proceed
    <3> QED
      BY <3>3, <3>4, <3>5, <3>6 DEF q
  <2>4. ASSUME d # 0, ~ TooLarge(op)
        PROVE  /\ "ov" \notin psw'
               /\ Euclidean(n, d, Signed(r'[2]))
               /\ op # "divh_1" => r'[3] = Word(n - Signed(r'[2]) * d)
               /\ "s" \in psw' <=> Signed(r'[2]) < 0
    <3>1. q \in Int /\ Euclidean(n, d, q)
      BY <1>3, <1>7, <2>4, QuotientRounds
    <3>2. ~ Overflows(q)
      BY <1>8, <2>4
    <3> HIDE DEF q
    <3>3. Signed(r'[2]) = q
      <4>1. q \in - SignBit .. SignBit - 1
        BY <1>4, <3>1, <3>2, SMT DEF Overflows
      <4> QED
        BY <2>3, <4>1, SignedOfWord
    <3>4. d * q = q * d
      BY <1>3, <3>1, SMT
    <3>5. op # "divh_1" => r'[3] = Word(n - Signed(r'[2]) * d)
      BY <2>1, <2>3, <3>3, <3>4
    <3> QED
      BY <2>3, <2>4, <3>1, <3>3, <3>5 DEF Negative
  <2>5. TooLarge(op) => ("ov" \in psw' <=> op \in WholeDivisor)
    BY <2>3
  <2>6. Divided(op)'
    <3>1. start.r[1]' # 0 /\ Value(op, start.r[2])' = n /\ Divisor(op)' = d /\ Value(op, r[2])' = Signed(r'[2])
      BY <1>2, <1>6, <2>2, Zenon DEF n, d
    <3> QED
      BY <1>6, <2>4, <2>5, <3>1, Zenon DEF Divided
  <2> QED
    BY <1>7, <2>3, <2>6
<1> QED
  BY <1>9, <1>10, <1>11 DEF SignedDivide, n, d, rests

(* The unsigned divisions.                                                   *)
LEMMA UnsignedDivides ==
  ASSUME NEW op \in Unsigned, NEW d, d = Divisor(op),
         ByZero(4) \/ Divide(r[2], d, FALSE, {3}, 4) \/ (d = 0 /\ Stop),
         ins.reg1 = 1, ins.reg2 = 2, Started, AtStart, running, start' = start
  PROVE  \/ AtStart' /\ (Divisor(op) = 0 \/ TooLarge(op))
         \/ pc' = 4 /\ running' /\ Divided(op)'
<1> DEFINE n == start.r[2]
           q == Quotient(n, d)
<1>1. start.r[1] \in Words /\ n \in Words /\ r = start.r
  BY NamedRegs, SMT DEF Started, AtStart
<1>2. /\ \A w : Value(op, w) = w
      /\ ~ TooLarge(op) /\ op # "divh_1"
  BY SMT DEF Value, TooLarge, Unsigned
<1>3. d \in Nat /\ (start.r[1] = 0 => d = 0)
  <2>1. d = start.r[1] \/ d = Low(Half, start.r[1])
    BY <1>2, Zenon DEF Divisor
  <2> QED
    BY <1>1, <2>1, HalfRange, SMT DEF Words
<1>4. Divisor(op)' = d /\ TooLarge(op)' = TooLarge(op)
  BY Zenon DEF Divisor, TooLarge
<1>5. n \in Nat /\ n < Modulus /\ Modulus \in Nat /\ pc = 0 /\ Word(0 + 4) = 4
  <2>1. Word(0 + 4) = 4
    BY SmallWords, SMT
  <2> QED
    BY <1>1, <2>1, Sizes, SMT DEF AtStart, Words
<1> HIDE DEF n
<1>6. CASE ByZero(4)
  <2>1. start.r[1] = 0 /\ r' = start.r /\ "ov" \in psw' /\ pc' = 4 /\ running' = running
    BY <1>5, <1>6, ByZeroReports
  <2>2. d = 0
    BY <1>3, <2>1
  <2>3. Divided(op)'
    BY <1>2, <1>4, <2>1, <2>2, Zenon DEF Divided
  <2> QED
    BY <2>1, <2>3
<1>7. CASE d = 0 /\ Stop
  <2>1. AtStart'
    BY <1>7, Zenon DEF Stop, AtStart
  <2> QED
    BY <1>7, <2>1
<1>8. CASE Divide(r[2], d, FALSE, {3}, 4)
  <2>1. Divide(n, d, FALSE, {3}, 4) /\ start.r[1] # 0
    <3>1. R1 # 0
      BY <1>8, Zenon DEF Divide
    <3>2. r[1] = start.r[1] /\ r[2] = n
      BY <1>1 DEF n
    <3> QED
      BY <1>8, <3>1, <3>2, Zenon DEF R1
  <2>2. n \in Int /\ d \in Int /\ FALSE \in BOOLEAN /\ {3} \in {{}, {3}} /\ 3 \in {3}
    BY <1>3, <1>5, SMT
  <2>3. r'[2] = Word(q) /\ r'[3] = Word(n - d * q)
    <3>1. r'[2] = Word(Quotient(n, d)) /\ (3 \in {3} => r'[3] = Word(n - d * Quotient(n, d)))
      BY <2>1, <2>2, DivideWrites, Zenon
    <3> QED
      BY <2>2, <3>1 DEF q
  <2>4. "ov" \in psw' <=> FALSE
    BY <2>1, <2>2, DivideWrites, Zenon
  <2>5. "s" \in psw' <=> Negative(r'[2])
    BY <2>1, <2>2, DivideWrites, Zenon
  <2>6. pc' = Word(pc + 4) /\ running' = running
    <3>1. Advance(4)
      BY <2>1, Zenon DEF Divide
    <3> QED
      BY <3>1, Zenon DEF Advance, Goto, MovesTo, Proceed
  <2>7. ASSUME d # 0
        PROVE  Euclidean(n, d, r'[2]) /\ r'[3] = Word(n - r'[2] * d)
    <3>1. q \in Int /\ Euclidean(n, d, q) /\ Abs(q) <= Abs(n) /\ (n >= 0 /\ d >= 0 => q >= 0)
      BY <2>2, <2>7, QuotientRounds
    <3> HIDE DEF q
    <3>2. q \in Int /\ q \in 0 .. Modulus - 1
      BY <1>3, <1>5, <3>1, SMT DEF Abs
    <3>3. r'[2] = q
      BY <2>3, <3>2, TurnOfWord
    <3>4. d * q = q * d
      BY <2>2, <3>1, SMT
    <3> QED
      BY <2>3, <3>1, <3>3, <3>4
  <2>8. Divided(op)'
    <3>1. start.r[1]' # 0 /\ Value(op, start.r[2])' = n /\ Divisor(op)' = d /\ Value(op, r[2])' = r'[2]
      BY <1>2, <1>4, <2>1, Zenon DEF n
    <3> QED
      BY <1>2, <1>4, <2>4, <2>5, <2>7, <3>1, Zenon DEF Divided, Negative
  <2> QED
    BY <1>5, <2>6, <2>8
<1> QED
  BY <1>6, <1>7, <1>8

(* A step divides, reports, or stops.                                        *)
LEMMA DividesOn ==
  ASSUME NEW op \in WholeDivisor \cup HalfDivisor, code = 0 :> Ins(op), Next, running, Started, AtStart
  PROVE  \/ AtStart' /\ (Divisor(op) = 0 \/ TooLarge(op))
         \/ pc' \in {2, 4} /\ running' /\ Divided(op)'
<1>1. pc = 0 /\ pc \in DOMAIN code /\ ins = Ins(op)
  BY SMT DEF AtStart, ins, :>
<1>2. ins.op = op /\ ins.reg1 = 1 /\ ins.reg2 = 2 /\ ins.reg3 = 3
  BY <1>1, Fields
<1>3. start' = start /\ r = start.r
  BY StepKeeps, Zenon DEF Same, AtStart
<1>4. CASE op \in Unsigned
  <2> DEFINE d == Divisor(op)
  <2>1. op \in {"divu", "divqu", "divhu"} /\ (op \in WholeDivisor <=> op # "divhu")
    BY <1>4, SMT DEF Unsigned, WholeDivisor
  <2>2. d = IF op = "divhu" THEN Low(Half, r[1]) ELSE r[1]
    BY <1>3, <1>4, <2>1, Zenon DEF Divisor, Value
  <2>3. op = "divhu" => ByZero(4) \/ Divide(r[2], d, FALSE, {3}, 4) \/ (d = 0 /\ Stop)
    BY <1>1, <1>2, <2>2, Dispatch, Zenon DEF Divhu, R1, R2
  <2>4. op \in {"divu", "divqu"} => ByZero(4) \/ Divide(r[2], d, FALSE, {3}, 4)
    <3>1. op \in {"divu", "divqu"} => Divu /\ d = r[1]
      BY <1>1, <1>2, <2>2, Dispatch, SMT
    <3> QED
      BY <1>2, <3>1, Zenon DEF Divu, R1, R2
  <2>5. ByZero(4) \/ Divide(r[2], d, FALSE, {3}, 4) \/ (d = 0 /\ Stop)
    BY <2>1, <2>3, <2>4, Zenon
  <2> HIDE DEF d
  <2>6. \/ AtStart' /\ (Divisor(op) = 0 \/ TooLarge(op))
        \/ pc' = 4 /\ running' /\ Divided(op)'
    BY <1>2, <1>3, <1>4, <2>5, UnsignedDivides, Zenon DEF d
  <2> QED
    BY <2>6, Zenon
<1>5. CASE op \notin Unsigned
  <2> DEFINE ov == op \in WholeDivisor /\ TooLarge(op)
             size == IF op = "divh_1" THEN 2 ELSE 4
             rests == IF op = "divh_1" THEN {} ELSE {3}
  <2>1. op \in {"div", "divq", "divh_1", "divh_11"} /\ (op \in WholeDivisor <=> op \in {"div", "divq"})
    BY <1>5, SMT DEF Unsigned, WholeDivisor, HalfDivisor
  <2>2. Divisor(op) = IF op \in {"div", "divq"} THEN Signed(r[1]) ELSE Extend(Half, r[1])
    BY <1>3, <1>5, <2>1, Zenon DEF Divisor, Value
  <2>3. CASE op = "divh_1"
    <3>1. SignedDivide(Signed(r[2]), Divisor(op), FALSE, {}, 2)
      BY <1>1, <1>2, <2>2, <2>3, Dispatch, Zenon DEF Divh_1, R1, R2
    <3>2. FALSE \in BOOLEAN /\ (FALSE <=> op \in WholeDivisor /\ TooLarge(op))
      BY <2>1, <2>3
    <3>3. 2 \in {2, 4} /\ (IF op = "divh_1" THEN {} ELSE {3}) = {}
      BY <2>3
    <3>4. \/ AtStart' /\ (Divisor(op) = 0 \/ TooLarge(op))
          \/ pc' = 2 /\ running' /\ Divided(op)'
      BY <1>2, <1>3, <1>5, <3>1, <3>2, <3>3, SignedDivides, Zenon
    <3> QED
      BY <3>4, Zenon
  <2>4. CASE op = "divh_11"
    <3>1. SignedDivide(Signed(r[2]), Divisor(op), FALSE, {3}, 4)
      BY <1>1, <1>2, <2>2, <2>4, Dispatch, Zenon DEF Divh_11, R1, R2
    <3>2. FALSE \in BOOLEAN /\ (FALSE <=> op \in WholeDivisor /\ TooLarge(op))
      BY <2>1, <2>4
    <3>3. 4 \in {2, 4} /\ (IF op = "divh_1" THEN {} ELSE {3}) = {3}
      BY <2>4
    <3>4. \/ AtStart' /\ (Divisor(op) = 0 \/ TooLarge(op))
          \/ pc' = 4 /\ running' /\ Divided(op)'
      BY <1>2, <1>3, <1>5, <3>1, <3>2, <3>3, SignedDivides, Zenon
    <3> QED
      BY <3>4, Zenon
  <2>5. CASE op \in {"div", "divq"}
    <3> DEFINE large == Signed(r[1]) = -1 /\ r[2] = SignBit
    <3>1. SignedDivide(Signed(r[2]), Divisor(op), large, {3}, 4)
      <4>1. Div
        BY <1>1, <1>2, <2>5, Dispatch
      <4> QED
        BY <1>2, <2>2, <2>5, <4>1, Zenon DEF Div, R1, R2
    <3>2. large \in BOOLEAN /\ (large <=> op \in WholeDivisor /\ TooLarge(op))
      BY <1>3, <1>5, <2>1, <2>2, <2>5, Zenon DEF TooLarge
    <3>3. 4 \in {2, 4} /\ (IF op = "divh_1" THEN {} ELSE {3}) = {3}
      BY <2>5
    <3> HIDE DEF large
    <3>4. \/ AtStart' /\ (Divisor(op) = 0 \/ TooLarge(op))
          \/ pc' = 4 /\ running' /\ Divided(op)'
      BY <1>2, <1>3, <1>5, <3>1, <3>2, <3>3, SignedDivides, Zenon
    <3> QED
      BY <3>4, Zenon
  <2> QED
    BY <2>1, <2>3, <2>4, <2>5
<1> QED
  BY <1>4, <1>5

(* A division leaves the one quotient and remainder that fit together, or    *)
(* sets OV and leaves the operands, or stops the host: and that only where   *)
(* the half that divides is zero, or the quotient is 2^31.  DIV reports that *)
(* quotient, DIVH does not (op_exec_arithm.c:320-362, 718-1017).  For words  *)
(* of every size, and operands with every value.                             *)
THEOREM DivisionsReport == Spec => []DividesOrReports
<1> DEFINE Ops7 == WholeDivisor \cup HalfDivisor
           IInv == Started /\ \A op \in Ops7 : DividesSoFar(op)
<1>1. Init => IInv
  BY StartsAtZero, Zenon DEF DividesSoFar
<1>2. IInv /\ [Next]_vars => IInv'
  <2> SUFFICES ASSUME IInv, [Next]_vars PROVE IInv'
    OBVIOUS
  <2>1. Started' /\ code' = code /\ start' = start
    BY StartedStays, Zenon DEF Same
  <2>2. ASSUME NEW op \in Ops7 PROVE DividesSoFar(op)'
    <3>1. Divisor(op)' = Divisor(op) /\ TooLarge(op)' = TooLarge(op)
      BY <2>1, Zenon DEF Divisor, TooLarge
    <3>2. CASE UNCHANGED vars
      BY <2>1, <2>2, <3>2, Zenon DEF vars, DividesSoFar, AtStart, Divided, Divisor, TooLarge
    <3>3. CASE Next /\ ~ (running /\ pc \in DOMAIN code)
      BY <3>2, <3>3, EndedStays
    <3>4. CASE Next /\ running /\ pc \in DOMAIN code
      <4>1. ASSUME code = 0 :> Ins(op)
            PROVE  \/ AtStart' /\ (Divisor(op) = 0 \/ TooLarge(op))
                   \/ pc' \in {2, 4} /\ running' /\ Divided(op)'
        <5>1. AtStart
          BY <2>2, <3>4, <4>1, SMT DEF DividesSoFar, :>
        <5> QED
          BY <2>2, <3>4, <4>1, <5>1, DividesOn
      <4> QED
        BY <2>1, <3>1, <4>1, Zenon DEF DividesSoFar
    <3> QED
      BY <3>2, <3>3, <3>4
  <2> QED
    BY <2>1, <2>2
<1>3. IInv => DividesOrReports
  <2> SUFFICES ASSUME IInv, NEW op \in Ops7, code = 0 :> Ins(op)
               PROVE  /\ ~ running => Divisor(op) = 0 \/ TooLarge(op)
                      /\ Ran(code) => Divided(op)
    BY Zenon DEF DividesOrReports, Divided
  <2>1. 0 \in DOMAIN code
    BY SMT DEF :>
  <2> QED
    BY <2>1, SMT DEF DividesSoFar, AtStart, Ran
<1> QED
  BY <1>1, <1>2, <1>3, PTL DEF Spec

----------------------------------------------------------------------------
(* Saturation.                                                               *)

(* A saturated sum is the nearest word to the exact one, and SAT tells of it *)
(* from then on.                                                             *)
LEMMA Saturates ==
  ASSUME NEW d \in Regs, NEW w \in Words, NEW addend \in Int, NEW size,
         Saturate(d, w, addend, size), d # 0, r \in [Regs -> Words], r[0] = 0
  PROVE  /\ r' = [r EXCEPT ![d] = Word(Clamped(Signed(w) + addend))]
         /\ Signed(r'[d]) = Clamped(Signed(w) + addend)
         /\ r'[d] \in Words
         /\ "sat" \in psw' <=> "sat" \in psw \/ Overflows(Signed(w) + addend)
         /\ pc' = Word(pc + size)
<1> DEFINE sum  == Signed(w) + addend
           ends == IF sum < 0 THEN - SignBit ELSE SignBit - 1
           fit  == IF Overflows(sum) THEN ends ELSE sum
           changes == [cy  |-> Carry(w, Word(addend), 0), ov |-> Overflows(sum),
                       sat |-> "sat" \in psw \/ Overflows(sum), z |-> sum = 0, s |-> sum < 0]
<1>1. Signed(w) \in Int /\ SignBit \in Nat \ {0}
  BY AluAssumption, SMT DEF Words, Signed, Modulus
<1>2. sum \in Int
  BY <1>1, SMT
<1>3. Result(d, Word(fit), changes, size)
  BY Zenon DEF Saturate
<1>4. "sat" \in Update(psw, changes) <=> "sat" \in psw \/ Overflows(sum)
  BY Zenon DEF Update, Flags
<1> HIDE DEF sum, changes
<1>5. fit = Clamped(sum) /\ fit \in - SignBit .. SignBit - 1
  BY <1>1, <1>2, SMT DEF Clamped, Overflows
<1> HIDE DEF fit
<1>6. Signed(Word(fit)) = fit
  BY <1>5, SignedOfWord
<1>7. Word(fit) \in Words
  <2>1. fit \in Int
    BY <1>1, <1>5, SMT
  <2> QED
    BY <2>1, WordIsWord
<1> DEFINE v == Word(fit)
<1> HIDE DEF v
<1>8. Result(d, v, changes, size)
  BY <1>3 DEF v
<1>9. /\ r' = [n \in Regs |-> IF n # 0 /\ n = d THEN v ELSE r[n]]
      /\ psw' = Update(psw, changes) /\ pc' = Word(pc + size)
  BY <1>8, ResultWrites, Zenon
<1>10. r' = [r EXCEPT ![d] = v] /\ r'[d] = v
  <2>1. r' = [n \in Regs |-> IF n = d THEN v ELSE r[n]]
    BY <1>9, Zenon
  <2>2. r'[d] = v
    BY <2>1, Zenon
  <2> QED
    BY <2>1, <2>2, Zenon
<1> QED
  BY <1>4, <1>5, <1>6, <1>7, <1>9, <1>10 DEF v, sum

(* The exact sums of the programs.                                           *)
FirstSum  == Signed(start.r[2]) + Signed(start.r[1])
SecondSum == Clamped(FirstSum) - Signed(start.r[3])

SaturatesSoFar ==
  /\ code = AddThenSubtract =>
       \/ AtStart /\ "sat" \notin psw
       \/ /\ pc = 2
          /\ r \in [Regs -> Words] /\ r[0] = 0 /\ r[3] = start.r[3]
          /\ Signed(r[2]) = Clamped(FirstSum)
          /\ "sat" \in psw <=> Overflows(FirstSum)
       \/ /\ pc = 4
          /\ Signed(r[2]) = Clamped(SecondSum)
          /\ "sat" \in psw <=> Overflows(FirstSum) \/ Overflows(SecondSum)
  /\ code = SubtractedFrom =>
       AtStart \/ (pc = 2 /\ Signed(r[2]) = Clamped(Signed(start.r[1]) - Signed(start.r[2])))
  /\ code = SubtractsImmediate =>
       AtStart \/ (pc = 4 /\ Signed(r[2]) = Clamped(Signed(start.r[1]) - Extend(Half, 2)))

(* The instructions of the three programs.                                   *)
LEMMA SaturatingCode ==
  /\ DOMAIN AddThenSubtract = {0, 2}
  /\ AddThenSubtract[0] = Ins("satadd_1") /\ AddThenSubtract[2] = On("satsub_1", 3, 2)
  /\ DOMAIN SubtractedFrom = {0} /\ SubtractedFrom[0] = Ins("satsubr_1")
  /\ DOMAIN SubtractsImmediate = {0} /\ SubtractsImmediate[0] = WithImm("satsubi", 2, 2)
BY SMT DEF AddThenSubtract, SubtractedFrom, SubtractsImmediate, :>, @@

(* A step takes each of the three programs one instruction further.          *)
LEMMA SaturatesOn ==
  ASSUME Started, SaturatesSoFar, [Next]_vars
  PROVE  SaturatesSoFar'
<1>1. code' = code /\ start' = start
  BY StepKeeps, Zenon DEF vars, Same
<1> DEFINE s == start.r
<1>2. /\ s \in [Regs -> Words] /\ s[0] = 0
      /\ s[1] \in Words /\ s[2] \in Words /\ s[3] \in Words
      /\ Word(0 + 2) = 2 /\ Word(2 + 2) = 4 /\ Word(0 + 4) = 4 /\ {1, 2, 3} \subseteq Regs
  BY SmallWords, NamedRegs, SMT DEF Started
<1>3. Signed(s[1]) \in Int /\ Signed(s[2]) \in Int /\ Signed(s[3]) \in Int
  BY <1>2, SignedIsInt
<1>4. FirstSum \in Int /\ Clamped(FirstSum) \in Int
  <2>1. FirstSum \in Int
    BY <1>3, SMT DEF FirstSum
  <2> QED
    BY <2>1, SignedIsInt
<1>5. FirstSum' = FirstSum /\ SecondSum' = SecondSum
  BY <1>1 DEF FirstSum, SecondSum
<1>6. CASE UNCHANGED vars
  BY <1>6, Zenon DEF vars, SaturatesSoFar, AtStart, FirstSum, SecondSum
<1>7. CASE Next /\ ~ (running /\ pc \in DOMAIN code)
  BY <1>6, <1>7, EndedStays
<1>8. CASE Next /\ running /\ pc \in DOMAIN code
  <2>1. ASSUME code = AddThenSubtract, AtStart, "sat" \notin psw
        PROVE  /\ pc' = 2
               /\ r' \in [Regs -> Words] /\ r'[0] = 0 /\ r'[3] = s[3]
               /\ Signed(r'[2]) = Clamped(FirstSum)
               /\ "sat" \in psw' <=> Overflows(FirstSum)
    <3>1. pc = 0 /\ pc \in DOMAIN code /\ ins = Ins("satadd_1") /\ r = s
      BY <2>1, SaturatingCode, SMT DEF AtStart, ins
    <3>2. ins.op = "satadd_1" /\ ins.reg1 = 1 /\ ins.reg2 = 2
      BY <3>1, Fields
    <3>3. Saturate(2, s[2], Signed(s[1]), 2)
      BY <1>8, <3>1, <3>2, Dispatch, Zenon DEF Satadd_1, R1, R2
    <3>4. 2 \in Regs /\ 2 # 0
      BY <1>2
    <3>5. /\ r' = [r EXCEPT ![2] = Word(Clamped(FirstSum))]
          /\ Signed(r'[2]) = Clamped(FirstSum)
          /\ r'[2] \in Words
          /\ "sat" \in psw' <=> "sat" \in psw \/ Overflows(FirstSum)
          /\ pc' = Word(pc + 2)
      BY <1>2, <1>3, <3>1, <3>3, <3>4, Saturates DEF FirstSum
    <3>6. r' \in [Regs -> Words] /\ r'[0] = 0 /\ r'[3] = s[3]
      BY <1>2, <3>1, <3>5, SMT
    <3> QED
      BY <1>2, <2>1, <3>1, <3>5, <3>6
  <2>2. ASSUME code = AddThenSubtract, pc = 2,
               r \in [Regs -> Words], r[0] = 0, r[3] = s[3], Signed(r[2]) = Clamped(FirstSum)
        PROVE  /\ pc' = 4
               /\ Signed(r'[2]) = Clamped(SecondSum)
               /\ "sat" \in psw' <=> "sat" \in psw \/ Overflows(SecondSum)
    <3>1. pc \in DOMAIN code /\ ins = On("satsub_1", 3, 2)
      BY <2>2, SaturatingCode, SMT DEF ins
    <3>2. ins.op = "satsub_1" /\ ins.reg1 = 3 /\ ins.reg2 = 2
      BY <3>1, Fields
    <3> DEFINE m == - Signed(s[3])
    <3>3. Saturate(2, r[2], m, 2)
      BY <1>8, <2>2, <3>1, <3>2, Dispatch, Zenon DEF Satsub_1, R1, R2
    <3>4. 2 \in Regs /\ 2 # 0 /\ m \in Int /\ r[2] \in Words
      BY <1>2, <1>3, <2>2, SMT
    <3>5. Signed(r[2]) + m = SecondSum
      BY <1>3, <1>4, <2>2, SMT DEF SecondSum
    <3> HIDE DEF m
    <3>6. /\ Signed(r'[2]) = Clamped(SecondSum)
          /\ "sat" \in psw' <=> "sat" \in psw \/ Overflows(SecondSum)
          /\ pc' = Word(pc + 2)
      BY <2>2, <3>3, <3>4, <3>5, Saturates
    <3> QED
      BY <1>2, <2>2, <3>6
  <2>3. ASSUME code = SubtractedFrom, AtStart
        PROVE  pc' = 2 /\ Signed(r'[2]) = Clamped(Signed(s[1]) - Signed(s[2]))
    <3>1. pc = 0 /\ pc \in DOMAIN code /\ ins = Ins("satsubr_1") /\ r = s
      BY <2>3, SaturatingCode, SMT DEF AtStart, ins
    <3>2. ins.op = "satsubr_1" /\ ins.reg1 = 1 /\ ins.reg2 = 2
      BY <3>1, Fields
    <3> DEFINE m == - Signed(s[2])
    <3>3. Saturate(2, s[1], m, 2)
      BY <1>8, <3>1, <3>2, Dispatch, Zenon DEF Satsubr_1, R1, R2
    <3>4. 2 \in Regs /\ 2 # 0 /\ m \in Int /\ Signed(s[1]) + m = Signed(s[1]) - Signed(s[2])
      BY <1>2, <1>3, SMT
    <3> HIDE DEF m
    <3>5. Signed(r'[2]) = Clamped(Signed(s[1]) + m) /\ pc' = Word(pc + 2)
      BY <1>2, <3>1, <3>3, <3>4, Saturates
    <3> QED
      BY <1>2, <3>1, <3>4, <3>5
  <2>4. ASSUME code = SubtractsImmediate, AtStart
        PROVE  pc' = 4 /\ Signed(r'[2]) = Clamped(Signed(s[1]) - Extend(Half, 2))
    <3>1. pc = 0 /\ pc \in DOMAIN code /\ ins = WithImm("satsubi", 2, 2) /\ r = s
      BY <2>4, SaturatingCode, SMT DEF AtStart, ins
    <3>2. ins.op = "satsubi" /\ ins.reg1 = 1 /\ ins.reg2 = 2 /\ ins.imm = 2
      BY <3>1, Fields
    <3> DEFINE i == Extend(Half, 2)
               m == - i
    <3>3. Saturate(2, s[1], m, 4)
      BY <1>8, <3>1, <3>2, Dispatch, Zenon DEF Satsubi, HalfImm, R1, R2
    <3>4. i \in Int
      <4>1. 2 \in Words
        BY SmallWords, SMT
      <4> QED
        BY <4>1, HalfRange
    <3> HIDE DEF i
    <3>5. 2 \in Regs /\ 2 # 0 /\ m \in Int /\ Signed(s[1]) + m = Signed(s[1]) - i
      BY <1>2, <1>3, <3>4, SMT
    <3> HIDE DEF m
    <3>6. Signed(r'[2]) = Clamped(Signed(s[1]) + m) /\ pc' = Word(pc + 4)
      BY <1>2, <3>1, <3>3, <3>5, Saturates
    <3> QED
      BY <1>2, <3>1, <3>5, <3>6 DEF i
  <2>5. /\ code = AddThenSubtract => pc = 0 \/ pc = 2
        /\ code = SubtractedFrom => pc = 0
        /\ code = SubtractsImmediate => pc = 0
    BY <1>8, SaturatingCode, SMT
  <2>6. 2 # 0 /\ 4 # 0 /\ 4 # 2
    OBVIOUS
  <2> QED
    BY <1>1, <1>5, <2>1, <2>2, <2>3, <2>4, <2>5, <2>6, Zenon DEF SaturatesSoFar, AtStart
<1> QED
  BY <1>6, <1>7, <1>8

(* What fits the word is told right at every end of the three programs.      *)
LEMMA SaturatesInduct ==
  /\ Init => Started /\ SaturatesSoFar
  /\ Started /\ SaturatesSoFar /\ [Next]_vars => (Started /\ SaturatesSoFar)'
  /\ Started /\ SaturatesSoFar => SaturatesAtTheEnds
<1>1. ASSUME Init PROVE Started /\ SaturatesSoFar
  <2>1. Started /\ AtStart
    BY <1>1, StartsAtZero
  <2>2. code = AddThenSubtract => "sat" \notin psw
    BY <2>1, StartsAssumption, Zenon DEF Started, AtStart, StartsUnsaturated
  <2> QED
    BY <2>1, <2>2, Zenon DEF SaturatesSoFar
<1>2. Started /\ SaturatesSoFar /\ [Next]_vars => (Started /\ SaturatesSoFar)'
  BY SaturatesOn, StartedStays
<1>3. ASSUME Started, SaturatesSoFar PROVE SaturatesAtTheEnds
  <2> DEFINE a == Signed(start.r[1])
             b == Signed(start.r[2])
             c == Signed(start.r[3])
  <2>1. FirstSum = b + a /\ SecondSum = Clamped(b + a) - c
    BY DEF FirstSum, SecondSum
  <2>2. Ran(AddThenSubtract) =>
          /\ Signed(r[2]) = Clamped(Clamped(b + a) - c)
          /\ "sat" \in psw <=> Overflows(b + a) \/ Overflows(Clamped(b + a) - c)
    <3>1. Ran(AddThenSubtract) => code = AddThenSubtract /\ pc # 0 /\ pc # 2
      BY SaturatingCode, SMT DEF Ran
    <3> QED
      BY <1>3, <2>1, <3>1, Zenon DEF SaturatesSoFar, AtStart
  <2>3. Ran(SubtractedFrom) => Signed(r[2]) = Clamped(a - b)
    <3>1. Ran(SubtractedFrom) => code = SubtractedFrom /\ pc # 0
      BY SaturatingCode, SMT DEF Ran
    <3> QED
      BY <1>3, <3>1, Zenon DEF SaturatesSoFar, AtStart
  <2>4. Ran(SubtractsImmediate) => Signed(r[2]) = Clamped(a - Extend(Half, 2))
    <3>1. Ran(SubtractsImmediate) => code = SubtractsImmediate /\ pc # 0
      BY SaturatingCode, SMT DEF Ran
    <3> QED
      BY <1>3, <3>1, Zenon DEF SaturatesSoFar, AtStart
  <2> QED
    BY <2>2, <2>3, <2>4, Zenon DEF SaturatesAtTheEnds
<1> QED
  BY <1>1, <1>2, <1>3, Zenon

----------------------------------------------------------------------------
(* Shifts.                                                                   *)

(* SHL keeps the low bits of a word, and moves them up.                      *)
LEMMA ShiftedLeft ==
  ASSUME NEW k \in Counts, NEW w \in Words
  PROVE  /\ Low(Width - k, w) \in 0 .. 2 ^ (Width - k) - 1
         /\ ShiftLeft(w, k) = Low(Width - k, w) * 2 ^ k
<1> DEFINE p == 2 ^ k
           q == 2 ^ (Width - k)
           b == w \div q
           x == w % q
<1>1. p \in Nat \ {0} /\ q \in Nat \ {0} /\ Modulus = p * q
  BY CoreAssumption, Parts, SMT DEF Counts
<1>2. w \in Nat /\ Modulus \in Nat \ {0}
  BY Sizes, SMT DEF Words
<1> HIDE DEF p, q
<1>3. x \in 0 .. q - 1 /\ b \in Int /\ w = q * b + x
  BY <1>1, <1>2, SMT
<1> HIDE DEF x, b
<1>4. w * p = b * Modulus + x * p
  BY <1>1, <1>3, SMT
<1>5. x * p \in 0 .. Modulus - 1
  <2>1. x * p >= 0 /\ x * p \in Int
    BY <1>1, <1>3, SMT
  <2>2. x * p <= (q - 1) * p
    BY <1>1, <1>3, SMT
  <2>3. (q - 1) * p = p * q - p
    BY <1>1, SMT
  <2> QED
    BY <1>1, <2>1, <2>2, <2>3, SMT
<1>6. (w * p) % Modulus = x * p
  <2>1. w * p \in Int
    BY <1>1, <1>2, SMT
  <2> QED
    BY <1>2, <1>3, <1>4, <1>5, <2>1, Remainder
<1> QED
  BY <1>3, <1>6 DEF ShiftLeft, Word, Low, p, q, x

(* SHR and SAR bring them back, SAR with the highest of them as their sign.  *)
LEMMA ShiftedBack ==
  ASSUME NEW k \in Counts, NEW w \in Words
  PROVE  /\ ShiftRight(ShiftLeft(w, k), k) = Low(Width - k, w)
         /\ Signed(ShiftArithmetic(ShiftLeft(w, k), k)) = Extend(Width - k, w)
         /\ ShiftLeft(w, k) \in Words
<1> DEFINE p == 2 ^ k
           q == 2 ^ (Width - k)
           h == 2 ^ (Width - k - 1)
           x == Low(Width - k, w)
           e == IF x < h THEN x ELSE x - q
<1>1. /\ p \in Nat \ {0} /\ q \in Nat \ {0} /\ h \in Nat \ {0}
      /\ Modulus = p * q /\ q = 2 * h /\ SignBit = p * h
  <2>1. k \in 0 .. Width /\ k < Width
    BY CoreAssumption, SMT DEF Counts
  <2> QED
    BY <2>1, Parts
<1>2. x \in 0 .. q - 1 /\ ShiftLeft(w, k) = x * p
  BY ShiftedLeft
<1>3. Extend(Width - k, w) = e
  BY DEF Extend
<1> HIDE DEF p, q, h, x
<1>4. ShiftLeft(w, k) \in Words
  <2>1. w * p \in Int
    BY <1>1, Sizes, SMT DEF Words
  <2> QED
    BY <2>1, WordIsWord DEF ShiftLeft, p
<1>5. \A n \in Int : (n * p) \div p = n
  <2>1. ASSUME NEW n \in Int PROVE (n * p) \div p = n
    <3>1. n * p \in Int /\ n * p = n * p + 0 /\ 0 \in 0 .. p - 1
      BY <1>1, SMT
    <3> QED
      BY <1>1, <3>1, Remainder
  <2> QED
    BY <2>1
<1>6. Signed(x * p) = e * p /\ e \in Int
  <2>1. x < h => x * p < SignBit
    <3>1. x <= h - 1 => x * p <= (h - 1) * p
      BY <1>1, <1>2, SMT
    <3>2. (h - 1) * p = p * h - p /\ x * p \in Int
      BY <1>1, <1>2, SMT
    <3> QED
      BY <1>1, <1>2, <3>1, <3>2, SMT
  <2>2. ~ (x < h) => ~ (x * p < SignBit)
    <3>1. x >= h => x * p >= h * p
      BY <1>1, <1>2, SMT
    <3> QED
      BY <1>1, <1>2, <3>1, SMT
  <2>3. (x - q) * p = x * p - Modulus
    BY <1>1, <1>2, SMT
  <2>4. e \in Int
    BY <1>1, <1>2, SMT
  <2> QED
    BY <2>1, <2>2, <2>3, <2>4 DEF Signed
<1>7. e \in - SignBit .. SignBit - 1
  <2>1. h <= SignBit
    <3>1. p - 1 >= 0 => (p - 1) * h >= 0
      BY <1>1, SMT
    <3>2. (p - 1) * h = p * h - h
      BY <1>1, SMT
    <3> QED
      BY <1>1, <3>1, <3>2, SMT
  <2> QED
    BY <1>1, <1>2, <2>1, SMT
<1>8. Signed(Word(Signed(x * p) \div p)) = e
  BY <1>5, <1>6, <1>7, SignedOfWord
<1> QED
  BY <1>2, <1>3, <1>4, <1>5, <1>8 DEF ShiftRight, ShiftArithmetic, p, x

(* What a shift there and back has left, and what it is told by.             *)
Shifted(back, k) ==
  IF back = "sar_2" THEN Signed(r[1]) = Extend(Width - k, start.r[1])
  ELSE r[1] = Low(Width - k, start.r[1])

ShiftedSoFar(back, k) ==
  code = ShiftThere(back, k) =>
    \/ AtStart
    \/ pc = 2 /\ r \in [Regs -> Words] /\ r[0] = 0 /\ r[1] = ShiftLeft(start.r[1], k)
    \/ pc = 4 /\ Shifted(back, k)

(* The instructions of the programs.                                         *)
LEMMA ShiftingCode ==
  /\ \A back, k : /\ DOMAIN ShiftThere(back, k) = {0, 2}
                  /\ ShiftThere(back, k)[0] = WithImm("shl_2", k, 1)
                  /\ ShiftThere(back, k)[2] = WithImm(back, k, 1)
  /\ DOMAIN Normalise = {0, 4, 6}
  /\ Normalise[0] = On3("sch1l", 0, 1, 2)
  /\ Normalise[4] = WithImm("add_2", MinusOne, 2)
  /\ Normalise[6] = On("shl_9", 2, 1)
<1>1. \A back, k : /\ DOMAIN ShiftThere(back, k) = {0, 2}
                   /\ ShiftThere(back, k)[0] = WithImm("shl_2", k, 1)
                   /\ ShiftThere(back, k)[2] = WithImm(back, k, 1)
  BY SMT DEF ShiftThere, :>, @@
<1>2. /\ DOMAIN Normalise = {0, 4, 6}
      /\ Normalise[0] = On3("sch1l", 0, 1, 2)
      /\ Normalise[4] = WithImm("add_2", MinusOne, 2)
      /\ Normalise[6] = On("shl_9", 2, 1)
  BY SMT DEF Normalise, :>, @@
<1> QED
  BY <1>1, <1>2

(* A shift writes its result to the register that it shifts.                 *)
LEMMA ShiftWrites ==
  ASSUME NEW d \in Regs, d # 0, d = ins.reg2, NEW w, NEW cy, NEW size, Shift(d, w, cy, size),
         r \in [Regs -> Words], r[0] = 0
  PROVE  /\ r' = [n \in Regs |-> IF n # 0 /\ n = d THEN w ELSE r[n]]
         /\ r'[d] = w
         /\ "s" \in psw' <=> Negative(w)
         /\ pc' = Word(pc + size) /\ running' = running
<1> DEFINE changes == [cy |-> cy, ov |-> FALSE, z |-> Zero(w), s |-> Negative(w)]
<1>1. Result(d, w, changes, size)
  BY Zenon DEF Shift
<1>2. "s" \in Update(psw, changes) <=> Negative(w)
  BY Zenon DEF Update, Flags
<1> HIDE DEF changes
<1>3. /\ r' = [n \in Regs |-> IF n # 0 /\ n = d THEN w ELSE r[n]]
      /\ psw' = Update(psw, changes) /\ pc' = Word(pc + size) /\ running' = running
  BY <1>1, ResultWrites, Zenon
<1>4. r'[d] = w
  BY <1>3, Zenon
<1> QED
  BY <1>2, <1>3, <1>4

(* An immediate below the bits of a word is the count of its shift.          *)
LEMMA CountOfShift == ASSUME NEW k \in Counts PROVE k % Width = k
<1>1. Width \in Nat \ {0} /\ k \in 0 .. Width - 1 /\ k \in Int
  BY CoreAssumption, SMT DEF Counts
<1> QED
  BY <1>1, Turn

(* A step takes a shift there and back one instruction further.              *)
LEMMA ShiftedOn ==
  ASSUME NEW back \in {"shr_2", "sar_2"}, NEW k \in Counts, code = ShiftThere(back, k),
         Next, running, Started
  PROVE  /\ AtStart =>
              pc' = 2 /\ r' \in [Regs -> Words] /\ r'[0] = 0 /\ r'[1] = ShiftLeft(start.r[1], k)
         /\ pc = 2 /\ r \in [Regs -> Words] /\ r[0] = 0 /\ r[1] = ShiftLeft(start.r[1], k) =>
              pc' = 4 /\ IF back = "sar_2" THEN Signed(r'[1]) = Extend(Width - k, start.r[1])
                         ELSE r'[1] = Low(Width - k, start.r[1])
<1> DEFINE s    == start.r
           left == ShiftLeft(s[1], k)
<1>1. Word(0 + 2) = 2 /\ Word(2 + 2) = 4 /\ {0, 1} \subseteq Regs
  BY SmallWords, NamedRegs, SMT
<1>2. s \in [Regs -> Words] /\ s[0] = 0 /\ s[1] \in Words
  BY <1>1, SMT DEF Started
<1>3. /\ ShiftRight(left, k) = Low(Width - k, s[1])
      /\ Signed(ShiftArithmetic(left, k)) = Extend(Width - k, s[1])
      /\ left \in Words
  BY <1>2, ShiftedBack
<1>4. ASSUME AtStart
      PROVE  pc' = 2 /\ r' \in [Regs -> Words] /\ r'[0] = 0 /\ r'[1] = left
  <2>1. pc = 0 /\ pc \in DOMAIN code /\ ins = WithImm("shl_2", k, 1) /\ r = s
    BY <1>4, ShiftingCode, SMT DEF AtStart, ins
  <2>2. ins.op = "shl_2" /\ ins.imm = k /\ ins.reg2 = 1
    BY <2>1, Fields
  <2>3. ByImm = k
    BY <2>2, CountOfShift DEF ByImm
  <2>4. \E cy : Shift(1, left, cy, 2)
    BY <2>1, <2>2, <2>3, Dispatch, Zenon DEF Shl_2, R2
  <2> HIDE DEF left
  <2>5. 1 \in Regs /\ 1 # 0 /\ 1 = ins.reg2 /\ r \in [Regs -> Words] /\ r[0] = 0
    BY <1>1, <1>2, <2>1, <2>2, SMT
  <2>6. /\ r' = [n \in Regs |-> IF n # 0 /\ n = 1 THEN left ELSE r[n]]
        /\ r'[1] = left /\ pc' = Word(pc + 2)
    BY <2>4, <2>5, ShiftWrites, Zenon
  <2>7. r' \in [Regs -> Words] /\ r'[0] = 0
    BY <1>1, <1>3, <2>5, <2>6, SMT
  <2> QED
    BY <1>1, <2>1, <2>6, <2>7
<1>5. ASSUME pc = 2, r \in [Regs -> Words], r[0] = 0, r[1] = left
      PROVE  pc' = 4 /\ IF back = "sar_2" THEN Signed(r'[1]) = Extend(Width - k, s[1])
                        ELSE r'[1] = Low(Width - k, s[1])
  <2>1. pc \in DOMAIN code /\ ins = WithImm(back, k, 1)
    BY <1>5, ShiftingCode, SMT DEF ins
  <2>2. ins.op = back /\ ins.imm = k /\ ins.reg2 = 1
    BY <2>1, Fields
  <2>3. ByImm = k
    BY <2>2, CountOfShift DEF ByImm
  <2> HIDE DEF left
  <2>4. 1 \in Regs /\ 1 # 0 /\ 1 = ins.reg2
    BY <1>1, <2>2
  <2>5. CASE back = "shr_2"
    <3> DEFINE w == ShiftRight(left, k)
    <3>1. \E cy : Shift(1, w, cy, 2)
      BY <1>5, <2>1, <2>2, <2>3, <2>5, Dispatch, Zenon DEF Shr_2, R2
    <3> HIDE DEF w
    <3>2. r'[1] = w /\ pc' = Word(pc + 2)
      BY <1>5, <2>4, <3>1, ShiftWrites, Zenon
    <3>3. back # "sar_2"
      BY <2>5
    <3> QED
      BY <1>1, <1>3, <1>5, <3>2, <3>3, Zenon DEF w
  <2>6. CASE back = "sar_2"
    <3> DEFINE w == ShiftArithmetic(left, k)
    <3>1. \E cy : Shift(1, w, cy, 2)
      BY <1>5, <2>1, <2>2, <2>3, <2>6, Dispatch, Zenon DEF Sar_2, R2
    <3> HIDE DEF w
    <3>2. r'[1] = w /\ pc' = Word(pc + 2)
      BY <1>5, <2>4, <3>1, ShiftWrites, Zenon
    <3> QED
      BY <1>1, <1>3, <1>5, <2>6, <3>2 DEF w
  <2> QED
    BY <2>5, <2>6
<1> QED
  BY <1>4, <1>5
(* Of a word that is not zero a bit is the highest; the first that a search  *)
(* from the left finds, and what a shift by its distance brings to the top.  *)
LEMMA HighestBit ==
  ASSUME NEW w \in Words, w # 0
  PROVE  \E m \in Counts :
           /\ Bit(w, Width - 1 - m) = 1
           /\ \A n \in Counts : n < m => Bit(w, Width - 1 - n) = 0
           /\ w * 2 ^ m \in SignBit .. Modulus - 1
<1> DEFINE Above == {j \in Nat : j <= Width /\ w < 2 ^ j}
<1>1. Width \in Nat \ {0} /\ w \in Nat
  BY CoreAssumption, Sizes, SMT DEF Words
<1>2. \A j \in 0 .. Width : 2 ^ j \in Nat \ {0}
  BY WordPowers, SMT
<1>3. 2 ^ 0 = 1 /\ 2 ^ 1 = 2
  BY SMT
<1>4. PICK j \in Above : \A i \in Above : j <= i
  <2>1. Width \in 0 .. Width /\ Width - Width = 0
    BY <1>1, SMT
  <2>2. Modulus = 2 ^ Width * 2 ^ (Width - Width) /\ 2 ^ Width \in Nat
    BY <2>1, Parts
  <2>3. w < 2 ^ Width
    BY <1>1, <1>3, <2>1, <2>2, SMT DEF Words
  <2>4. Width \in Above
    BY <1>1, <2>3
  <2>5. Above \in SUBSET Nat /\ Above # {}
    BY <2>4
  <2> HIDE DEF Above
  <2> QED
    BY <2>5, HasLeast
<1>5. j \in Nat /\ j <= Width /\ w < 2 ^ j
  BY <1>4
<1>6. j # 0
  <2>1. ~ (w < 2 ^ 0)
    BY <1>1, <1>3
  <2> QED
    BY <1>5, <2>1
<1> DEFINE i == j - 1
           m == Width - j
           t == 2 ^ i
           p == 2 ^ m
<1>7. /\ i \in 0 .. Width /\ i + 1 = j /\ i < j /\ i <= Width /\ i \in Nat
      /\ m \in 0 .. Width - 1 /\ m \in 0 .. Width /\ m < Width
      /\ Width - m = j /\ Width - m - 1 = i /\ Width - 1 - m = i
      /\ 1 \in 0 .. Width /\ j \in 0 .. Width /\ i + 1 <= Width
  BY <1>1, <1>5, <1>6, SMT
<1>8. /\ t \in Nat \ {0} /\ p \in Nat \ {0}
      /\ 2 ^ j = 2 * t /\ Modulus = p * 2 ^ j /\ SignBit = p * t
  BY <1>7, Parts
<1>9. t <= w
  <2>1. i \notin Above
    BY <1>4, <1>5, <1>7, SMT
  <2>2. ~ (w < t)
    BY <1>7, <2>1
  <2> HIDE DEF t
  <2> QED
    BY <1>1, <1>8, <2>2, SMT
<1> HIDE DEF t, p, Above
<1>10. (w \div t) % 2 = 1
  <2>1. w = 1 * t + (w - t) /\ w - t \in 0 .. t - 1
    BY <1>1, <1>5, <1>8, <1>9, SMT
  <2>2. w \div t = 1
    BY <1>1, <1>8, <2>1, Remainder
  <2>3. 1 % 2 = 1
    BY SMT
  <2> QED
    BY <2>2, <2>3
<1>11. ASSUME NEW n \in Counts, n < m
       PROVE  Bit(w, Width - 1 - n) = 0
  <2> DEFINE b == Width - 1 - n
             e == b - j
             u == 2 ^ e
  <2> HIDE DEF m
  <2>1. b \in 0 .. Width /\ b \in Nat /\ e \in 0 .. Width /\ j + e = b /\ j + e <= Width
    BY <1>1, <1>5, <1>7, <1>11, SMT DEF Counts
  <2> HIDE DEF b, e
  <2>2. 2 ^ b = 2 ^ j * u /\ u \in Nat \ {0} /\ 2 ^ j \in Nat \ {0}
    BY <1>7, <2>1, WordPowers
  <2> HIDE DEF u
  <2>3. 2 ^ j <= 2 ^ b /\ 2 ^ b \in Nat \ {0}
    <3> DEFINE y == 2 ^ j
    <3>1. y \in Nat \ {0} /\ 2 ^ b = y * u
      BY <2>2
    <3> HIDE DEF y
    <3>2. u >= 1 => y * u >= y * 1
      BY <2>2, <3>1, SMT
    <3>3. y * 1 = y /\ y * u \in Nat
      BY <2>2, <3>1, SMT
    <3>4. y <= 2 ^ b /\ 2 ^ b \in Nat \ {0}
      BY <2>2, <3>1, <3>2, <3>3, SMT
    <3> QED
      BY <3>4 DEF y
  <2> DEFINE z == 2 ^ b
  <2>4. z \in Nat \ {0} /\ w \in 0 .. z - 1
    BY <1>1, <1>5, <2>2, <2>3, SMT
  <2> HIDE DEF z
  <2>5. w = 0 * z + w
    BY <1>1, <2>4, SMT
  <2>6. w \div z = 0
    BY <1>1, <2>4, <2>5, Remainder
  <2>7. 0 % 2 = 0
    BY SMT
  <2> QED
    BY <2>6, <2>7 DEF Bit, b, z
<1>12. w * p \in SignBit .. Modulus - 1
  <2>1. w <= 2 * t - 1
    BY <1>1, <1>5, <1>8, SMT
  <2>2. w * p >= t * p
    BY <1>1, <1>8, <1>9, SMT
  <2>3. w * p <= (2 * t - 1) * p
    BY <1>1, <1>8, <2>1, SMT
  <2>4. (2 * t - 1) * p = p * (2 * t) - p /\ t * p = p * t /\ w * p \in Int
    BY <1>1, <1>8, SMT
  <2> DEFINE y == 2 ^ j
  <2>5. y = 2 * t /\ Modulus = p * y
    BY <1>8
  <2> HIDE DEF y
  <2> QED
    BY <1>8, <2>2, <2>3, <2>4, <2>5, SMT
<1>13. Bit(w, Width - 1 - m) = 1
  BY <1>7, <1>10 DEF Bit, t
<1> QED
  BY <1>7, <1>11, <1>12, <1>13 DEF Counts, p

(* An immediate of ones is -1.                                               *)
LEMMA MinusOneExtended == Word(Extend(ShortBits, MinusOne)) = Modulus - 1
<1>1. ShortBits \in 0 .. Width /\ ShortBits - 1 \in 0 .. Width /\ 1 \in 0 .. Width
      /\ 1 + (ShortBits - 1) = ShortBits /\ 1 + (ShortBits - 1) <= Width
  BY CoreAssumption, SMT
<1> DEFINE q == 2 ^ ShortBits
           j == ShortBits - 1
           h == 2 ^ j
<1>2. 2 ^ 1 = 2
  BY SMT
<1>3. h \in Nat \ {0} /\ 2 ^ (1 + j) = 2 * h
  <2> HIDE DEF j
  <2>1. j \in 0 .. Width /\ 1 + j <= Width
    BY <1>1 DEF j
  <2> QED
    BY <1>1, <1>2, <2>1, WordPowers
<1>4. q = 2 * h
  BY <1>1, <1>3
<1>5. MinusOne = q - 1
  BY DEF MinusOne
<1>6. Extend(ShortBits, MinusOne) =
        IF MinusOne % q < h THEN MinusOne % q ELSE (MinusOne % q) - q
  BY DEF Extend, Low
<1> HIDE DEF q, h
<1>7. MinusOne \in Int /\ q \in Nat \ {0} /\ MinusOne \in 0 .. q - 1
  BY <1>3, <1>4, <1>5, SMT
<1>8. MinusOne % q = MinusOne
  BY <1>7, Turn
<1>9. Extend(ShortBits, MinusOne) = -1
  BY <1>3, <1>4, <1>5, <1>6, <1>8, SMT
<1>10. -1 \in Int /\ -1 \in - Modulus .. -1 /\ -1 + Modulus = Modulus - 1
  BY Sizes, SMT
<1>11. Word(-1) = -1 + Modulus
  BY <1>10, TurnOfWord
<1> QED
  BY <1>9, <1>10, <1>11

(* How far a word that is not zero is normalised: the zeros above its        *)
(* highest bit have been counted, one too many; then one less; then they     *)
(* have been shifted out.                                                    *)
Zeros == Min({n \in Counts : Bit(start.r[1], Width - 1 - n) = 1})

Counted(n) == r \in [Regs -> Words] /\ r[0] = 0 /\ r[1] = start.r[1] /\ r[2] = n

NormalisedSoFar ==
  code = Normalise /\ start.r[1] # 0 =>
    \/ AtStart
    \/ pc = 4 /\ Counted(Zeros + 1)
    \/ pc = 6 /\ Counted(Zeros)
    \/ pc = 10 /\ "s" \in psw /\ r[1] = start.r[1] * 2 ^ r[2]

(* The zeros are counted by a word below that of the bits.                   *)
LEMMA ZerosOfWord ==
  ASSUME Started, start.r[1] # 0
  PROVE  /\ Zeros \in Counts
         /\ {n \in Counts : Bit(start.r[1], Width - 1 - n) = 1} # {}
         /\ start.r[1] * 2 ^ Zeros \in SignBit .. Modulus - 1
<1> DEFINE w == start.r[1]
           ones == {n \in Counts : Bit(w, Width - 1 - n) = 1}
<1>1. w \in Words
  BY NamedRegs, SMT DEF Started
<1>2. PICK m \in Counts :
        /\ Bit(w, Width - 1 - m) = 1
        /\ \A n \in Counts : n < m => Bit(w, Width - 1 - n) = 0
        /\ w * 2 ^ m \in SignBit .. Modulus - 1
  BY <1>1, HighestBit
<1>3. ones \subseteq Nat /\ m \in ones
  BY <1>2, CoreAssumption, SMT DEF Counts
<1>4. \A n \in ones : m <= n
  <2> SUFFICES ASSUME NEW n \in ones, ~ (m <= n) PROVE FALSE
    OBVIOUS
  <2>1. n < m
    BY <1>3, SMT
  <2>2. Bit(w, Width - 1 - n) = 0 /\ Bit(w, Width - 1 - n) = 1
    BY <1>2, <2>1
  <2> QED
    BY <2>2
<1> HIDE DEF ones
<1>5. ASSUME NEW x \in ones, \A n \in ones : x <= n PROVE x = m
  <2>1. x <= m /\ m <= x /\ x \in Nat /\ m \in Nat
    BY <1>3, <1>4, <1>5
  <2> QED
    BY <2>1, SMT
<1>6. Min(ones) = m
  BY <1>3, <1>4, <1>5, Zenon DEF Min
<1> QED
  BY <1>2, <1>3, <1>6 DEF ones, Zeros

(* SCH1L, ADD of -1 and SHL by the register.                                 *)
LEMMA NormalisedOn ==
  ASSUME code = Normalise, start.r[1] # 0, Next, running, Started
  PROVE  /\ AtStart => pc' = 4 /\ Counted(Zeros + 1)'
         /\ pc = 4 /\ Counted(Zeros + 1) => pc' = 6 /\ Counted(Zeros)'
         /\ pc = 6 /\ Counted(Zeros) => pc' = 10 /\ "s" \in psw' /\ r'[1] = start.r[1] * 2 ^ r'[2]
<1> DEFINE s == start.r
           m == Zeros
<1>1. Word(0 + 4) = 4 /\ Word(4 + 2) = 6 /\ Word(6 + 4) = 10 /\ {0, 1, 2} \subseteq Regs
  BY SmallWords, NamedRegs, SMT
<1>2. start' = start
  BY StepKeeps, Zenon DEF Same
<1>3. s \in [Regs -> Words] /\ s[0] = 0 /\ s[1] \in Words
  BY <1>1, SMT DEF Started
<1>4. Zeros' = Zeros
  BY <1>2, Zenon DEF Zeros
<1>5. /\ m \in Counts /\ s[1] * 2 ^ m \in SignBit .. Modulus - 1
      /\ {n \in Counts : Bit(s[1], Width - 1 - n) = 1} # {}
  BY ZerosOfWord
<1> DEFINE ones == {n \in Counts : Bit(s[1], Width - 1 - n) = 1}
<1>6. Min(ones) = m
  BY DEF Zeros
<1> HIDE DEF m, ones
<1>7. m \in Words /\ m + 1 \in Words /\ m \in Nat
  <2>1. m \in Nat /\ m + 1 \in 0 .. Width /\ Width \in 0 .. Width /\ Width - Width = 0
    BY <1>5, CoreAssumption, SMT DEF Counts
  <2>2. Modulus = 2 ^ Width * 2 ^ 0 /\ 2 ^ Width \in Nat \ {0}
    BY <2>1, Parts
  <2>3. 2 ^ 0 = 1 /\ Width < 2 ^ Width
    BY <2>1, CountsAreWords, SMT
  <2>4. Width < Modulus
    BY <2>2, <2>3, SMT
  <2> QED
    BY <2>1, <2>4, Sizes, SMT DEF Words
<1>8. ASSUME AtStart PROVE pc' = 4 /\ Counted(m + 1)'
  <2>1. pc = 0 /\ pc \in DOMAIN code /\ ins = On3("sch1l", 0, 1, 2) /\ r = s
    BY <1>8, ShiftingCode, SMT DEF AtStart, ins
  <2>2. ins.op = "sch1l" /\ ins.reg2 = 1 /\ ins.reg3 = 2
    BY <2>1, Fields
  <2>3. FromLeft(1) = ones
    BY <2>1, <2>2, Zenon DEF FromLeft, Counts, R2, ones
  <2>4. ones # {}
    BY <1>5 DEF ones
  <2>5. Search(ones)
    BY <2>1, <2>2, <2>3, Dispatch, Zenon DEF Sch1l
  <2>6. \E changes : Result(2, m + 1, changes, 4)
    BY <1>6, <2>2, <2>4, <2>5, Zenon DEF Search
  <2>7. r' = [n \in Regs |-> IF n # 0 /\ n = 2 THEN m + 1 ELSE r[n]] /\ pc' = Word(pc + 4)
    <3>1. 2 \in Regs /\ r \in [Regs -> Words] /\ r[0] = 0
      BY <1>1, <1>3, <2>1, SMT
    <3> QED
      BY <2>6, <3>1, ResultWrites, Zenon
  <2>8. r' \in [Regs -> Words] /\ r'[0] = 0 /\ r'[1] = s[1] /\ r'[2] = m + 1
    BY <1>1, <1>3, <1>7, <2>1, <2>7, SMT
  <2> QED
    BY <1>1, <1>2, <1>4, <2>1, <2>7, <2>8 DEF Counted, m
<1>9. ASSUME pc = 4, Counted(m + 1) PROVE pc' = 6 /\ Counted(m)'
  <2>1. pc \in DOMAIN code /\ ins = WithImm("add_2", MinusOne, 2)
    BY <1>9, ShiftingCode, SMT DEF ins
  <2>2. ins.op = "add_2" /\ ins.imm = MinusOne /\ ins.reg2 = 2
    BY <2>1, Fields
  <2>3. Word(ShortImm) = Modulus - 1
    BY <2>2, MinusOneExtended DEF ShortImm
  <2>4. \E changes : Result(2, Word((m + 1) + (Modulus - 1) + 0), changes, 2)
    BY <1>9, <2>1, <2>2, <2>3, Dispatch, Zenon DEF Add_2, Sum, R2, Counted
  <2>5. Word((m + 1) + (Modulus - 1) + 0) = m
    <3>1. (m + 1) + (Modulus - 1) + 0 = m + Modulus /\ m + Modulus \in Int
          /\ m + Modulus \in Modulus .. 2 * Modulus - 1 /\ (m + Modulus) - Modulus = m
      BY <1>7, Sizes, SMT DEF Words
    <3> QED
      BY <3>1, TurnOfWord
  <2>6. \E changes : Result(2, m, changes, 2)
    BY <2>4, <2>5
  <2>7. r' = [n \in Regs |-> IF n # 0 /\ n = 2 THEN m ELSE r[n]] /\ pc' = Word(pc + 2)
    <3>1. 2 \in Regs /\ r \in [Regs -> Words] /\ r[0] = 0
      BY <1>1, <1>9 DEF Counted
    <3> QED
      BY <2>6, <3>1, ResultWrites, Zenon
  <2>8. r' \in [Regs -> Words] /\ r'[0] = 0 /\ r'[1] = s[1] /\ r'[2] = m
    BY <1>1, <1>7, <1>9, <2>7, SMT DEF Counted
  <2> QED
    BY <1>1, <1>2, <1>4, <1>9, <2>7, <2>8 DEF Counted, m
<1>10. ASSUME pc = 6, Counted(m)
       PROVE  pc' = 10 /\ "s" \in psw' /\ r'[1] = s[1] * 2 ^ r'[2]
  <2>1. pc \in DOMAIN code /\ ins = On("shl_9", 2, 1)
    BY <1>10, ShiftingCode, SMT DEF ins
  <2>2. ins.op = "shl_9" /\ ins.reg1 = 2 /\ ins.reg2 = 1
    BY <2>1, Fields
  <2>3. ByR1 = m
    BY <1>5, <1>10, <2>2, CountOfShift DEF ByR1, R1, Counted
  <2> DEFINE w == s[1] * 2 ^ m
  <2>4. \E cy : Shift(1, ShiftLeft(s[1], m), cy, 4)
    BY <1>10, <2>1, <2>2, <2>3, Dispatch, Zenon DEF Shl_9, R2, Counted
  <2>5. ShiftLeft(s[1], m) = w /\ Negative(w)
    <3>1. w \in SignBit .. Modulus - 1
      BY <1>5
    <3> HIDE DEF w
    <3>2. w \in Int /\ w \in 0 .. Modulus - 1
      BY <3>1, AluAssumption, SMT DEF Modulus
    <3>3. Word(w) = w
      BY <3>2, TurnOfWord
    <3>4. Negative(w)
      BY <3>1, AluAssumption, SMT DEF Negative, Signed, Modulus
    <3> QED
      BY <3>3, <3>4 DEF ShiftLeft, w
  <2> HIDE DEF w
  <2>6. PICK cy : Shift(1, w, cy, 4)
    BY <2>4, <2>5
  <2>7. /\ r' = [n \in Regs |-> IF n # 0 /\ n = 1 THEN w ELSE r[n]]
        /\ r'[1] = w /\ "s" \in psw' /\ pc' = Word(pc + 4)
    <3>1. 1 \in Regs /\ 1 # 0 /\ 1 = ins.reg2 /\ r \in [Regs -> Words] /\ r[0] = 0
      BY <1>1, <1>10, <2>2 DEF Counted
    <3> QED
      <4>1. r' = [n \in Regs |-> IF n # 0 /\ n = 1 THEN w ELSE r[n]]
        BY <2>6, <3>1, ShiftWrites, Zenon
      <4>2. r'[1] = w
        BY <3>1, <4>1, Zenon
      <4>3. pc' = Word(pc + 4)
        BY <2>6, Zenon DEF Shift, Result, Advance, Goto, MovesTo, Proceed
      <4>4. "s" \in psw' <=> Negative(w)
        BY <2>6, <3>1, ShiftWrites, Zenon
      <4> QED
        BY <2>5, <4>1, <4>2, <4>3, <4>4
  <2>8. r'[2] = m
    BY <1>1, <1>10, <2>7, SMT DEF Counted
  <2> QED
    BY <1>1, <1>10, <2>7, <2>8 DEF w
<1> QED
  BY <1>4, <1>8, <1>9, <1>10 DEF m

(* What does not fit a word leaves it as the instruction says, at its ends   *)
(* or bit by bit (op_exec_sat.c, op_exec_logic.c): for words of every size,  *)
(* operands and counts with every value, and whatever the flags before (the  *)
(* one program that asks for SAT starts without it, StartsUnsaturated).      *)
THEOREM WhatFitsTheWord == Spec => []FitsTheWord
<1> DEFINE Backs    == {"shr_2", "sar_2"}
           Shifting2 == \A back \in Backs, k \in Counts : ShiftedSoFar(back, k)
           IInv     == Started /\ SaturatesSoFar /\ Shifting2 /\ NormalisedSoFar
<1>1. Init => IInv
  <2>1. Init => Started /\ AtStart /\ SaturatesSoFar
    BY StartsAtZero, SaturatesInduct
  <2> QED
    BY <2>1, Zenon DEF ShiftedSoFar, NormalisedSoFar
<1>2. IInv /\ [Next]_vars => IInv'
  <2> SUFFICES ASSUME IInv, [Next]_vars PROVE IInv'
    OBVIOUS
  <2>1. Started' /\ code' = code /\ start' = start
    BY StartedStays, Zenon DEF Same
  <2>2. SaturatesSoFar'
    BY SaturatesInduct
  <2>3. ASSUME NEW back \in Backs, NEW k \in Counts PROVE ShiftedSoFar(back, k)'
    <3>1. CASE UNCHANGED vars
      BY <2>3, <3>1, Zenon DEF vars, ShiftedSoFar, AtStart, Shifted
    <3>2. CASE Next /\ ~ (running /\ pc \in DOMAIN code)
      BY <3>1, <3>2, EndedStays
    <3>3. CASE Next /\ running /\ pc \in DOMAIN code
      <4>1. ASSUME code = ShiftThere(back, k)
            PROVE  \/ /\ pc' = 2 /\ r' \in [Regs -> Words] /\ r'[0] = 0
                      /\ r'[1] = ShiftLeft(start.r[1], k)
                   \/ /\ pc' = 4
                      /\ IF back = "sar_2" THEN Signed(r'[1]) = Extend(Width - k, start.r[1])
                         ELSE r'[1] = Low(Width - k, start.r[1])
        <5>1. pc = 0 \/ pc = 2
          BY <3>3, <4>1, ShiftingCode, SMT
        <5>2. AtStart \/ (pc = 2 /\ r \in [Regs -> Words] /\ r[0] = 0 /\ r[1] = ShiftLeft(start.r[1], k))
          <6>1. ShiftedSoFar(back, k)
            BY <2>3
          <6>2. pc # 4
            BY <5>1, SMT
          <6> QED
            BY <4>1, <6>1, <6>2, Zenon DEF ShiftedSoFar
        <5> QED
          BY <2>3, <3>3, <4>1, <5>2, ShiftedOn
      <4> QED
        BY <2>1, <4>1, Zenon DEF ShiftedSoFar, Shifted
    <3> QED
      BY <3>1, <3>2, <3>3
  <2>4. NormalisedSoFar'
    <3>1. Zeros' = Zeros
      BY <2>1, Zenon DEF Zeros
    <3>2. CASE UNCHANGED vars
      BY <3>1, <3>2, Zenon DEF vars, NormalisedSoFar, AtStart, Counted
    <3>3. CASE Next /\ ~ (running /\ pc \in DOMAIN code)
      BY <3>2, <3>3, EndedStays
    <3>4. CASE Next /\ running /\ pc \in DOMAIN code
      <4>1. ASSUME code = Normalise, start.r[1] # 0
            PROVE  \/ pc' = 4 /\ Counted(Zeros + 1)'
                   \/ pc' = 6 /\ Counted(Zeros)'
                   \/ pc' = 10 /\ "s" \in psw' /\ r'[1] = start.r[1] * 2 ^ r'[2]
        <5>1. pc # 10
          BY <3>4, <4>1, ShiftingCode, SMT
        <5> QED
          BY <3>4, <4>1, <5>1, NormalisedOn DEF NormalisedSoFar
      <4> QED
        BY <2>1, <4>1, Zenon DEF NormalisedSoFar
    <3> QED
      BY <3>2, <3>3, <3>4
  <2> QED
    BY <2>1, <2>2, <2>3, <2>4
<1>3. IInv => FitsTheWord
  <2> SUFFICES ASSUME IInv PROVE FitsTheWord
    OBVIOUS
  <2>1. SaturatesAtTheEnds
    BY SaturatesInduct
  <2>2. ASSUME NEW k \in Counts
        PROVE  /\ Ran(ShiftThere("sar_2", k)) => Signed(r[1]) = Extend(Width - k, start.r[1])
               /\ Ran(ShiftThere("shr_2", k)) => r[1] = Low(Width - k, start.r[1])
    <3>1. \A back : Ran(ShiftThere(back, k)) => code = ShiftThere(back, k) /\ pc # 0 /\ pc # 2
      BY ShiftingCode, SMT DEF Ran
    <3>2. "sar_2" \in Backs /\ "shr_2" \in Backs /\ "shr_2" # "sar_2"
      OBVIOUS
    <3> QED
      BY <2>2, <3>1, <3>2, Zenon DEF ShiftedSoFar, Shifted, AtStart
  <2>3. ASSUME Ran(Normalise), start.r[1] # 0
        PROVE  "s" \in psw /\ r[1] = start.r[1] * 2 ^ r[2]
    <3>1. code = Normalise /\ pc # 0 /\ pc # 4 /\ pc # 6
      BY <2>3, ShiftingCode, SMT DEF Ran
    <3> QED
      BY <2>3, <3>1, Zenon DEF NormalisedSoFar, AtStart
  <2> QED
    BY <2>1, <2>2, <2>3, Zenon DEF FitsTheWord, ShiftsCompose
<1> QED
  BY <1>1, <1>2, <1>3, PTL DEF Spec

----------------------------------------------------------------------------
(* FPSR and its mirrors.                                                     *)

(* The registers of a bank of which FPST, FPCC and FPCFG show what FPSR has. *)
Shown(cc, xc, xp, rm, xe, flushed) ==
  [FPSR  |-> [cc |-> cc, xc |-> xc, xp |-> xp, rm |-> rm, xe |-> xe, if |-> flushed],
   FPST  |-> [xc |-> xc, xp |-> xp, if |-> flushed],
   FPCC  |-> [cc |-> cc],
   FPCFG |-> [rm |-> rm, xe |-> xe]]

IsShown(regs) ==
  \E cc, xc, xp, rm, xe, flushed : regs = Shown(cc, xc, xp, rm, xe, flushed)

FpuState(group, bank, exact, regs) ==
  [group |-> group, bank |-> bank, exact |-> exact, regs |-> regs]

IsFpuState(state) ==
  /\ state = FpuState(state.group, state.bank, state.exact, [b \in Banks |-> state.regs[b]])
  /\ state.bank \in Banks

Mirrored(state) == IsFpuState(state) /\ \A b \in Banks : IsShown(state.regs[b])

(* The registers of the selected bank are replaced, and nothing else.        *)
Replaced(state, regs) == [state EXCEPT !.regs[state.bank] = regs]

(* What remains a state, and which parts of it stay.                         *)
LEMMA ReplacedState ==
  ASSUME NEW state, IsFpuState(state), NEW regs
  PROVE  /\ IsFpuState(Replaced(state, regs))
         /\ Replaced(state, regs).group = state.group
         /\ Replaced(state, regs).bank = state.bank
         /\ Replaced(state, regs).exact = state.exact
         /\ \A b \in Banks : b # state.bank => Replaced(state, regs).regs[b] = state.regs[b]
         /\ Replaced(state, regs).regs[state.bank] = regs
         /\ Replaced(state, regs) = FpuState(state.group, state.bank, state.exact,
                                [b \in Banks |-> IF b = state.bank THEN regs ELSE state.regs[b]])
<1> DEFINE group == state.group
           bank  == state.bank
           exact == state.exact
           all   == state.regs
           now   == [b \in Banks |-> IF b = bank THEN regs ELSE all[b]]
           after == Replaced(state, regs)
<1>1. state = FpuState(group, bank, exact, all) /\ all = [b \in Banks |-> all[b]] /\ bank \in Banks
  BY SMT DEF IsFpuState, FpuState
<1> HIDE DEF group, exact, all, bank
<1>2. [state EXCEPT !.regs[bank] = regs] = FpuState(group, bank, exact, [all EXCEPT ![bank] = regs])
  BY <1>1, SMT DEF FpuState
<1>3. [all EXCEPT ![bank] = regs] = now
  BY <1>1, SMT
<1>4. after = FpuState(group, bank, exact, now)
  BY <1>2, <1>3 DEF bank, Replaced
<1>5. now = [b \in Banks |-> now[b]]
  OBVIOUS
<1>6. \A b \in Banks : b # bank => now[b] = all[b]
  OBVIOUS
<1>7. now[bank] = regs
  BY <1>1
<1> HIDE DEF after, now
<1>8. after.group = group /\ after.bank = bank /\ after.exact = exact /\ after.regs = now
  BY <1>4, SMT DEF FpuState
<1>9. IsFpuState(after)
  BY <1>1, <1>4, <1>5, <1>8, Zenon DEF IsFpuState
<1> QED
  BY <1>4, <1>6, <1>7, <1>8, <1>9, Zenon DEF after, now, group, bank, exact, all

(* The same without the other banks.                                         *)
LEMMA BankReplaced ==
  ASSUME NEW state, IsFpuState(state), NEW regs
  PROVE  /\ IsFpuState(Replaced(state, regs))
         /\ Replaced(state, regs).group = state.group
         /\ Replaced(state, regs).bank = state.bank
         /\ Replaced(state, regs).exact = state.exact
         /\ Replaced(state, regs).regs[state.bank] = regs
BY ReplacedState

(* A bank that is not selected keeps its registers.                          *)
LEMMA OtherBanks ==
  ASSUME NEW state, IsFpuState(state), NEW regs, NEW b \in Banks, b # state.bank
  PROVE  Replaced(state, regs).regs[b] = state.regs[b]
<1> DEFINE now == [c \in Banks |-> IF c = state.bank THEN regs ELSE state.regs[c]]
<1>1. Replaced(state, regs) = FpuState(state.group, state.bank, state.exact, now)
  BY ReplacedState
<1>2. now[b] = state.regs[b]
  OBVIOUS
<1> HIDE DEF now
<1>3. Replaced(state, regs).regs = now
  BY <1>1, SMT DEF FpuState
<1> QED
  BY <1>2, <1>3

(* So the mirrors agree if they do in what is written.                       *)
LEMMA MirrorsKept ==
  ASSUME NEW state, Mirrored(state), NEW regs, IsShown(regs)
  PROVE  Mirrored(Replaced(state, regs))
<1>1. IsFpuState(state) /\ \A b \in Banks : IsShown(state.regs[b])
  BY Zenon DEF Mirrored
<1>2. IsFpuState(Replaced(state, regs))
  BY <1>1, BankReplaced
<1>3. ASSUME NEW b \in Banks PROVE IsShown(Replaced(state, regs).regs[b])
  <2>1. CASE b = state.bank
    <3>1. Replaced(state, regs).regs[b] = regs
      BY <1>1, <2>1, BankReplaced
    <3> QED
      BY <3>1
  <2>2. CASE b # state.bank
    <3>1. Replaced(state, regs).regs[b] = state.regs[b]
      BY <1>1, <2>2, OtherBanks
    <3> QED
      BY <1>1, <3>1
  <2> QED
    BY <2>1, <2>2
<1> QED
  BY <1>2, <1>3, Zenon DEF Mirrored

(* What is replaced a second time might not have been replaced before.       *)
LEMMA ReplacedAgain ==
  ASSUME NEW state, IsFpuState(state), NEW regs, NEW again
  PROVE  Replaced(Replaced(state, regs), again) = Replaced(state, again)
<1> DEFINE first == Replaced(state, regs)
           at(x) == [b \in Banks |-> IF b = state.bank THEN x ELSE state.regs[b]]
<1>1. /\ IsFpuState(first) /\ first.group = state.group /\ first.bank = state.bank
      /\ first.exact = state.exact
  BY BankReplaced
<1>2. ASSUME NEW b \in Banks, b # state.bank PROVE first.regs[b] = state.regs[b]
  BY <1>2, OtherBanks
<1>3. Replaced(state, again) = FpuState(state.group, state.bank, state.exact, at(again))
  BY ReplacedState
<1> HIDE DEF first
<1>4. Replaced(first, again) = FpuState(first.group, first.bank, first.exact,
        [b \in Banks |-> IF b = first.bank THEN again ELSE first.regs[b]])
  BY <1>1, ReplacedState
<1>5. [b \in Banks |-> IF b = first.bank THEN again ELSE first.regs[b]] = at(again)
  BY <1>1, <1>2, SMT
<1> QED
  BY <1>1, <1>3, <1>4, <1>5 DEF first

(* The registers of a bank of which FPSR may differ from FPST.               *)
Apart(cc, xc, xp, rm, xe, flushed, stc, stp, sti, fc, cfg) ==
  [FPSR |-> [cc |-> cc, xc |-> xc, xp |-> xp, rm |-> rm, xe |-> xe, if |-> flushed],
   FPST |-> [xc |-> stc, xp |-> stp, if |-> sti], FPCC |-> fc, FPCFG |-> cfg]

(* What is raised is added to what FPST has, and FPSR has the sum too.       *)
LEMMA RaiseReplaces ==
  ASSUME IsFpuState(fpu), NEW raised, raised # {},
         NEW cc, NEW xc, NEW xp, NEW rm, NEW xe, NEW flushed, NEW stc, NEW stp, NEW sti, NEW fc, NEW cfg,
         Selected = Apart(cc, xc, xp, rm, xe, flushed, stc, stp, sti, fc, cfg)
  PROVE  Raise(raised) = Replaced(fpu, Apart(cc, stc \cup raised, stp \cup raised, rm, xe, flushed,
                                             stc \cup raised, stp \cup raised, sti, fc, cfg))
<1> DEFINE bank == fpu.bank
           u    == stc \cup raised
           v    == stp \cup raised
           now(s, t) == [FPSR |-> s, FPST |-> t, FPCC |-> fc, FPCFG |-> cfg]
           sr(x, y)  == [cc |-> cc, xc |-> x, xp |-> y, rm |-> rm, xe |-> xe, if |-> flushed]
           fst(x, y) == [xc |-> x, xp |-> y, if |-> sti]
           A0 == now(sr(xc, xp), fst(stc, stp))
           A1 == now(sr(u, xp), fst(stc, stp))
           A2 == now(sr(u, v), fst(stc, stp))
           A3 == now(sr(u, v), fst(u, stp))
           A4 == now(sr(u, v), fst(u, v))
           S1 == [fpu EXCEPT !.regs[bank].FPSR.xc = u]
           S2 == [S1 EXCEPT !.regs[bank].FPSR.xp = v]
           S3 == [S2 EXCEPT !.regs[bank].FPST.xc = u]
           S4 == [S3 EXCEPT !.regs[bank].FPST.xp = v]
<1>1. fpu.regs[bank] = A0 /\ Selected.FPST.xc = stc /\ Selected.FPST.xp = stp
  BY SMT DEF Selected, Apart
<1> HIDE DEF u, v
<1>2. Raise(raised) = S4
  BY <1>1, Zenon DEF Raise, u, v
<1>3. /\ [A0 EXCEPT !.FPSR.xc = u] = A1
      /\ [A1 EXCEPT !.FPSR.xp = v] = A2
      /\ [A2 EXCEPT !.FPST.xc = u] = A3
      /\ [A3 EXCEPT !.FPST.xp = v] = A4
  BY SMT
<1> HIDE DEF A0, A1, A2, A3, A4
<1>4. /\ S1 = [fpu EXCEPT !.regs[bank] = [fpu.regs[bank] EXCEPT !.FPSR.xc = u]]
      /\ S2 = [S1 EXCEPT !.regs[bank] = [S1.regs[bank] EXCEPT !.FPSR.xp = v]]
      /\ S3 = [S2 EXCEPT !.regs[bank] = [S2.regs[bank] EXCEPT !.FPST.xc = u]]
      /\ S4 = [S3 EXCEPT !.regs[bank] = [S3.regs[bank] EXCEPT !.FPST.xp = v]]
  OBVIOUS
<1> HIDE DEF S1, S2, S3, S4
<1>5. S1 = Replaced(fpu, A1)
  BY <1>1, <1>3, <1>4 DEF Replaced
<1>6. ASSUME NEW x
      PROVE  /\ IsFpuState(Replaced(fpu, x))
             /\ Replaced(fpu, x).bank = bank
             /\ Replaced(fpu, x).regs[bank] = x
  BY BankReplaced
<1>7. ASSUME NEW x, NEW y, NEW s, s = Replaced(fpu, x)
      PROVE  [s EXCEPT !.regs[bank] = y] = Replaced(fpu, y)
  <2>1. s.bank = bank
    BY <1>6, <1>7
  <2>2. Replaced(s, y) = Replaced(fpu, y)
    BY <1>7, ReplacedAgain
  <2> QED
    BY <2>1, <2>2 DEF Replaced
<1> HIDE DEF bank
<1>9. S2 = Replaced(fpu, A2)
  <2>1. S1.regs[bank] = A1
    BY <1>5, <1>6
  <2>2. S2 = [S1 EXCEPT !.regs[bank] = A2]
    BY <1>3, <1>4, <2>1
  <2> QED
    BY <1>5, <1>7, <2>2
<1>10. S3 = Replaced(fpu, A3)
  <2>1. S2.regs[bank] = A2
    BY <1>9, <1>6
  <2>2. S3 = [S2 EXCEPT !.regs[bank] = A3]
    BY <1>3, <1>4, <2>1
  <2> QED
    BY <1>9, <1>7, <2>2
<1>11. S4 = Replaced(fpu, A4)
  <2>1. S3.regs[bank] = A3
    BY <1>10, <1>6
  <2>2. S4 = [S3 EXCEPT !.regs[bank] = A4]
    BY <1>3, <1>4, <2>1
  <2> QED
    BY <1>10, <1>7, <2>2
<1> QED
  BY <1>2, <1>11, Zenon DEF A4, u, v, Apart

(* So the mirrors agree after it.                                            *)
LEMMA RaiseMirrors ==
  ASSUME Mirrored(fpu), NEW raised
  PROVE  /\ Mirrored(Raise(raised))
         /\ Raise(raised).group = fpu.group
         /\ Raise(raised).bank = fpu.bank
         /\ Raise(raised).exact = fpu.exact
<1>1. CASE raised = {}
  BY <1>1, Zenon DEF Raise
<1>2. CASE raised # {}
  <2>1. IsFpuState(fpu) /\ IsShown(Selected)
    BY Zenon DEF Mirrored, Selected, IsFpuState
  <2>2. PICK cc, xc, xp, rm, xe, flushed : Selected = Shown(cc, xc, xp, rm, xe, flushed)
    BY <2>1, Zenon DEF IsShown
  <2> DEFINE regs == Shown(cc, xc \cup raised, xp \cup raised, rm, xe, flushed)
  <2>3. Raise(raised) = Replaced(fpu, regs)
    <3> DEFINE fc  == [cc |-> cc]
               cfg == [rm |-> rm, xe |-> xe]
    <3>1. \A x, p : Shown(cc, x, p, rm, xe, flushed)
            = Apart(cc, x, p, rm, xe, flushed, x, p, flushed, fc, cfg)
      BY DEF Shown, Apart
    <3> HIDE DEF fc, cfg
    <3>2. Selected = Apart(cc, xc, xp, rm, xe, flushed, xc, xp, flushed, fc, cfg)
      BY <2>2, <3>1
    <3>3. Raise(raised) = Replaced(fpu, Apart(cc, xc \cup raised, xp \cup raised, rm, xe, flushed,
                                              xc \cup raised, xp \cup raised, flushed, fc, cfg))
      BY <1>2, <2>1, <3>2, RaiseReplaces
    <3> QED
      BY <3>1, <3>3
  <2>4. IsShown(regs)
    BY Zenon DEF IsShown
  <2> HIDE DEF regs
  <2> QED
    BY <2>1, <2>3, <2>4, MirrorsKept, BankReplaced
<1> QED
  BY <1>1, <1>2

(* CMPF writes the condition bits of FPSR and of FPCC.                       *)
LEMMA WithConditionReplaces ==
  ASSUME NEW state, IsFpuState(state), state.bank = fpu.bank, NEW cc,
         NEW old, NEW xc, NEW xp, NEW rm, NEW xe, NEW flushed,
         state.regs[state.bank] = Shown(old, xc, xp, rm, xe, flushed)
  PROVE  WithCondition(state, cc) = Replaced(state, Shown(cc, xc, xp, rm, xe, flushed))
<1> DEFINE bank == fpu.bank
           S1 == [state EXCEPT !.regs[bank].FPSR.cc = cc]
           S2 == [S1 EXCEPT !.regs[bank].FPCC.cc = cc]
           half == [FPSR  |-> [cc |-> cc, xc |-> xc, xp |-> xp, rm |-> rm, xe |-> xe, if |-> flushed],
                    FPST  |-> [xc |-> xc, xp |-> xp, if |-> flushed],
                    FPCC  |-> [cc |-> old],
                    FPCFG |-> [rm |-> rm, xe |-> xe]]
           regs == Shown(cc, xc, xp, rm, xe, flushed)
<1>1. state.regs[bank] = Shown(old, xc, xp, rm, xe, flushed) /\ state.bank = bank
  OBVIOUS
<1>2. /\ [Shown(old, xc, xp, rm, xe, flushed) EXCEPT !.FPSR.cc = cc] = half
      /\ [half EXCEPT !.FPCC.cc = cc] = regs
  BY SMT DEF Shown
<1>3. WithCondition(state, cc) = S2
  BY DEF WithCondition
<1>4. /\ S1 = [state EXCEPT !.regs[bank] = [state.regs[bank] EXCEPT !.FPSR.cc = cc]]
      /\ S2 = [S1 EXCEPT !.regs[bank] = [S1.regs[bank] EXCEPT !.FPCC.cc = cc]]
  OBVIOUS
<1> HIDE DEF S1, S2, bank, half, regs
<1>5. S1 = Replaced(state, half)
  BY <1>1, <1>2, <1>4 DEF Replaced
<1>6. S1.regs[bank] = half /\ S1.bank = bank
  BY <1>1, <1>5, BankReplaced, Zenon
<1>7. S2 = Replaced(S1, regs)
  BY <1>2, <1>4, <1>6 DEF Replaced
<1>8. S2 = Replaced(state, regs)
  BY <1>5, <1>7, ReplacedAgain
<1> QED
  BY <1>3, <1>8 DEF regs

(* So the mirrors agree after it.                                            *)
LEMMA WithConditionMirrors ==
  ASSUME NEW state, Mirrored(state), state.bank = fpu.bank, NEW cc
  PROVE  /\ Mirrored(WithCondition(state, cc))
         /\ WithCondition(state, cc).group = state.group
         /\ WithCondition(state, cc).exact = state.exact
<1>1. IsFpuState(state) /\ IsShown(state.regs[state.bank])
  BY Zenon DEF Mirrored, IsFpuState
<1>2. PICK old, xc, xp, rm, xe, flushed : state.regs[state.bank] = Shown(old, xc, xp, rm, xe, flushed)
  BY <1>1, Zenon DEF IsShown
<1> DEFINE regs == Shown(cc, xc, xp, rm, xe, flushed)
<1>3. WithCondition(state, cc) = Replaced(state, regs)
  BY <1>1, <1>2, WithConditionReplaces
<1>4. IsShown(regs)
  BY Zenon DEF IsShown
<1> HIDE DEF regs
<1> QED
  BY <1>1, <1>3, <1>4, MirrorsKept, BankReplaced

(* What is written to a mirror is copied to FPSR.                            *)
LEMMA SyncedShown ==
  ASSUME NEW regs, IsShown(regs), NEW v
  PROVE  /\ v \in [xc : SUBSET Exceptions, xp : SUBSET Exceptions, if : BOOLEAN] =>
              IsShown(Synced([regs EXCEPT !["FPST"] = v], "FPST"))
         /\ v \in [cc : SUBSET (0 .. 7)] => IsShown(Synced([regs EXCEPT !["FPCC"] = v], "FPCC"))
         /\ v \in [rm : 0 .. 3, xe : SUBSET Exceptions] =>
              IsShown(Synced([regs EXCEPT !["FPCFG"] = v], "FPCFG"))
<1>1. PICK cc, xc, xp, rm, xe, flushed : regs = Shown(cc, xc, xp, rm, xe, flushed)
  BY Zenon DEF IsShown
<1> DEFINE sr(c, x, y, m, e, i) == [cc |-> c, xc |-> x, xp |-> y, rm |-> m, xe |-> e, if |-> i]
           now(s, t, c, g)      == [FPSR |-> s, FPST |-> t, FPCC |-> c, FPCFG |-> g]
           st  == [xc |-> xc, xp |-> xp, if |-> flushed]
           cfg == [rm |-> rm, xe |-> xe]
           old == sr(cc, xc, xp, rm, xe, flushed)
<1>2. regs = now(old, st, [cc |-> cc], cfg)
  BY <1>1 DEF Shown
<1>3. ASSUME v \in [xc : SUBSET Exceptions, xp : SUBSET Exceptions, if : BOOLEAN]
      PROVE  IsShown(Synced([regs EXCEPT !["FPST"] = v], "FPST"))
  <2>1. PICK x, y, i : v = [xc |-> x, xp |-> y, if |-> i]
    BY <1>3, SMT
  <2> DEFINE from == now(old, v, [cc |-> cc], cfg)
  <2>2. [regs EXCEPT !["FPST"] = v] = from
    BY <1>2, SMT
  <2>3. from.FPST.xc = x /\ from.FPST.xp = y /\ from.FPST.if = i
    BY <2>1, SMT
  <2>4. /\ [from EXCEPT !.FPSR.xc = x] = now(sr(cc, x, xp, rm, xe, flushed), v, [cc |-> cc], cfg)
        /\ [now(sr(cc, x, xp, rm, xe, flushed), v, [cc |-> cc], cfg) EXCEPT !.FPSR.xp = y]
              = now(sr(cc, x, y, rm, xe, flushed), v, [cc |-> cc], cfg)
        /\ [now(sr(cc, x, y, rm, xe, flushed), v, [cc |-> cc], cfg) EXCEPT !.FPSR.if = i]
              = now(sr(cc, x, y, rm, xe, i), v, [cc |-> cc], cfg)
    BY SMT
  <2>5. now(sr(cc, x, y, rm, xe, i), v, [cc |-> cc], cfg) = Shown(cc, x, y, rm, xe, i)
    BY <2>1 DEF Shown
  <2> HIDE DEF from
  <2>6. Synced(from, "FPST") = [from EXCEPT !.FPSR.xc = x, !.FPSR.xp = y, !.FPSR.if = i]
    BY <2>3, Zenon DEF Synced
  <2> HIDE DEF now, sr, cfg
  <2>7. [from EXCEPT !.FPSR.xc = x, !.FPSR.xp = y, !.FPSR.if = i] = Shown(cc, x, y, rm, xe, i)
    BY <2>4, <2>5
  <2>8. IsShown(Shown(cc, x, y, rm, xe, i))
    BY Zenon DEF IsShown
  <2> QED
    BY <2>2, <2>6, <2>7, <2>8
<1>4. ASSUME v \in [cc : SUBSET (0 .. 7)]
      PROVE  IsShown(Synced([regs EXCEPT !["FPCC"] = v], "FPCC"))
  <2>1. PICK c : v = [cc |-> c]
    BY <1>4, SMT
  <2> DEFINE from == now(old, st, v, cfg)
  <2>2. [regs EXCEPT !["FPCC"] = v] = from
    BY <1>2, SMT
  <2>3. from.FPCC.cc = c
    BY <2>1, SMT
  <2>4. [from EXCEPT !.FPSR.cc = c] = now(sr(c, xc, xp, rm, xe, flushed), st, v, cfg)
    BY SMT
  <2>5. now(sr(c, xc, xp, rm, xe, flushed), st, v, cfg) = Shown(c, xc, xp, rm, xe, flushed)
    BY <2>1 DEF Shown
  <2> HIDE DEF from
  <2>6. Synced(from, "FPCC") = [from EXCEPT !.FPSR.cc = c]
    BY <2>3, Zenon DEF Synced
  <2>8. IsShown(Shown(c, xc, xp, rm, xe, flushed))
    BY Zenon DEF IsShown
  <2> QED
    BY <2>2, <2>4, <2>5, <2>6, <2>8
<1>5. ASSUME v \in [rm : 0 .. 3, xe : SUBSET Exceptions]
      PROVE  IsShown(Synced([regs EXCEPT !["FPCFG"] = v], "FPCFG"))
  <2>1. PICK m, e : v = [rm |-> m, xe |-> e]
    BY <1>5, SMT
  <2> DEFINE from == now(old, st, [cc |-> cc], v)
  <2>2. [regs EXCEPT !["FPCFG"] = v] = from
    BY <1>2, SMT
  <2>3. from.FPCFG.rm = m /\ from.FPCFG.xe = e
    BY <2>1, SMT
  <2>4. /\ [from EXCEPT !.FPSR.rm = m] = now(sr(cc, xc, xp, m, xe, flushed), st, [cc |-> cc], v)
        /\ [now(sr(cc, xc, xp, m, xe, flushed), st, [cc |-> cc], v) EXCEPT !.FPSR.xe = e]
              = now(sr(cc, xc, xp, m, e, flushed), st, [cc |-> cc], v)
    BY SMT
  <2>5. now(sr(cc, xc, xp, m, e, flushed), st, [cc |-> cc], v) = Shown(cc, xc, xp, m, e, flushed)
    BY <2>1 DEF Shown
  <2> HIDE DEF from
  <2>6. Synced(from, "FPCFG") = [from EXCEPT !.FPSR.rm = m, !.FPSR.xe = e]
    BY <2>3, Zenon DEF Synced
  <2> HIDE DEF now, sr, st
  <2>7. [from EXCEPT !.FPSR.rm = m, !.FPSR.xe = e] = Shown(cc, xc, xp, m, e, flushed)
    BY <2>4, <2>5
  <2>8. IsShown(Shown(cc, xc, xp, m, e, flushed))
    BY Zenon DEF IsShown
  <2> QED
    BY <2>2, <2>6, <2>7, <2>8
<1> QED
  BY <1>3, <1>4, <1>5

(* The group of floating point is only selected to be synchronised.          *)
Exact(state) == state.group = FpuGroup => state.exact

(* LDSR of a mirror keeps them in agreement.                                 *)
LEMMA LdsrMirrors ==
  ASSUME Mirrored(fpu), Exact(fpu), KeepsToMirrors(code), Ldsr
  PROVE  Mirrored(fpu') /\ Exact(fpu')
<1>1. CASE fpu.group # FpuGroup
  <2>1. fpu' = fpu
    BY <1>1, Zenon DEF Ldsr
  <2> QED
    BY <2>1
<1>2. CASE fpu.group = FpuGroup
  <2> DEFINE regs == Synced([Selected EXCEPT ![ins.reg] = ins.value], ins.reg)
  <2>1. fpu.exact
    BY <1>2 DEF Exact
  <2>2. fpu' = Replaced(fpu, regs)
    BY <1>2, <2>1, Zenon DEF Ldsr, Replaced, Selected
  <2>3. IsFpuState(fpu) /\ IsShown(Selected)
    BY Zenon DEF Mirrored, Selected, IsFpuState
  <2>4. \/ ins.reg = "FPST" /\ ins.value \in [xc : SUBSET Exceptions, xp : SUBSET Exceptions, if : BOOLEAN]
        \/ ins.reg = "FPCC" /\ ins.value \in [cc : SUBSET (0 .. 7)]
        \/ ins.reg = "FPCFG" /\ ins.value \in [rm : 0 .. 3, xe : SUBSET Exceptions]
    BY Zenon DEF KeepsToMirrors, Ldsr, Executes, ins
  <2>5. IsShown(regs)
    <3>1. CASE ins.reg = "FPST"
      <4>1. ins.value \in [xc : SUBSET Exceptions, xp : SUBSET Exceptions, if : BOOLEAN]
        BY <2>4, <3>1, SMT
      <4> QED
        BY <2>3, <3>1, <4>1, SyncedShown
    <3>2. CASE ins.reg = "FPCC"
      <4>1. ins.value \in [cc : SUBSET (0 .. 7)]
        BY <2>4, <3>2, SMT
      <4> QED
        BY <2>3, <3>2, <4>1, SyncedShown
    <3>3. CASE ins.reg = "FPCFG"
      <4>1. ins.value \in [rm : 0 .. 3, xe : SUBSET Exceptions]
        BY <2>4, <3>3, SMT
      <4> QED
        BY <2>3, <3>3, <4>1, SyncedShown
    <3> QED
      BY <2>4, <3>1, <3>2, <3>3
  <2> HIDE DEF regs
  <2>6. Mirrored(fpu')
    BY <2>2, <2>5, MirrorsKept
  <2>7. fpu'.exact = fpu.exact
    BY <2>2, <2>3, BankReplaced
  <2> QED
    BY <2>1, <2>6, <2>7 DEF Exact
<1> QED
  BY <1>1, <1>2

(* BSEL replaces all but the registers.                                      *)
LEMMA SelectedAnew ==
  ASSUME NEW state, NEW group, NEW bank, NEW exact,
         state = FpuState(state.group, state.bank, state.exact, state.regs)
  PROVE  [state EXCEPT !.group = group, !.bank = bank, !.exact = exact]
           = FpuState(group, bank, exact, state.regs)
<1> DEFINE S1 == [state EXCEPT !.group = group]
           S2 == [S1 EXCEPT !.bank = bank]
           S3 == [S2 EXCEPT !.exact = exact]
<1>1. S1 = FpuState(group, state.bank, state.exact, state.regs)
  BY SMT DEF FpuState
<1>2. [FpuState(group, state.bank, state.exact, state.regs) EXCEPT !.bank = bank]
        = FpuState(group, bank, state.exact, state.regs)
  BY SMT DEF FpuState
<1>3. [FpuState(group, bank, state.exact, state.regs) EXCEPT !.exact = exact]
        = FpuState(group, bank, exact, state.regs)
  BY SMT DEF FpuState
<1>4. S3 = [state EXCEPT !.group = group, !.bank = bank, !.exact = exact]
  OBVIOUS
<1> HIDE DEF S1
<1>5. S2 = FpuState(group, bank, state.exact, state.regs)
  BY <1>1, <1>2
<1> HIDE DEF S2
<1>6. S3 = FpuState(group, bank, exact, state.regs)
  BY <1>3, <1>5
<1> QED
  BY <1>4, <1>6

(* So BSEL leaves the mirrors alone.                                         *)
LEMMA BselMirrors ==
  ASSUME Mirrored(fpu), Bsel
  PROVE  Mirrored(fpu') /\ (ins.op = "ldsr_bsel" /\ (~ ins.reserved => Exact(fpu') \/ fpu' = fpu))
<1> DEFINE banks == BanksOf(ins.group)
           known == ins.group \in DOMAIN GroupOf /\ ins.bank \in Range(banks)
           group == GroupOf[ins.group]
           bank  == (CHOOSE k \in DOMAIN banks : banks[k] = ins.bank) - 1
           exact == ins.group = 32 /\ ~ ins.reserved
<1>1. ins.op = "ldsr_bsel"
  BY Zenon DEF Bsel, Executes
<1>2. CASE ~ known
  <2>1. Stop
    BY <1>2, Zenon DEF Bsel
  <2> QED
    BY <1>1, <2>1 DEF Stop
<1>3. CASE known
  <2>1. fpu' = [fpu EXCEPT !.group = group, !.bank = bank, !.exact = exact]
    BY <1>3, Zenon DEF Bsel
  <2>2. bank \in Banks
    BY <1>3, BankOfBsel
  <2>3. group = FpuGroup => ins.group = 32
    BY <1>3, SMT DEF GroupOf, FpuGroup
  <2> HIDE DEF group, bank, banks, known
  <2>4. fpu' = FpuState(group, bank, exact, fpu.regs)
    <3>1. fpu = FpuState(fpu.group, fpu.bank, fpu.exact, [b \in Banks |-> fpu.regs[b]])
      BY DEF Mirrored, IsFpuState
    <3>2. fpu = [group |-> fpu.group, bank |-> fpu.bank, exact |-> fpu.exact, regs |-> fpu.regs]
      BY <3>1, SMT DEF FpuState
    <3>3. fpu = FpuState(fpu.group, fpu.bank, fpu.exact, fpu.regs)
      BY <3>2 DEF FpuState
    <3> HIDE DEF exact
    <3> QED
      BY <2>1, <3>3, SelectedAnew
  <2>5. /\ fpu'.group = group /\ fpu'.bank = bank
        /\ fpu'.exact = exact
        /\ fpu'.regs = fpu.regs
    BY <2>4 DEF FpuState
  <2>6. fpu.regs = [b \in Banks |-> fpu.regs[b]] /\ \A b \in Banks : IsShown(fpu.regs[b])
    <3>1. fpu = FpuState(fpu.group, fpu.bank, fpu.exact, [b \in Banks |-> fpu.regs[b]])
      BY DEF Mirrored, IsFpuState
    <3> QED
      BY <3>1, SMT DEF FpuState, Mirrored
  <2>7. Mirrored(fpu')
    BY <2>2, <2>4, <2>5, <2>6 DEF Mirrored, IsFpuState
  <2>8. ~ ins.reserved => Exact(fpu')
    BY <2>3, <2>5, Zenon DEF Exact
  <2> QED
    BY <1>1, <2>7, <2>8
<1> QED
  BY <1>2, <1>3

NamedFloats == {"cmpf_s", "cmpf_d", "cmovf_s", "cmovf_d", "trfsr", "recipf_s", "mulf_s"}

(* What a step does that writes a register of floating point, and what       *)
(* comparisons, RECIPF and MULF of singles do, is told by the name of the    *)
(* instruction.                                                              *)
LEMMA DispatchFpu ==
  ASSUME Next, running, pc \in DOMAIN code
  PROVE  /\ ins.op = "ldsr" => Ldsr
         /\ ins.op = "ldsr_bsel" => Bsel
         /\ ins.op = "cmpf_s" => Cmpf_s
         /\ ins.op = "cmpf_d" => Cmpf_d
         /\ ins.op = "cmovf_s" => Cmovf_s
         /\ ins.op = "cmovf_d" => Cmovf_d
         /\ ins.op = "trfsr" => Trfsr
         /\ ins.op = "recipf_s" => Recipf_s
         /\ ins.op = "mulf_s" => Mulf_s
<1> DEFINE op == ins.op
<1>1. \/ Arithmetic \/ Division \/ Saturation \/ Logic \/ Shifts \/ SwapsAndSearches \/ Branches
      \/ Loads \/ Stores \/ MemoryBits \/ Special
      \/ ins.op \in WithoutHandler \cup {"undecoded"}
      \/ Floats
  BY Zenon DEF Next, WithoutFloats, NotExecuted, Finished, Halted
<1>2. /\ Arithmetic => op \in ArithmeticOps
      /\ Division => op \in DivisionOps
      /\ Saturation => op \in SaturationOps
      /\ Logic => op \in LogicOps
      /\ Shifts => op \in ShiftOps
      /\ SwapsAndSearches => op \in SwapSearchOps
      /\ Branches => op \in BranchOps
      /\ Loads => op \in LoadOps
      /\ Stores => op \in StoreOps
      /\ MemoryBits => op \in BitOps8 \cup BitOps9
      /\ Special => op \in SpecialOps
  BY ArithmeticExecutes, DivisionExecutes, SaturationExecutes, LogicExecutes, ShiftsExecute, SwapsExecute,
     BranchesExecute, LoadsExecute, StoresExecute, MemoryBitsExecute, SpecialExecutes, Zenon
<1>3. Floats => op \in FloatOps
  BY Zenon DEF Floats
<1> DEFINE Others == ArithmeticOps \cup DivisionOps \cup SaturationOps \cup LogicOps \cup ShiftOps
                      \cup SwapSearchOps \cup BranchOps \cup LoadOps \cup StoreOps \cup BitOps8 \cup BitOps9
                      \cup WithoutHandler \cup {"undecoded"}
<1> HIDE DEF op
<1>4. op \in {"ldsr", "ldsr_bsel"} => op \notin Others \cup FloatOps
  BY SMT DEF ArithmeticOps, DivisionOps, SaturationOps, ShiftOps, SwapSearchOps, BranchOps, LogicOps,
     LoadOps, StoreOps, BitOps8, BitOps9, WithoutHandler, FloatOps, Unsupported
<1>5. op \in NamedFloats => op \notin Others \cup SpecialOps
  BY SMT DEF NamedFloats, ArithmeticOps, DivisionOps, SaturationOps, ShiftOps, SwapSearchOps, BranchOps, LogicOps,
     LoadOps, StoreOps, BitOps8, BitOps9, SpecialOps, WithoutHandler
<1> HIDE DEF Others
<1>6. op \in ArithmeticOps \cup DivisionOps \cup SaturationOps \cup LogicOps \cup ShiftOps
                      \cup SwapSearchOps \cup BranchOps \cup LoadOps \cup StoreOps \cup BitOps8 \cup BitOps9
                      \cup WithoutHandler \cup {"undecoded"} => op \in Others
  BY DEF Others
<1>7. op = ins.op
  BY DEF op
<1>8. /\ op \in {"ldsr", "ldsr_bsel"} => Special
      /\ op \in NamedFloats => Floats
  BY <1>1, <1>2, <1>3, <1>4, <1>5, <1>6, <1>7
<1>9. ASSUME Special
      PROVE  (op = "ldsr" => Ldsr) /\ (op = "ldsr_bsel" => Bsel)
  <2>1. Prepare4 \/ PrepareSp \/ PrepareH \/ PrepareHi \/ PrepareW \/ Dispose \/ Caxi \/ Switch =>
          ins.op \in {"prepare", "prepare_sp", "prepare_h", "prepare_hi", "prepare_w", "dispose", "caxi", "switch"}
    BY SMT DEF Executes, Prepare4, PrepareSp, PrepareH, PrepareHi, PrepareW, Prepare, Dispose, Caxi, Switch
  <2>2. (Bsel => ins.op = "ldsr_bsel") /\ (Ldsr => ins.op = "ldsr")
    BY Zenon DEF Executes, Bsel, Ldsr
  <2>3. Prepare4 \/ PrepareSp \/ PrepareH \/ PrepareHi \/ PrepareW \/ Dispose \/ Caxi \/ Switch \/ Bsel \/ Ldsr
    BY <1>9, Zenon DEF Special
  <2> QED
    BY <1>7, <2>1, <2>2, <2>3
<1>10. ASSUME Floats
       PROVE  /\ op = "cmpf_s" => Cmpf_s
              /\ op = "cmpf_d" => Cmpf_d
              /\ op = "cmovf_s" => Cmovf_s
              /\ op = "cmovf_d" => Cmovf_d
              /\ op = "trfsr" => Trfsr
              /\ op = "recipf_s" => Recipf_s
              /\ op = "mulf_s" => Mulf_s
  <2>1. FloatArithmetic => (ins.op = "mulf_s" /\ Mulf_s)
          \/ ins.op \in {"addf_s", "subf_s", "divf_s", "addf_d", "subf_d", "mulf_d", "divf_d",
                         "fmaf_s", "fmsf_s", "fnmaf_s", "fnmsf_s", "maddf_s", "msubf_s", "nmaddf_s", "nmsubf_s"}
    BY SMT DEF FloatArithmetic, Executes, Addf_s, Subf_s, Mulf_s, Divf_s, Addf_d, Subf_d, Mulf_d, Divf_d,
       Fmaf_s, Fmsf_s, Fnmaf_s, Fnmsf_s, Maddf_s, Msubf_s, Nmaddf_s, Nmsubf_s
  <2>2. FloatFunctions => (ins.op = "recipf_s" /\ Recipf_s)
          \/ ins.op \in {"absf_s", "absf_d", "negf_s", "negf_d", "sqrtf_s", "sqrtf_d", "rsqrtf_s", "rsqrtf_d",
                         "recipf_d", "maxf_s", "minf_s", "maxf_d", "minf_d"}
    BY SMT DEF FloatFunctions, Executes, Absf_s, Absf_d, Negf_s, Negf_d, Sqrtf_s, Sqrtf_d, Rsqrtf_s, Rsqrtf_d,
       Recipf_s, Recipf_d, Maxf_s, Minf_s, Maxf_d, Minf_d
  <2>3. FloatComparisons => \/ ins.op = "cmpf_s" /\ Cmpf_s
                            \/ ins.op = "cmpf_d" /\ Cmpf_d
                            \/ ins.op = "cmovf_s" /\ Cmovf_s
                            \/ ins.op = "cmovf_d" /\ Cmovf_d
                            \/ ins.op = "trfsr" /\ Trfsr
    BY Zenon DEF FloatComparisons, Executes, Cmpf_s, Cmpf_d, Cmovf_s, Cmovf_d, Trfsr
  <2>4. ToFloats \/ ToIntegers \/ NotSupported => ins.op \notin NamedFloats
    <3>1. ToFloats => ins.op \notin NamedFloats
      BY SMT DEF NamedFloats, ToFloats, Executes, Cvtf_ws, Cvtf_uws, Cvtf_wd, Cvtf_uwd, Cvtf_ls, Cvtf_uls, Cvtf_ld, Cvtf_uld,
         Cvtf_sd, Cvtf_ds
    <3>2. ToIntegers => ins.op \notin NamedFloats
      <4>1. ToIntegers => ins.op \in
              {"cvtf_sw", "cvtf_suw", "trncf_sw", "trncf_suw", "floorf_suw",
               "cvtf_dw", "cvtf_duw", "trncf_dw", "trncf_duw", "ceilf_duw",
               "cvtf_dl", "cvtf_dul", "ceilf_dl", "ceilf_dul", "trncf_dl", "trncf_dul",
               "trncf_sl", "trncf_sul", "floorf_sw", "floorf_sl", "floorf_sul"}
        BY Zenon DEF ToIntegers, Executes, Cvtf_sw, Cvtf_suw, Trncf_sw, Trncf_suw, Floorf_suw,
           Cvtf_dw, Cvtf_duw, Trncf_dw, Trncf_duw, Ceilf_duw, Cvtf_dl, Cvtf_dul, Ceilf_dl, Ceilf_dul,
           Trncf_dl, Trncf_dul, Trncf_sl, Trncf_sul, Floorf_sw, Floorf_sl, Floorf_sul
      <4> QED
        BY <4>1, SMT DEF NamedFloats
    <3>3. NotSupported => ins.op \notin NamedFloats
      BY SMT DEF NotSupported, Unsupported, NamedFloats
    <3> QED
      BY <3>1, <3>2, <3>3
  <2>5. FloatArithmetic \/ FloatFunctions \/ FloatComparisons \/ ToFloats \/ ToIntegers \/ NotSupported
    BY <1>10, Zenon DEF Floats
  <2> QED
    BY <1>7, <2>1, <2>2, <2>3, <2>4, <2>5 DEF NamedFloats
<1> QED
  BY <1>7, <1>8, <1>9, <1>10 DEF NamedFloats

(* What a double spills is the group, of which the mirrors know nothing.     *)
LEMMA SpilledMirrors ==
  ASSUME NEW state, Mirrored(state), NEW f, NEW n, NEW b
  PROVE  /\ Mirrored(Spilled(f, n, b, state))
         /\ n + 1 \in Regs => Spilled(f, n, b, state) = state
<1>1. n + 1 \in Regs => Spilled(f, n, b, state) = state
  BY Zenon DEF Spilled
<1> DEFINE group == b \div Modulus
           after == [state EXCEPT !.group = group]
<1>2. Spilled(f, n, b, state) = state \/ Spilled(f, n, b, state) = after
  BY Zenon DEF Spilled
<1>3. Mirrored(after)
  <2>1. /\ state = FpuState(state.group, state.bank, state.exact, [c \in Banks |-> state.regs[c]])
        /\ state.bank \in Banks /\ \A c \in Banks : IsShown(state.regs[c])
    BY DEF Mirrored, IsFpuState
  <2>2. state.regs = [c \in Banks |-> state.regs[c]]
    BY <2>1, SMT DEF FpuState
  <2> HIDE DEF group
  <2>3. after = FpuState(group, state.bank, state.exact, state.regs)
    BY <2>1, <2>2, SMT DEF FpuState
  <2>4. after.group = group /\ after.bank = state.bank /\ after.exact = state.exact /\ after.regs = state.regs
    BY <2>3 DEF FpuState
  <2> HIDE DEF after
  <2> QED
    BY <2>1, <2>2, <2>3, <2>4 DEF Mirrored, IsFpuState
<1> HIDE DEF after
<1> QED
  BY <1>1, <1>2, <1>3

(* An instruction of floating point keeps the mirrors in agreement, and the  *)
(* group, if a double does not go past the last general register.            *)
LEMMA FloatMirrors ==
  ASSUME Mirrored(fpu), FloatStep
  PROVE  Mirrored(fpu') /\ (ins.reg3 + 1 \in Regs /\ Exact(fpu) => Exact(fpu'))
<1>1. CASE fpu' = fpu
  BY <1>1
<1>2. ASSUME NEW f, NEW b, NEW raised, fpu' = Spilled(f, ins.reg3, b, Raise(raised))
      PROVE  Mirrored(fpu') /\ (ins.reg3 + 1 \in Regs /\ Exact(fpu) => Exact(fpu'))
  <2>1. /\ Mirrored(Raise(raised)) /\ Raise(raised).group = fpu.group
        /\ Raise(raised).exact = fpu.exact
    BY RaiseMirrors
  <2>2. Mirrored(fpu') /\ (ins.reg3 + 1 \in Regs => fpu' = Raise(raised))
    BY <1>2, <2>1, SpilledMirrors
  <2>3. Exact(fpu) => Exact(Raise(raised))
    BY <2>1, Zenon DEF Exact
  <2> QED
    BY <2>2, <2>3
<1>3. ASSUME NEW raised, fpu' = Raise(raised) PROVE Mirrored(fpu') /\ (Exact(fpu) => Exact(fpu'))
  <2>1. /\ Mirrored(Raise(raised)) /\ Raise(raised).group = fpu.group
        /\ Raise(raised).exact = fpu.exact
    BY RaiseMirrors
  <2>2. Exact(fpu) => Exact(Raise(raised))
    BY <2>1, Zenon DEF Exact
  <2> QED
    BY <1>3, <2>1, <2>2
<1>4. ASSUME NEW raised, NEW cc, fpu' = WithCondition(Raise(raised), cc)
      PROVE  Mirrored(fpu') /\ (Exact(fpu) => Exact(fpu'))
  <2>1. /\ Mirrored(Raise(raised)) /\ Raise(raised).group = fpu.group
        /\ Raise(raised).bank = fpu.bank /\ Raise(raised).exact = fpu.exact
    BY RaiseMirrors
  <2>2. /\ Mirrored(fpu') /\ fpu'.group = fpu.group
        /\ fpu'.exact = fpu.exact
    BY <1>4, <2>1, WithConditionMirrors
  <2>3. Exact(fpu) => Exact(fpu')
    BY <2>2, Zenon DEF Exact
  <2> QED
    BY <2>2, <2>3
<1> QED
  BY <1>1, <1>2, <1>3, <1>4, Zenon DEF FloatStep

(* So does CMPF of singles, whose reg3 is no register.                       *)
LEMMA CmpfMirrors ==
  ASSUME Mirrored(fpu), Cmpf_s
  PROVE  Mirrored(fpu') /\ (Exact(fpu) => Exact(fpu'))
<1>1. Stop \/ \E raised, cc : fpu' = WithCondition(Raise(raised), cc)
  BY Zenon DEF Cmpf_s, Cmpf
<1>2. CASE Stop
  BY <1>2 DEF Stop
<1>3. ASSUME NEW raised, NEW cc, fpu' = WithCondition(Raise(raised), cc)
      PROVE  Mirrored(fpu') /\ (Exact(fpu) => Exact(fpu'))
  <2>1. /\ Mirrored(Raise(raised)) /\ Raise(raised).group = fpu.group
        /\ Raise(raised).bank = fpu.bank /\ Raise(raised).exact = fpu.exact
    BY RaiseMirrors
  <2>2. /\ Mirrored(fpu') /\ fpu'.group = fpu.group
        /\ fpu'.exact = fpu.exact
    BY <1>3, <2>1, WithConditionMirrors
  <2>3. Exact(fpu) => Exact(fpu')
    BY <2>2, Zenon DEF Exact
  <2> QED
    BY <2>2, <2>3
<1> QED
  BY <1>1, <1>2, <1>3

(* What holds at every step of a program that writes FPSR by its mirrors.    *)
MirrorsSoFar ==
  /\ WritesNone(code) => Mirrored(fpu)
  /\ KeepsToMirrors(code) => Mirrored(fpu) /\ Exact(fpu)

(* At the reset all registers of floating point agree.                       *)
LEMMA ResetMirrors == Mirrored(FpuReset) /\ Exact(FpuReset)
<1> DEFINE blank == Shown({}, {}, {}, 0, {}, FALSE)
<1>1. FpuReset = FpuState(0, 0, FALSE, [b \in Banks |-> blank])
  BY SMT DEF FpuReset, FpuState, Shown
<1>2. IsShown(blank)
  BY Zenon DEF IsShown
<1> HIDE DEF blank
<1>3. /\ FpuReset.group = 0 /\ FpuReset.bank = 0 /\ FpuReset.exact = FALSE
      /\ FpuReset.regs = [b \in Banks |-> blank]
  BY <1>1, SMT DEF FpuState
<1>4. [b \in Banks |-> FpuReset.regs[b]] = [b \in Banks |-> blank]
  BY <1>3, SMT
<1>5. IsFpuState(FpuReset)
  <2>1. 0 \in Banks
    BY SMT DEF Banks
  <2>2. FpuReset = FpuState(FpuReset.group, FpuReset.bank, FpuReset.exact, [b \in Banks |-> FpuReset.regs[b]])
    BY <1>1, <1>3, <1>4
  <2> QED
    BY <1>3, <2>1, <2>2 DEF IsFpuState
<1>6. \A b \in Banks : IsShown(FpuReset.regs[b])
  BY <1>2, <1>3
<1>7. Exact(FpuReset)
  BY <1>3, SMT DEF Exact, FpuGroup
<1> QED
  BY <1>5, <1>6, <1>7 DEF Mirrored

(* Every step keeps that.                                                    *)
LEMMA MirrorsOn ==
  ASSUME MirrorsSoFar, [Next]_vars
  PROVE  MirrorsSoFar'
<1>1. CASE UNCHANGED vars
  BY <1>1, Zenon DEF vars, MirrorsSoFar, WritesNone, KeepsToMirrors
<1>2. CASE Next /\ ~ (running /\ pc \in DOMAIN code)
  BY <1>1, <1>2, EndedStays
<1>3. CASE Next /\ running /\ pc \in DOMAIN code
  <2>1. code' = code /\ (fpu' = fpu \/ Bsel \/ Ldsr \/ (Floats /\ FloatStep))
    BY <1>3, StepKeeps, Zenon DEF Same
  <2>2. WritesNone(code)' = WritesNone(code) /\ KeepsToMirrors(code)' = KeepsToMirrors(code)
    BY <2>1, Zenon DEF WritesNone, KeepsToMirrors
  <2>3. ASSUME WritesNone(code) PROVE Mirrored(fpu')
    <3>1. Mirrored(fpu)
      BY <2>3 DEF MirrorsSoFar
    <3>2. ~ Ldsr
      BY <2>3, Zenon DEF WritesNone, Ldsr, Executes, ins
    <3> QED
      BY <2>1, <3>1, <3>2, BselMirrors, FloatMirrors
  <2>4. ASSUME KeepsToMirrors(code) PROVE Mirrored(fpu') /\ Exact(fpu')
    <3>1. Mirrored(fpu) /\ Exact(fpu)
      BY <2>4 DEF MirrorsSoFar
    <3>2. CASE fpu' = fpu
      BY <3>1, <3>2
    <3>3. CASE Bsel
      <4>1. ins.op = "ldsr_bsel"
        BY <3>3, Zenon DEF Bsel, Executes
      <4>2. ~ ins.reserved
        BY <1>3, <2>4, <4>1, Zenon DEF KeepsToMirrors, ins
      <4>3. Mirrored(fpu') /\ (Exact(fpu') \/ fpu' = fpu)
        BY <3>1, <3>3, <4>2, BselMirrors
      <4> QED
        BY <3>1, <4>3
    <3>4. CASE Ldsr
      BY <2>4, <3>1, <3>4, LdsrMirrors
    <3>5. CASE Floats /\ FloatStep
      <4>1. CASE ins.op = "cmpf_s"
        <5>1. Cmpf_s
          BY <1>3, <4>1, DispatchFpu
        <5> QED
          BY <3>1, <5>1, CmpfMirrors
      <4>2. CASE ins.op # "cmpf_s"
        <5>1. ins.op \in FloatOps \ {"cmpf_s"}
          BY <3>5, <4>2, Zenon DEF Floats
        <5>2. ins.reg3 + 1 \in Regs
          BY <1>3, <2>4, <5>1, Zenon DEF KeepsToMirrors, ins
        <5> QED
          BY <3>1, <3>5, <5>2, FloatMirrors
      <4> QED
        BY <4>1, <4>2
    <3> QED
      BY <2>1, <3>2, <3>3, <3>4, <3>5
  <2> QED
    BY <2>2, <2>3, <2>4, Zenon DEF MirrorsSoFar
<1> QED
  BY <1>1, <1>2, <1>3

(* The instructions of the program that clears exceptions in FPSR.           *)
LEMMA ClearingCode ==
  /\ DOMAIN ClearInFpsr = {0, 4, 8, 12}
  /\ ClearInFpsr[0].op = "ldsr_bsel" /\ ClearInFpsr[0].group = 32 /\ ClearInFpsr[0].bank = 0
  /\ ClearInFpsr[4] = On3("recipf_s", 0, 0, 3)
  /\ ClearInFpsr[8].op = "ldsr" /\ ClearInFpsr[8].reg = "FPSR" /\ ClearInFpsr[8].value = Blank
  /\ ClearInFpsr[12] = On3("mulf_s", 1, 2, 4)
<1>1. /\ ToBank(32, 0).op = "ldsr_bsel" /\ ToBank(32, 0).group = 32 /\ ToBank(32, 0).bank = 0
  BY SMT DEF ToBank, @@, Ins
<1>2. /\ Writes("FPSR", Blank).op = "ldsr" /\ Writes("FPSR", Blank).reg = "FPSR"
      /\ Writes("FPSR", Blank).value = Blank
  BY SMT DEF Writes, @@, Ins
<1>3. /\ DOMAIN ClearInFpsr = {0, 4, 8, 12}
      /\ ClearInFpsr[0] = ToBank(32, 0)
      /\ ClearInFpsr[4] = On3("recipf_s", 0, 0, 3)
      /\ ClearInFpsr[8] = Writes("FPSR", Blank)
      /\ ClearInFpsr[12] = On3("mulf_s", 1, 2, 4)
  BY SMT DEF ClearInFpsr, :>, @@
<1> QED
  BY <1>1, <1>2, <1>3

(* Zero is no NaN and not infinite, whatever the size of the exponent.       *)
LEMMA ZeroIsZero == IsZero(Single, 0) /\ ~ IsNan(Single, 0) /\ ~ IsInf(Single, 0)
<1>1. /\ SingleExp \in 2 .. Width - 3 /\ Width \in Nat
  BY FloatAssumption, CoreAssumption
<1> DEFINE exp  == SingleExp
           frac == Width - 1 - SingleExp
<1>2. Single.exp = exp /\ Single.frac = frac /\ Single.missed = 0 /\ Single.shared = 0
  BY <1>1, SMT DEF Single, Format
<1>3. exp \in 0 .. Width /\ frac \in 0 .. Width /\ frac + 0 = frac /\ exp > 1 /\ 0 \in 0 .. Width
  BY <1>1, SMT
<1> HIDE DEF exp, frac
<1> DEFINE pe == 2 ^ exp
           pf == 2 ^ frac
           p0 == 2 ^ 0
<1>4. pe \in Nat \ {0} /\ pf \in Nat \ {0} /\ p0 \in Nat \ {0}
  BY <1>3, WordPowers
<1>5. exp < pe
  BY <1>3, CountsAreWords
<1>6. /\ ExponentOf(Single, 0) = ((0 \div pf) % pe) - (((0 \div pf) % pe) % p0)
      /\ FractionOf(Single, 0) = 0 % pf
      /\ Full(Single) = pe - 1
  BY <1>2, <1>3 DEF ExponentOf, FractionOf, Full, Low
<1> HIDE DEF pe, pf, p0
<1>7. pe > 1
  BY <1>3, <1>4, <1>5, SMT
<1>8. 0 \div pf = 0 /\ 0 % pe = 0 /\ 0 % p0 = 0 /\ 0 % pf = 0
  BY <1>4, SMT
<1>9. ExponentOf(Single, 0) = 0 /\ FractionOf(Single, 0) = 0 /\ Full(Single) # 0
  BY <1>4, <1>6, <1>7, <1>8, SMT
<1> QED
  BY <1>9, Zenon DEF IsZero, IsNan, IsInf

(* Singles spill nowhere.                                                    *)
LEMMA SinglesDeliver ==
  ASSUME NEW n, NEW checked, NEW answers, Delivers(Single, n, checked, answers)
  PROVE  \/ Stop
         \/ /\ \E a \in answers : fpu' = Raise(a.raised) /\ r' = Placed(Single, n, a.bits)
            /\ pc' = Word(pc + 4)
<1>1. Single.words # 2
  BY SMT DEF Single, Format
<1>2. ASSUME NEW b, NEW state PROVE Spilled(Single, n, b, state) = state
  BY <1>1, Zenon DEF Spilled
<1> QED
  BY <1>2, Zenon DEF Delivers, Proceed

(* RECIPF of zero raises Z.                                                  *)
LEMMA InverseOfZero ==
  ASSUME Recipf_s, ins = On3("recipf_s", 0, 0, 3), r[0] = 0
  PROVE  \/ Stop
         \/ fpu' = Raise({"Z"}) /\ pc' = Word(pc + 4)
<1>1. D2(Single) = 0
  BY SMT DEF D2, Datum, Single, Format, On3, Ins
<1> DEFINE inf     == Host!Answer(Host!InfBits(Single), {"Z"})
           answers == NanAware(Single, 0, CASE IsInf(Single, 0)  -> Host!Exactly(0)
                                            [] IsZero(Single, 0) -> {inf}
                                            [] OTHER             -> Inverse2(Single, 0))
<1>2. answers = {inf}
  <2>1. ~ IsQnan(Single, 0) /\ ~ IsSnan(Single, 0)
    BY ZeroIsZero, Zenon DEF IsQnan, IsSnan
  <2> QED
    BY <2>1, ZeroIsZero, Zenon DEF NanAware
<1>3. inf.raised = {"Z"}
  BY DEF Host!Answer
<1> HIDE DEF inf, answers
<1>4. Delivers(Single, ins.reg3, Two(Single), answers)
  BY <1>1, Zenon DEF Recipf_s, Recipf, answers, inf
<1>5. \/ Stop
      \/ (\E a \in answers : fpu' = Raise(a.raised)) /\ pc' = Word(pc + 4)
  BY <1>4, SinglesDeliver, Zenon
<1> QED
  BY <1>2, <1>3, <1>5, Zenon

(* FPSR has the exceptions x and FPST y; all else is blank.                  *)
Kinds(x, y) ==
  Apart({}, x, x, 0, {}, FALSE, y, y, FALSE, [cc |-> {}], [rm |-> 0, xe |-> {}])

JustZ == {"Z"}

(* What the program that clears exceptions in FPSR has before each of its    *)
(* instructions.                                                             *)
ClearSoFar ==
  /\ pc = 0 => /\ Mirrored(fpu) /\ r[0] = 0
               /\ fpu = FpuState(fpu.group, fpu.bank, fpu.exact, fpu.regs)
               /\ (\A b \in Banks : fpu.regs[b] = Kinds({}, {}))
  /\ pc = 4 => /\ IsFpuState(fpu) /\ fpu.group = FpuGroup /\ r[0] = 0
               /\ Selected = Kinds({}, {})
  /\ pc = 8 => /\ IsFpuState(fpu) /\ fpu.group = FpuGroup
               /\ Selected = Kinds(JustZ, JustZ)
  /\ pc = 12 => /\ IsFpuState(fpu)
                /\ Selected = Kinds({}, JustZ)
  /\ pc = 16 => Selected.FPSR.xp = IF Selected.FPST.xp = {"Z"} THEN Selected.FPSR.xc ELSE Selected.FPST.xp

(* What a step that replaces the registers of the selected bank leaves.      *)
LEMMA ReplacedNow ==
  ASSUME IsFpuState(fpu), NEW regs, fpu' = Replaced(fpu, regs)
  PROVE  IsFpuState(fpu') /\ fpu'.group = fpu.group /\ Selected' = regs
<1>1. /\ IsFpuState(fpu') /\ fpu'.group = fpu.group /\ fpu'.bank = fpu.bank
      /\ fpu'.regs[fpu.bank] = regs
  BY BankReplaced
<1> QED
  BY <1>1, Zenon DEF Selected

(* The same when it is an exception that is raised.                          *)
LEMMA RaisedNow ==
  ASSUME IsFpuState(fpu), NEW raised, raised # {}, fpu' = Raise(raised), NEW x, NEW y, Selected = Kinds(x, y)
  PROVE  IsFpuState(fpu') /\ fpu'.group = fpu.group /\ Selected' = Kinds(y \cup raised, y \cup raised)
<1> DEFINE none  == {}
           no    == FALSE
           fc    == [cc |-> none]
           cfg   == [rm |-> 0, xe |-> none]
           both  == y \cup raised
           after == Kinds(both, both)
<1>1. \A a, b : Kinds(a, b) = Apart(none, a, a, 0, none, no, b, b, no, fc, cfg)
  BY DEF Kinds
<1> HIDE DEF fc, cfg, none, no
<1>2. Selected = Apart(none, x, x, 0, none, no, y, y, no, fc, cfg)
  BY <1>1
<1>3. Raise(raised) = Replaced(fpu, Apart(none, y \cup raised, y \cup raised, 0, none, no,
                                          y \cup raised, y \cup raised, no, fc, cfg))
  BY <1>2, RaiseReplaces
<1>4. fpu' = Replaced(fpu, after)
  BY <1>1, <1>3
<1> HIDE DEF after
<1>5. IsFpuState(fpu') /\ fpu'.group = fpu.group /\ Selected' = after
  BY <1>4, ReplacedNow
<1> QED
  BY <1>5 DEF after

(* The registers that are selected when another bank is.                     *)
LEMMA BankSelected ==
  ASSUME NEW group, NEW bank, NEW exact,
         fpu = FpuState(fpu.group, fpu.bank, fpu.exact, fpu.regs),
         fpu' = [fpu EXCEPT !.group = group, !.bank = bank, !.exact = exact]
  PROVE  fpu'.group = group /\ Selected' = fpu.regs[bank]
<1>1. fpu' = FpuState(group, bank, exact, fpu.regs)
  BY SelectedAnew
<1>2. fpu'.group = group /\ fpu'.bank = bank /\ fpu'.regs = fpu.regs
  BY <1>1, SMT DEF FpuState
<1> QED
  BY <1>2 DEF Selected

(* What BSEL selects.                                                        *)
LEMMA BselSelects ==
  ASSUME Bsel, ins.group = 32
  PROVE  \/ Stop
         \/ /\ \E bank, exact : /\ bank \in Banks
                                /\ fpu' = [fpu EXCEPT !.group = FpuGroup, !.bank = bank, !.exact = exact]
            /\ pc' = Word(pc + 4) /\ r' = r
<1> DEFINE banks == BanksOf(ins.group)
           known == ins.group \in DOMAIN GroupOf /\ ins.bank \in Range(banks)
           bank  == (CHOOSE k \in DOMAIN banks : banks[k] = ins.bank) - 1
           exact == ins.group = 32 /\ ~ ins.reserved
<1>1. GroupOf[ins.group] = FpuGroup
  BY SMT DEF GroupOf, FpuGroup
<1>2. \/ Stop
      \/ /\ known
         /\ fpu' = [fpu EXCEPT !.group = GroupOf[ins.group], !.bank = bank, !.exact = exact]
         /\ pc' = Word(pc + 4) /\ r' = r
  BY Zenon DEF Bsel, Proceed
<1>3. known => bank \in Banks
  BY BankOfBsel
<1> HIDE DEF bank, exact, banks, known
<1> QED
  BY <1>1, <1>2, <1>3, Zenon

(* Its first selects the group, of which every register is blank.            *)
LEMMA ClearSelects ==
  ASSUME Bsel, ins.group = 32, Mirrored(fpu), r[0] = 0,
         fpu = FpuState(fpu.group, fpu.bank, fpu.exact, fpu.regs),
         \A b \in Banks : fpu.regs[b] = Kinds({}, {})
  PROVE  \/ Stop
         \/ /\ pc' = Word(pc + 4) /\ IsFpuState(fpu') /\ fpu'.group = FpuGroup /\ r'[0] = 0
            /\ Selected' = Kinds({}, {})
<1>1. IsFpuState(fpu')
  BY BselMirrors, Zenon DEF Mirrored
<1>2. \/ Stop
      \/ /\ \E bank, exact : /\ bank \in Banks
                             /\ fpu' = [fpu EXCEPT !.group = FpuGroup, !.bank = bank, !.exact = exact]
         /\ pc' = Word(pc + 4) /\ r' = r
  BY BselSelects, Zenon
<1>3. ASSUME NEW bank \in Banks, NEW exact,
             fpu' = [fpu EXCEPT !.group = FpuGroup, !.bank = bank, !.exact = exact]
      PROVE  fpu'.group = FpuGroup /\ Selected' = Kinds({}, {})
  <2>1. fpu'.group = FpuGroup /\ Selected' = fpu.regs[bank]
    BY <1>3, BankSelected
  <2> QED
    BY <2>1
<1> QED
  BY <1>1, <1>2, <1>3, Zenon

(* What is left when FPSR is written blank.                                  *)
LEMMA BlankWritten ==
  ASSUME NEW x, NEW y PROVE [Kinds(x, y) EXCEPT !["FPSR"] = Blank] = Kinds({}, y)
<1>1. Blank = [cc |-> {}, xc |-> {}, xp |-> {}, rm |-> 0, xe |-> {}, if |-> FALSE]
  <2> DEFINE blank == Shown({}, {}, {}, 0, {}, FALSE)
  <2>1. FpuReset.regs = [b \in Banks |-> blank]
    BY SMT DEF FpuReset, Shown
  <2>2. 0 \in Banks
    BY SMT DEF Banks
  <2>3. FpuReset.regs[0] = blank
    BY <2>1, <2>2
  <2> QED
    BY <2>3 DEF Blank, Shown
<1> DEFINE sr(e) == [cc |-> {}, xc |-> e, xp |-> e, rm |-> 0, xe |-> {}, if |-> FALSE]
           a     == sr(x)
           blank == sr({})
           st    == [xc |-> y, xp |-> y, if |-> FALSE]
           fc    == [cc |-> {}]
           cfg   == [rm |-> 0, xe |-> {}]
<1>2. Kinds(x, y) = [FPSR |-> a, FPST |-> st, FPCC |-> fc, FPCFG |-> cfg]
  BY DEF Kinds, Apart
<1>3. Kinds({}, y) = [FPSR |-> blank, FPST |-> st, FPCC |-> fc, FPCFG |-> cfg]
  BY DEF Kinds, Apart
<1>4. Blank = blank
  BY <1>1
<1> HIDE DEF a, blank, st, fc, cfg
<1> QED
  BY <1>2, <1>3, <1>4, SMT

(* Its third writes FPSR and leaves FPST.                                    *)
LEMMA ClearWrites ==
  ASSUME IsFpuState(fpu), fpu.group = FpuGroup, NEW x, NEW y, Selected = Kinds(x, y),
         Ldsr, ins.reg = "FPSR", ins.value = Blank
  PROVE  pc' = Word(pc + 4) /\ IsFpuState(fpu') /\ Selected' = Kinds({}, y)
<1> DEFINE regs == [Selected EXCEPT !["FPSR"] = Blank]
<1>1. Synced(regs, "FPSR") = regs
  BY SMT DEF Synced
<1>2. fpu' = Replaced(fpu, regs)
  BY <1>1, Zenon DEF Ldsr, Replaced, Selected
<1>3. regs = Kinds({}, y)
  BY BlankWritten
<1> HIDE DEF regs
<1>4. IsFpuState(fpu') /\ Selected' = regs
  BY <1>2, ReplacedNow
<1> QED
  BY <1>3, <1>4, Zenon DEF Ldsr, Proceed

(* Its last adds to FPSR what FPST has, if it raises anything.               *)
LEMMA ClearReturns ==
  ASSUME IsFpuState(fpu), NEW raised, fpu' = Raise(raised), Selected = Kinds({}, JustZ)
  PROVE  Selected'.FPSR.xp = IF Selected'.FPST.xp = {"Z"} THEN Selected'.FPSR.xc ELSE Selected'.FPST.xp
<1>1. ASSUME NEW x, NEW y
      PROVE  Kinds(x, y).FPSR.xp = x /\ Kinds(x, y).FPSR.xc = x /\ Kinds(x, y).FPST.xp = y
  BY DEF Kinds, Apart
<1>2. CASE raised = {}
  <2>1. Selected' = Kinds({}, JustZ)
    BY <1>2, Zenon DEF Raise, Selected
  <2> QED
    BY <1>1, <2>1 DEF JustZ
<1>3. CASE raised # {}
  <2>1. Selected' = Kinds(JustZ \cup raised, JustZ \cup raised)
    BY <1>3, RaisedNow
  <2> QED
    BY <1>1, <2>1
<1> QED
  BY <1>2, <1>3

(* So every step keeps what is known of it.                                  *)
LEMMA ClearOn ==
  ASSUME code = ClearInFpsr, ClearSoFar, Next, running, pc \in DOMAIN code
  PROVE  ClearSoFar'
<1>1. pc \in {0, 4, 8, 12}
  BY ClearingCode
<1>2. CASE Stop
  BY <1>2, Zenon DEF Stop, ClearSoFar, Selected
<1>3. CASE pc = 0
  <2>1. ins.op = "ldsr_bsel" /\ ins.group = 32
    BY <1>3, ClearingCode DEF ins
  <2>2. Bsel
    BY <2>1, DispatchFpu
  <2>3. /\ Mirrored(fpu) /\ r[0] = 0
        /\ fpu = FpuState(fpu.group, fpu.bank, fpu.exact, fpu.regs)
        /\ (\A b \in Banks : fpu.regs[b] = Kinds({}, {}))
    BY <1>3 DEF ClearSoFar
  <2>4. Word(pc + 4) = 4
    BY <1>3, SmallWords, SMT
  <2>5. ASSUME pc' = 4, IsFpuState(fpu'), fpu'.group = FpuGroup, r'[0] = 0,
               Selected' = Kinds({}, {})
        PROVE  ClearSoFar'
    BY <2>5, SMT DEF ClearSoFar
  <2> QED
    BY <2>1, <2>2, <2>3, <2>4, <2>5, <1>2, ClearSelects
<1>4. CASE pc = 4
  <2>1. ins = On3("recipf_s", 0, 0, 3) /\ ins.op = "recipf_s"
    <3>1. ins = On3("recipf_s", 0, 0, 3)
      BY <1>4, ClearingCode DEF ins
    <3> QED
      BY <3>1, Fields
  <2>2. Recipf_s
    BY <2>1, DispatchFpu
  <2>3. IsFpuState(fpu) /\ fpu.group = FpuGroup /\ r[0] = 0 /\ Selected = Kinds({}, {})
    BY <1>4 DEF ClearSoFar
  <2>4. Word(pc + 4) = 8
    BY <1>4, SmallWords, SMT
  <2>5. Stop \/ (fpu' = Raise(JustZ) /\ pc' = 8)
    BY <2>1, <2>2, <2>3, <2>4, InverseOfZero DEF JustZ
  <2>6. ASSUME fpu' = Raise(JustZ), pc' = 8 PROVE ClearSoFar'
    <3>1. JustZ # {}
      BY DEF JustZ
    <3>2. IsFpuState(fpu') /\ fpu'.group = FpuGroup /\ Selected' = Kinds({} \cup JustZ, {} \cup JustZ)
      BY <2>3, <2>6, <3>1, RaisedNow
    <3>3. {} \cup JustZ = JustZ
      OBVIOUS
    <3> QED
      BY <2>6, <3>2, <3>3, SMT DEF ClearSoFar
  <2> QED
    BY <1>2, <2>5, <2>6
<1>5. CASE pc = 8
  <2>1. ins.op = "ldsr" /\ ins.reg = "FPSR" /\ ins.value = Blank
    BY <1>5, ClearingCode DEF ins
  <2>2. Ldsr
    BY <2>1, DispatchFpu
  <2>3. IsFpuState(fpu) /\ fpu.group = FpuGroup /\ Selected = Kinds(JustZ, JustZ)
    BY <1>5 DEF ClearSoFar
  <2>4. Word(pc + 4) = 12
    BY <1>5, SmallWords, SMT
  <2>5. ASSUME pc' = 12, IsFpuState(fpu'),
               Selected' = Kinds({}, JustZ)
        PROVE  ClearSoFar'
    BY <2>5, SMT DEF ClearSoFar
  <2> QED
    BY <2>1, <2>2, <2>3, <2>4, <2>5, ClearWrites
<1>6. CASE pc = 12
  <2>1. ins.op = "mulf_s"
    <3>1. ins = On3("mulf_s", 1, 2, 4)
      BY <1>6, ClearingCode DEF ins
    <3> QED
      BY <3>1, Fields
  <2>2. Mulf_s
    BY <2>1, DispatchFpu
  <2>3. IsFpuState(fpu) /\ Selected = Kinds({}, JustZ)
    BY <1>6 DEF ClearSoFar
  <2>4. Word(pc + 4) = 16
    BY <1>6, SmallWords, SMT
  <2>5. \E checked, answers : Delivers(Single, ins.reg3, checked, answers)
    BY <2>2, Zenon DEF Mulf_s, Mulf, Computes, Flushes
  <2>6. Stop \/ ((\E raised : fpu' = Raise(raised)) /\ pc' = 16)
    BY <2>4, <2>5, SinglesDeliver, Zenon
  <2>7. ASSUME NEW raised, fpu' = Raise(raised), pc' = 16 PROVE ClearSoFar'
    <3>1. Selected'.FPSR.xp = IF Selected'.FPST.xp = {"Z"} THEN Selected'.FPSR.xc ELSE Selected'.FPST.xp
      BY <2>3, <2>7, ClearReturns
    <3> QED
      BY <2>7, <3>1, SMT DEF ClearSoFar
  <2> QED
    BY <1>2, <2>6, <2>7
<1> QED
  BY <1>1, <1>3, <1>4, <1>5, <1>6

(* Registers that are shown so agree.                                        *)
LEMMA ShownAgrees ==
  ASSUME NEW regs, IsShown(regs)
  PROVE  /\ [xc |-> regs.FPSR.xc, xp |-> regs.FPSR.xp, if |-> regs.FPSR.if] = regs.FPST
         /\ regs.FPSR.cc = regs.FPCC.cc
         /\ [rm |-> regs.FPSR.rm, xe |-> regs.FPSR.xe] = regs.FPCFG
<1>1. PICK cc, xc, xp, rm, xe, flushed : regs = Shown(cc, xc, xp, rm, xe, flushed)
  BY Zenon DEF IsShown
<1> QED
  BY <1>1 DEF Shown

(* In the program that clears exceptions all is blank at first.              *)
LEMMA ClearStarts == ASSUME fpu = FpuReset, pc = 0, r[0] = 0 PROVE ClearSoFar
<1> DEFINE blank == Kinds({}, {})
           all   == [b \in Banks |-> blank]
<1>1. fpu = FpuState(0, 0, FALSE, all)
  BY SMT DEF FpuReset, FpuState, Kinds, Apart
<1> HIDE DEF blank
<1>2. \A b \in Banks : all[b] = blank
  OBVIOUS
<1> HIDE DEF all
<1>3. fpu.group = 0 /\ fpu.bank = 0 /\ fpu.exact = FALSE /\ fpu.regs = all
  BY <1>1 DEF FpuState
<1>4. fpu = FpuState(fpu.group, fpu.bank, fpu.exact, fpu.regs)
  BY <1>1, <1>3
<1>5. Mirrored(fpu)
  BY ResetMirrors
<1>6. \A b \in Banks : fpu.regs[b] = Kinds({}, {})
  BY <1>2, <1>3 DEF blank
<1> QED
  BY <1>4, <1>5, <1>6, SMT DEF ClearSoFar

(* FPSR and what FPST, FPCC and FPCFG show of it agree in every bank, at     *)
(* every step of a program that raises, compares, selects banks and writes   *)
(* the parts; and after FPSR itself was cleared, what was raised before is   *)
(* back in it with the next that is raised (fpu_sync_sysreg,                 *)
(* op_exec_fpu.c; sys_set_fpst_xc, cpu_fpu_ops.h).                           *)
THEOREM MirrorsAgree == Spec => []FpuMirrorsAgree
<1> DEFINE IInv == Started /\ MirrorsSoFar /\ (code = ClearInFpsr => ClearSoFar)
<1>1. Init => IInv
  <2> SUFFICES ASSUME Init PROVE IInv
    OBVIOUS
  <2>1. Started /\ AtStart
    BY StartsAtZero
  <2>2. fpu = FpuReset
    BY Zenon DEF Init
  <2>3. MirrorsSoFar
    BY <2>2, ResetMirrors DEF MirrorsSoFar
  <2>4. pc = 0 /\ r[0] = 0
    BY <2>1 DEF Started, AtStart
  <2>5. ClearSoFar
    BY <2>2, <2>4, ClearStarts
  <2> QED
    BY <2>1, <2>3, <2>5
<1>2. IInv /\ [Next]_vars => IInv'
  <2> SUFFICES ASSUME IInv, [Next]_vars PROVE IInv'
    OBVIOUS
  <2>1. Started' /\ code' = code
    BY StartedStays, Zenon DEF Same
  <2>2. MirrorsSoFar'
    BY MirrorsOn
  <2>3. ASSUME code = ClearInFpsr PROVE ClearSoFar'
    <3>1. ClearSoFar
      BY <2>3
    <3>2. CASE UNCHANGED vars
      BY <3>1, <3>2, Zenon DEF vars, ClearSoFar, Selected
    <3>3. CASE Next /\ ~ (running /\ pc \in DOMAIN code)
      BY <3>2, <3>3, EndedStays
    <3>4. CASE Next /\ running /\ pc \in DOMAIN code
      BY <2>3, <3>1, <3>4, ClearOn
    <3> QED
      BY <3>2, <3>3, <3>4
  <2> QED
    BY <2>1, <2>2, <2>3
<1>3. IInv => FpuMirrorsAgree
  <2> SUFFICES ASSUME IInv PROVE FpuMirrorsAgree
    OBVIOUS
  <2>1. CASE code = ClearInFpsr
    <3>1. pc = 16 => Selected.FPSR.xp = IF Selected.FPST.xp = {"Z"} THEN Selected.FPSR.xc
                                         ELSE Selected.FPST.xp
      BY <2>1, Zenon DEF ClearSoFar
    <3> QED
      BY <2>1, <3>1, Zenon DEF FpuMirrorsAgree
  <2>2. CASE code = FromReserved /\ code # ClearInFpsr
    BY <2>2, Zenon DEF FpuMirrorsAgree
  <2>3. CASE code \notin {ClearInFpsr, FromReserved}
    <3>1. PICK p \in Programs : code = p.code
      BY Zenon DEF Started
    <3>2. WritesNone(code) \/ KeepsToMirrors(code)
      BY <2>3, <3>1, StartsAssumption, Zenon DEF MirrorsWritten
    <3>3. Mirrored(fpu)
      BY <3>2 DEF MirrorsSoFar
    <3>4. \A b \in Banks : LET regs == fpu.regs[b]
            IN /\ [xc |-> regs.FPSR.xc, xp |-> regs.FPSR.xp, if |-> regs.FPSR.if] = regs.FPST
               /\ regs.FPSR.cc = regs.FPCC.cc
               /\ [rm |-> regs.FPSR.rm, xe |-> regs.FPSR.xe] = regs.FPCFG
      BY <3>3, ShownAgrees, Zenon DEF Mirrored
    <3>5. code # ClearInFpsr
      BY <2>3
    <3> QED
      BY <3>4, <3>5, Zenon DEF FpuMirrorsAgree
  <2> QED
    BY <2>1, <2>2, <2>3
<1> QED
  BY <1>1, <1>2, <1>3, PTL DEF Spec

----------------------------------------------------------------------------
(* Loads and stores.                                                         *)

(* What has bits enough is not cut, nor changed by extending its sign.       *)
LEMMA FitsBits ==
  ASSUME NEW bits \in 1 .. Width, NEW d \in Int
  PROVE  /\ d \in 0 .. 2 ^ bits - 1 => Low(bits, d) = d
         /\ d \in - (2 ^ (bits - 1)) .. 2 ^ (bits - 1) - 1 => Extend(bits, d) = d
<1> DEFINE half == 2 ^ (bits - 1)
           all  == 2 ^ bits
<1>1. half \in Nat \ {0} /\ all = 2 * half
  <2> DEFINE j == bits - 1
  <2>1. j \in 0 .. Width /\ 1 \in 0 .. Width /\ 1 + j = bits /\ 1 + j <= Width
    BY CoreAssumption, SMT
  <2> HIDE DEF j
  <2>2. 2 ^ j \in Nat \ {0} /\ 2 ^ (1 + j) = 2 ^ 1 * 2 ^ j
    BY <2>1, WordPowers
  <2> QED
    BY <2>1, <2>2, SMT DEF j
<1> HIDE DEF half, all
<1>2. all \in Nat \ {0}
  BY <1>1, SMT
<1>3. d \in 0 .. all - 1 => d % all = d
  BY <1>2, Turn
<1>4. d \in - half .. half - 1 => d % all = IF d < 0 THEN d + all ELSE d
  <2>1. d \in - half .. half - 1 => IF d < 0 THEN d \in - all .. -1 ELSE d \in 0 .. all - 1
    BY <1>1, SMT
  <2>2. d \in - all .. -1 => d % all = d + all
    BY <1>2, Turn
  <2> QED
    BY <1>3, <2>1, <2>2
<1>5. d \in - half .. half - 1 => (IF d % all < half THEN d % all ELSE (d % all) - all) = d
  BY <1>1, <1>4, SMT
<1> QED
  BY <1>3, <1>5 DEF Low, Extend, half, all

(* So it is of the displacements of the forms.                               *)
LEMMA Displacements ==
  /\ Low(EpBits, 31) = 31 /\ Low(EpBits - 1, 15) = 15 /\ Low(EpBits - 3, 3) = 3
  /\ Extend(Half, -3) = -3 /\ Extend(Half, -8) = -8 /\ Extend(Half, 6) = 6
  /\ Extend(LongBits, -9) = -9 /\ Extend(LongBits, 31) = 31 /\ Extend(LongBits, -32) = -32
<1>1. /\ EpBits \in 5 .. Width /\ LongBits \in 6 .. Width /\ Width \in Nat /\ Width >= 8
      /\ EpBits - 1 \in 4 .. Width /\ EpBits - 3 \in 2 .. Width /\ LongBits - 1 \in 5 .. Width
  BY ProgramsAssumption, CoreAssumption, SMT
<1>2. Half \in 4 .. Width /\ Half - 1 \in 3 .. Width
  <2>1. Width \div 2 >= 4 /\ Width \div 2 <= Width /\ Width \div 2 \in Int
    BY <1>1, SMT
  <2> QED
    BY <1>1, <2>1, SMT DEF Half
<1>3. 2 ^ 5 = 32 /\ 2 ^ 4 = 16 /\ 2 ^ 3 = 8 /\ 2 ^ 2 = 4
  BY SMT
<1>4. 32 <= 2 ^ EpBits /\ 2 ^ EpBits \in Nat
  <2>1. EpBits \in 0 .. Width /\ 5 \in 0 .. EpBits
    BY <1>1, SMT
  <2> QED
    BY <1>3, <2>1, PowersGrow
<1>5. 16 <= 2 ^ (EpBits - 1) /\ 2 ^ (EpBits - 1) \in Nat
  <2>1. EpBits - 1 \in 0 .. Width /\ 4 \in 0 .. EpBits - 1
    BY <1>1, SMT
  <2> QED
    BY <1>3, <2>1, PowersGrow
<1>6. 4 <= 2 ^ (EpBits - 3) /\ 2 ^ (EpBits - 3) \in Nat
  <2>1. EpBits - 3 \in 0 .. Width /\ 2 \in 0 .. EpBits - 3
    BY <1>1, SMT
  <2> QED
    BY <1>3, <2>1, PowersGrow
<1>7. 8 <= 2 ^ (Half - 1) /\ 2 ^ (Half - 1) \in Nat
  <2>1. Half - 1 \in 0 .. Width /\ 3 \in 0 .. Half - 1
    BY <1>1, <1>2, SMT
  <2> QED
    BY <1>3, <2>1, PowersGrow
<1>8. 32 <= 2 ^ (LongBits - 1) /\ 2 ^ (LongBits - 1) \in Nat
  <2>1. LongBits - 1 \in 0 .. Width /\ 5 \in 0 .. LongBits - 1
    BY <1>1, SMT
  <2> QED
    BY <1>3, <2>1, PowersGrow
<1>9. /\ 31 \in 0 .. 2 ^ EpBits - 1 /\ 15 \in 0 .. 2 ^ (EpBits - 1) - 1 /\ 3 \in 0 .. 2 ^ (EpBits - 3) - 1
      /\ {-3, -8, 6} \subseteq - (2 ^ (Half - 1)) .. 2 ^ (Half - 1) - 1
      /\ {-9, 31, -32} \subseteq - (2 ^ (LongBits - 1)) .. 2 ^ (LongBits - 1) - 1
  BY <1>4, <1>5, <1>6, <1>7, <1>8, SMT
<1>10. /\ EpBits \in 1 .. Width /\ EpBits - 1 \in 1 .. Width /\ EpBits - 3 \in 1 .. Width
       /\ Half \in 1 .. Width /\ LongBits \in 1 .. Width
  BY <1>1, <1>2, SMT
<1>11. Low(EpBits, 31) = 31 /\ Low(EpBits - 1, 15) = 15 /\ Low(EpBits - 3, 3) = 3
  BY <1>9, <1>10, FitsBits
<1>12. Extend(Half, -3) = -3 /\ Extend(Half, -8) = -8 /\ Extend(Half, 6) = 6
  BY <1>9, <1>10, FitsBits
<1>13. Extend(LongBits, -9) = -9 /\ Extend(LongBits, 31) = 31 /\ Extend(LongBits, -32) = -32
  BY <1>9, <1>10, FitsBits
<1> QED
  BY <1>11, <1>12, <1>13

(* The fields of an instruction of a form, and those of forms.               *)
LEMMA FormFields ==
  /\ \A f, b, d : /\ Uses(f, b, d).op = f.op /\ Uses(f, b, d).imm = f.disp
                  /\ Uses(f, b, d).reg1 = b /\ Uses(f, b, d).reg2 = d /\ Uses(f, b, d).reg3 = d
  /\ \A op, n, u, d : /\ Form(op, n, u, d).op = op /\ Form(op, n, u, d).bytes = n
                      /\ Form(op, n, u, d).unit = u /\ Form(op, n, u, d).disp = d
BY SMT DEF Uses, On3, Ins, Form

(* The addresses the forms reach.                                            *)
LEMMA FormAddresses ==
  /\ ins.imm = 31 => FromEp(EpBits, 1) = Word(r[EP] + 31 * 1) /\ FromEp(EpBits, 2) = Word(r[EP] + 31 * 2)
                      /\ FarFromR1 = Word(R1 + 31 * 1)
  /\ ins.imm = 15 => FromEp(EpBits - 1, 4) = Word(r[EP] + 15 * 4)
  /\ ins.imm = 3 => FromEp(EpBits - 3, 1) = Word(r[EP] + 3 * 1) /\ FromEp(EpBits - 3, 2) = Word(r[EP] + 3 * 2)
                     /\ FromR1(2) = Word(R1 + 3 * 2)
  /\ ins.imm = -3 => FromR1(1) = Word(R1 + (-3) * 1)
  /\ ins.imm = -4 => FromR1(2) = Word(R1 + (-4) * 2)
  /\ ins.imm = -9 => FarFromR1 = Word(R1 + (-9) * 1)
  /\ ins.imm = -32 => FarFromR1 = Word(R1 + (-32) * 1)
<1>1. /\ 31 * 1 = 31 /\ (-3) * 1 = -3 /\ (-4) * 2 = -8 /\ 3 * 2 = 6 /\ (-9) * 1 = -9 /\ (-32) * 1 = -32
  BY SMT
<1> QED
  BY <1>1, Displacements, Zenon DEF FromEp, FromR1, FarFromR1

(* The bytes that the instructions of the forms occupy.                      *)
LEMMA FormSizes ==
  /\ \A op \in {"sstb", "ssth", "sstw", "sldb", "sldh", "sldbu", "sldhu", "sldw"} : Size(op) = 2
  /\ \A op \in {"stb", "sth", "stw", "ldb", "ldh", "ldbu", "ldhu", "ldw"} : Size(op) = 4
  /\ \A op \in {"st_b_14", "st_h_14", "st_w_14", "ld_b_14", "ld_h_14", "ld_bu_14", "ld_hu_14", "ld_w_14"} : Size(op) = 6
BY SMT DEF Size, SixBytes, FourBytes, FloatOps, Unsupported

(* A step that stores in one of the forms.                                   *)
LEMMA StoreExecutes ==
  ASSUME NEW f \in StoreForms, Next, running, pc \in DOMAIN code, ins = Uses(f, 1, 3)
  PROVE  Store(Base(f, 1), Word(r[Base(f, 1)] + f.disp * f.unit), f.bytes, r[3], Size(f.op))
<1>1. ins.op = f.op /\ ins.imm = f.disp /\ ins.reg1 = 1 /\ ins.reg2 = 3 /\ ins.reg3 = 3
  BY FormFields
<1>2. f.op \in StoreOps
  BY FormFields, SMT DEF StoreForms, StoreOps
<1>3. CASE f = Form("sstb", 1, 1, 31)
  <2>1. f.op = "sstb" /\ f.bytes = 1 /\ f.unit = 1 /\ f.disp = 31 /\ Size("sstb") = 2
    BY <1>3, FormFields, FormSizes
  <2>2. Base(f, 1) = EP
    BY <2>1, SMT DEF Base, ShortForms
  <2> QED
    BY <1>1, <1>2, <2>1, <2>2, GroupOfStep, StoreByName, FormAddresses, Zenon DEF Sstb, R1, R2, R3
<1>4. CASE f = Form("ssth", 2, 2, 31)
  <2>1. f.op = "ssth" /\ f.bytes = 2 /\ f.unit = 2 /\ f.disp = 31 /\ Size("ssth") = 2
    BY <1>4, FormFields, FormSizes
  <2>2. Base(f, 1) = EP
    BY <2>1, SMT DEF Base, ShortForms
  <2> QED
    BY <1>1, <1>2, <2>1, <2>2, GroupOfStep, StoreByName, FormAddresses, Zenon DEF Ssth, R1, R2, R3
<1>5. CASE f = Form("sstw", 4, 4, 15)
  <2>1. f.op = "sstw" /\ f.bytes = 4 /\ f.unit = 4 /\ f.disp = 15 /\ Size("sstw") = 2
    BY <1>5, FormFields, FormSizes
  <2>2. Base(f, 1) = EP
    BY <2>1, SMT DEF Base, ShortForms
  <2> QED
    BY <1>1, <1>2, <2>1, <2>2, GroupOfStep, StoreByName, FormAddresses, Zenon DEF Sstw, R1, R2, R3
<1>6. CASE f = Form("stb", 1, 1, -3)
  <2>1. f.op = "stb" /\ f.bytes = 1 /\ f.unit = 1 /\ f.disp = -3 /\ Size("stb") = 4
    BY <1>6, FormFields, FormSizes
  <2>2. Base(f, 1) = 1
    BY <2>1, SMT DEF Base, ShortForms
  <2> QED
    BY <1>1, <1>2, <2>1, <2>2, GroupOfStep, StoreByName, FormAddresses, Zenon DEF Stb, R1, R2, R3
<1>7. CASE f = Form("sth", 2, 2, -4)
  <2>1. f.op = "sth" /\ f.bytes = 2 /\ f.unit = 2 /\ f.disp = -4 /\ Size("sth") = 4
    BY <1>7, FormFields, FormSizes
  <2>2. Base(f, 1) = 1
    BY <2>1, SMT DEF Base, ShortForms
  <2> QED
    BY <1>1, <1>2, <2>1, <2>2, GroupOfStep, StoreByName, FormAddresses, Zenon DEF Sth, R1, R2, R3
<1>8. CASE f = Form("stw", 4, 2, 3)
  <2>1. f.op = "stw" /\ f.bytes = 4 /\ f.unit = 2 /\ f.disp = 3 /\ Size("stw") = 4
    BY <1>8, FormFields, FormSizes
  <2>2. Base(f, 1) = 1
    BY <2>1, SMT DEF Base, ShortForms
  <2> QED
    BY <1>1, <1>2, <2>1, <2>2, GroupOfStep, StoreByName, FormAddresses, Zenon DEF Stw, R1, R2, R3
<1>9. CASE f = Form("st_b_14", 1, 1, -9)
  <2>1. f.op = "st_b_14" /\ f.bytes = 1 /\ f.unit = 1 /\ f.disp = -9 /\ Size("st_b_14") = 6
    BY <1>9, FormFields, FormSizes
  <2>2. Base(f, 1) = 1
    BY <2>1, SMT DEF Base, ShortForms
  <2> QED
    BY <1>1, <1>2, <2>1, <2>2, GroupOfStep, StoreByName, FormAddresses, Zenon DEF Stb_14, R1, R2, R3
<1>10. CASE f = Form("st_h_14", 2, 1, 31)
  <2>1. f.op = "st_h_14" /\ f.bytes = 2 /\ f.unit = 1 /\ f.disp = 31 /\ Size("st_h_14") = 6
    BY <1>10, FormFields, FormSizes
  <2>2. Base(f, 1) = 1
    BY <2>1, SMT DEF Base, ShortForms
  <2> QED
    BY <1>1, <1>2, <2>1, <2>2, GroupOfStep, StoreByName, FormAddresses, Zenon DEF Sth_14, R1, R2, R3
<1>11. CASE f = Form("st_w_14", 4, 1, -32)
  <2>1. f.op = "st_w_14" /\ f.bytes = 4 /\ f.unit = 1 /\ f.disp = -32 /\ Size("st_w_14") = 6
    BY <1>11, FormFields, FormSizes
  <2>2. Base(f, 1) = 1
    BY <2>1, SMT DEF Base, ShortForms
  <2> QED
    BY <1>1, <1>2, <2>1, <2>2, GroupOfStep, StoreByName, FormAddresses, Zenon DEF Stw_14, R1, R2, R3
<1> QED
  BY <1>3, <1>4, <1>5, <1>6, <1>7, <1>8, <1>9, <1>10, <1>11 DEF StoreForms

(* What a load in one of the forms writes.                                   *)
LoadedAs(g, word) == IF g \in SignedForms THEN Word(Extend(Byte * g.bytes, word)) ELSE word

(* A step that loads in one of the forms.                                    *)
LEMMA LoadExecutes ==
  ASSUME NEW g \in LoadForms, Next, running, pc \in DOMAIN code, ins = Uses(g, 2, 4),
         NEW a, a = Word(r[Base(g, 2)] + g.disp * g.unit)
  PROVE  Load(4, a, g.bytes, LoadedAs(g, Read(a, g.bytes)), Size(g.op))
<1>1. ins.op = g.op /\ ins.imm = g.disp /\ ins.reg1 = 2 /\ ins.reg2 = 4 /\ ins.reg3 = 4
  BY FormFields
<1>2. g.op \in LoadOps
  BY FormFields, SMT DEF LoadForms, SignedForms, LoadOps
<1>3. g \in SignedForms => g.op \in {"sldb", "sldh", "ldb", "ldh", "ld_b_14", "ld_h_14"}
  BY FormFields, SMT DEF SignedForms
<1>4. CASE g = Form("sldb", 1, 1, 31)
  <2>1. g.op = "sldb" /\ g.bytes = 1 /\ g.unit = 1 /\ g.disp = 31 /\ Size("sldb") = 2
    BY <1>4, FormFields, FormSizes
  <2>2. Base(g, 2) = EP
    BY <2>1, SMT DEF Base, ShortForms
  <2>3. g \in SignedForms
    BY <1>3, <1>4, <2>1, SMT DEF SignedForms
  <2> QED
    BY <1>1, <1>2, <2>1, <2>2, <2>3, GroupOfStep, LoadByName, FormAddresses,
       Zenon DEF Sldb, LoadSigned, LoadedAs, R1
<1>5. CASE g = Form("sldh", 2, 2, 31)
  <2>1. g.op = "sldh" /\ g.bytes = 2 /\ g.unit = 2 /\ g.disp = 31 /\ Size("sldh") = 2
    BY <1>5, FormFields, FormSizes
  <2>2. Base(g, 2) = EP
    BY <2>1, SMT DEF Base, ShortForms
  <2>3. g \in SignedForms
    BY <1>3, <1>5, <2>1, SMT DEF SignedForms
  <2> QED
    BY <1>1, <1>2, <2>1, <2>2, <2>3, GroupOfStep, LoadByName, FormAddresses,
       Zenon DEF Sldh, LoadSigned, LoadedAs, R1
<1>6. CASE g = Form("ldb", 1, 1, -3)
  <2>1. g.op = "ldb" /\ g.bytes = 1 /\ g.unit = 1 /\ g.disp = -3 /\ Size("ldb") = 4
    BY <1>6, FormFields, FormSizes
  <2>2. Base(g, 2) = 2
    BY <2>1, SMT DEF Base, ShortForms
  <2>3. g \in SignedForms
    BY <1>3, <1>6, <2>1, SMT DEF SignedForms
  <2> QED
    BY <1>1, <1>2, <2>1, <2>2, <2>3, GroupOfStep, LoadByName, FormAddresses,
       Zenon DEF Ldb, LoadSigned, LoadedAs, R1
<1>7. CASE g = Form("ldh", 2, 2, -4)
  <2>1. g.op = "ldh" /\ g.bytes = 2 /\ g.unit = 2 /\ g.disp = -4 /\ Size("ldh") = 4
    BY <1>7, FormFields, FormSizes
  <2>2. Base(g, 2) = 2
    BY <2>1, SMT DEF Base, ShortForms
  <2>3. g \in SignedForms
    BY <1>3, <1>7, <2>1, SMT DEF SignedForms
  <2> QED
    BY <1>1, <1>2, <2>1, <2>2, <2>3, GroupOfStep, LoadByName, FormAddresses,
       Zenon DEF Ldh, LoadSigned, LoadedAs, R1
<1>8. CASE g = Form("ld_b_14", 1, 1, -9)
  <2>1. g.op = "ld_b_14" /\ g.bytes = 1 /\ g.unit = 1 /\ g.disp = -9 /\ Size("ld_b_14") = 6
    BY <1>8, FormFields, FormSizes
  <2>2. Base(g, 2) = 2
    BY <2>1, SMT DEF Base, ShortForms
  <2>3. g \in SignedForms
    BY <1>3, <1>8, <2>1, SMT DEF SignedForms
  <2> QED
    BY <1>1, <1>2, <2>1, <2>2, <2>3, GroupOfStep, LoadByName, FormAddresses,
       Zenon DEF Ldb_14, LoadSigned, LoadedAs, R1
<1>9. CASE g = Form("ld_h_14", 2, 1, 31)
  <2>1. g.op = "ld_h_14" /\ g.bytes = 2 /\ g.unit = 1 /\ g.disp = 31 /\ Size("ld_h_14") = 6
    BY <1>9, FormFields, FormSizes
  <2>2. Base(g, 2) = 2
    BY <2>1, SMT DEF Base, ShortForms
  <2>3. g \in SignedForms
    BY <1>3, <1>9, <2>1, SMT DEF SignedForms
  <2> QED
    BY <1>1, <1>2, <2>1, <2>2, <2>3, GroupOfStep, LoadByName, FormAddresses,
       Zenon DEF Ldh_14, LoadSigned, LoadedAs, R1
<1>10. CASE g = Form("sldbu", 1, 1, 3)
  <2>1. g.op = "sldbu" /\ g.bytes = 1 /\ g.unit = 1 /\ g.disp = 3 /\ Size("sldbu") = 2
    BY <1>10, FormFields, FormSizes
  <2>2. Base(g, 2) = EP
    BY <2>1, SMT DEF Base, ShortForms
  <2>3. g \notin SignedForms
    BY <1>3, <1>10, <2>1, SMT DEF SignedForms
  <2> QED
    BY <1>1, <1>2, <2>1, <2>2, <2>3, GroupOfStep, LoadByName, FormAddresses,
       Zenon DEF Sldbu, LoadUnsigned, LoadedAs, R1
<1>11. CASE g = Form("sldhu", 2, 2, 3)
  <2>1. g.op = "sldhu" /\ g.bytes = 2 /\ g.unit = 2 /\ g.disp = 3 /\ Size("sldhu") = 2
    BY <1>11, FormFields, FormSizes
  <2>2. Base(g, 2) = EP
    BY <2>1, SMT DEF Base, ShortForms
  <2>3. g \notin SignedForms
    BY <1>3, <1>11, <2>1, SMT DEF SignedForms
  <2> QED
    BY <1>1, <1>2, <2>1, <2>2, <2>3, GroupOfStep, LoadByName, FormAddresses,
       Zenon DEF Sldhu, LoadUnsigned, LoadedAs, R1
<1>12. CASE g = Form("sldw", 4, 4, 15)
  <2>1. g.op = "sldw" /\ g.bytes = 4 /\ g.unit = 4 /\ g.disp = 15 /\ Size("sldw") = 2
    BY <1>12, FormFields, FormSizes
  <2>2. Base(g, 2) = EP
    BY <2>1, SMT DEF Base, ShortForms
  <2>3. g \notin SignedForms
    BY <1>3, <1>12, <2>1, SMT DEF SignedForms
  <2> QED
    BY <1>1, <1>2, <2>1, <2>2, <2>3, GroupOfStep, LoadByName, FormAddresses,
       Zenon DEF Sldw, LoadUnsigned, LoadedAs, R1
<1>13. CASE g = Form("ldbu", 1, 1, -3)
  <2>1. g.op = "ldbu" /\ g.bytes = 1 /\ g.unit = 1 /\ g.disp = -3 /\ Size("ldbu") = 4
    BY <1>13, FormFields, FormSizes
  <2>2. Base(g, 2) = 2
    BY <2>1, SMT DEF Base, ShortForms
  <2>3. g \notin SignedForms
    BY <1>3, <1>13, <2>1, SMT DEF SignedForms
  <2> QED
    BY <1>1, <1>2, <2>1, <2>2, <2>3, GroupOfStep, LoadByName, FormAddresses,
       Zenon DEF Ldbu, LoadUnsigned, LoadedAs, R1
<1>14. CASE g = Form("ldhu", 2, 2, -4)
  <2>1. g.op = "ldhu" /\ g.bytes = 2 /\ g.unit = 2 /\ g.disp = -4 /\ Size("ldhu") = 4
    BY <1>14, FormFields, FormSizes
  <2>2. Base(g, 2) = 2
    BY <2>1, SMT DEF Base, ShortForms
  <2>3. g \notin SignedForms
    BY <1>3, <1>14, <2>1, SMT DEF SignedForms
  <2> QED
    BY <1>1, <1>2, <2>1, <2>2, <2>3, GroupOfStep, LoadByName, FormAddresses,
       Zenon DEF Ldhu, LoadUnsigned, LoadedAs, R1
<1>15. CASE g = Form("ldw", 4, 2, 3)
  <2>1. g.op = "ldw" /\ g.bytes = 4 /\ g.unit = 2 /\ g.disp = 3 /\ Size("ldw") = 4
    BY <1>15, FormFields, FormSizes
  <2>2. Base(g, 2) = 2
    BY <2>1, SMT DEF Base, ShortForms
  <2>3. g \notin SignedForms
    BY <1>3, <1>15, <2>1, SMT DEF SignedForms
  <2> QED
    BY <1>1, <1>2, <2>1, <2>2, <2>3, GroupOfStep, LoadByName, FormAddresses,
       Zenon DEF Ldw, LoadUnsigned, LoadedAs, R1
<1>16. CASE g = Form("ld_bu_14", 1, 1, -9)
  <2>1. g.op = "ld_bu_14" /\ g.bytes = 1 /\ g.unit = 1 /\ g.disp = -9 /\ Size("ld_bu_14") = 6
    BY <1>16, FormFields, FormSizes
  <2>2. Base(g, 2) = 2
    BY <2>1, SMT DEF Base, ShortForms
  <2>3. g \notin SignedForms
    BY <1>3, <1>16, <2>1, SMT DEF SignedForms
  <2> QED
    BY <1>1, <1>2, <2>1, <2>2, <2>3, GroupOfStep, LoadByName, FormAddresses,
       Zenon DEF Ldbu_14, LoadUnsigned, LoadedAs, R1
<1>17. CASE g = Form("ld_hu_14", 2, 1, 31)
  <2>1. g.op = "ld_hu_14" /\ g.bytes = 2 /\ g.unit = 1 /\ g.disp = 31 /\ Size("ld_hu_14") = 6
    BY <1>17, FormFields, FormSizes
  <2>2. Base(g, 2) = 2
    BY <2>1, SMT DEF Base, ShortForms
  <2>3. g \notin SignedForms
    BY <1>3, <1>17, <2>1, SMT DEF SignedForms
  <2> QED
    BY <1>1, <1>2, <2>1, <2>2, <2>3, GroupOfStep, LoadByName, FormAddresses,
       Zenon DEF Ldhu_14, LoadUnsigned, LoadedAs, R1
<1>18. CASE g = Form("ld_w_14", 4, 1, -32)
  <2>1. g.op = "ld_w_14" /\ g.bytes = 4 /\ g.unit = 1 /\ g.disp = -32 /\ Size("ld_w_14") = 6
    BY <1>18, FormFields, FormSizes
  <2>2. Base(g, 2) = 2
    BY <2>1, SMT DEF Base, ShortForms
  <2>3. g \notin SignedForms
    BY <1>3, <1>18, <2>1, SMT DEF SignedForms
  <2> QED
    BY <1>1, <1>2, <2>1, <2>2, <2>3, GroupOfStep, LoadByName, FormAddresses,
       Zenon DEF Ldw_14, LoadUnsigned, LoadedAs, R1
<1> QED
  BY <1>4, <1>5, <1>6, <1>7, <1>8, <1>9, <1>10, <1>11, <1>12, <1>13, <1>14, <1>15, <1>16, <1>17, <1>18 DEF LoadForms, SignedForms

(* A program that stores and then loads.                                     *)
LEMMA AccessCode ==
  ASSUME NEW f \in StoreForms, NEW g \in LoadForms
  PROVE  /\ Size(f.op) \in {2, 4, 6} /\ Size(g.op) \in {2, 4, 6}
         /\ DOMAIN StoreThenLoad(f, g) = {0, Size(f.op)}
         /\ StoreThenLoad(f, g)[0] = Uses(f, 1, 3)
         /\ StoreThenLoad(f, g)[Size(f.op)] = Uses(g, 2, 4)
<1>1. f.op \in {"sstb", "ssth", "sstw", "stb", "sth", "stw", "st_b_14", "st_h_14", "st_w_14"}
  BY FormFields, SMT DEF StoreForms
<1>2. g.op \in {"sldb", "sldh", "sldbu", "sldhu", "sldw", "ldb", "ldh", "ldbu", "ldhu", "ldw",
                "ld_b_14", "ld_h_14", "ld_bu_14", "ld_hu_14", "ld_w_14"}
  BY FormFields, SMT DEF LoadForms, SignedForms
<1>3. Size(f.op) \in {2, 4, 6} /\ Size(g.op) \in {2, 4, 6}
  BY <1>1, <1>2, FormSizes, SMT
<1> DEFINE n == Size(f.op)
<1> HIDE DEF n
<1>4. n \in {2, 4, 6}
  BY <1>3 DEF n
<1>5. StoreThenLoad(f, g) = 0 :> Uses(f, 1, 3) @@ n :> Uses(g, 2, 4)
  BY DEF StoreThenLoad, n
<1> DEFINE u == Uses(f, 1, 3)
           v == Uses(g, 2, 4)
<1> HIDE DEF u, v
<1>6. /\ DOMAIN (0 :> u @@ n :> v) = {0, n}
      /\ (0 :> u @@ n :> v)[0] = u
      /\ (0 :> u @@ n :> v)[n] = v
  BY <1>4, SMT DEF :>, @@
<1> QED
  BY <1>3, <1>5, <1>6 DEF n, u, v

(* Where a form reaches, what the store leaves in memory, and what the load  *)
(* finds there.                                                              *)
Reached(f, otherwise) == Word(start.r[Base(f, otherwise)] + f.disp * f.unit)

Then(f, c) ==
  IF c \in Cells(Reached(f, 1), f.bytes) THEN ByteOf(start.r[3], c - Reached(f, 1)) ELSE start.mem[c]

Stored(f) == [c \in DOMAIN start.mem |-> Then(f, c)]

Finds(f, g) ==
  LoadedAs(g, OfBytes([k \in 0 .. g.bytes - 1 |-> Then(f, Reached(g, 2) + k)], g.bytes))

BeforeStore(f) ==
  pc = 0 /\ r = start.r /\ mem = start.mem /\ (running \/ ~ Writable(Reached(f, 1), f.bytes))
BeforeLoad(f, g) ==
  pc = Size(f.op) /\ r = start.r /\ mem = Stored(f) /\ (running \/ ~ Readable(Reached(g, 2), g.bytes))
AfterLoad(f, g) ==
  pc = Size(f.op) + Size(g.op) /\ running /\ mem = Stored(f) /\ r[4] = Finds(f, g)

AccessSoFar(f, g) ==
  code = StoreThenLoad(f, g) => BeforeStore(f) \/ BeforeLoad(f, g) \/ AfterLoad(f, g)

(* A form reaches a word.                                                    *)
LEMMA FormsReachWords ==
  ASSUME NEW g \in StoreForms \cup LoadForms, NEW b \in 1 .. 2, Started PROVE Reached(g, b) \in Words
<1>1. g.disp \in Int /\ g.unit \in Int
  BY FormFields, SMT DEF StoreForms, LoadForms, SignedForms
<1>2. Base(g, b) \in Regs
  <2>1. b \in Regs /\ EP \in Regs
    BY NamedRegs, CoreAssumption, SMT
  <2> QED
    BY <2>1 DEF Base
<1>3. start.r[Base(g, b)] \in Int
  <2>1. start.r \in [Regs -> Words]
    BY DEF Started
  <2> QED
    BY <1>2, <2>1, Sizes
<1>4. start.r[Base(g, b)] + g.disp * g.unit \in Int
  BY <1>1, <1>3, SMT
<1> QED
  BY <1>4, WordIsWord DEF Reached

(* No store counts from SP.                                                  *)
LEMMA NeverFromSp == ASSUME NEW f \in StoreForms PROVE ~ StackOver(Base(f, 1))
BY ProgramsAssumption DEF StackOver, Base

(* The store.                                                                *)
LEMMA StoreOn ==
  ASSUME NEW f \in StoreForms, NEW g \in LoadForms, code = StoreThenLoad(f, g), Started,
         BeforeStore(f), running, Next
  PROVE  BeforeStore(f)' \/ BeforeLoad(f, g)'
<1> DEFINE a == Word(r[Base(f, 1)] + f.disp * f.unit)
<1>1. pc = 0 /\ pc \in DOMAIN code /\ ins = Uses(f, 1, 3)
  BY AccessCode DEF BeforeStore, ins
<1>2. Store(Base(f, 1), a, f.bytes, r[3], Size(f.op))
  BY <1>1, StoreExecutes
<1>3. a = Reached(f, 1) /\ r = start.r /\ mem = start.mem
  BY Zenon DEF BeforeStore, Reached
<1> HIDE DEF a
<1>4. start' = start
  BY StartedStays, Zenon DEF Same
<1>5. Reached(f, 1)' = Reached(f, 1)
  BY <1>4, Zenon DEF Reached
<1>6. CASE /\ mem' = Written(a, f.bytes, r[3])
           /\ MovesTo(pc + Size(f.op))
           /\ r' = r
  <2>1. mem' = Stored(f)
    BY <1>3, <1>6, Zenon DEF Written, Stored, Then
  <2>2. Stored(f)' = Stored(f)
    BY <1>4, <1>5, Zenon DEF Stored, Then, Cells, ByteOf, Low, Byte
  <2>3. pc' = Word(0 + Size(f.op)) /\ running'
    BY <1>1, <1>6, Zenon DEF MovesTo, Proceed
  <2>4. Word(0 + Size(f.op)) = Size(f.op)
    <3>1. Size(f.op) \in {2, 4, 6}
      BY AccessCode
    <3>2. 0 + Size(f.op) \in 0 .. 16 /\ 0 + Size(f.op) = Size(f.op)
      BY <3>1, SMT
    <3> QED
      BY <3>2, SmallWords
  <2> QED
    BY <1>3, <1>4, <1>6, <2>1, <2>2, <2>3, <2>4 DEF BeforeLoad
<1>7. CASE ~ Writable(a, f.bytes) /\ Stop
  <2>1. pc' = pc /\ r' = r /\ mem' = mem
    BY <1>7, Zenon DEF Stop
  <2>2. ~ Writable(Reached(f, 1), f.bytes)'
    BY <1>3, <1>5, <1>7, <2>1, Zenon DEF Writable, Readable, Cells
  <2> QED
    BY <1>1, <1>3, <1>4, <2>1, <2>2, Zenon DEF BeforeStore
<1> QED
  BY <1>2, <1>6, <1>7, NeverFromSp, Zenon DEF Store

(* The load.                                                                 *)
LEMMA LoadOn ==
  ASSUME NEW f \in StoreForms, NEW g \in LoadForms, code = StoreThenLoad(f, g), Started,
         BeforeLoad(f, g), running, Next
  PROVE  BeforeLoad(f, g)' \/ AfterLoad(f, g)'
<1> DEFINE b == Word(r[Base(g, 2)] + g.disp * g.unit)
           w == LoadedAs(g, Read(b, g.bytes))
<1>1. pc = Size(f.op) /\ pc \in DOMAIN code /\ ins = Uses(g, 2, 4)
  BY AccessCode DEF BeforeLoad, ins
<1>2. Load(4, b, g.bytes, w, Size(g.op))
  BY <1>1, LoadExecutes
<1>3. b = Reached(g, 2) /\ r = start.r /\ mem = Stored(f)
  BY Zenon DEF BeforeLoad, Reached
<1> HIDE DEF b
<1>4. start' = start
  BY StartedStays, Zenon DEF Same
<1>5. /\ Reached(g, 2)' = Reached(g, 2) /\ Reached(f, 1)' = Reached(f, 1)
  BY <1>4, Zenon DEF Reached
<1>6. Stored(f)' = Stored(f) /\ Finds(f, g)' = Finds(f, g)
  BY <1>4, <1>5, Zenon DEF Stored, Finds, Then, Cells, ByteOf, Low, Byte
<1>7. CASE Readable(b, g.bytes) /\ Move(4, w, Size(g.op))
  <2>1. \A c \in DOMAIN mem : mem[c] = Then(f, c)
    BY <1>3 DEF Stored
  <2>2. \A k \in 0 .. g.bytes - 1 : b + k \in DOMAIN mem
    <3>1. b \in Int /\ g.bytes \in Int
      <4>1. b \in Words
        BY <1>3, FormsReachWords
      <4> QED
        BY <4>1, Sizes, FormFields, SMT DEF LoadForms, SignedForms
    <3>2. \A k \in 0 .. g.bytes - 1 : b + k \in Cells(b, g.bytes)
      BY <3>1, SMT DEF Cells
    <3> QED
      BY <1>7, <3>2 DEF Readable
  <2>3. [k \in 0 .. g.bytes - 1 |-> mem[b + k]] = [k \in 0 .. g.bytes - 1 |-> Then(f, b + k)]
    BY <2>1, <2>2
  <2>4. w = Finds(f, g)
    BY <1>3, <2>3, Zenon DEF Read, Finds
  <2> HIDE DEF w
  <2>5. r \in [Regs -> Words] /\ r[0] = 0 /\ 4 \in Regs /\ 4 # 0
    BY <1>3, NamedRegs, SMT DEF Started
  <2>6. /\ r' = [n \in Regs |-> IF n # 0 /\ n = 4 THEN w ELSE r[n]]
        /\ pc' = Word(Size(f.op) + Size(g.op)) /\ running' = running
    BY <1>1, <1>7, <2>5, ResultWrites, Zenon DEF Move
  <2>7. r'[4] = w
    BY <2>5, <2>6
  <2>8. mem' = mem
    BY <1>7, Zenon DEF Move, Result, Advance, Goto
  <2>9. Word(Size(f.op) + Size(g.op)) = Size(f.op) + Size(g.op)
    <3>1. Size(f.op) \in {2, 4, 6} /\ Size(g.op) \in {2, 4, 6}
      BY AccessCode
    <3>2. Size(f.op) + Size(g.op) \in 0 .. 16
      BY <3>1, SMT
    <3> QED
      BY <3>2, SmallWords
  <2> QED
    BY <1>3, <1>6, <2>4, <2>6, <2>7, <2>8, <2>9 DEF AfterLoad
<1>8. CASE ~ Readable(b, g.bytes) /\ Stop
  <2>1. pc' = pc /\ r' = r /\ mem' = mem
    BY <1>8, Zenon DEF Stop
  <2>2. ~ Readable(Reached(g, 2), g.bytes)'
    BY <1>3, <1>5, <1>8, <2>1, Zenon DEF Readable, Cells
  <2> QED
    BY <1>1, <1>3, <1>4, <1>6, <2>1, <2>2, Zenon DEF BeforeLoad
<1> QED
  BY <1>2, <1>7, <1>8, Zenon DEF Load

(* A step takes such a program one instruction further.                      *)
LEMMA AccessOn ==
  ASSUME NEW f \in StoreForms, NEW g \in LoadForms, Started, AccessSoFar(f, g), [Next]_vars
  PROVE  AccessSoFar(f, g)'
<1>1. code' = code /\ start' = start
  BY StartedStays, Zenon DEF Same
<1>2. SUFFICES ASSUME code = StoreThenLoad(f, g)
               PROVE  BeforeStore(f)' \/ BeforeLoad(f, g)' \/ AfterLoad(f, g)'
  BY <1>1, Zenon DEF AccessSoFar
<1>3. Reached(g, 2)' = Reached(g, 2) /\ Reached(f, 1)' = Reached(f, 1)
  BY <1>1, Zenon DEF Reached
<1>4. Stored(f)' = Stored(f) /\ Finds(f, g)' = Finds(f, g)
  BY <1>1, <1>3, Zenon DEF Stored, Finds, Then, Cells, ByteOf, Low, Byte
<1>5. BeforeStore(f) \/ BeforeLoad(f, g) \/ AfterLoad(f, g)
  BY <1>2 DEF AccessSoFar
<1>6. CASE UNCHANGED vars
  BY <1>1, <1>3, <1>4, <1>5, <1>6, Zenon DEF vars, BeforeStore, BeforeLoad, AfterLoad, Writable, Readable, Cells
<1>7. CASE Next /\ ~ (running /\ pc \in DOMAIN code)
  BY <1>6, <1>7, EndedStays
<1>8. CASE Next /\ running /\ pc \in DOMAIN code
  <2>1. ~ AfterLoad(f, g)
    <3>1. Size(f.op) \in {2, 4, 6} /\ Size(g.op) \in {2, 4, 6} /\ pc \in {0, Size(f.op)}
      BY <1>2, <1>8, AccessCode
    <3>2. pc # Size(f.op) + Size(g.op)
      BY <3>1, SMT
    <3> QED
      BY <3>2 DEF AfterLoad
  <2> QED
    BY <1>2, <1>5, <1>8, <2>1, StoreOn, LoadOn
<1> QED
  BY <1>6, <1>7, <1>8

(* A load finds the bytes that the store before it wrote, and in the others  *)
(* what was there, whatever the two forms, and is extended as its name says; *)
(* only an access that the bus does not serve is refused (op_exec_load.c,    *)
(* op_exec_store.c).  This is so for words of every size, any memory and any *)
(* addresses, also where the two accesses overlap in part.                   *)
THEOREM StoresAreSeen == Spec => []LoadsSeeStores
<1> DEFINE IInv == Started /\ \A f \in StoreForms, g \in LoadForms : AccessSoFar(f, g)
<1>1. Init => IInv
  <2> SUFFICES ASSUME Init PROVE IInv
    OBVIOUS
  <2>1. mem = start.mem
    BY SMT DEF Init
  <2>2. \A f \in StoreForms : BeforeStore(f)
    BY <2>1, StartsAtZero, Zenon DEF AtStart, BeforeStore
  <2>3. \A f \in StoreForms, g \in LoadForms : AccessSoFar(f, g)
    BY <2>2, Zenon DEF AccessSoFar
  <2> QED
    BY <2>3, StartsAtZero
<1>2. IInv /\ [Next]_vars => IInv'
  <2> SUFFICES ASSUME IInv, [Next]_vars PROVE IInv'
    OBVIOUS
  <2>1. Started'
    BY StartedStays
  <2>2. \A f \in StoreForms, g \in LoadForms : AccessSoFar(f, g)'
    BY AccessOn
  <2> QED
    BY <2>1, <2>2
<1>3. IInv => LoadsSeeStores
  <2> SUFFICES ASSUME IInv, NEW f \in StoreForms, NEW g \in LoadForms, code = StoreThenLoad(f, g)
               PROVE  /\ Ran(code) => /\ r[4] = Finds(f, g)
                                      /\ mem = Stored(f)
                      /\ ~ running => \/ ~ Writable(Reached(f, 1), f.bytes)
                                      \/ ~ Readable(Reached(g, 2), g.bytes)
    BY Zenon DEF LoadsSeeStores, Finds, LoadedAs, Stored, Then, Reached
  <2>1. BeforeStore(f) \/ BeforeLoad(f, g) \/ AfterLoad(f, g)
    BY DEF AccessSoFar
  <2>2. DOMAIN code = {0, Size(f.op)}
    BY AccessCode
  <2>3. pc \notin DOMAIN code => AfterLoad(f, g)
    BY <2>1, <2>2 DEF BeforeStore, BeforeLoad
  <2> QED
    BY <2>1, <2>3, Zenon DEF BeforeStore, BeforeLoad, AfterLoad, Ran
<1> QED
  BY <1>1, <1>2, <1>3, PTL DEF Spec

----------------------------------------------------------------------------
(* Bits of memory.                                                           *)
(* The handler of a bit operation of either format.                          *)
OnBit(op, a, k) ==
  /\ op \in {"tst1_8", "tst1_9"} => TestBit(a, k)
  /\ op \in {"set1_8", "set1_9"} => PutBit(a, k, 1)
  /\ op \in {"clr1_8", "clr1_9"} => PutBit(a, k, 0)
  /\ op \in {"not1_8", "not1_9"} => InvertBit(a, k)

(* Those of format 8 work three bytes below r1, on the bit they name ...     *)
LEMMA OfFormat8 ==
  ASSUME NEW op \in BitOps8, NEW k, Next, running, pc \in DOMAIN code,
         ins = [WithImm(op, -3, 0) EXCEPT !.bit = k]
  PROVE  OnBit(op, Word(r[1] + (-3) * 1), k)
<1>1. ins.op = op /\ ins.imm = -3 /\ ins.reg1 = 1 /\ ins.bit = k
  BY SMT DEF WithImm, Ins
<1>2. MemoryBits
  BY <1>1, GroupOfStep
<1>3. FromR1(1) = Word(r[1] + (-3) * 1)
  BY <1>1, FormAddresses, Zenon DEF R1
<1>4. CASE op = "tst1_8"
  BY <1>1, <1>2, <1>3, <1>4, BitByName, SMT DEF Tst1_8, ImmBit, OnBit
<1>5. CASE op = "set1_8"
  BY <1>1, <1>2, <1>3, <1>5, BitByName, SMT DEF Set1_8, ImmBit, OnBit
<1>6. CASE op = "clr1_8"
  BY <1>1, <1>2, <1>3, <1>6, BitByName, SMT DEF Clr1_8, ImmBit, OnBit
<1>7. CASE op = "not1_8"
  BY <1>1, <1>2, <1>3, <1>7, BitByName, SMT DEF Not1_8, ImmBit, OnBit
<1> QED
  BY <1>4, <1>5, <1>6, <1>7, SMT DEF BitOps8

(* ... and those of format 9 at r3, on the bit that r2 counts.               *)
LEMMA OfFormat9 ==
  ASSUME NEW op \in BitOps9, Next, running, pc \in DOMAIN code, ins = On(op, 3, 2)
  PROVE  OnBit(op, r[3], r[2] % Byte)
<1>1. ins.op = op /\ ins.reg1 = 3 /\ ins.reg2 = 2
  BY Fields
<1>2. MemoryBits
  BY <1>1, GroupOfStep
<1>3. CASE op = "tst1_9"
  BY <1>1, <1>2, <1>3, BitByName, SMT DEF Tst1_9, R1, R2, RegBit, OnBit
<1>4. CASE op = "set1_9"
  BY <1>1, <1>2, <1>4, BitByName, SMT DEF Set1_9, R1, R2, RegBit, OnBit
<1>5. CASE op = "clr1_9"
  BY <1>1, <1>2, <1>5, BitByName, SMT DEF Clr1_9, R1, R2, RegBit, OnBit
<1>6. CASE op = "not1_9"
  BY <1>1, <1>2, <1>6, BitByName, SMT DEF Not1_9, R1, R2, RegBit, OnBit
<1> QED
  BY <1>3, <1>4, <1>5, <1>6, SMT DEF BitOps9

(* The bits that are set in a byte, and in one of which a bit is replaced.   *)
BitsOfByte(w) == {i \in 0 .. Byte - 1 : Bit(w, i) = 1}

LEMMA BitsReplaced ==
  ASSUME NEW w \in 0 .. 2 ^ Byte - 1, NEW k \in 0 .. Byte - 1
  PROVE  /\ BitsOfByte(WithBit(w, k, 1)) = BitsOfByte(w) \cup {k}
         /\ BitsOfByte(WithBit(w, k, 0)) = BitsOfByte(w) \ {k}
         /\ Bit(w, k) = IF k \in BitsOfByte(w) THEN 1 ELSE 0
<1>1. 1 \in 0 .. 1 /\ 0 \in 0 .. 1
  BY SMT
<1>2. /\ Bit(WithBit(w, k, 1), k) = 1 /\ Bit(WithBit(w, k, 0), k) = 0 /\ Bit(w, k) \in 0 .. 1
      /\ \A n \in 0 .. Byte - 1 : n # k => /\ Bit(WithBit(w, k, 1), n) = Bit(w, n)
                                           /\ Bit(WithBit(w, k, 0), n) = Bit(w, n)
  BY <1>1, BitReplaced
<1>3. Bit(w, k) # 1 => Bit(w, k) = 0
  BY <1>2, SMT
<1>4. 0 # 1
  BY SMT
<1> QED
  BY <1>2, <1>3, <1>4, Zenon DEF BitsOfByte

(* Writing a bit of the byte at a.                                           *)
LEMMA BitWritten ==
  ASSUME NEW a, NEW k \in 0 .. Byte - 1, NEW v \in 0 .. 1, NEW bits, HasBits(mem, bits),
         BitWrite(a, k, v), a \in DOMAIN mem
  PROVE  /\ HasBits(mem', [bits EXCEPT ![a] = IF v = 1 THEN @ \cup {k} ELSE @ \ {k}])
         /\ "z" \in psw' <=> k \notin bits[a]
<1> DEFINE after(s) == IF v = 1 THEN s \cup {k} ELSE s \ {k}
<1>1. /\ \A c \in DOMAIN mem : mem[c] \in 0 .. 2 ^ Byte - 1
      /\ bits = [c \in DOMAIN mem |-> BitsOfByte(mem[c])]
  BY Zenon DEF HasBits, BitsOf, BitsOfByte, Range
<1>2. mem' = [mem EXCEPT ![a] = WithBit(mem[a], k, v)]
  BY DEF BitWrite, WithBit
<1>3. mem' = [c \in DOMAIN mem |-> IF c = a THEN WithBit(mem[a], k, v) ELSE mem[c]]
  BY <1>2, Zenon
<1>4. WithBit(mem[a], k, v) \in 0 .. 2 ^ Byte - 1
  BY <1>1, BitReplaced
<1>5. BitsOfByte(WithBit(mem[a], k, v)) = after(BitsOfByte(mem[a]))
  <2>1. v = 1 \/ (v = 0 /\ v # 1)
    BY SMT
  <2> QED
    BY <1>1, <2>1, BitsReplaced
<1>6. Range(mem') \subseteq 0 .. 2 ^ Byte - 1
  BY <1>1, <1>3, <1>4, Zenon DEF Range
<1>7. BitsOf(mem') = [c \in DOMAIN mem |-> BitsOfByte(mem'[c])]
  BY <1>3, Zenon DEF BitsOf, BitsOfByte
<1> HIDE DEF after
<1>8. [c \in DOMAIN mem |-> BitsOfByte(mem'[c])] = [bits EXCEPT ![a] = after(@)]
  BY <1>1, <1>3, <1>5, Zenon
<1>9. "z" \in psw' <=> Bit(mem[a], k) = 0
  BY Zenon DEF BitWrite, BitFlags, Update, Flags
<1>10. Bit(mem[a], k) = 0 <=> k \notin BitsOfByte(mem[a])
  BY <1>1, BitsReplaced, SMT
<1> QED
  BY <1>1, <1>6, <1>7, <1>8, <1>9, <1>10 DEF HasBits, after

(* A bit operation changes the bits as its name says and tells by Z the bit  *)
(* as it was, or is refused.                                                 *)
LEMMA BitOn ==
  ASSUME NEW op \in BitOps8 \cup BitOps9, NEW a \in Int, NEW k \in 0 .. Byte - 1, NEW bits,
         HasBits(mem, bits), OnBit(op, a, k), running
  PROVE  \/ /\ HasBits(mem', [bits EXCEPT ![a] = AfterBitOp(op, @, k)])
            /\ "z" \in psw' <=> k \notin bits[a]
            /\ pc' = Word(pc + 4) /\ running' /\ r' = r
         \/ ~ MayDo(op, a) /\ ~ running' /\ pc' = pc /\ r' = r /\ mem' = mem
<1>1. a \in Cells(a, 1)
  BY SMT DEF Cells
<1>2. Readable(a, 1) => a \in DOMAIN mem
  BY <1>1 DEF Readable
<1>3. Writable(a, 1) => Readable(a, 1)
  BY DEF Writable
<1>4. ASSUME NEW v \in 0 .. 1, BitWrite(a, k, v)
      PROVE  /\ HasBits(mem', [bits EXCEPT ![a] = IF v = 1 THEN @ \cup {k} ELSE @ \ {k}])
             /\ "z" \in psw' <=> k \notin bits[a]
             /\ pc' = Word(pc + 4) /\ running' /\ r' = r
  <2>1. a \in DOMAIN mem
    BY <1>2, <1>3, <1>4 DEF BitWrite
  <2>2. pc' = Word(pc + 4) /\ running' /\ r' = r
    BY <1>4, Zenon DEF BitWrite, MovesTo, Proceed
  <2> QED
    BY <1>4, <2>1, <2>2, BitWritten
<1>5. Stop => ~ running' /\ pc' = pc /\ r' = r /\ mem' = mem
  BY Zenon DEF Stop
<1>6. 1 \in 0 .. 1 /\ 0 \in 0 .. 1 /\ 0 # 1
  BY SMT
<1>7. CASE op \in {"tst1_8", "tst1_9"}
  <2>1. TestBit(a, k) /\ (MayDo(op, a) <=> Readable(a, 1))
    BY <1>7 DEF OnBit, MayDo
  <2>2. CASE Readable(a, 1) /\ psw' = BitFlags(mem[a], k) /\ Goto(pc + 4) /\ UNCHANGED r
    <3>1. "z" \in psw' <=> Bit(mem[a], k) = 0
      BY <2>2, Zenon DEF BitFlags, Update, Flags
    <3>2. mem[a] \in 0 .. 2 ^ Byte - 1 /\ bits = [c \in DOMAIN mem |-> BitsOfByte(mem[c])] /\ a \in DOMAIN mem
      BY <1>2, <2>2, Zenon DEF HasBits, BitsOf, BitsOfByte, Range
    <3>3. Bit(mem[a], k) = 0 <=> k \notin bits[a]
      BY <3>2, BitsReplaced, SMT
    <3>4. mem' = mem /\ pc' = Word(pc + 4) /\ running' /\ r' = r
      BY <2>2, Zenon DEF Goto, MovesTo, Proceed
    <3>5. [bits EXCEPT ![a] = AfterBitOp(op, @, k)] = bits
      <4>1. AfterBitOp(op, bits[a], k) = bits[a]
        BY <1>7 DEF AfterBitOp
      <4> QED
        BY <3>2, <4>1, Zenon
    <3> QED
      BY <3>1, <3>3, <3>4, <3>5
  <2>3. CASE ~ Readable(a, 1) /\ Stop
    BY <1>5, <2>1, <2>3
  <2> QED
    BY <2>1, <2>2, <2>3, Zenon DEF TestBit
<1>8. op \notin {"tst1_8", "tst1_9"} => (MayDo(op, a) <=> Writable(a, 1))
  BY DEF MayDo
<1>9. CASE op \in {"set1_8", "set1_9"}
  <2>1. PutBit(a, k, 1) /\ op \notin {"tst1_8", "tst1_9"}
    <3>1. op \notin {"tst1_8", "tst1_9"}
      BY <1>9, SMT
    <3> QED
      BY <1>9, <3>1, Zenon DEF OnBit
  <2>2. AfterBitOp(op, bits[a], k) = bits[a] \cup {k}
    BY <1>9, SMT DEF AfterBitOp
  <2>3. CASE BitWrite(a, k, 1)
    BY <1>4, <1>6, <2>2, <2>3
  <2> QED
    BY <1>5, <1>8, <2>1, <2>3, Zenon DEF PutBit
<1>10. CASE op \in {"clr1_8", "clr1_9"}
  <2>1. PutBit(a, k, 0) /\ op \notin {"tst1_8", "tst1_9"}
    <3>1. op \notin {"tst1_8", "tst1_9"}
      BY <1>10, SMT
    <3> QED
      BY <1>10, <3>1, Zenon DEF OnBit
  <2>2. AfterBitOp(op, bits[a], k) = bits[a] \ {k}
    BY <1>10, SMT DEF AfterBitOp
  <2>3. CASE BitWrite(a, k, 0)
    BY <1>4, <1>6, <2>2, <2>3
  <2> QED
    BY <1>5, <1>8, <2>1, <2>3, Zenon DEF PutBit
<1>11. CASE op \in {"not1_8", "not1_9"}
  <2>1. InvertBit(a, k) /\ op \notin {"tst1_8", "tst1_9"}
    <3>1. op \notin {"tst1_8", "tst1_9"}
      BY <1>11, SMT
    <3> QED
      BY <1>11, <3>1, Zenon DEF OnBit
  <2>2. CASE BitWrite(a, k, 1 - Bit(mem[a], k))
    <3>1. a \in DOMAIN mem
      BY <1>2, <1>3, <2>2 DEF BitWrite
    <3>2. mem[a] \in 0 .. 2 ^ Byte - 1 /\ bits = [c \in DOMAIN mem |-> BitsOfByte(mem[c])]
      BY <3>1, Zenon DEF HasBits, BitsOf, BitsOfByte, Range
    <3>3. Bit(mem[a], k) = IF k \in bits[a] THEN 1 ELSE 0
      BY <3>1, <3>2, BitsReplaced
    <3>4. 1 - Bit(mem[a], k) = IF k \in bits[a] THEN 0 ELSE 1
      BY <3>3, SMT
    <3>5. AfterBitOp(op, bits[a], k) = IF k \in bits[a] THEN bits[a] \ {k} ELSE bits[a] \cup {k}
      BY <1>11, SMT DEF AfterBitOp
    <3>6. CASE k \in bits[a]
      <4>1. BitWrite(a, k, 0) /\ AfterBitOp(op, bits[a], k) = bits[a] \ {k}
        BY <2>2, <3>4, <3>5, <3>6
      <4> QED
        BY <1>4, <1>6, <4>1
    <3>7. CASE k \notin bits[a]
      <4>1. BitWrite(a, k, 1) /\ AfterBitOp(op, bits[a], k) = bits[a] \cup {k}
        BY <2>2, <3>4, <3>5, <3>7
      <4> QED
        BY <1>4, <1>6, <4>1
    <3> QED
      BY <3>6, <3>7
  <2>3. CASE /\ Readable(a, 1) /\ ~ Writable(a, 1)
             /\ running' = FALSE
             /\ psw' = BitFlags(mem[a], k)
             /\ UNCHANGED <<code, pc, r, mem, fpu, start>>
    BY <1>8, <2>1, <2>3, Zenon
  <2>4. CASE ~ Readable(a, 1) /\ Stop
    BY <1>3, <1>5, <1>8, <2>1, <2>4
  <2> QED
    BY <2>1, <2>2, <2>3, <2>4, Zenon DEF InvertBit
<1> QED
  BY <1>7, <1>9, <1>10, <1>11, SMT DEF BitOps8, BitOps9

(* The program of two operations.                                            *)
LEMMA BitCode ==
  ASSUME NEW op, NEW k, NEW op2
  PROVE  /\ DOMAIN TwoBitOps(op, k, op2) = {0, 4}
         /\ TwoBitOps(op, k, op2)[4] = On(op2, 3, 2)
<1> DEFINE u == [WithImm(op, -3, 0) EXCEPT !.bit = k]
           v == On(op2, 3, 2)
<1> HIDE DEF u, v
<1>1. DOMAIN (0 :> u @@ 4 :> v) = {0, 4} /\ (0 :> u @@ 4 :> v)[4] = v
  BY SMT DEF :>, @@
<1> QED
  BY <1>1 DEF TwoBitOps, u, v

(* The first of them.                                                        *)
LEMMA BitCodeFirst ==
  ASSUME NEW op, NEW k, NEW op2
  PROVE  /\ TwoBitOps(op, k, op2)[0] = [WithImm(op, -3, 0) EXCEPT !.bit = k]
         /\ TwoBitOps(op, k, op2)[0].op = op
<1> DEFINE u == [WithImm(op, -3, 0) EXCEPT !.bit = k]
           v == On(op2, 3, 2)
<1>1. u.op = op
  BY SMT DEF WithImm, Ins
<1> HIDE DEF u, v
<1>2. (0 :> u @@ 4 :> v)[0] = u
  BY SMT DEF :>, @@
<1> QED
  BY <1>1, <1>2 DEF TwoBitOps, u, v

(* What memory starts with are bytes.                                        *)
BytesAtStart == \A c \in DOMAIN start.mem : start.mem[c] \in 0 .. 2 ^ Byte - 1

LEMMA StartsWithBytes == Init => BytesAtStart /\ mem = start.mem
<1> SUFFICES ASSUME Init PROVE BytesAtStart /\ mem = start.mem
  OBVIOUS
<1>1. PICK p \in Programs : mem = p.mem /\ start = [r |-> r, psw |-> psw, mem |-> mem]
  BY Zenon DEF Init
<1>2. start.mem = mem
  BY <1>1
<1>3. p.mem \in [DOMAIN p.mem -> 0 .. 2 ^ Byte - 1]
  BY CoreAssumption, Zenon DEF Byte
<1> QED
  BY <1>1, <1>2, <1>3, Zenon DEF BytesAtStart

(* Where the two operations work, the bits as each of them leaves them, and  *)
(* how far such a program came.                                              *)
LockA == Word(start.r[1] + (-3) * 1)
LockB == start.r[3]
LockJ == start.r[2] % Byte

FirstBits(op, k)     == [BitsOf(start.mem) EXCEPT ![LockA] = AfterBitOp(op, @, k)]
LastBits(op, k, op2) == [FirstBits(op, k) EXCEPT ![LockB] = AfterBitOp(op2, @, LockJ)]

BeforeFirst(op) == pc = 0 /\ r = start.r /\ mem = start.mem /\ (running \/ ~ MayDo(op, LockA))
BetweenBits(op, k, op2) ==
  pc = 4 /\ r = start.r /\ HasBits(mem, FirstBits(op, k)) /\ (running \/ ~ MayDo(op2, LockB))
AfterBits(op, k, op2) ==
  /\ pc = 8 /\ running /\ HasBits(mem, LastBits(op, k, op2))
  /\ "z" \in psw <=> LockJ \notin FirstBits(op, k)[LockB]

BitsSoFar(op, k, op2) ==
  code = TwoBitOps(op, k, op2) => BeforeFirst(op) \/ BetweenBits(op, k, op2) \/ AfterBits(op, k, op2)

(* They are addresses and a bit of a byte.                                   *)
LEMMA LockTypes == ASSUME Started PROVE LockA \in Int /\ LockB \in Int /\ LockJ \in 0 .. Byte - 1
<1>1. start.r[1] \in Int /\ start.r[2] \in Int /\ start.r[3] \in Int
  <2>1. start.r \in [Regs -> Words] /\ 1 \in Regs /\ 2 \in Regs /\ 3 \in Regs
    BY NamedRegs, SMT DEF Started
  <2> QED
    BY <2>1, Sizes
<1>2. LockA \in Int
  <2>1. start.r[1] + (-3) * 1 \in Int
    BY <1>1, SMT
  <2> QED
    BY <2>1, WordIsWord, Sizes DEF LockA
<1>3. LockJ \in 0 .. Byte - 1
  BY <1>1, PowersOfByte, SMT DEF LockJ
<1> QED
  BY <1>1, <1>2, <1>3 DEF LockB

(* They stay, as the history does.                                           *)
LEMMA LocksStay ==
  ASSUME start' = start, NEW op, NEW k, NEW op2
  PROVE  /\ LockA' = LockA /\ LockB' = LockB /\ LockJ' = LockJ
         /\ FirstBits(op, k)' = FirstBits(op, k)
         /\ LastBits(op, k, op2)' = LastBits(op, k, op2)
         /\ BytesAtStart' = BytesAtStart
<1>1. LockA' = LockA /\ LockB' = LockB /\ LockJ' = LockJ
  BY Zenon DEF LockA, LockB, LockJ, Byte
<1>2. FirstBits(op, k)' = FirstBits(op, k)
  BY <1>1, Zenon DEF FirstBits, BitsOf, Bit, AfterBitOp, Byte
<1>3. LastBits(op, k, op2)' = LastBits(op, k, op2)
  BY <1>1, <1>2, Zenon DEF LastBits, AfterBitOp
<1> QED
  BY <1>1, <1>2, <1>3, Zenon DEF BytesAtStart, Byte

(* The first operation.                                                      *)
LEMMA FirstBitOn ==
  ASSUME NEW op \in BitOps8, NEW k \in 0 .. Byte - 1, NEW op2 \in BitOps9, code = TwoBitOps(op, k, op2),
         Started, BytesAtStart, BeforeFirst(op), running, Next
  PROVE  BeforeFirst(op)' \/ BetweenBits(op, k, op2)'
<1>1. pc = 0 /\ pc \in DOMAIN code /\ ins = [WithImm(op, -3, 0) EXCEPT !.bit = k]
  BY BitCode, BitCodeFirst DEF BeforeFirst, ins
<1>2. start' = start
  BY StartedStays, Zenon DEF Same
<1>3. r = start.r /\ mem = start.mem
  BY DEF BeforeFirst
<1>4. HasBits(mem, BitsOf(start.mem))
  BY <1>3, Zenon DEF HasBits, BytesAtStart, Range
<1>5. OnBit(op, LockA, k)
  BY <1>1, <1>3, OfFormat8 DEF LockA
<1>6. \/ /\ HasBits(mem', FirstBits(op, k))
         /\ pc' = Word(0 + 4) /\ running' /\ r' = r
      \/ ~ MayDo(op, LockA) /\ ~ running' /\ pc' = pc /\ r' = r /\ mem' = mem
  <2>1. LockA \in Int
    BY LockTypes
  <2> QED
    BY <1>1, <1>4, <1>5, <2>1, BitOn DEF FirstBits
<1>7. Word(0 + 4) = 4
  BY SmallWords, SMT
<1>8. LockA' = LockA /\ FirstBits(op, k)' = FirstBits(op, k)
  BY <1>2, LocksStay
<1>9. CASE HasBits(mem', FirstBits(op, k)) /\ pc' = Word(0 + 4) /\ running' /\ r' = r
  <2>1. HasBits(mem, FirstBits(op, k))'
    BY <1>8, <1>9, Zenon DEF HasBits, BitsOf, Bit, Byte
  <2> QED
    BY <1>2, <1>3, <1>7, <1>9, <2>1, Zenon DEF BetweenBits
<1>10. CASE ~ MayDo(op, LockA) /\ ~ running' /\ pc' = pc /\ r' = r /\ mem' = mem
  <2>1. ~ MayDo(op, LockA)'
    BY <1>8, <1>10, Zenon DEF MayDo, Writable, Readable, Cells
  <2> QED
    BY <1>1, <1>2, <1>3, <1>10, <2>1, Zenon DEF BeforeFirst
<1> QED
  BY <1>6, <1>9, <1>10

(* The second.                                                               *)
LEMMA SecondBitOn ==
  ASSUME NEW op \in BitOps8, NEW k \in 0 .. Byte - 1, NEW op2 \in BitOps9, code = TwoBitOps(op, k, op2),
         Started, BetweenBits(op, k, op2), running, Next
  PROVE  BetweenBits(op, k, op2)' \/ AfterBits(op, k, op2)'
<1>1. pc = 4 /\ pc \in DOMAIN code /\ ins = On(op2, 3, 2)
  <2>1. DOMAIN code = {0, 4} /\ code[4] = On(op2, 3, 2)
    BY BitCode
  <2> QED
    BY <2>1 DEF BetweenBits, ins
<1>2. start' = start
  BY StartedStays, Zenon DEF Same
<1>3. r = start.r /\ HasBits(mem, FirstBits(op, k))
  BY DEF BetweenBits
<1>4. OnBit(op2, LockB, LockJ)
  BY <1>1, <1>3, OfFormat9 DEF LockB, LockJ
<1>5. \/ /\ HasBits(mem', LastBits(op, k, op2))
         /\ "z" \in psw' <=> LockJ \notin FirstBits(op, k)[LockB]
         /\ pc' = Word(4 + 4) /\ running' /\ r' = r
      \/ ~ MayDo(op2, LockB) /\ ~ running' /\ pc' = pc /\ r' = r /\ mem' = mem
  BY <1>1, <1>3, <1>4, LockTypes, BitOn DEF LastBits
<1>6. Word(4 + 4) = 8
  BY SmallWords, SMT
<1>7. /\ LockB' = LockB /\ LockJ' = LockJ /\ FirstBits(op, k)' = FirstBits(op, k)
      /\ LastBits(op, k, op2)' = LastBits(op, k, op2)
  BY <1>2, LocksStay
<1>8. CASE /\ HasBits(mem', LastBits(op, k, op2))
           /\ "z" \in psw' <=> LockJ \notin FirstBits(op, k)[LockB]
           /\ pc' = Word(4 + 4) /\ running' /\ r' = r
  <2>1. HasBits(mem, LastBits(op, k, op2))'
    BY <1>7, <1>8, Zenon DEF HasBits, BitsOf, Bit, Byte
  <2> QED
    BY <1>6, <1>7, <1>8, <2>1, Zenon DEF AfterBits
<1>9. CASE ~ MayDo(op2, LockB) /\ ~ running' /\ pc' = pc /\ r' = r /\ mem' = mem
  <2>1. ~ MayDo(op2, LockB)'
    BY <1>7, <1>9, Zenon DEF MayDo, Writable, Readable, Cells
  <2>2. HasBits(mem, FirstBits(op, k))'
    BY <1>3, <1>7, <1>9, Zenon DEF HasBits, BitsOf, Bit, Byte
  <2> QED
    BY <1>1, <1>2, <1>3, <1>9, <2>1, <2>2, Zenon DEF BetweenBits
<1> QED
  BY <1>5, <1>8, <1>9

(* A step takes such a program one operation further.                        *)
LEMMA BitsOn ==
  ASSUME NEW op \in BitOps8, NEW k \in 0 .. Byte - 1, NEW op2 \in BitOps9,
         Started, BytesAtStart, BitsSoFar(op, k, op2), [Next]_vars
  PROVE  BitsSoFar(op, k, op2)'
<1>1. code' = code /\ start' = start
  BY StartedStays, Zenon DEF Same
<1>2. SUFFICES ASSUME code = TwoBitOps(op, k, op2)
               PROVE  BeforeFirst(op)' \/ BetweenBits(op, k, op2)' \/ AfterBits(op, k, op2)'
  BY <1>1, Zenon DEF BitsSoFar
<1>3. /\ LockA' = LockA /\ LockB' = LockB /\ LockJ' = LockJ
      /\ FirstBits(op, k)' = FirstBits(op, k) /\ LastBits(op, k, op2)' = LastBits(op, k, op2)
  BY <1>1, LocksStay
<1>4. BeforeFirst(op) \/ BetweenBits(op, k, op2) \/ AfterBits(op, k, op2)
  BY <1>2 DEF BitsSoFar
<1>5. CASE UNCHANGED vars
  <2>1. pc' = pc /\ r' = r /\ mem' = mem /\ psw' = psw /\ running' = running
    BY <1>5, Zenon DEF vars
  <2>2. /\ MayDo(op, LockA)' = MayDo(op, LockA)
        /\ MayDo(op2, LockB)' = MayDo(op2, LockB)
    BY <1>3, <2>1, Zenon DEF MayDo, Writable, Readable, Cells
  <2>3. /\ HasBits(mem, FirstBits(op, k))' = HasBits(mem, FirstBits(op, k))
        /\ HasBits(mem, LastBits(op, k, op2))' = HasBits(mem, LastBits(op, k, op2))
    BY <1>3, <2>1, Zenon DEF HasBits, BitsOf, Bit, Byte
  <2> QED
    BY <1>1, <1>3, <1>4, <2>1, <2>2, <2>3, Zenon DEF BeforeFirst, BetweenBits, AfterBits
<1>6. CASE Next /\ ~ (running /\ pc \in DOMAIN code)
  BY <1>5, <1>6, EndedStays
<1>7. CASE Next /\ running /\ pc \in DOMAIN code
  <2>1. ~ AfterBits(op, k, op2)
    <3>1. pc \in {0, 4}
      <4>1. DOMAIN code = {0, 4}
        BY <1>2, BitCode
      <4> QED
        BY <1>7, <4>1
    <3>2. pc # 8
      BY <3>1, SMT
    <3> QED
      BY <3>2 DEF AfterBits
  <2> QED
    BY <1>2, <1>4, <1>7, <2>1, FirstBitOn, SecondBitOn
<1> QED
  BY <1>5, <1>6, <1>7

(* The low half of a number, by its bytes, and of one that is congruent.     *)
LEMMA LowHalf ==
  ASSUME NEW n \in Int
  PROVE  /\ Low(Half, n) \in 0 .. 2 ^ Half - 1
         /\ Low(Byte, n) = Low(Byte, Low(Half, n))
         /\ Low(Byte, n \div 2 ^ Byte) = Low(Half, n) \div 2 ^ Byte
         /\ Low(Byte, n) \in 0 .. 2 ^ Byte - 1
         /\ Low(Half, n) \div 2 ^ Byte \in 0 .. 2 ^ Byte - 1
         /\ Low(Half, n) = (Low(Half, n) \div 2 ^ Byte) * 2 ^ Byte + Low(Byte, n)
<1> DEFINE b == 2 ^ Byte
           h == 2 ^ Half
           d == n \div h
           e == n % h
           e1 == e \div b
           e0 == e % b
<1>1. b \in Nat \ {0} /\ h \in Nat \ {0} /\ h = b * b
  BY HalfAndBytes
<1> HIDE DEF b, h
<1>2. d \in Int /\ e \in 0 .. h - 1 /\ n = d * h + e
  <2>1. h \in Nat \ {0}
    BY <1>1
  <2> QED
    BY <2>1, SMT
<1> HIDE DEF d, e
<1>3. e1 \in Int /\ e0 \in 0 .. b - 1 /\ e = e1 * b + e0
  BY <1>1, <1>2, SMT
<1> HIDE DEF e1, e0
<1>4. e1 \in 0 .. b - 1
  <2>1. ~ e1 < 0
    <3>1. e1 < 0 => e1 * b <= - b
      BY <1>1, <1>3, SMT
    <3>2. e1 * b \in Int
      BY <1>1, <1>3, SMT
    <3> QED
      BY <1>1, <1>2, <1>3, <3>1, <3>2, SMT
  <2>2. ~ e1 >= b
    <3>1. e1 >= b => e1 * b >= b * b
      BY <1>1, <1>3, SMT
    <3>2. e1 * b \in Int
      BY <1>1, <1>3, SMT
    <3> QED
      BY <1>1, <1>2, <1>3, <3>1, <3>2, SMT
  <2> QED
    BY <1>1, <1>3, <2>1, <2>2, SMT
<1> DEFINE x == d * b + e1
<1>5. x \in Int /\ n = x * b + e0
  <2>1. d * h = (d * b) * b
    BY <1>1, <1>2, SMT
  <2> DEFINE y == d * b
  <2>2. y \in Int
    BY <1>1, <1>2, SMT
  <2> HIDE DEF y
  <2>3. y * b + (e1 * b + e0) = (y + e1) * b + e0
    BY <1>1, <1>3, <2>2, SMT
  <2>4. y + e1 \in Int
    BY <1>3, <2>2, SMT
  <2> QED
    BY <1>2, <1>3, <2>1, <2>3, <2>4 DEF y
<1>6. n % b = e0 /\ n \div b = x
  BY <1>1, <1>3, <1>5, Remainder
<1>7. x % b = e1
  BY <1>1, <1>2, <1>4, <1>5, Remainder
<1>8. e \div b = e1 /\ e % b = e0
  BY DEF e1, e0
<1>9. Low(Half, n) = e /\ Low(Byte, n) = n % b /\ Low(Byte, e) = e % b /\ Low(Byte, n \div b) = (n \div b) % b
  BY DEF Low, e, b, h
<1> QED
  BY <1>2, <1>3, <1>4, <1>6, <1>7, <1>8, <1>9 DEF b, h

(* What CAXI compares: a half-word with its sign, and a word.                *)
LEMMA TokenCompares ==
  ASSUME NEW old \in 0 .. 2 ^ Half - 1, NEW w \in Int
  PROVE  /\ Extend(Half, old) \in Int
         /\ Low(Half, Extend(Half, old)) = old
         /\ Low(Half, w - Extend(Half, old)) = 0 <=> old = Low(Half, w)
<1> DEFINE h == 2 ^ Half
           g == 2 ^ (Half - 1)
           t == Extend(Half, old)
           d == w \div h
           e == w % h
<1>1. h \in Nat \ {0} /\ g \in Nat \ {0} /\ h = 2 * g /\ Half \in 1 .. Width
  BY HalfAndBytes
<1>2. old \in Int /\ old \in 0 .. h - 1
  BY <1>1, SMT
<1>3. Low(Half, old) = old
  BY <1>1, <1>2, FitsBits
<1>4. t = IF old < g THEN old ELSE old - h
  BY <1>3 DEF Extend
<1>5. t \in Int /\ (t = old \/ t = old - h)
  BY <1>1, <1>2, <1>4, SMT
<1>6. Low(Half, t) = old
  <2>1. t % h = old
    <3>1. \/ t = 0 * h + old
          \/ t = (-1) * h + old
      BY <1>1, <1>2, <1>5, SMT
    <3>2. 0 \in Int /\ -1 \in Int
      BY SMT
    <3> HIDE DEF h, t
    <3> QED
      BY <1>1, <1>2, <1>5, <3>1, <3>2, Remainder
  <2> QED
    BY <2>1 DEF Low
<1> HIDE DEF t, h, g
<1>7. d \in Int /\ e \in 0 .. h - 1 /\ w = d * h + e
  <2>1. h \in Nat \ {0}
    BY <1>1
  <2> QED
    BY <2>1, SMT
<1> HIDE DEF d, e
<1>8. (w - t) % h = 0 <=> old = e
  <2> DEFINE q == IF t = old THEN d ELSE d + 1
             x == w - t
  <2>1. q \in Int /\ x \in Int
    BY <1>1, <1>5, <1>7, SMT
  <2>2. x = q * h + (e - old)
    <3>1. (d + 1) * h = d * h + h /\ d * h \in Int
      BY <1>1, <1>7, SMT
    <3>2. CASE t = old
      BY <1>2, <1>7, <3>1, <3>2, SMT
    <3>3. CASE t # old
      <4>1. t = old - h /\ q = d + 1
        BY <1>5, <3>3
      <4> QED
        BY <1>1, <1>2, <1>7, <3>1, <4>1, SMT
    <3> QED
      BY <3>2, <3>3
  <2> HIDE DEF q, x
  <2>3. CASE e >= old
    <3>1. e - old \in 0 .. h - 1
      BY <1>1, <1>2, <1>7, <2>3, SMT
    <3>2. x % h = e - old
      BY <1>1, <2>1, <2>2, <3>1, Remainder
    <3> QED
      BY <1>2, <1>7, <3>2, SMT DEF x
  <2>4. CASE e < old
    <3> DEFINE p == q - 1
               f == e - old + h
    <3>1. p \in Int /\ f \in 0 .. h - 1 /\ f # 0
      BY <1>1, <1>2, <1>7, <2>1, <2>4, SMT
    <3>2. x = p * h + f
      <4>1. p * h = q * h - h /\ q * h \in Int
        BY <1>1, <2>1, SMT
      <4> QED
        BY <1>1, <1>2, <1>7, <2>2, <4>1, SMT
    <3> HIDE DEF p, f
    <3>3. x % h = f
      BY <1>1, <2>1, <3>1, <3>2, Remainder
    <3>4. old # e
      BY <1>2, <1>7, <2>4, SMT
    <3> QED
      BY <3>1, <3>3, <3>4 DEF x
  <2> QED
    BY <1>2, <1>7, <2>3, <2>4, SMT
<1> QED
  BY <1>5, <1>6, <1>8 DEF Low, t, e, h

(* The half-word at an address, and a memory in which it is replaced.        *)
HalfAt(m, a)         == m[a + 1] * 2 ^ Byte + m[a]
WithHalf(m, a, h)    == [m EXCEPT ![a] = Low(Byte, h), ![a + 1] = h \div 2 ^ Byte]
NextHalf(old, w, n) == IF old = Low(Half, w) THEN Low(Half, n) ELSE old

(* Two bytes make a half-word, which is what is read.                        *)
LEMMA HalfOfBytes ==
  ASSUME NEW m, NEW a \in Int, {a, a + 1} \subseteq DOMAIN m,
         \A c \in DOMAIN m : m[c] \in 0 .. 2 ^ Byte - 1
  PROVE  HalfAt(m, a) \in 0 .. 2 ^ Half - 1
<1> DEFINE b == 2 ^ Byte
           h == 2 ^ Half
           x == m[a + 1]
           y == m[a]
<1>1. b \in Nat \ {0} /\ h = b * b
  BY HalfAndBytes
<1>2. x \in 0 .. b - 1 /\ y \in 0 .. b - 1
  OBVIOUS
<1> HIDE DEF b, h, x, y
<1>3. x * b >= 0 /\ x * b <= (b - 1) * b /\ x * b \in Int
  BY <1>1, <1>2, SMT
<1>4. (b - 1) * b = b * b - b /\ b * b \in Int
  BY <1>1, SMT
<1>5. x * b + y \in 0 .. h - 1
  BY <1>1, <1>2, <1>3, <1>4, SMT
<1> QED
  BY <1>5 DEF HalfAt, x, y, b, h

(* Writing two bytes replaces the half-word.                                 *)
LEMMA HalfWritten ==
  ASSUME NEW a \in Int, NEW w \in Int, {a, a + 1} \subseteq DOMAIN mem
  PROVE  Written(a, 2, w) = WithHalf(mem, a, Low(Half, w))
<1>1. Cells(a, 2) = {a, a + 1} /\ a # a + 1
  BY SMT DEF Cells
<1>2. ByteOf(w, 0) = Low(Byte, w)
  <2>1. Byte * 0 = 0 /\ 2 ^ 0 = 1
    BY PowersOfByte, SMT
  <2>2. w \div 1 = w
    BY SMT
  <2> QED
    BY <2>1, <2>2 DEF ByteOf
<1>3. ByteOf(w, 1) = Low(Byte, w \div 2 ^ Byte)
  <2>1. Byte * 1 = Byte
    BY PowersOfByte, SMT
  <2> QED
    BY <2>1 DEF ByteOf
<1>4. /\ ByteOf(w, 0) = Low(Byte, Low(Half, w))
      /\ ByteOf(w, 1) = Low(Half, w) \div 2 ^ Byte
  BY <1>2, <1>3, LowHalf
<1>5. a - a = 0 /\ (a + 1) - a = 1
  BY SMT
<1>6. Written(a, 2, w) =
        [c \in DOMAIN mem |-> IF c \in {a, a + 1} THEN ByteOf(w, c - a) ELSE mem[c]]
  BY <1>1 DEF Written
<1> DEFINE x == Low(Byte, Low(Half, w))
           y == Low(Half, w) \div 2 ^ Byte
<1> HIDE DEF x, y
<1>7. \A c \in DOMAIN mem : (IF c \in {a, a + 1} THEN ByteOf(w, c - a) ELSE mem[c])
                             = [mem EXCEPT ![a] = x, ![a + 1] = y][c]
  <2> TAKE c \in DOMAIN mem
  <2> DEFINE n == [mem EXCEPT ![a] = x]
  <2>1. [mem EXCEPT ![a] = x, ![a + 1] = y][c] = IF c = a + 1 THEN y ELSE IF c = a THEN x ELSE mem[c]
    BY Zenon
  <2> QED
    BY <1>1, <1>4, <1>5, <2>1, Zenon DEF x, y
<1>8. [mem EXCEPT ![a] = x, ![a + 1] = y]
        = [c \in DOMAIN mem |-> [mem EXCEPT ![a] = x, ![a + 1] = y][c]]
  BY Zenon
<1> QED
  BY <1>6, <1>7, <1>8, Zenon DEF WithHalf, x, y

(* The half-word that is replaced is read as it was written, and what        *)
(* replaces it again is all that is left.                                    *)
LEMMA HalfReplaced ==
  ASSUME NEW m, NEW a \in Int, {a, a + 1} \subseteq DOMAIN m,
         \A c \in DOMAIN m : m[c] \in 0 .. 2 ^ Byte - 1,
         NEW h \in 0 .. 2 ^ Half - 1
  PROVE  /\ HalfAt(WithHalf(m, a, h), a) = h
         /\ DOMAIN WithHalf(m, a, h) = DOMAIN m
         /\ \A c \in DOMAIN m : WithHalf(m, a, h)[c] \in 0 .. 2 ^ Byte - 1
         /\ \A g : WithHalf(WithHalf(m, a, h), a, g) = WithHalf(m, a, g)
<1>1. h \in Int /\ Low(Half, h) = h
  <2>1. h \in Int
    BY HalfAndBytes, SMT
  <2> QED
    BY <2>1, HalfAndBytes, FitsBits
<1> DEFINE x == Low(Byte, h)
           y == h \div 2 ^ Byte
<1>2. x \in 0 .. 2 ^ Byte - 1 /\ y \in 0 .. 2 ^ Byte - 1 /\ h = y * 2 ^ Byte + x
  BY <1>1, LowHalf
<1> HIDE DEF x, y
<1>3. a # a + 1
  BY SMT
<1>4. WithHalf(m, a, h) = [m EXCEPT ![a] = x, ![a + 1] = y]
  BY DEF WithHalf, x, y
<1>5. WithHalf(m, a, h) = [c \in DOMAIN m |-> IF c = a + 1 THEN y ELSE IF c = a THEN x ELSE m[c]]
  BY <1>4, Zenon
<1>6. HalfAt(WithHalf(m, a, h), a) = h
  BY <1>2, <1>3, <1>5, Zenon DEF HalfAt
<1>7. \A c \in DOMAIN m : WithHalf(m, a, h)[c] \in 0 .. 2 ^ Byte - 1
  BY <1>2, <1>5, Zenon
<1>8. ASSUME NEW g PROVE WithHalf(WithHalf(m, a, h), a, g) = WithHalf(m, a, g)
  <2> DEFINE u == Low(Byte, g)
             v == g \div 2 ^ Byte
             n == WithHalf(m, a, h)
  <2> HIDE DEF u, v
  <2>1. WithHalf(n, a, g) = [n EXCEPT ![a] = u, ![a + 1] = v]
    BY DEF WithHalf, u, v
  <2>2. WithHalf(m, a, g) = [m EXCEPT ![a] = u, ![a + 1] = v]
    BY DEF WithHalf, u, v
  <2>3. DOMAIN n = DOMAIN m /\ \A c \in DOMAIN m : c \notin {a, a + 1} => n[c] = m[c]
    BY <1>5, Zenon
  <2> HIDE DEF n
  <2>4. WithHalf(n, a, g) = [c \in DOMAIN m |-> IF c = a + 1 THEN v ELSE IF c = a THEN u ELSE n[c]]
    BY <2>1, <2>3, Zenon
  <2>5. WithHalf(m, a, g) = [c \in DOMAIN m |-> IF c = a + 1 THEN v ELSE IF c = a THEN u ELSE m[c]]
    BY <2>2, Zenon
  <2> QED
    BY <2>3, <2>4, <2>5, Zenon DEF n
<1> QED
  BY <1>5, <1>6, <1>7, <1>8

(* CAXI exchanges the half-word when it is the low half of r2, says so by Z, *)
(* and returns what was there; where nothing may be written it is refused.   *)
LEMMA CaxiOn ==
  ASSUME NEW d \in {3, 4}, Next, running, pc \in DOMAIN code, ins = On3("caxi", 1, 2, d),
         r \in [Regs -> Words], r[0] = 0, \A c \in DOMAIN mem : mem[c] \in 0 .. 2 ^ Byte - 1,
         NEW a, a = r[1] - (r[1] % 4)
  PROVE  \/ /\ Writable(a, 2)
            /\ mem' = WithHalf(mem, a, NextHalf(HalfAt(mem, a), r[2], r[d]))
            /\ r' = [n \in Regs |-> IF n = d THEN HalfAt(mem, a) ELSE r[n]]
            /\ "z" \in psw' <=> HalfAt(mem, a) = Low(Half, r[2])
            /\ pc' = Word(pc + 4) /\ running'
         \/ ~ Writable(a, 2) /\ ~ running' /\ pc' = pc /\ r' = r /\ mem' = mem
<1> DEFINE old   == HalfAt(mem, a)
           token == Extend(Half, Read(a, 2))
<1>1. ins.op = "caxi" /\ ins.reg1 = 1 /\ ins.reg2 = 2 /\ ins.reg3 = d
  BY Fields
<1>2. Caxi
  <2>1. ins.op \in SpecialOps
    BY <1>1, SMT DEF SpecialOps
  <2> QED
    BY <1>1, <2>1, GroupOfStep, CaxiByName
<1>3. \/ /\ Writable(a, 2)
         /\ mem' = Written(a, 2, Exchanged(token))
         /\ r' = [r EXCEPT ![d] = Low(Half, token), ![0] = 0]
         /\ psw' = Update(psw, CaxiFlags(token))
         /\ MovesTo(pc + 4)
      \/ ~ Writable(a, 2) /\ Stop
  BY <1>1, <1>2, Zenon DEF Caxi, R1
<1>4. CASE ~ Writable(a, 2) /\ Stop
  BY <1>4, Zenon DEF Stop
<1>5. CASE /\ Writable(a, 2)
           /\ mem' = Written(a, 2, Exchanged(token))
           /\ r' = [r EXCEPT ![d] = Low(Half, token), ![0] = 0]
           /\ psw' = Update(psw, CaxiFlags(token))
           /\ MovesTo(pc + 4)
  <2>1. {1, 2, d} \subseteq Regs /\ 0 \in Regs /\ d # 0
    BY NamedRegs, SMT
  <2>2. r[1] \in Int /\ r[2] \in Int /\ r[d] \in Int
    BY <2>1, Sizes
  <2>3. a \in Int
    BY <2>2, SMT
  <2>4. {a, a + 1} \subseteq DOMAIN mem
    <3>1. {a, a + 1} \subseteq Cells(a, 2)
      BY <2>3, SMT DEF Cells
    <3> QED
      BY <1>5, <3>1, Zenon DEF Writable, Readable
  <2>5. old \in 0 .. 2 ^ Half - 1
    BY <2>3, <2>4, HalfOfBytes
  <2>6. Read(a, 2) = old
    <3> DEFINE m == [k \in 0 .. 2 - 1 |-> mem[a + k]]
    <3>1. m[0] = mem[a] /\ m[1] = mem[a + 1] /\ ~ 2 > 2 /\ 2 > 1
      BY <2>3, SMT
    <3> HIDE DEF m
    <3>2. OfBytes(m, 2) = Pack(0, 0, m[1], m[0])
      BY <3>1 DEF OfBytes
    <3>3. Pack(0, 0, mem[a + 1], mem[a]) = old
      <4> DEFINE b == 2 ^ Byte
                 x == mem[a + 1]
                 y == mem[a]
      <4>1. b \in Nat \ {0}
        BY PowersOfByte
      <4>2. x \in 0 .. b - 1
        BY <2>4
      <4> HIDE DEF b, x, y
      <4>3. (0 * b + 0) * b + x = x
        BY <4>1, <4>2, SMT
      <4> QED
        BY <4>3 DEF Pack, HalfAt, b, x, y
    <3> QED
      BY <3>1, <3>2, <3>3 DEF Read, m
  <2>7. /\ token \in Int /\ Low(Half, token) = old
        /\ Low(Half, r[2] - token) = 0 <=> old = Low(Half, r[2])
    BY <2>2, <2>5, <2>6, TokenCompares
  <2> HIDE DEF token, old
  <2>8. Exchanged(token) = IF old = Low(Half, r[2]) THEN r[d] ELSE token
    BY <1>1, <2>7 DEF Exchanged, R2, R3
  <2>9. Exchanged(token) \in Int /\ Low(Half, Exchanged(token)) = NextHalf(old, r[2], r[d])
    BY <2>2, <2>7, <2>8 DEF NextHalf
  <2>10. mem' = WithHalf(mem, a, NextHalf(old, r[2], r[d]))
    BY <1>5, <2>3, <2>4, <2>9, HalfWritten
  <2>11. r' = [n \in Regs |-> IF n = d THEN old ELSE r[n]]
    <3>1. r' = [[r EXCEPT ![d] = old] EXCEPT ![0] = 0]
      BY <1>5, <2>7
    <3>2. r' = [n \in Regs |-> IF n = 0 THEN 0 ELSE IF n = d THEN old ELSE r[n]]
      BY <3>1, Zenon
    <3> QED
      BY <2>1, <3>2, Zenon
  <2>12. "z" \in psw' <=> old = Low(Half, r[2])
    <3>1. "z" \in psw' <=> Low(Half, R2 - token) = 0
      BY <1>5, Zenon DEF CaxiFlags, Update, Flags
    <3> QED
      BY <1>1, <2>7, <3>1 DEF R2
  <2>13. pc' = Word(pc + 4) /\ running'
    BY <1>5, Zenon DEF MovesTo, Proceed
  <2> QED
    BY <1>5, <2>10, <2>11, <2>12, <2>13 DEF old
<1> QED
  BY <1>3, <1>4, <1>5

(* The program of two CAXI.                                                  *)
LEMMA CaxiCode ==
  /\ DOMAIN TwoCaxi = {0, 4}
  /\ TwoCaxi[0] = On3("caxi", 1, 2, 3)
  /\ TwoCaxi[4] = On3("caxi", 1, 2, 4)
  /\ TwoCaxi[0].op \notin BitOps8
<1> DEFINE u == On3("caxi", 1, 2, 3)
           v == On3("caxi", 1, 2, 4)
<1>1. u.op \notin BitOps8
  BY SMT DEF On3, Ins, BitOps8
<1> HIDE DEF u, v
<1>2. DOMAIN (0 :> u @@ 4 :> v) = {0, 4} /\ (0 :> u @@ 4 :> v)[0] = u /\ (0 :> u @@ 4 :> v)[4] = v
  BY SMT DEF :>, @@
<1> QED
  BY <1>1, <1>2 DEF TwoCaxi, u, v

(* Where they work, the half-word as each of them leaves it, and how far     *)
(* such a program came.                                                      *)
CaxiA    == start.r[1] - (start.r[1] % 4)
CaxiOld  == HalfAt(start.mem, CaxiA)
CaxiThen == NextHalf(CaxiOld, start.r[2], start.r[3])
CaxiLast == NextHalf(CaxiThen, start.r[2], start.r[4])

BeforeCaxi == pc = 0 /\ r = start.r /\ mem = start.mem /\ (running \/ ~ Writable(CaxiA, 2))
BetweenCaxi ==
  /\ pc = 4 /\ running /\ Writable(CaxiA, 2)
  /\ r = [n \in Regs |-> IF n = 3 THEN CaxiOld ELSE start.r[n]]
  /\ mem = WithHalf(start.mem, CaxiA, CaxiThen)
AfterCaxi ==
  /\ pc = 8 /\ running /\ r[3] = CaxiOld /\ r[4] = CaxiThen
  /\ mem = WithHalf(start.mem, CaxiA, CaxiLast)
  /\ "z" \in psw <=> CaxiThen = Low(Half, start.r[2])

CaxiSoFar == code = TwoCaxi => BeforeCaxi \/ BetweenCaxi \/ AfterCaxi

(* They stay, as the history does.                                           *)
LEMMA CaxiStays ==
  ASSUME start' = start
  PROVE  CaxiA' = CaxiA /\ CaxiOld' = CaxiOld /\ CaxiThen' = CaxiThen /\ CaxiLast' = CaxiLast
<1>1. CaxiA' = CaxiA
  BY Zenon DEF CaxiA
<1>2. CaxiOld' = CaxiOld
  BY <1>1, Zenon DEF CaxiOld, HalfAt, Byte
<1>3. CaxiThen' = CaxiThen
  BY <1>2, Zenon DEF CaxiThen, NextHalf, Low, Half
<1> QED
  BY <1>1, <1>2, <1>3, Zenon DEF CaxiLast, NextHalf, Low, Half

(* What is there is a half-word.                                             *)
LEMMA CaxiTypes ==
  ASSUME Started, BytesAtStart, {CaxiA, CaxiA + 1} \subseteq DOMAIN start.mem
  PROVE  /\ CaxiA \in Int
         /\ CaxiOld \in 0 .. 2 ^ Half - 1 /\ CaxiThen \in 0 .. 2 ^ Half - 1
<1>1. start.r[1] \in Int /\ start.r[3] \in Int
  <2>1. start.r \in [Regs -> Words] /\ 1 \in Regs /\ 3 \in Regs
    BY NamedRegs, SMT DEF Started
  <2> QED
    BY <2>1, Sizes
<1>2. CaxiA \in Int
  BY <1>1, SMT DEF CaxiA
<1>3. CaxiOld \in 0 .. 2 ^ Half - 1
  BY <1>2, HalfOfBytes DEF CaxiOld, BytesAtStart
<1>4. Low(Half, start.r[3]) \in 0 .. 2 ^ Half - 1
  BY <1>1, LowHalf
<1> QED
  BY <1>2, <1>3, <1>4 DEF CaxiThen, NextHalf

(* Where two bytes may be written they are there.                            *)
LEMMA CaxiCells == ASSUME NEW a \in Int, Writable(a, 2) PROVE {a, a + 1} \subseteq DOMAIN mem
<1>1. {a, a + 1} \subseteq Cells(a, 2)
  BY SMT DEF Cells
<1> QED
  BY <1>1, Zenon DEF Writable, Readable

(* The first CAXI.                                                           *)
LEMMA FirstCaxiOn ==
  ASSUME code = TwoCaxi, Started, BytesAtStart, BeforeCaxi, running, Next
  PROVE  BeforeCaxi' \/ BetweenCaxi'
<1>1. pc = 0 /\ pc \in DOMAIN code /\ ins = On3("caxi", 1, 2, 3)
  BY CaxiCode DEF BeforeCaxi, ins
<1>2. start' = start /\ code' = code
  BY StartedStays, Zenon DEF Same
<1>3. r = start.r /\ mem = start.mem
  BY DEF BeforeCaxi
<1>4. \/ /\ Writable(CaxiA, 2)
         /\ mem' = WithHalf(mem, CaxiA, NextHalf(HalfAt(mem, CaxiA), r[2], r[3]))
         /\ r' = [n \in Regs |-> IF n = 3 THEN HalfAt(mem, CaxiA) ELSE r[n]]
         /\ "z" \in psw' <=> HalfAt(mem, CaxiA) = Low(Half, r[2])
         /\ pc' = Word(pc + 4) /\ running'
      \/ ~ Writable(CaxiA, 2) /\ ~ running' /\ pc' = pc /\ r' = r /\ mem' = mem
  <2>1. 3 \in {3, 4} /\ r \in [Regs -> Words] /\ r[0] = 0
    BY <1>3 DEF Started
  <2>2. CaxiA = r[1] - (r[1] % 4) /\ \A c \in DOMAIN mem : mem[c] \in 0 .. 2 ^ Byte - 1
    BY <1>3 DEF CaxiA, BytesAtStart
  <2> QED
    BY <1>1, <2>1, <2>2, CaxiOn
<1>5. CaxiA' = CaxiA /\ CaxiOld' = CaxiOld /\ CaxiThen' = CaxiThen
  BY <1>2, CaxiStays
<1>6. CASE /\ Writable(CaxiA, 2)
           /\ mem' = WithHalf(mem, CaxiA, NextHalf(HalfAt(mem, CaxiA), r[2], r[3]))
           /\ r' = [n \in Regs |-> IF n = 3 THEN HalfAt(mem, CaxiA) ELSE r[n]]
           /\ "z" \in psw' <=> HalfAt(mem, CaxiA) = Low(Half, r[2])
           /\ pc' = Word(pc + 4) /\ running'
  <2>1. mem' = WithHalf(start.mem, CaxiA, CaxiThen)
    BY <1>3, <1>6, Zenon DEF CaxiThen, CaxiOld
  <2>2. r' = [n \in Regs |-> IF n = 3 THEN CaxiOld ELSE start.r[n]]
    BY <1>3, <1>6, Zenon DEF CaxiOld
  <2>3. Word(0 + 4) = 4
    BY SmallWords, SMT
  <2>4. DOMAIN mem' = DOMAIN mem
    BY <1>6, Zenon DEF WithHalf
  <2>5. Writable(CaxiA, 2)'
    BY <1>5, <1>6, <2>4, Zenon DEF Writable, Readable, Cells
  <2>6. WithHalf(start.mem, CaxiA, CaxiThen)' = WithHalf(start.mem, CaxiA, CaxiThen)
    BY <1>2, <1>5, Zenon DEF WithHalf, Low, Byte
  <2> QED
    BY <1>1, <1>2, <1>5, <1>6, <2>1, <2>2, <2>3, <2>5, <2>6, Zenon DEF BetweenCaxi
<1>7. CASE ~ Writable(CaxiA, 2) /\ ~ running' /\ pc' = pc /\ r' = r /\ mem' = mem
  <2>1. ~ Writable(CaxiA, 2)'
    BY <1>5, <1>7, Zenon DEF Writable, Readable, Cells
  <2> QED
    BY <1>1, <1>2, <1>3, <1>7, <2>1, Zenon DEF BeforeCaxi
<1> QED
  BY <1>4, <1>6, <1>7

(* The second.                                                               *)
LEMMA SecondCaxiOn ==
  ASSUME code = TwoCaxi, Started, BytesAtStart, BetweenCaxi, Next
  PROVE  AfterCaxi'
<1>1. pc = 4 /\ pc \in DOMAIN code /\ ins = On3("caxi", 1, 2, 4)
  BY CaxiCode DEF BetweenCaxi, ins
<1>2. start' = start /\ code' = code
  BY StartedStays, Zenon DEF Same
<1>3. /\ r = [n \in Regs |-> IF n = 3 THEN CaxiOld ELSE start.r[n]]
      /\ mem = WithHalf(start.mem, CaxiA, CaxiThen)
      /\ Writable(CaxiA, 2) /\ running
  BY DEF BetweenCaxi
<1>4. start.r \in [Regs -> Words] /\ start.r[0] = 0 /\ {0, 1, 2, 3, 4} \subseteq Regs /\ 3 \notin {0, 1, 2, 4}
  BY NamedRegs, SMT DEF Started
<1>5. r[0] = 0 /\ r[1] = start.r[1] /\ r[2] = start.r[2] /\ r[4] = start.r[4] /\ r[3] = CaxiOld
  BY <1>3, <1>4
<1>6. CaxiA \in Int
  <2>1. start.r[1] \in Int
    BY <1>4, Sizes
  <2> QED
    BY <2>1, SMT DEF CaxiA
<1>7. DOMAIN mem = DOMAIN start.mem
  BY <1>3, Zenon DEF WithHalf
<1>8. {CaxiA, CaxiA + 1} \subseteq DOMAIN start.mem
  BY <1>3, <1>6, <1>7, CaxiCells
<1>9. CaxiOld \in 0 .. 2 ^ Half - 1 /\ CaxiThen \in 0 .. 2 ^ Half - 1
  BY <1>8, CaxiTypes
<1>10. r \in [Regs -> Words]
  <2>1. CaxiOld \in Words
    <3>1. 2 ^ Half <= Modulus
      <4> DEFINE h    == 2 ^ Half
                 rest == 2 ^ (Width - Half)
      <4>1. Half \in 0 .. Width
        BY HalfAndBytes, SMT
      <4>2. h \in Nat \ {0} /\ rest \in Nat \ {0} /\ Modulus = h * rest
        BY <4>1, Parts
      <4> HIDE DEF h, rest
      <4>3. h <= h * rest
        BY <4>2, SMT
      <4> QED
        BY <4>2, <4>3 DEF h
    <3> QED
      BY <1>9, <3>1, HalfAndBytes, Sizes, SMT DEF Words
  <2> QED
    BY <1>3, <1>4, <2>1
<1>11. /\ HalfAt(mem, CaxiA) = CaxiThen
       /\ \A c \in DOMAIN mem : mem[c] \in 0 .. 2 ^ Byte - 1
       /\ \A g : WithHalf(mem, CaxiA, g) = WithHalf(start.mem, CaxiA, g)
  BY <1>3, <1>6, <1>7, <1>8, <1>9, HalfReplaced DEF BytesAtStart
<1>12. /\ mem' = WithHalf(mem, CaxiA, NextHalf(CaxiThen, r[2], r[4]))
       /\ r' = [n \in Regs |-> IF n = 4 THEN CaxiThen ELSE r[n]]
       /\ "z" \in psw' <=> CaxiThen = Low(Half, r[2])
       /\ pc' = Word(4 + 4) /\ running'
  <2>1. 4 \in {3, 4} /\ CaxiA = r[1] - (r[1] % 4)
    BY <1>5 DEF CaxiA
  <2> QED
    BY <1>1, <1>3, <1>5, <1>10, <1>11, <2>1, CaxiOn
<1>13. mem' = WithHalf(start.mem, CaxiA, CaxiLast)
  BY <1>5, <1>11, <1>12 DEF CaxiLast
<1>14. r'[3] = CaxiOld /\ r'[4] = CaxiThen
  BY <1>4, <1>5, <1>12
<1>15. Word(4 + 4) = 8
  BY SmallWords, SMT
<1>16. CaxiA' = CaxiA /\ CaxiOld' = CaxiOld /\ CaxiThen' = CaxiThen /\ CaxiLast' = CaxiLast
  BY <1>2, CaxiStays
<1>17. /\ WithHalf(start.mem, CaxiA, CaxiLast)' = WithHalf(start.mem, CaxiA, CaxiLast)
       /\ Low(Half, start.r[2])' = Low(Half, start.r[2])
  BY <1>2, <1>16, Zenon DEF WithHalf, Low, Byte, Half
<1> QED
  BY <1>5, <1>12, <1>13, <1>14, <1>15, <1>16, <1>17, Zenon DEF AfterCaxi

(* A step takes such a program one CAXI further.                             *)
LEMMA CaxisOn == ASSUME Started, BytesAtStart, CaxiSoFar, [Next]_vars PROVE CaxiSoFar'
<1>1. code' = code /\ start' = start
  BY StartedStays, Zenon DEF Same
<1>2. SUFFICES ASSUME code = TwoCaxi PROVE BeforeCaxi' \/ BetweenCaxi' \/ AfterCaxi'
  BY <1>1, Zenon DEF CaxiSoFar
<1>3. BeforeCaxi \/ BetweenCaxi \/ AfterCaxi
  BY <1>2 DEF CaxiSoFar
<1>4. CASE UNCHANGED vars
  <2>1. pc' = pc /\ r' = r /\ mem' = mem /\ psw' = psw /\ running' = running
    BY <1>4, Zenon DEF vars
  <2>2. CaxiA' = CaxiA /\ CaxiOld' = CaxiOld /\ CaxiThen' = CaxiThen /\ CaxiLast' = CaxiLast
    BY <1>1, CaxiStays
  <2>3. Writable(CaxiA, 2)' = Writable(CaxiA, 2)
    BY <2>1, <2>2, Zenon DEF Writable, Readable, Cells
  <2>4. /\ WithHalf(start.mem, CaxiA, CaxiLast)' = WithHalf(start.mem, CaxiA, CaxiLast)
        /\ WithHalf(start.mem, CaxiA, CaxiThen)' = WithHalf(start.mem, CaxiA, CaxiThen)
        /\ Low(Half, start.r[2])' = Low(Half, start.r[2])
    BY <1>1, <2>2, Zenon DEF WithHalf, Low, Byte, Half
  <2> QED
    BY <1>1, <1>3, <2>1, <2>2, <2>3, <2>4, Zenon DEF BeforeCaxi, BetweenCaxi, AfterCaxi
<1>5. CASE Next /\ ~ (running /\ pc \in DOMAIN code)
  BY <1>4, <1>5, EndedStays
<1>6. CASE Next /\ running /\ pc \in DOMAIN code
  <2>1. ~ AfterCaxi
    <3>1. pc \in {0, 4}
      BY <1>2, <1>6, CaxiCode
    <3>2. pc # 8
      BY <3>1, SMT
    <3> QED
      BY <3>2 DEF AfterCaxi
  <2> QED
    BY <1>2, <1>3, <1>6, <2>1, FirstCaxiOn, SecondCaxiOn
<1> QED
  BY <1>4, <1>5, <1>6

(* A word that fits in the lower half without its sign is that half.         *)
LEMMA SmallHalves == ASSUME NEW x \in 0 .. 2 ^ (Half - 1) - 1 PROVE Low(Half, x) = x
<1> DEFINE i == Half - 1
           small == 2 ^ i
           whole == 2 ^ Half
<1>1. Half \in 1 .. Width
  BY HalfAndBytes, SMT
<1>2. i \in 0 .. Width /\ 1 \in 0 .. Width /\ 1 + i = Half /\ 1 + i <= Width
  BY <1>1, CoreAssumption, SMT
<1> HIDE DEF i
<1>3. small \in Nat \ {0} /\ 2 ^ (1 + i) = 2 ^ 1 * small
  BY <1>2, WordPowers
<1>4. whole = 2 * small
  BY <1>2, <1>3, SMT DEF whole
<1>5. x \in Int /\ 0 <= x /\ x < small
  BY <1>3, SMT DEF small, i
<1> HIDE DEF small, whole
<1>6. x \in Int /\ x \in 0 .. whole - 1
  BY <1>3, <1>4, <1>5, SMT
<1> QED
  BY <1>1, <1>6, FitsBits DEF whole

(* Bits and words of memory serve as locks: of two bit operations the second *)
(* tells by Z the bit as the first left it, and of two CAXI each whether it  *)
(* exchanged the word, where words fit in their lower halves; nothing else   *)
(* changes, and only what would write is refused where nothing may be        *)
(* written (op_exec_bit.c, op_exec_spec.c:747-809).  This is so for bytes of *)
(* every size, any memory and any addresses, also where both operations meet *)
(* in one byte.                                                              *)
THEOREM LocksHold == Spec => []BitsAreLocks
<1> DEFINE Locks == \A op \in BitOps8, k \in 0 .. Byte - 1, op2 \in BitOps9 : BitsSoFar(op, k, op2)
           IInv  == Started /\ BytesAtStart /\ CaxiSoFar /\ Locks
<1>1. Init => IInv
  <2> SUFFICES ASSUME Init PROVE IInv
    OBVIOUS
  <2>1. Started /\ BytesAtStart /\ pc = 0 /\ r = start.r /\ mem = start.mem /\ running
    BY StartsAtZero, StartsWithBytes, Zenon DEF AtStart
  <2>2. \A op \in BitOps8 : BeforeFirst(op)
    BY <2>1, Zenon DEF BeforeFirst
  <2>3. BeforeCaxi
    BY <2>1, Zenon DEF BeforeCaxi
  <2> QED
    BY <2>1, <2>2, <2>3, Zenon DEF BitsSoFar, CaxiSoFar
<1>2. IInv /\ [Next]_vars => IInv'
  <2> SUFFICES ASSUME IInv, [Next]_vars PROVE IInv'
    OBVIOUS
  <2>1. Started' /\ start' = start
    BY StartedStays, Zenon DEF Same
  <2>2. BytesAtStart'
    BY <2>1, LocksStay
  <2>3. CaxiSoFar'
    BY CaxisOn
  <2>4. \A op \in BitOps8, k \in 0 .. Byte - 1, op2 \in BitOps9 : BitsSoFar(op, k, op2)'
    BY BitsOn
  <2>5. Locks'
    BY <2>4, Zenon DEF Byte
  <2> QED
    BY <2>1, <2>2, <2>3, <2>5
<1>3. IInv => BitsAreLocks
  <2> SUFFICES ASSUME IInv PROVE BitsAreLocks
    OBVIOUS
  <2>1. ASSUME code = TwoCaxi
        PROVE  /\ Ran(code) => /\ r[3] = CaxiOld /\ r[4] = CaxiThen
                               /\ mem = WithHalf(start.mem, CaxiA, CaxiLast)
                               /\ "z" \in psw <=> CaxiThen = Low(Half, start.r[2])
               /\ ~ running => ~ Writable(CaxiA, 2) /\ mem = start.mem
    <3>1. BeforeCaxi \/ BetweenCaxi \/ AfterCaxi
      BY <2>1 DEF CaxiSoFar
    <3>2. DOMAIN code = {0, 4}
      BY <2>1, CaxiCode
    <3>3. pc \notin DOMAIN code => AfterCaxi
      BY <3>1, <3>2 DEF BeforeCaxi, BetweenCaxi
    <3> QED
      BY <3>1, <3>3, Zenon DEF BeforeCaxi, BetweenCaxi, AfterCaxi, Ran
  <2>2. CaxiExchanges
    <3> SUFFICES ASSUME code = TwoCaxi PROVE CaxiExchanges
      BY Zenon DEF CaxiExchanges
    <3> DEFINE swapped(token, new) == IF token = start.r[2] THEN new ELSE token
               old  == start.mem[CaxiA + 1] * 2 ^ Byte + start.mem[CaxiA]
               then == swapped(old, start.r[3])
               last == swapped(then, start.r[4])
    <3>1. ASSUME {start.r[2], start.r[3], start.r[4]} \subseteq 0 .. 2 ^ (Half - 1) - 1
          PROVE  /\ CaxiOld = old /\ CaxiThen = then /\ CaxiLast = last
                 /\ Low(Half, start.r[2]) = start.r[2]
      <4>1. CaxiOld = old
        BY Zenon DEF CaxiOld, HalfAt
      <4>2. /\ Low(Half, start.r[2]) = start.r[2] /\ Low(Half, start.r[3]) = start.r[3]
            /\ Low(Half, start.r[4]) = start.r[4]
        BY <3>1, SmallHalves
      <4> QED
        BY <4>1, <4>2, Zenon DEF CaxiThen, CaxiLast, NextHalf
    <3>2. ASSUME ~ running PROVE ~ Writable(CaxiA, 4) /\ mem = start.mem
      <4>1. ~ Writable(CaxiA, 2) /\ mem = start.mem
        BY <2>1, <3>2
      <4>2. Cells(CaxiA, 2) \subseteq Cells(CaxiA, 4)
        <5>1. start.r[1] \in Int
          <6>1. start.r \in [Regs -> Words] /\ 1 \in Regs
            BY NamedRegs, SMT DEF Started
          <6> QED
            BY <6>1, Sizes
        <5>2. CaxiA \in Int
          BY <5>1, SMT DEF CaxiA
        <5> QED
          BY <5>2, SMT DEF Cells
      <4>3. Writable(CaxiA, 4) => Writable(CaxiA, 2)
        BY <4>2, Zenon DEF Writable, Readable
      <4> QED
        BY <4>1, <4>3
    <3>3. ASSUME Ran(code), {old, start.r[2], start.r[3], start.r[4]} \subseteq 0 .. 2 ^ (Half - 1) - 1
          PROVE  /\ r[3] = old /\ r[4] = then
                 /\ mem = [start.mem EXCEPT ![CaxiA] = Low(Byte, last), ![CaxiA + 1] = last \div 2 ^ Byte]
                 /\ "z" \in psw <=> then = start.r[2]
      <4>1. /\ CaxiOld = old /\ CaxiThen = then /\ CaxiLast = last
            /\ Low(Half, start.r[2]) = start.r[2]
        BY <3>1, <3>3
      <4>2. WithHalf(start.mem, CaxiA, last) =
              [start.mem EXCEPT ![CaxiA] = Low(Byte, last), ![CaxiA + 1] = last \div 2 ^ Byte]
        BY Zenon DEF WithHalf
      <4> HIDE DEF old, then, last
      <4> QED
        BY <2>1, <3>3, <4>1, <4>2
    <3> QED
      BY <3>2, <3>3, Zenon DEF CaxiExchanges, CaxiA
  <2>3. ASSUME NEW op \in BitOps8, NEW k \in 0 .. Byte - 1, NEW op2 \in BitOps9, code = TwoBitOps(op, k, op2)
        PROVE  /\ Ran(code) => /\ HasBits(mem, LastBits(op, k, op2))
                               /\ "z" \in psw <=> LockJ \notin FirstBits(op, k)[LockB]
               /\ ~ running => \/ ~ MayDo(op, LockA) /\ mem = start.mem
                               \/ ~ MayDo(op2, LockB) /\ HasBits(mem, FirstBits(op, k))
    <3>1. BeforeFirst(op) \/ BetweenBits(op, k, op2) \/ AfterBits(op, k, op2)
      BY <2>3 DEF BitsSoFar
    <3>2. DOMAIN code = {0, 4}
      BY <2>3, BitCode
    <3>3. pc \notin DOMAIN code => AfterBits(op, k, op2)
      BY <3>1, <3>2 DEF BeforeFirst, BetweenBits
    <3> QED
      BY <3>1, <3>3, Zenon DEF BeforeFirst, BetweenBits, AfterBits, Ran
  <2>4. LockA = Word(start.r[1] - 3)
    <3>1. start.r[1] \in Int
      <4>1. start.r \in [Regs -> Words] /\ 1 \in Regs
        BY NamedRegs, SMT DEF Started
      <4> QED
        BY <4>1, Sizes
    <3>2. start.r[1] + (-3) * 1 = start.r[1] - 3
      BY <3>1, SMT
    <3> QED
      BY <3>2 DEF LockA
  <2> QED
    BY <2>2, <2>3, <2>4, Zenon DEF BitsAreLocks, LockB, LockJ, FirstBits, LastBits
<1> QED
  BY <1>1, <1>2, <1>3, PTL DEF Spec

----------------------------------------------------------------------------
(* Comparisons of floats.                                                    *)

(* The bits of a condition code are those of its number.                     *)
LEMMA CodeBits ==
  ASSUME NEW n \in 0 .. 15
  PROVE  /\ Bit(n, 0) = n % 2 /\ Bit(n, 1) = (n \div 2) % 2
         /\ Bit(n, 2) = (n \div 4) % 2 /\ Bit(n, 3) = (n \div 8) % 2
<1>1. 2 ^ 0 = 1 /\ 2 ^ 1 = 2 /\ 2 ^ 2 = 4 /\ 2 ^ 3 = 8
  BY SMT
<1>2. n \div 1 = n
  BY SMT
<1> QED
  BY <1>1, <1>2 DEF Bit

(* What a condition says, by its bits: of which only the last is for NaN.    *)
Allows(n, ordered, less, greater) ==
  \/ ~ ordered /\ Bit(n, 0) = 1
  \/ ordered /\ \/ Bit(n, 1) = 1 /\ ~ less /\ ~ greater
                \/ Bit(n, 2) = 1 /\ less

LEMMA ConditionSays ==
  ASSUME NEW k \in 1 .. 16, NEW ordered \in BOOLEAN, NEW less \in BOOLEAN, NEW greater \in BOOLEAN,
         ~ (less /\ greater)
  PROVE  /\ Allows(k - 1, ordered, less, greater) <=> Says(Fconds[k], ordered, less, greater)
         /\ Bit(k - 1, 3) = 1 <=> Fconds[k] \in Signaling
<1>1. /\ Bit(k - 1, 0) = (k - 1) % 2 /\ Bit(k - 1, 1) = ((k - 1) \div 2) % 2
      /\ Bit(k - 1, 2) = ((k - 1) \div 4) % 2 /\ Bit(k - 1, 3) = ((k - 1) \div 8) % 2
  BY CodeBits, SMT
<1>2. CASE k = 1
  BY <1>1, <1>2, SMT DEF Fconds, Says, Allows, Signaling
<1>3. CASE k = 2
  BY <1>1, <1>3, SMT DEF Fconds, Says, Allows, Signaling
<1>4. CASE k = 3
  BY <1>1, <1>4, SMT DEF Fconds, Says, Allows, Signaling
<1>5. CASE k = 4
  BY <1>1, <1>5, SMT DEF Fconds, Says, Allows, Signaling
<1>6. CASE k = 5
  BY <1>1, <1>6, SMT DEF Fconds, Says, Allows, Signaling
<1>7. CASE k = 6
  BY <1>1, <1>7, SMT DEF Fconds, Says, Allows, Signaling
<1>8. CASE k = 7
  BY <1>1, <1>8, SMT DEF Fconds, Says, Allows, Signaling
<1>9. CASE k = 8
  BY <1>1, <1>9, SMT DEF Fconds, Says, Allows, Signaling
<1>10. CASE k = 9
  BY <1>1, <1>10, SMT DEF Fconds, Says, Allows, Signaling
<1>11. CASE k = 10
  BY <1>1, <1>11, SMT DEF Fconds, Says, Allows, Signaling
<1>12. CASE k = 11
  BY <1>1, <1>12, SMT DEF Fconds, Says, Allows, Signaling
<1>13. CASE k = 12
  BY <1>1, <1>13, SMT DEF Fconds, Says, Allows, Signaling
<1>14. CASE k = 13
  BY <1>1, <1>14, SMT DEF Fconds, Says, Allows, Signaling
<1>15. CASE k = 14
  BY <1>1, <1>15, SMT DEF Fconds, Says, Allows, Signaling
<1>16. CASE k = 15
  BY <1>1, <1>16, SMT DEF Fconds, Says, Allows, Signaling
<1>17. CASE k = 16
  BY <1>1, <1>17, SMT DEF Fconds, Says, Allows, Signaling
<1> QED
  BY <1>2, <1>3, <1>4, <1>5, <1>6, <1>7, <1>8, <1>9,
     <1>10, <1>11, <1>12, <1>13, <1>14, <1>15, <1>16, <1>17, SMT
(* The data that the code takes for NaN: those of a single, and no double.   *)
LEMMA NansRecognised ==
  ASSUME NEW b \in Int
  PROVE  (IsNan(Single, b) <=> Host!NaN(Single, b)) /\ ~ IsNan(Double, b)
<1>1. /\ Single.missed = 0 /\ Single.shared = 0 /\ Double.missed = 1
      /\ Single \in {Single, Double} /\ Double \in {Single, Double}
  BY DEF Single, Double, Format
<1>2. IsNan(Single, b) <=> Host!NaN(Single, b)
  <2> DEFINE E == 2 ^ Single.exp
             F == 2 ^ Single.frac
             x == (b \div F) % E
             y == b % F
  <2>1. /\ E \in Nat \ {0} /\ F \in Nat \ {0} /\ x \in 0 .. E - 1 /\ y \in 0 .. F - 1
        /\ Host!NaN(Single, b) <=> x = E - 1 /\ y # 0
    BY <1>1, PartsOf
  <2>2. Low(0, x) = 0
    <3>1. 2 ^ 0 = 1 /\ x \in Int
      BY <2>1, SMT
    <3> HIDE DEF x
    <3>2. x % 1 = 0
      BY <3>1, SMT
    <3> QED
      BY <3>1, <3>2 DEF Low
  <2>3. ExponentOf(Single, b) = x - Low(0, x)
    BY <1>1 DEF ExponentOf, Low
  <2>4. Single.frac + 0 = Single.frac
    <3>1. Single.frac = 1 * Width - 1 - SingleExp
      BY DEF Single, Format
    <3>2. Single.frac \in Int
      BY <3>1, CoreAssumption, FloatAssumption, SMT
    <3> QED
      BY <3>2, SMT
  <2>5. FractionOf(Single, b) = y
    BY <1>1, <2>4 DEF FractionOf, Low
  <2>6. Full(Single) = E - 1
    BY DEF Full
  <2> HIDE DEF E, F, x, y
  <2>7. x - Low(0, x) = x
    BY <2>1, <2>2, SMT
  <2> QED
    BY <2>1, <2>3, <2>5, <2>6, <2>7 DEF IsNan
<1>3. ~ IsNan(Double, b)
  <2> DEFINE E == 2 ^ Double.exp
             F == 2 ^ Double.frac
             h == 2 ^ (Double.exp - 1)
             x == (b \div F) % E
  <2>1. E = 2 * h /\ h \in Nat \ {0} /\ x \in 0 .. E - 1
    BY <1>1, FormatSizes, PartsOf
  <2>2. ExponentOf(Double, b) = x - Low(1, x) /\ Full(Double) = E - 1
    BY <1>1 DEF ExponentOf, Low, Full
  <2>3. Low(1, x) = x % 2
    <3>1. 2 ^ 1 = 2
      BY SMT
    <3> QED
      BY <3>1 DEF Low
  <2> HIDE DEF E, F, x, h
  <2>4. x - (x % 2) # E - 1
    BY <2>1, SMT
  <2> QED
    BY <2>2, <2>3, <2>4 DEF IsNan
<1> QED
  BY <1>2, <1>3

(* Of two magnitudes the greater is that of the number further from zero.    *)
LEMMA FurtherIsGreater ==
  ASSUME NEW f \in {Single, Double}, NEW a \in Int, NEW b \in Int
  PROVE  LET v == Host!Value(f, a)
             w == Host!Value(f, b)
             m == Host!Magnitude(f, a)
             n == Host!Magnitude(f, b)
         IN /\ m \in Nat /\ n \in Nat
            /\ Further(v, w) <=> m > n
            /\ v.m # 0 <=> m # 0
<1> DEFINE F == 2 ^ f.frac
           E == 2 ^ f.exp
           x(c) == (c \div F) % E
           y(c) == c % F
           place == Host!LastPlace(f)
<1>1. /\ F \in Nat \ {0} /\ place \in Int /\ E \in Nat \ {0}
  BY FormatSizes, PartsOf
<1>2. ASSUME NEW c \in Int
      PROVE  /\ x(c) \in 0 .. E - 1 /\ y(c) \in 0 .. F - 1
             /\ Host!Magnitude(f, c) = x(c) * F + y(c)
             /\ Host!Value(f, c).m = IF x(c) = 0 THEN y(c) ELSE y(c) + F
             /\ Host!Value(f, c).e = place + (IF x(c) > 1 THEN x(c) ELSE 1) - 1
  BY PartsOf
<1> DEFINE x1 == x(a)  y1 == y(a)  x2 == x(b)  y2 == y(b)
           m1 == Host!Value(f, a).m  e1 == Host!Value(f, a).e
           m2 == Host!Value(f, b).m  e2 == Host!Value(f, b).e
           p1 == Host!Magnitude(f, a)
           p2 == Host!Magnitude(f, b)
<1>3. /\ x1 \in Nat /\ y1 \in 0 .. F - 1 /\ p1 = x1 * F + y1 /\ m1 = (IF x1 = 0 THEN y1 ELSE y1 + F)
      /\ e1 = place + (IF x1 > 1 THEN x1 ELSE 1) - 1
      /\ x2 \in Nat /\ y2 \in 0 .. F - 1 /\ p2 = x2 * F + y2 /\ m2 = (IF x2 = 0 THEN y2 ELSE y2 + F)
      /\ e2 = place + (IF x2 > 1 THEN x2 ELSE 1) - 1
  <2>1. /\ x1 \in 0 .. E - 1 /\ y1 \in 0 .. F - 1 /\ p1 = x1 * F + y1
        /\ m1 = (IF x1 = 0 THEN y1 ELSE y1 + F) /\ e1 = place + (IF x1 > 1 THEN x1 ELSE 1) - 1
    BY <1>2
  <2>2. /\ x2 \in 0 .. E - 1 /\ y2 \in 0 .. F - 1 /\ p2 = x2 * F + y2
        /\ m2 = (IF x2 = 0 THEN y2 ELSE y2 + F) /\ e2 = place + (IF x2 > 1 THEN x2 ELSE 1) - 1
    BY <1>2
  <2> HIDE DEF x1, y1, x2, y2, p1, p2, m1, m2, e1, e2, place, E, F
  <2>3. x1 \in Nat /\ x2 \in Nat
    BY <1>1, <2>1, <2>2, SMT
  <2> QED
    BY <2>1, <2>2, <2>3
<1> HIDE DEF x1, y1, x2, y2, p1, p2, m1, m2, e1, e2, place, E, F
<1>4. p1 \in Nat /\ p2 \in Nat /\ x1 * F \in Nat /\ x2 * F \in Nat
  BY <1>1, <1>3, SMT
<1>5. (e1 > e2 \/ (e1 = e2 /\ m1 > m2)) <=> p1 > p2
  <2>1. x1 > x2 => x1 * F >= x2 * F + F
    <3>1. x1 > x2 => x1 * F >= (x2 + 1) * F
      BY <1>1, <1>3, SMT
    <3>2. (x2 + 1) * F = x2 * F + F
      BY <1>1, <1>3, SMT
    <3> QED
      BY <3>1, <3>2
  <2>2. x2 > x1 => x2 * F >= x1 * F + F
    <3>1. x2 > x1 => x2 * F >= (x1 + 1) * F
      BY <1>1, <1>3, SMT
    <3>2. (x1 + 1) * F = x1 * F + F
      BY <1>1, <1>3, SMT
    <3> QED
      BY <3>1, <3>2
  <2>3. x1 = x2 => x1 * F = x2 * F
    OBVIOUS
  <2> DEFINE s1 == x1 * F
             s2 == x2 * F
  <2>4. /\ s1 \in Nat /\ s2 \in Nat /\ p1 = s1 + y1 /\ p2 = s2 + y2
        /\ (x1 > x2 => s1 >= s2 + F) /\ (x2 > x1 => s2 >= s1 + F) /\ (x1 = x2 => s1 = s2)
    BY <1>3, <1>4, <2>1, <2>2, <2>3
  <2> HIDE DEF s1, s2
  <2>5. CASE x1 = x2
    BY <1>1, <1>3, <2>4, <2>5, SMT
  <2>6. CASE x1 > x2
    BY <1>1, <1>3, <2>4, <2>6, SMT
  <2>7. CASE x1 < x2
    BY <1>1, <1>3, <2>4, <2>7, SMT
  <2> QED
    BY <1>3, <2>5, <2>6, <2>7, SMT
<1>6. m1 # 0 <=> p1 # 0
  <2>1. x1 = 0 => x1 * F = 0
    BY <1>1, SMT
  <2>2. x1 > 0 => x1 * F >= F
    BY <1>1, <1>3, SMT
  <2> QED
    BY <1>1, <1>3, <1>4, <2>1, <2>2, SMT
<1> QED
  BY <1>4, <1>5, <1>6 DEF Further, m1, m2, e1, e2, p1, p2

(* The host's comparisons are those of the numbers, and no NaN is one.       *)
LEMMA HostCompares ==
  ASSUME NEW f \in {Single, Double}, NEW a \in Int, NEW b \in Int
  PROVE  LET ordered == IsNumber(f, a) /\ IsNumber(f, b)
         IN /\ Host!Less(f, a, b) <=> ordered /\ Below(f, a, b)
            /\ Host!Equal(f, a, b) <=> ordered /\ ~ Below(f, a, b) /\ ~ Below(f, b, a)
            /\ ~ (Below(f, a, b) /\ Below(f, b, a))
<1> DEFINE v == Host!Value(f, a)
           w == Host!Value(f, b)
           m == Host!Magnitude(f, a)
           n == Host!Magnitude(f, b)
           s == Host!Minus(f, a)
           t == Host!Minus(f, b)
<1>1. /\ m \in Nat /\ n \in Nat
      /\ Further(v, w) <=> m > n
      /\ Further(w, v) <=> n > m
      /\ v.m # 0 <=> m # 0
      /\ w.m # 0 <=> n # 0
  <2>1. m \in Nat /\ n \in Nat /\ (Further(v, w) <=> m > n) /\ (v.m # 0 <=> m # 0)
    BY FurtherIsGreater
  <2>2. (Further(w, v) <=> n > m) /\ (w.m # 0 <=> n # 0)
    BY FurtherIsGreater
  <2> QED
    BY <2>1, <2>2
<1>2. v.neg = s /\ w.neg = t
  BY PartsOf
<1> HIDE DEF v, w, m, n
<1>3. /\ Below(f, a, b) <=> \/ s /\ ~ t /\ (m # 0 \/ n # 0)
                            \/ s /\ t /\ m > n
                            \/ ~ s /\ ~ t /\ n > m
      /\ Below(f, b, a) <=> \/ t /\ ~ s /\ (m # 0 \/ n # 0)
                            \/ t /\ s /\ n > m
                            \/ ~ t /\ ~ s /\ m > n
  <2>1. Below(f, a, b) <=> \/ v.neg /\ ~ w.neg /\ (v.m # 0 \/ w.m # 0)
                           \/ v.neg /\ w.neg /\ Further(v, w)
                           \/ ~ v.neg /\ ~ w.neg /\ Further(w, v)
    BY Zenon DEF Below, v, w
  <2>2. Below(f, b, a) <=> \/ w.neg /\ ~ v.neg /\ (w.m # 0 \/ v.m # 0)
                           \/ w.neg /\ v.neg /\ Further(w, v)
                           \/ ~ w.neg /\ ~ v.neg /\ Further(v, w)
    BY Zenon DEF Below, v, w
  <2> QED
    BY <1>1, <1>2, <2>1, <2>2, Zenon
<1> DEFINE p == Host!Place(f, a)
           q == Host!Place(f, b)
<1>4. p = (IF s THEN - m ELSE m) /\ q = (IF t THEN - n ELSE n)
  BY Zenon DEF Host!Place, m, n
<1> HIDE DEF p, q, s, t
<1>5. /\ p < q <=> \/ s /\ ~ t /\ (m # 0 \/ n # 0)
                   \/ s /\ t /\ m > n
                   \/ ~ s /\ ~ t /\ n > m
      /\ q < p <=> \/ t /\ ~ s /\ (m # 0 \/ n # 0)
                   \/ t /\ s /\ n > m
                   \/ ~ t /\ ~ s /\ m > n
      /\ p \in Int /\ q \in Int
  BY <1>1, <1>4, SMT
<1>6. (Below(f, a, b) <=> p < q) /\ (Below(f, b, a) <=> q < p)
  BY <1>3, <1>5, Zenon
<1>7. (p = q <=> ~ p < q /\ ~ q < p) /\ ~ (p < q /\ q < p)
  BY <1>5, SMT
<1> QED
  BY <1>6, <1>7, Zenon DEF Host!Less, Host!Equal, IsNumber, p, q

(* What CMPF finds is what its condition says of the numbers; but of doubles *)
(* it finds nothing where a NaN is one of them.                              *)
LEMMA HoldsSays ==
  ASSUME NEW k \in 1 .. 16, Fcond = k - 1, NEW f \in {Single, Double}, D1(f) \in Int, D2(f) \in Int
  PROVE  LET ordered == IsNumber(f, D1(f)) /\ IsNumber(f, D2(f))
             less    == Below(f, D2(f), D1(f))
             greater == Below(f, D1(f), D2(f))
         IN IF f = Single
            THEN /\ Holds(f) <=> Says(Fconds[k], ordered, less, greater)
                 /\ Unordered(f) /\ Bit(Fcond, 3) = 1 <=> ~ ordered /\ Fconds[k] \in Signaling
            ELSE /\ Holds(f) <=> ordered /\ Says(Fconds[k], TRUE, less, greater)
                 /\ ~ Unordered(f)
<1> DEFINE a == D1(f)
           b == D2(f)
           ordered == IsNumber(f, a) /\ IsNumber(f, b)
           less    == Below(f, b, a)
           greater == Below(f, a, b)
<1>1. /\ Host!Less(f, b, a) <=> ordered /\ less
      /\ Host!Equal(f, b, a) <=> ordered /\ ~ less /\ ~ greater
      /\ ~ (less /\ greater)
  <2>1. LET both == IsNumber(f, b) /\ IsNumber(f, a)
        IN /\ Host!Less(f, b, a) <=> both /\ Below(f, b, a)
           /\ Host!Equal(f, b, a) <=> both /\ ~ Below(f, b, a) /\ ~ Below(f, a, b)
           /\ ~ (Below(f, b, a) /\ Below(f, a, b))
    BY HostCompares
  <2> QED
    BY <2>1, Zenon
<1>2. Unordered(f) <=> IsNan(f, a) \/ IsNan(f, b)
  BY Zenon DEF Unordered, Operands
<1>3. IF f = Single THEN Unordered(f) <=> ~ ordered ELSE ~ Unordered(f)
  <2>1. f = Single => ((IsNan(f, a) <=> Host!NaN(f, a)) /\ (IsNan(f, b) <=> Host!NaN(f, b)))
    BY NansRecognised
  <2>2. f # Single => f = Double
    OBVIOUS
  <2>3. f # Single => ~ IsNan(f, a) /\ ~ IsNan(f, b)
    BY <2>2, NansRecognised
  <2> QED
    BY <1>2, <2>1, <2>3, Zenon DEF IsNumber
<1>4. ordered \in BOOLEAN /\ less \in BOOLEAN /\ greater \in BOOLEAN
  BY Zenon DEF IsNumber, Below
<1> DEFINE one == Bit(Fcond, 1) = 1
           two == Bit(Fcond, 2) = 1
<1>5. Holds(f) <=> \/ Unordered(f) /\ Bit(Fcond, 0) = 1
                   \/ ~ Unordered(f) /\ ((one /\ Host!Equal(f, b, a)) \/ (two /\ Host!Less(f, b, a)))
  BY Zenon DEF Holds
<1>6. /\ Allows(k - 1, ordered, less, greater) <=> Says(Fconds[k], ordered, less, greater)
      /\ Allows(k - 1, TRUE, less, greater) <=> Says(Fconds[k], TRUE, less, greater)
      /\ Bit(k - 1, 3) = 1 <=> Fconds[k] \in Signaling
  <2> HIDE DEF ordered, less, greater
  <2>1. TRUE \in BOOLEAN
    OBVIOUS
  <2> QED
    BY <1>1, <1>4, <2>1, ConditionSays, Zenon
<1>7. \A o : Allows(Fcond, o, less, greater) <=> \/ ~ o /\ Bit(Fcond, 0) = 1
                                                 \/ o /\ ((one /\ ~ less /\ ~ greater) \/ (two /\ less))
  BY Zenon DEF Allows
<1> HIDE DEF ordered, less, greater, a, b, one, two
<1>8. CASE f = Single
  <2>1. Holds(f) <=> Allows(Fcond, ordered, less, greater)
    BY <1>1, <1>3, <1>5, <1>7, <1>8, Zenon
  <2> QED
    BY <1>3, <1>6, <1>8, <2>1, Zenon DEF ordered, less, greater, a, b
<1>9. CASE f # Single
  <2>1. Holds(f) <=> ordered /\ Allows(Fcond, TRUE, less, greater)
    BY <1>1, <1>3, <1>5, <1>7, <1>9, Zenon
  <2> QED
    BY <1>3, <1>6, <1>9, <2>1, Zenon DEF ordered, less, greater, a, b
<1> QED
  BY <1>8, <1>9

(* The registers of floating point while two numbers are compared: their     *)
(* condition bits, and the exceptions of the comparison.                     *)
Tested(bits, kinds) ==
  IsFpuState(fpu) /\ Selected = Shown(bits, kinds, kinds, 0, {}, FALSE)

(* At the reset they are blank.                                              *)
LEMMA ResetIsBlank == ASSUME fpu = FpuReset PROVE Tested({}, {})
<1> DEFINE blank == Shown({}, {}, {}, 0, {}, FALSE)
           all   == [b \in Banks |-> blank]
<1>1. fpu = FpuState(0, 0, FALSE, all)
  BY SMT DEF FpuReset, FpuState, Shown
<1>2. IsFpuState(fpu)
  BY ResetMirrors, Zenon DEF Mirrored
<1> HIDE DEF blank
<1>3. 0 \in Banks
  BY SMT DEF Banks
<1>4. all[0] = blank
  BY <1>3
<1> HIDE DEF all
<1>5. fpu.bank = 0 /\ fpu.regs = all
  BY <1>1 DEF FpuState
<1>6. Selected = blank
  BY <1>4, <1>5 DEF Selected
<1> QED
  BY <1>2, <1>6 DEF Tested, blank

(* CMPF raises what it finds invalid and writes its condition bit.           *)
LEMMA CmpfTells ==
  ASSUME NEW f, Cmpf(f), NEW bits, Tested(bits, {}), NEW new, NEW kinds,
         new = (IF Holds(f) THEN bits \cup {ins.bit} ELSE bits \ {ins.bit}),
         kinds = (IF Unordered(f) /\ Bit(Fcond, 3) = 1 THEN {"V"} ELSE {})
  PROVE  \/ Stop
         \/ Tested(new, kinds)' /\ pc' = Word(pc + 4) /\ r' = r
<1>1. Selected.FPSR.cc = bits
  BY DEF Tested, Shown
<1>2. \/ Stop
      \/ fpu' = WithCondition(Raise(kinds), new) /\ pc' = Word(pc + 4) /\ r' = r
  BY <1>1, Zenon DEF Cmpf, Proceed
<1>3. ASSUME fpu' = WithCondition(Raise(kinds), new) PROVE Tested(new, kinds)'
  <2> DEFINE none  == {}
             no    == FALSE
             now(c, x) == Shown(c, x, x, 0, none, no)
             state == Raise(kinds)
  <2>1. IsFpuState(fpu) /\ Selected = now(bits, none)
    BY DEF Tested
  <2>2. state = Replaced(fpu, now(bits, kinds)) \/ (kinds = {} /\ state = fpu)
    <3>1. CASE kinds = {}
      BY <3>1, Zenon DEF Raise
    <3>2. CASE kinds # {}
      <4> DEFINE fc  == [cc |-> bits]
                 cfg == [rm |-> 0, xe |-> none]
      <4>1. \A x : now(bits, x) = Apart(bits, x, x, 0, none, no, x, x, no, fc, cfg)
        BY DEF Shown, Apart
      <4>2. none \cup kinds = kinds
        OBVIOUS
      <4>3. Tested(bits, none) /\ state = Raise(kinds)
        OBVIOUS
      <4> HIDE DEF fc, cfg, now, none, no, state
      <4>4. Selected = Apart(bits, none, none, 0, none, no, none, none, no, fc, cfg)
        BY <2>1, <4>1
      <4>5. state = Replaced(fpu, Apart(bits, none \cup kinds, none \cup kinds, 0, none, no,
                                               none \cup kinds, none \cup kinds, no, fc, cfg))
        BY <2>1, <3>2, <4>4, <4>3, RaiseReplaces
      <4> QED
        BY <4>1, <4>5, <4>2
    <3> QED
      BY <3>1, <3>2
  <2>3. IsFpuState(state) /\ state.bank = fpu.bank /\ state.regs[state.bank] = now(bits, kinds)
    <3>1. CASE kinds = {} /\ state = fpu
      BY <2>1, <3>1, Zenon DEF Selected
    <3>2. CASE state = Replaced(fpu, now(bits, kinds))
      <4> HIDE DEF now
      <4> QED
        BY <2>1, <3>2, BankReplaced
    <3> QED
      BY <2>2, <3>1, <3>2
  <2> HIDE DEF state, none, no
  <2>4. WithCondition(state, new) = Replaced(state, now(new, kinds))
    BY <2>3, WithConditionReplaces
  <2> HIDE DEF now
  <2>5. fpu' = Replaced(state, now(new, kinds))
    BY <1>3, <2>4 DEF state
  <2>6. IsFpuState(fpu') /\ fpu'.regs[fpu'.bank] = now(new, kinds)
    BY <2>3, <2>5, BankReplaced
  <2> QED
    BY <2>6, Zenon DEF Tested, Selected, now, none, no
<1> QED
  BY <1>2, <1>3

(* TRFSR copies a condition bit to Z.                                        *)
LEMMA TrfsrCopies ==
  ASSUME Trfsr, NEW bits, NEW kinds, Tested(bits, kinds)
  PROVE  /\ Tested(bits, kinds)' /\ pc' = Word(pc + 4) /\ r' = r
         /\ "z" \in psw' <=> ins.bit \in bits
<1>1. /\ psw' = Update(psw, [z |-> Condition]) /\ pc' = Word(pc + 4) /\ fpu' = fpu /\ r' = r
  BY Zenon DEF Trfsr, Goto, MovesTo, Proceed
<1>2. Condition <=> ins.bit \in bits
  BY DEF Condition, Tested, Shown
<1>3. "z" \in psw' <=> Condition
  <2> DEFINE c == Condition
  <2>1. psw' = Update(psw, [z |-> c])
    BY <1>1
  <2> HIDE DEF c
  <2>2. "z" \in DOMAIN [z |-> c] /\ [z |-> c]["z"] = c
    BY SMT
  <2>3. "z" \in psw' <=> c
    BY <2>1, <2>2, Zenon DEF Update, Flags
  <2> QED
    BY <2>3 DEF c
<1>4. Tested(bits, kinds)'
  BY <1>1, Zenon DEF Tested, Selected
<1> QED
  BY <1>1, <1>2, <1>3, <1>4

(* CMOVF writes the one or the other of its operands.                        *)
LEMMA CmovfChooses ==
  ASSUME NEW f \in {Single, Double}, Moves(f), NEW bits, NEW kinds, Tested(bits, kinds)
  PROVE  LET b == IF ins.bit \in bits THEN D1(f) ELSE D2(f)
         IN \/ Stop
            \/ /\ Tested(bits, kinds)' /\ pc' = Word(pc + 4) /\ psw' = psw
               /\ r' = Placed(f, ins.reg3, b)
               /\ f = Double => ins.reg3 + 1 \in Regs
<1> DEFINE b == IF ins.bit \in bits THEN D1(f) ELSE D2(f)
<1>1. Condition <=> ins.bit \in bits
  BY DEF Condition, Tested, Shown
<1>2. Chosen(f, Condition) = b
  BY <1>1, Zenon DEF Chosen
<1>3. \A a \in Host!Exactly(b) : a.bits = b /\ a.raised = {}
  BY DEF Host!Exactly, Host!Answer
<1>4. Raise({}) = fpu
  BY Zenon DEF Raise
<1> HIDE DEF b
<1>5. \/ Stop
      \/ /\ Three(f) /\ pc' = Word(pc + 4) /\ psw' = psw
         /\ \E a \in Host!Exactly(b) : /\ r' = Placed(f, ins.reg3, a.bits)
                                       /\ fpu' = Spilled(f, ins.reg3, a.bits, Raise(a.raised))
  BY <1>2, Zenon DEF Moves, Delivers, Proceed
<1>6. \/ Stop
      \/ /\ Three(f) /\ pc' = Word(pc + 4) /\ psw' = psw
         /\ r' = Placed(f, ins.reg3, b)
         /\ fpu' = Spilled(f, ins.reg3, b, fpu)
  BY <1>3, <1>4, <1>5
<1>7. Three(f) /\ f = Double => ins.reg3 + 1 \in Regs
  <2>1. Double.words = 2
    BY DEF Double, Format
  <2>2. Three(f) => ins.reg3 + f.words - 1 \in Regs
    BY Zenon DEF Three, InRegs
  <2>3. ASSUME ins.reg3 + 2 - 1 \in Regs PROVE ins.reg3 + 1 \in Regs
    <3>1. ins.reg3 + 2 - 1 = ins.reg3 + 1
      BY SMT
    <3> QED
      BY <2>3, <3>1
  <2> QED
    BY <2>1, <2>2, <2>3
<1>8. Three(f) => Spilled(f, ins.reg3, b, fpu) = fpu
  <2>1. f = Single => f.words # 2
    BY SMT DEF Single, Format
  <2> QED
    BY <1>7, <2>1, Zenon DEF Spilled
<1>9. fpu' = fpu => Tested(bits, kinds)'
  BY Zenon DEF Tested, Selected
<1> QED
  <2>1. \/ Stop
        \/ /\ Tested(bits, kinds)' /\ pc' = Word(pc + 4) /\ psw' = psw
           /\ r' = Placed(f, ins.reg3, b)
           /\ f = Double => ins.reg3 + 1 \in Regs
    BY <1>6, <1>7, <1>8, <1>9, Zenon
  <2> QED
    BY <2>1 DEF b

(* The programs that compare two floats, and the fields of what they execute.*)
LEMMA ComparingCode ==
  ASSUME NEW k
  PROVE  /\ DOMAIN CompareSingles(k) = {0, 4, 8, 12} /\ DOMAIN CompareDoubles(k) = {0, 4, 8, 12}
         /\ LET c == CompareSingles(k)
            IN /\ c[0].op = "cmpf_s" /\ c[0].reg1 = 1 /\ c[0].reg2 = 1 /\ c[0].reg3 = 3 /\ c[0].bit = 5
               /\ c[4].op = "cmpf_s" /\ c[4].reg1 = 1 /\ c[4].reg2 = 2 /\ c[4].reg3 = k - 1 /\ c[4].bit = 3
               /\ c[8].op = "trfsr" /\ c[8].bit = 3
               /\ c[12].op = "cmovf_s" /\ c[12].reg1 = 1 /\ c[12].reg2 = 2 /\ c[12].reg3 = 4
               /\ c[12].bit = 3
         /\ LET c == CompareDoubles(k)
            IN /\ c[0].op = "cmpf_s" /\ c[0].reg1 = 0 /\ c[0].reg2 = 0 /\ c[0].reg3 = 3 /\ c[0].bit = 5
               /\ c[4].op = "cmpf_d" /\ c[4].reg1 = 1 /\ c[4].reg2 = 3 /\ c[4].reg3 = k - 1 /\ c[4].bit = 3
               /\ c[8].op = "trfsr" /\ c[8].bit = 3
               /\ c[12].op = "cmovf_d" /\ c[12].reg1 = 1 /\ c[12].reg2 = 3 /\ c[12].reg3 = 5
               /\ c[12].bit = 3
<1>1. ASSUME NEW op, NEW x, NEW y, NEW z, NEW bit
      PROVE  LET i == With(On3(op, x, y, z), bit)
             IN i.op = op /\ i.reg1 = x /\ i.reg2 = y /\ i.reg3 = z /\ i.bit = bit
  BY SMT DEF With, On3, Ins
<1>2. With(Ins("trfsr"), 3).op = "trfsr" /\ With(Ins("trfsr"), 3).bit = 3
  BY SMT DEF With, Ins
<1>3. LET c == CompareSingles(k)
      IN /\ DOMAIN c = {0, 4, 8, 12}
         /\ c[0] = With(On3("cmpf_s", 1, 1, 3), 5) /\ c[4] = With(On3("cmpf_s", 1, 2, k - 1), 3)
         /\ c[8] = With(Ins("trfsr"), 3) /\ c[12] = With(On3("cmovf_s", 1, 2, 4), 3)
  BY SMT DEF CompareSingles, :>, @@
<1>4. LET c == CompareDoubles(k)
      IN /\ DOMAIN c = {0, 4, 8, 12}
         /\ c[0] = With(On3("cmpf_s", 0, 0, 3), 5) /\ c[4] = With(On3("cmpf_d", 1, 3, k - 1), 3)
         /\ c[8] = With(Ins("trfsr"), 3) /\ c[12] = With(On3("cmovf_d", 1, 3, 5), 3)
  BY SMT DEF CompareDoubles, :>, @@
<1> QED
  BY <1>1, <1>2, <1>3, <1>4

(* The registers that a datum is read from.                                  *)
LEMMA DatumRead ==
  /\ \A n : Datum(Single, n) = r[n]
  /\ Datum(Double, 1) = Found(r, 1) /\ Datum(Double, 3) = Found(r, 3)
<1>1. Single.words = 1 /\ Double.words = 2
  BY DEF Single, Double, Format
<1> QED
  BY <1>1 DEF Datum, Found

(* The registers that a result is written to.                                *)
LEMMA DatumWritten ==
  ASSUME r \in [Regs -> Words], NEW b \in Int
  PROVE  /\ r' = Placed(Single, 4, b) => r'[4] = b
         /\ r' = Placed(Double, 5, b) /\ 6 \in Regs => Found(r', 5) = b
<1>1. Single.words = 1 /\ Double.words = 2 /\ 4 \in Regs /\ 5 \in Regs
  BY NamedRegs, SMT DEF Single, Double, Format
<1>2. ASSUME r' = Placed(Single, 4, b) PROVE r'[4] = b
  <2>1. r' = [r EXCEPT ![4] = b, ![0] = 0]
    BY <1>1, <1>2, Zenon DEF Placed
  <2>2. r' = [[r EXCEPT ![4] = b] EXCEPT ![0] = 0]
    BY <2>1
  <2> QED
    BY <1>1, <2>2, SMT
<1>3. ASSUME r' = Placed(Double, 5, b), 6 \in Regs PROVE Found(r', 5) = b
  <2> DEFINE low  == Low(Width, b)
             high == b \div Modulus
             w1   == [r EXCEPT ![5] = low]
             w2   == [w1 EXCEPT ![6] = high]
  <2>1. r' = [w2 EXCEPT ![0] = 0]
    <3>1. 5 + 1 = 6
      BY SMT
    <3>2. 5 + 1 \in Regs /\ Double.words # 1
      BY <1>1, <1>3, <3>1
    <3>3. r' = [r EXCEPT ![5] = low, ![5 + 1] = high, ![0] = 0]
      BY <1>3, <3>2, Zenon DEF Placed
    <3> QED
      BY <3>1, <3>3
  <2> HIDE DEF low, high
  <2>2. r'[5] = low /\ r'[6] = high
    BY <1>1, <1>3, <2>1, SMT
  <2>3. high * Modulus + low = b
    <3>1. 2 ^ Width = Modulus /\ Modulus \in Nat \ {0}
      BY WholeWord, Sizes
    <3>2. low = b % Modulus
      BY <3>1 DEF low, Low
    <3> QED
      BY <3>1, <3>2, SMT DEF high
  <2> QED
    BY <2>2, <2>3 DEF Found
<1> QED
  BY <1>2, <1>3

(* What two singles and two doubles are found to be, by the condition k.     *)
FoundSingles(k) ==
  LET a == start.r[1]  b == start.r[2]
      ordered == IsNumber(Single, a) /\ IsNumber(Single, b)
  IN [holds |-> Says(Fconds[k], ordered, Below(Single, b, a), Below(Single, a, b)),
      kinds |-> IF ~ ordered /\ Fconds[k] \in Signaling THEN {"V"} ELSE {}]

FoundDoubles(k) ==
  LET a == Found(start.r, 1)  b == Found(start.r, 3)
      ordered == IsNumber(Double, a) /\ IsNumber(Double, b)
  IN [holds |-> ordered /\ Says(Fconds[k], TRUE, Below(Double, b, a), Below(Double, a, b)),
      kinds |-> {}]

BitsOfFound(holds) == {5} \cup (IF holds THEN {3} ELSE {})

(* What a comparison has before each of its instructions.                    *)
TellsSoFar(found) ==
  /\ pc \in {0, 4, 8, 12, 16}
  /\ pc < 16 => r = start.r
  /\ pc = 0 => Tested({}, {})
  /\ pc = 4 => Tested({5}, {})
  /\ pc >= 8 => Tested(BitsOfFound(found.holds), found.kinds)
  /\ pc >= 12 => ("z" \in psw <=> found.holds)

SinglesSoFar(k) ==
  code = CompareSingles(k) =>
    /\ TellsSoFar(FoundSingles(k))
    /\ pc = 16 => r[4] = IF FoundSingles(k).holds THEN start.r[1] ELSE start.r[2]

DoublesSoFar(k) ==
  code = CompareDoubles(k) =>
    /\ TellsSoFar(FoundDoubles(k))
    /\ pc = 16 => Found(r, 5) = IF FoundDoubles(k).holds THEN Found(start.r, 1) ELSE Found(start.r, 3)

(* The registers that are read at first hold integers.                       *)
LEMMA StartIsInt ==
  ASSUME Started
  PROVE  /\ \A n \in Regs : start.r[n] \in Int
         /\ start.r[0] = 0
         /\ Found(start.r, 1) \in Int
         /\ 4 \in Regs => Found(start.r, 3) \in Int
<1>1. \A n \in Regs : start.r[n] \in Int
  BY Sizes, Zenon DEF Started
<1>2. {1, 2, 3} \subseteq Regs
  BY NamedRegs, SMT
<1>3. Modulus \in Int
  BY Sizes
<1>4. 1 + 1 = 2 /\ 3 + 1 = 4
  BY SMT
<1> QED
  BY <1>1, <1>2, <1>3, <1>4, SMT DEF Found, Started

(* A datum that is a number equals itself, so that the first comparison      *)
(* holds, of which the condition asks for equal or unordered.                *)
LEMMA EqualHolds ==
  ASSUME Fcond = 3, D1(Single) \in Int, D2(Single) = D1(Single)
  PROVE  Holds(Single) /\ ~ (Unordered(Single) /\ Bit(Fcond, 3) = 1)
<1> DEFINE a == D1(Single)
<1>1. Bit(3, 0) = 1 /\ Bit(3, 1) = 1 /\ Bit(3, 3) = 0
  <2>1. 3 \in 0 .. 15
    BY SMT
  <2>2. Bit(3, 0) = 3 % 2 /\ Bit(3, 1) = (3 \div 2) % 2 /\ Bit(3, 3) = (3 \div 8) % 2
    BY <2>1, CodeBits
  <2> QED
    BY <2>2, SMT
<1>2. ~ Unordered(Single) => ~ Host!NaN(Single, a)
  BY NansRecognised, Zenon DEF Unordered, Operands
<1>3. ~ Unordered(Single) => Host!Equal(Single, D2(Single), D1(Single))
  BY <1>2, Zenon DEF Host!Equal
<1>4. Bit(Fcond, 0) = 1 /\ Bit(Fcond, 1) = 1 /\ ~ Bit(Fcond, 3) = 1
  BY <1>1, SMT
<1> QED
  BY <1>3, <1>4, Zenon DEF Holds

(* Of the programs that compare, this is what each of their steps does.      *)
LEMMA FirstTells ==
  ASSUME Started, Tested({}, {}), r = start.r,
         Cmpf_s, ins.bit = 5, ins.reg3 = 3, ins.reg1 \in {0, 1}, ins.reg2 = ins.reg1
  PROVE  \/ Stop
         \/ Tested({5}, {})' /\ pc' = Word(pc + 4) /\ r' = r
<1>1. Cmpf(Single) /\ Fcond = 3
  BY Zenon DEF Cmpf_s, Fcond
<1>2. D1(Single) \in Int /\ D2(Single) = D1(Single)
  <2>1. D1(Single) = r[ins.reg1] /\ D2(Single) = r[ins.reg2]
    BY DatumRead, Zenon DEF D1, D2
  <2>2. ins.reg1 \in Regs
    BY NamedRegs, SMT
  <2> QED
    BY <2>1, <2>2, StartIsInt
<1>3. Holds(Single) /\ ~ (Unordered(Single) /\ Bit(Fcond, 3) = 1)
  BY <1>1, <1>2, EqualHolds
<1> DEFINE five == {5}
           none == {}
<1>4. /\ five = (IF Holds(Single) THEN none \cup {ins.bit} ELSE none \ {ins.bit})
      /\ none = (IF Unordered(Single) /\ Bit(Fcond, 3) = 1 THEN {"V"} ELSE {})
  BY <1>3
<1> HIDE DEF five
<1>5. Stop \/ (Tested(five, none)' /\ pc' = Word(pc + 4) /\ r' = r)
  BY <1>1, <1>4, CmpfTells
<1> QED
  BY <1>5 DEF five

(* The second comparison finds what its condition says.                      *)
LEMMA SecondTells ==
  ASSUME NEW f, Tested({5}, {}), Cmpf(f), ins.bit = 3, NEW found,
         Holds(f) <=> found.holds,
         found.kinds = (IF Unordered(f) /\ Bit(Fcond, 3) = 1 THEN {"V"} ELSE {})
  PROVE  \/ Stop
         \/ Tested(BitsOfFound(found.holds), found.kinds)' /\ pc' = Word(pc + 4) /\ r' = r
<1> DEFINE bits  == BitsOfFound(found.holds)
           kinds == found.kinds
<1>1. bits = (IF Holds(f) THEN {5} \cup {ins.bit} ELSE {5} \ {ins.bit})
  <2>1. found.holds => bits = {5} \cup {3}
    BY Zenon DEF BitsOfFound
  <2>2. ~ found.holds => bits = {5} \cup {}
    BY Zenon DEF BitsOfFound
  <2>3. {5} \cup {} = {5} \ {3}
    BY SMT
  <2> HIDE DEF bits
  <2> QED
    BY <2>1, <2>2, <2>3, Zenon
<1> HIDE DEF bits, kinds
<1>2. kinds = (IF Unordered(f) /\ Bit(Fcond, 3) = 1 THEN {"V"} ELSE {})
  BY DEF kinds
<1>3. Stop \/ (Tested(bits, kinds)' /\ pc' = Word(pc + 4) /\ r' = r)
  BY <1>1, <1>2, CmpfTells
<1> QED
  BY <1>3 DEF bits, kinds

(* What a step leaves of it where the program goes on, or the step is none.  *)
LEMMA TellsNext ==
  ASSUME NEW found, TellsSoFar(found)
  PROVE  /\ Stop => TellsSoFar(found)'
         /\ pc = 0 /\ Tested({5}, {})' /\ pc' = Word(pc + 4) /\ r' = r /\ start' = start => TellsSoFar(found)'
         /\ pc = 4 /\ Tested(BitsOfFound(found.holds), found.kinds)' /\ pc' = Word(pc + 4) /\ r' = r
              /\ start' = start => TellsSoFar(found)'
         /\ pc = 8 /\ Tested(BitsOfFound(found.holds), found.kinds)' /\ pc' = Word(pc + 4) /\ r' = r
              /\ start' = start /\ ("z" \in psw' <=> found.holds) => TellsSoFar(found)'
         /\ pc = 12 /\ Tested(BitsOfFound(found.holds), found.kinds)' /\ pc' = Word(pc + 4)
              /\ psw' = psw => TellsSoFar(found)'
<1> DEFINE bits == BitsOfFound(found.holds)
<1>1. Stop => TellsSoFar(found)'
  BY Zenon DEF Stop, TellsSoFar, Tested, Selected
<1>2. /\ pc = 0 => Word(pc + 4) = 4
      /\ pc = 4 => Word(pc + 4) = 8
      /\ pc = 8 => Word(pc + 4) = 12
      /\ pc = 12 => Word(pc + 4) = 16
  BY SmallWords, SMT
<1>3. TellsSoFar(found)' <=>
        /\ pc' \in {0, 4, 8, 12, 16}
        /\ pc' < 16 => r' = start'.r
        /\ pc' = 0 => Tested({}, {})'
        /\ pc' = 4 => Tested({5}, {})'
        /\ pc' >= 8 => Tested(bits, found.kinds)'
        /\ pc' >= 12 => ("z" \in psw' <=> found.holds)
  BY Zenon DEF TellsSoFar
<1>4. pc < 16 => r = start.r
  BY DEF TellsSoFar
<1>5. pc >= 12 => ("z" \in psw <=> found.holds)
  BY DEF TellsSoFar
<1>6. ASSUME pc = 0, Tested({5}, {})', pc' = 4, r' = r, start' = start PROVE TellsSoFar(found)'
  BY <1>3, <1>4, <1>6, SMT
<1> HIDE DEF bits
<1>7. ASSUME pc = 4, Tested(bits, found.kinds)', pc' = 8, r' = r, start' = start PROVE TellsSoFar(found)'
  BY <1>3, <1>4, <1>7, SMT
<1>8. ASSUME pc = 8, Tested(bits, found.kinds)', pc' = 12, r' = r, start' = start,
             "z" \in psw' <=> found.holds
      PROVE  TellsSoFar(found)'
  BY <1>3, <1>4, <1>8, SMT
<1>9. ASSUME pc = 12, Tested(bits, found.kinds)', pc' = 16, psw' = psw PROVE TellsSoFar(found)'
  <2>1. "z" \in psw' <=> found.holds
    <3>1. 12 >= 12
      BY SMT
    <3> QED
      BY <1>5, <1>9, <3>1
  <2> QED
    BY <1>3, <1>9, <2>1, SMT
<1> QED
  BY <1>1, <1>2, <1>6, <1>7, <1>8, <1>9, Zenon DEF bits

(* So every step of the comparison of singles keeps what is known of it.     *)
LEMMA SinglesTell ==
  ASSUME Started, NEW k \in 1 .. 16, code = CompareSingles(k), NEW found, found = FoundSingles(k),
         TellsSoFar(found), Next, running, pc \in DOMAIN code
  PROVE  /\ TellsSoFar(found)'
         /\ pc' = 16 => r'[4] = IF found.holds THEN start.r[1] ELSE start.r[2]
<1> DEFINE bits == BitsOfFound(found.holds)
           done == pc' = 16 => r'[4] = IF found.holds THEN start.r[1] ELSE start.r[2]
<1>1. pc \in {0, 4, 8, 12} /\ start' = start
  BY ComparingCode, StepKeeps DEF Same
<1>2. r = start.r
  <2>1. pc < 16
    BY <1>1, SMT
  <2> QED
    BY <2>1 DEF TellsSoFar
<1>3. pc = 12 => (Tested(bits, found.kinds))
  <2>1. 12 >= 8
    BY SMT
  <2> QED
    BY <2>1 DEF TellsSoFar
<1>4. start.r[1] \in Int /\ start.r[2] \in Int /\ {1, 2} \subseteq Regs
  BY StartIsInt, NamedRegs, SMT
<1>5. Stop => TellsSoFar(found)' /\ done
  <2>1. Stop => TellsSoFar(found)'
    BY TellsNext
  <2>2. Stop => pc' \in {0, 4, 8, 12}
    BY <1>1, Zenon DEF Stop
  <2>3. pc' \in {0, 4, 8, 12} => pc' # 16
    BY SMT
  <2> QED
    BY <2>1, <2>2, <2>3
<1>6. CASE pc = 0
  <2>1. ins.op = "cmpf_s" /\ ins.reg1 = 1 /\ ins.reg2 = 1 /\ ins.reg3 = 3 /\ ins.bit = 5
    BY <1>6, ComparingCode DEF ins
  <2>2. Cmpf_s /\ Tested({}, {})
    BY <1>6, <2>1, DispatchFpu DEF TellsSoFar
  <2>3. Stop \/ (Tested({5}, {})' /\ pc' = Word(pc + 4) /\ r' = r)
    BY <1>2, <2>1, <2>2, FirstTells
  <2>4. Word(pc + 4) # 16
    BY <1>6, SmallWords, SMT
  <2> QED
    BY <1>1, <1>5, <1>6, <2>3, <2>4, TellsNext
<1>7. CASE pc = 4
  <2>1. ins.op = "cmpf_s" /\ ins.reg1 = 1 /\ ins.reg2 = 2 /\ ins.reg3 = k - 1 /\ ins.bit = 3
    BY <1>7, ComparingCode DEF ins
  <2>2. Cmpf(Single) /\ Tested({5}, {}) /\ Fcond = k - 1
    BY <1>7, <2>1, DispatchFpu DEF TellsSoFar, Cmpf_s, Fcond
  <2>3. D1(Single) = start.r[1] /\ D2(Single) = start.r[2]
    BY <1>2, <2>1, DatumRead, Zenon DEF D1, D2
  <2>4. /\ Holds(Single) <=> found.holds
        /\ found.kinds = (IF Unordered(Single) /\ Bit(Fcond, 3) = 1 THEN {"V"} ELSE {})
    <3> DEFINE a == start.r[1]
               b == start.r[2]
               ordered == IsNumber(Single, a) /\ IsNumber(Single, b)
               says    == Says(Fconds[k], ordered, Below(Single, b, a), Below(Single, a, b))
               invalid == ~ ordered /\ Fconds[k] \in Signaling
    <3>1. /\ Holds(Single) <=> says
          /\ Unordered(Single) /\ Bit(Fcond, 3) = 1 <=> invalid
      BY <1>4, <2>2, <2>3, HoldsSays
    <3>2. found.holds = says /\ found.kinds = IF invalid THEN {"V"} ELSE {}
      BY DEF FoundSingles
    <3> HIDE DEF says, invalid
    <3> QED
      BY <3>1, <3>2, Zenon
  <2>5. Stop \/ (Tested(bits, found.kinds)' /\ pc' = Word(pc + 4) /\ r' = r)
    BY <2>1, <2>2, <2>4, SecondTells
  <2>6. Word(pc + 4) # 16
    BY <1>7, SmallWords, SMT
  <2> QED
    BY <1>1, <1>5, <1>7, <2>5, <2>6, TellsNext
<1>8. CASE pc = 8
  <2>1. ins.op = "trfsr" /\ ins.bit = 3
    BY <1>8, ComparingCode DEF ins
  <2>2. Trfsr
    BY <2>1, DispatchFpu
  <2>3. Tested(bits, found.kinds)
    <3>1. 8 >= 8
      BY SMT
    <3> QED
      BY <1>8, <3>1 DEF TellsSoFar
  <2>4. /\ Tested(bits, found.kinds)' /\ pc' = Word(pc + 4) /\ r' = r
        /\ "z" \in psw' <=> 3 \in bits
    BY <2>1, <2>2, <2>3, TrfsrCopies
  <2>5. 3 \in bits <=> found.holds
    BY SMT DEF BitsOfFound
  <2>6. Word(pc + 4) # 16
    BY <1>8, SmallWords, SMT
  <2> QED
    BY <1>1, <1>8, <2>4, <2>5, <2>6, TellsNext
<1>9. CASE pc = 12
  <2>1. ins.op = "cmovf_s" /\ ins.reg1 = 1 /\ ins.reg2 = 2 /\ ins.reg3 = 4 /\ ins.bit = 3
    BY <1>9, ComparingCode DEF ins
  <2>2. Moves(Single)
    BY <2>1, DispatchFpu DEF Cmovf_s
  <2>3. Tested(bits, found.kinds)
    BY <1>3, <1>9
  <2> DEFINE b == IF 3 \in bits THEN D1(Single) ELSE D2(Single)
  <2>4. Stop \/ (/\ Tested(bits, found.kinds)' /\ pc' = Word(pc + 4) /\ psw' = psw
                 /\ r' = Placed(Single, 4, b))
    BY <2>1, <2>2, <2>3, CmovfChooses
  <2>5. 3 \in bits <=> found.holds
    BY SMT DEF BitsOfFound
  <2>6. D1(Single) = start.r[1] /\ D2(Single) = start.r[2]
    BY <1>2, <2>1, DatumRead, Zenon DEF D1, D2
  <2>7. b = (IF found.holds THEN start.r[1] ELSE start.r[2]) /\ b \in Int
    BY <1>4, <2>5, <2>6
  <2>8. r' = Placed(Single, 4, b) => r'[4] = b
    <3> HIDE DEF b
    <3>1. r \in [Regs -> Words]
      BY <1>2 DEF Started
    <3> QED
      BY <2>7, <3>1, DatumWritten
  <2> HIDE DEF b
  <2> QED
    BY <1>1, <1>5, <1>9, <2>4, <2>7, <2>8, TellsNext
<1> QED
  BY <1>1, <1>6, <1>7, <1>8, <1>9

(* So every step of the comparison of doubles keeps what is known of it.     *)
LEMMA DoublesTell ==
  ASSUME Started, NEW k \in 1 .. 16, code = CompareDoubles(k), NEW found, found = FoundDoubles(k),
         TellsSoFar(found), Next, running, pc \in DOMAIN code
  PROVE  /\ TellsSoFar(found)'
         /\ pc' = 16 => Found(r', 5) = IF found.holds THEN Found(start.r, 1) ELSE Found(start.r, 3)
<1> DEFINE bits == BitsOfFound(found.holds)
           done == pc' = 16 => Found(r', 5) = IF found.holds THEN Found(start.r, 1) ELSE Found(start.r, 3)
<1>1. pc \in {0, 4, 8, 12} /\ start' = start
  BY ComparingCode, StepKeeps DEF Same
<1>2. r = start.r
  <2>1. pc < 16
    BY <1>1, SMT
  <2> QED
    BY <2>1 DEF TellsSoFar
<1>3. pc = 12 => (Tested(bits, found.kinds))
  <2>1. 12 >= 8
    BY SMT
  <2> QED
    BY <2>1 DEF TellsSoFar
<1>4. Found(start.r, 1) \in Int /\ Found(start.r, 3) \in Int
  <2>1. 4 \in Regs
    BY NamedRegs, SMT
  <2> QED
    BY <2>1, StartIsInt
<1>5. Stop => TellsSoFar(found)' /\ done
  <2>1. Stop => TellsSoFar(found)'
    BY TellsNext
  <2>2. Stop => pc' \in {0, 4, 8, 12}
    BY <1>1, Zenon DEF Stop
  <2>3. pc' \in {0, 4, 8, 12} => pc' # 16
    BY SMT
  <2> QED
    BY <2>1, <2>2, <2>3
<1>6. CASE pc = 0
  <2>1. ins.op = "cmpf_s" /\ ins.reg1 = 0 /\ ins.reg2 = 0 /\ ins.reg3 = 3 /\ ins.bit = 5
    BY <1>6, ComparingCode DEF ins
  <2>2. Cmpf_s /\ Tested({}, {})
    BY <1>6, <2>1, DispatchFpu DEF TellsSoFar
  <2>3. Stop \/ (Tested({5}, {})' /\ pc' = Word(pc + 4) /\ r' = r)
    BY <1>2, <2>1, <2>2, FirstTells
  <2>4. Word(pc + 4) # 16
    BY <1>6, SmallWords, SMT
  <2> QED
    BY <1>1, <1>5, <1>6, <2>3, <2>4, TellsNext
<1>7. CASE pc = 4
  <2>1. ins.op = "cmpf_d" /\ ins.reg1 = 1 /\ ins.reg2 = 3 /\ ins.reg3 = k - 1 /\ ins.bit = 3
    BY <1>7, ComparingCode DEF ins
  <2>2. Cmpf(Double) /\ Tested({5}, {}) /\ Fcond = k - 1
    BY <1>7, <2>1, DispatchFpu DEF TellsSoFar, Cmpf_d, Fcond
  <2>3. D1(Double) = Found(start.r, 1) /\ D2(Double) = Found(start.r, 3)
    BY <1>2, <2>1, DatumRead, Zenon DEF D1, D2
  <2>4. /\ Holds(Double) <=> found.holds
        /\ found.kinds = (IF Unordered(Double) /\ Bit(Fcond, 3) = 1 THEN {"V"} ELSE {})
    <3> DEFINE a == Found(start.r, 1)
               b == Found(start.r, 3)
               ordered == IsNumber(Double, a) /\ IsNumber(Double, b)
               says    == ordered /\ Says(Fconds[k], TRUE, Below(Double, b, a), Below(Double, a, b))
    <3>1. Double # Single /\ Double \in {Single, Double}
      BY SMT DEF Single, Double, Format
    <3>2. (Holds(Double) <=> says) /\ ~ Unordered(Double)
      BY <1>4, <2>2, <2>3, <3>1, HoldsSays
    <3>3. found.holds = says /\ found.kinds = {}
      BY DEF FoundDoubles
    <3> HIDE DEF says
    <3> QED
      BY <3>2, <3>3, Zenon
  <2>5. Stop \/ (Tested(bits, found.kinds)' /\ pc' = Word(pc + 4) /\ r' = r)
    BY <2>1, <2>2, <2>4, SecondTells
  <2>6. Word(pc + 4) # 16
    BY <1>7, SmallWords, SMT
  <2> QED
    BY <1>1, <1>5, <1>7, <2>5, <2>6, TellsNext
<1>8. CASE pc = 8
  <2>1. ins.op = "trfsr" /\ ins.bit = 3
    BY <1>8, ComparingCode DEF ins
  <2>2. Trfsr
    BY <2>1, DispatchFpu
  <2>3. Tested(bits, found.kinds)
    <3>1. 8 >= 8
      BY SMT
    <3> QED
      BY <1>8, <3>1 DEF TellsSoFar
  <2>4. /\ Tested(bits, found.kinds)' /\ pc' = Word(pc + 4) /\ r' = r
        /\ "z" \in psw' <=> 3 \in bits
    BY <2>1, <2>2, <2>3, TrfsrCopies
  <2>5. 3 \in bits <=> found.holds
    BY SMT DEF BitsOfFound
  <2>6. Word(pc + 4) # 16
    BY <1>8, SmallWords, SMT
  <2> QED
    BY <1>1, <1>8, <2>4, <2>5, <2>6, TellsNext
<1>9. CASE pc = 12
  <2>1. ins.op = "cmovf_d" /\ ins.reg1 = 1 /\ ins.reg2 = 3 /\ ins.reg3 = 5 /\ ins.bit = 3
    BY <1>9, ComparingCode DEF ins
  <2>2. Moves(Double)
    BY <2>1, DispatchFpu DEF Cmovf_d
  <2>3. Tested(bits, found.kinds)
    BY <1>3, <1>9
  <2> DEFINE b == IF 3 \in bits THEN D1(Double) ELSE D2(Double)
  <2>4. Stop \/ (/\ Tested(bits, found.kinds)' /\ pc' = Word(pc + 4) /\ psw' = psw
                 /\ r' = Placed(Double, 5, b) /\ 5 + 1 \in Regs)
    BY <2>1, <2>2, <2>3, CmovfChooses
  <2>5. 3 \in bits <=> found.holds
    BY SMT DEF BitsOfFound
  <2>6. D1(Double) = Found(start.r, 1) /\ D2(Double) = Found(start.r, 3)
    BY <1>2, <2>1, DatumRead, Zenon DEF D1, D2
  <2>7. b = (IF found.holds THEN Found(start.r, 1) ELSE Found(start.r, 3)) /\ b \in Int
    BY <1>4, <2>5, <2>6
  <2>8. r' = Placed(Double, 5, b) /\ 5 + 1 \in Regs => Found(r', 5) = b
    <3> HIDE DEF b
    <3>1. 5 + 1 = 6
      BY SMT
    <3>2. r \in [Regs -> Words]
      BY <1>2 DEF Started
    <3> QED
      BY <2>7, <3>1, <3>2, DatumWritten
  <2> HIDE DEF b
  <2> QED
    BY <1>1, <1>5, <1>9, <2>4, <2>7, <2>8, TellsNext
<1> QED
  BY <1>1, <1>6, <1>7, <1>8, <1>9

(* CMPF sets one condition bit to what its condition says of two data,       *)
(* whatever their formats' sizes: less, equal, or of singles unordered where *)
(* one is no number; TRFSR and CMOVF find it there, and only a signaling     *)
(* condition on NaN is invalid.  Of doubles it is shown for numbers          *)
(* (op_exec_fpu.c:790-860, 1993-2069).                                       *)
THEOREM FloatsCompareAsNumbers == Spec => []FloatsCompare
<1> DEFINE IInv == Started /\ \A k \in 1 .. 16 : SinglesSoFar(k) /\ DoublesSoFar(k)
<1>1. Init => IInv
  <2> SUFFICES ASSUME Init PROVE IInv
    OBVIOUS
  <2>1. Started /\ AtStart
    BY StartsAtZero
  <2>2. Tested({}, {})
    BY ResetIsBlank, Zenon DEF Init
  <2>3. \A found : TellsSoFar(found)
    BY <2>1, <2>2, SMT DEF TellsSoFar, AtStart
  <2>4. pc # 16
    BY <2>1, SMT DEF AtStart
  <2> QED
    BY <2>1, <2>3, <2>4 DEF SinglesSoFar, DoublesSoFar
<1>2. IInv /\ [Next]_vars => IInv'
  <2> SUFFICES ASSUME IInv, [Next]_vars PROVE IInv'
    OBVIOUS
  <2>1. Started' /\ code' = code /\ start' = start
    BY StartedStays, Zenon DEF Same
  <2>2. UNCHANGED vars \/ (Next /\ running /\ pc \in DOMAIN code)
    BY EndedStays
  <2>3. ASSUME NEW k \in 1 .. 16 PROVE SinglesSoFar(k)'
    <3>1. SinglesSoFar(k)
      BY <2>3
    <3>2. FoundSingles(k)' = FoundSingles(k)
      BY <2>1, Zenon DEF FoundSingles
    <3>3. UNCHANGED vars => SinglesSoFar(k)'
      BY <3>1, <3>2, Zenon DEF vars, SinglesSoFar, TellsSoFar, Tested, Selected
    <3>4. PICK found : found = FoundSingles(k)
      OBVIOUS
    <3>5. Next /\ running /\ pc \in DOMAIN code /\ code = CompareSingles(k) =>
            TellsSoFar(found)' /\ (pc' = 16 => r'[4] = IF found.holds THEN start.r[1] ELSE start.r[2])
      BY <3>1, <3>4, SinglesTell DEF SinglesSoFar
    <3> QED
      BY <2>1, <2>2, <3>2, <3>3, <3>4, <3>5, Zenon DEF SinglesSoFar
  <2>4. ASSUME NEW k \in 1 .. 16 PROVE DoublesSoFar(k)'
    <3>1. DoublesSoFar(k)
      BY <2>4
    <3>2. FoundDoubles(k)' = FoundDoubles(k)
      BY <2>1, Zenon DEF FoundDoubles
    <3>3. UNCHANGED vars => DoublesSoFar(k)'
      BY <3>1, <3>2, Zenon DEF vars, DoublesSoFar, TellsSoFar, Tested, Selected
    <3>4. PICK found : found = FoundDoubles(k)
      OBVIOUS
    <3>5. Next /\ running /\ pc \in DOMAIN code /\ code = CompareDoubles(k) =>
            /\ TellsSoFar(found)'
            /\ pc' = 16 => Found(r', 5) = IF found.holds THEN Found(start.r, 1) ELSE Found(start.r, 3)
      BY <3>1, <3>4, DoublesTell DEF DoublesSoFar
    <3> QED
      BY <2>1, <2>2, <3>2, <3>3, <3>4, <3>5, Zenon DEF DoublesSoFar
  <2> QED
    BY <2>1, <2>3, <2>4
<1>3. IInv => FloatsCompare
  <2> SUFFICES ASSUME IInv, NEW k \in DOMAIN Fconds, pc = 16
               PROVE  /\ Ran(CompareSingles(k)) => SinglesCompare(k)
                      /\ Ran(CompareDoubles(k)) => DoublesCompare(k)
    BY Zenon DEF FloatsCompare
  <2>1. k \in 1 .. 16
    BY SMT DEF Fconds
  <2>2. ASSUME NEW found, TellsSoFar(found), NEW holds, found.holds = holds,
               NEW V, found.kinds = IF V THEN {"V"} ELSE {}
        PROVE  Tells(k, holds, V)
    <3>1. Tested(BitsOfFound(holds), found.kinds) /\ ("z" \in psw <=> holds)
      <4>1. 16 >= 8 /\ 16 >= 12
        BY SMT
      <4> QED
        BY <2>2, <4>1 DEF TellsSoFar
    <3>2. Selected.FPSR.cc = BitsOfFound(holds) /\ Selected.FPCC.cc = BitsOfFound(holds)
          /\ Selected.FPST.xp = found.kinds
      BY <3>1 DEF Tested, Shown
    <3>3. Raised("V") <=> V
      BY <2>2, <3>2, Zenon DEF Raised
    <3> QED
      BY <3>1, <3>2, <3>3, Zenon DEF Tells, BitsOfFound
  <2>3. ASSUME Ran(CompareSingles(k)) PROVE SinglesCompare(k)
    <3> DEFINE a == start.r[1]
               b == start.r[2]
               ordered == IsNumber(Single, a) /\ IsNumber(Single, b)
               holds   == Says(Fconds[k], ordered, Below(Single, b, a), Below(Single, a, b))
               V       == ~ ordered /\ Fconds[k] \in Signaling
    <3>1. PICK found : found = FoundSingles(k)
      OBVIOUS
    <3>2. TellsSoFar(found) /\ r[4] = IF found.holds THEN a ELSE b
      <4>1. code = CompareSingles(k)
        BY <2>3 DEF Ran
      <4> QED
        BY <2>1, <3>1, <4>1 DEF SinglesSoFar
    <3>3. found.holds = holds /\ found.kinds = IF V THEN {"V"} ELSE {}
      BY <3>1 DEF FoundSingles
    <3> HIDE DEF holds, V
    <3>4. Tells(k, holds, V)
      BY <2>2, <3>2, <3>3
    <3> QED
      BY <3>2, <3>3, <3>4, Zenon DEF SinglesCompare, holds, V
  <2>4. ASSUME Ran(CompareDoubles(k)) PROVE DoublesCompare(k)
    <3> DEFINE a == Found(start.r, 1)
               b == Found(start.r, 3)
               holds == Says(Fconds[k], TRUE, Below(Double, b, a), Below(Double, a, b))
               told  == (IsNumber(Double, a) /\ IsNumber(Double, b)) /\ holds
    <3> SUFFICES ASSUME IsNumber(Double, a) /\ IsNumber(Double, b)
                 PROVE  Tells(k, holds, FALSE) /\ Found(r, 5) = IF holds THEN a ELSE b
      BY Zenon DEF DoublesCompare
    <3>1. PICK found : found = FoundDoubles(k)
      OBVIOUS
    <3>2. TellsSoFar(found) /\ Found(r, 5) = IF found.holds THEN a ELSE b
      <4>1. code = CompareDoubles(k)
        BY <2>4 DEF Ran
      <4> QED
        BY <2>1, <3>1, <4>1 DEF DoublesSoFar
    <3>3. found.holds = told /\ found.kinds = {}
      BY <3>1 DEF FoundDoubles
    <3>4. told <=> holds
      OBVIOUS
    <3> HIDE DEF holds, told
    <3>5. Tells(k, told, FALSE) /\ Found(r, 5) = IF told THEN a ELSE b
      BY <2>2, <3>2, <3>3
    <3>6. Tells(k, holds, FALSE)
      BY <3>4, <3>5, Zenon DEF Tells
    <3> QED
      BY <3>4, <3>5, <3>6, Zenon
  <2> QED
    BY <2>3, <2>4
<1> QED
  BY <1>1, <1>2, <1>3, PTL DEF Spec
=============================================================================
