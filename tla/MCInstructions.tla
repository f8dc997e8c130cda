--------------------------- MODULE MCInstructions ---------------------------
(***************************************************************************)
(* Small programs for Instructions, run from many values of their inputs,  *)
(* and what they compute.                                                  *)
(***************************************************************************)
EXTENDS MCFloats

(* The programs name registers up to 5 and addresses up to 16, jump over one *)
(* instruction, and count addresses from EP and r1 with displacements up to  *)
(* 31 and down to -32.                                                       *)
ASSUME ProgramsAssumption ==
  /\ RegNum > 5 /\ Modulus > 16 /\ CondBits > 3
  /\ Width >= 8 /\ EpBits > 4 /\ LongBits > 5
  /\ SP \notin {1, EP}

(* Bytes at both ends of the addresses; some may not be written.             *)
Memory        == [a \in 0 .. 6 \cup 252 .. 255 |-> (3 * a + 1) % 4]
ReadOnlyBytes == {5}

(* The instruction at which the program starts; a listing has none.          *)
First == IF 0 \in DOMAIN code THEN code[0] ELSE [op |-> "none"]

(* Every instruction by itself, with and without distinct registers.         *)
Ops == SixBytes \cup FourBytes \cup
  {"add_1", "add_2", "sub", "subr", "cmp_1", "cmp_2", "mov_1", "mov_2", "mulh_1", "mulh_2",
   "divh_1", "satadd_1", "satadd_2", "satsub_1", "satsubr_1", "or", "and", "xor", "not", "tst",
   "zxb", "zxh", "sxb", "sxh", "shl_2", "shr_2", "sar_2", "bcond", "jmp_1"}

Pairs   == {"mac", "macu"}
Integer == Ops \ (FloatOps \cup Pairs \cup {"ldsr", "ldsr_bsel", "prepare", "prepare_sp", "prepare_h", "prepare_hi"})

Alone ==
  {[Program(0 :> i, {1, 2}, Edges) EXCEPT !.mem = Memory] :
     i \in {WithImm(op, MinusOne, 2) : op \in Integer}
           \cup {On3(op, 1, 2, 2) : op \in Integer}
           \cup {On3(op, 1, 2, d) : op \in Pairs, d \in {2, 3}}
           \cup {On3(op, SP, 2, 3) : op \in {"stb", "sth", "st_w_14"}}}

(* Nothing after an instruction without a handler is executed.               *)
Rejected ==
  {Program(0 :> Ins(op) @@ 2 :> On("mov_1", 2, 1), {1, 2}, {0, 1}) :
     op \in WithoutHandler \cup {"undecoded"}}

----------------------------------------------------------------------------
(* CMP r1, r2, and SETF, CMOV or Bcond on what the comparison found.         *)
Compared == {"V", "NV", "L", "NL", "E", "NE", "NH", "H", "R", "LT", "GE", "LE", "GT"}

Comparison(a, b) ==
  [V  |-> Overflows(Signed(a) - Signed(b)),  NV |-> ~ Overflows(Signed(a) - Signed(b)),
   L  |-> a < b,   NL |-> a >= b,  NH |-> a <= b,  H |-> a > b,
   E  |-> a = b,   NE |-> a # b,   R  |-> TRUE,
   LT |-> Signed(a) < Signed(b),   GE |-> Signed(a) >= Signed(b),
   LE |-> Signed(a) <= Signed(b),  GT |-> Signed(a) > Signed(b)]

SetsIf(cond)     == 0 :> Ins("cmp_1") @@ 2 :> If(WithImm("setf", 0, 3), cond)
SelectsIf(cond)  == 0 :> Ins("cmp_1") @@ 2 :> If(Ins("cmov_11"), cond)
BranchesIf(cond) == 0 :> Ins("cmp_1") @@ 2 :> If(WithImm("bcond", 4, 0), cond)
                    @@ 4 :> WithImm("mov_2", 1, 3)

Comparing == {Program(c, {1, 2}, Samples) :
                c \in UNION {{SetsIf(k), SelectsIf(k), BranchesIf(k)} : k \in Compared}}

(* After CMP every condition means the comparison of the two words as        *)
(* unsigned or as signed integers, also where their difference overflows,    *)
(* and SETF, CMOV and Bcond agree on it (op_exec_arithm.c, op_exec_branch.c).*)
ComparesAsIntegers ==
  First.op = "cmp_1" => \A k \in Compared :
    LET holds == Comparison(start.r[2], start.r[1])[k]
    IN /\ Ran(SetsIf(k)) => (r[3] = 1) = holds
       /\ Ran(SelectsIf(k)) => r[3] = IF holds THEN start.r[1] ELSE start.r[2]
       /\ Ran(BranchesIf(k)) => (r[3] = 0) = holds

----------------------------------------------------------------------------
(* Two words as one number.                                                  *)
Wide(low, high)    == high * Modulus + low
WideWord(n)        == n % (Modulus * Modulus)
WideSigned(n)      == IF n < SignBit * Modulus THEN n ELSE n - Modulus * Modulus
WideOverflows(n)   == n >= SignBit * Modulus \/ n < - (SignBit * Modulus)

WideAdd    == 0 :> On("add_1", 1, 3) @@ 2 :> If(On3("adf", 2, 4, 4), "L")
WideSub    == 0 :> On("sub", 1, 3) @@ 2 :> If(On3("sbf", 2, 4, 4), "L")
WideDouble == 0 :> WithImm("shl_2", 1, 1) @@ 2 :> If(WithImm("sasf", 0, 2), "L")
WideMacu   == 0 :> [On3("macu", 1, 2, 2) EXCEPT !.reg4 = 4]

WidePrograms == {Program(WideAdd, 1 .. 4, Edges), Program(WideSub, 1 .. 4, Edges),
                 Program(WideDouble, {1, 2}, Samples), Program(WideMacu, 1 .. 3, Edges)}

(* The carry and the borrow that one word leaves are what ADF, SBF and SASF  *)
(* need to continue with the next: sums, differences and doubles of two      *)
(* words, with the flags of the whole, and the sums of MACU, are exact.      *)
WideArithmetic ==
  LET a == Wide(start.r[1], start.r[2])
      b == Wide(start.r[3], start.r[4])
  IN /\ Ran(WideAdd) =>
          /\ Wide(r[3], r[4]) = WideWord(b + a)
          /\ "cy" \in psw <=> b + a # WideWord(b + a)
          /\ "ov" \in psw <=> WideOverflows(WideSigned(b) + WideSigned(a))
     /\ Ran(WideSub) =>
          /\ Wide(r[3], r[4]) = WideWord(b - a)
          /\ "cy" \in psw <=> b < a
          /\ "ov" \in psw <=> WideOverflows(WideSigned(b) - WideSigned(a))
     /\ Ran(WideDouble) => Wide(r[1], r[2]) = WideWord(2 * a)
     /\ Ran(WideMacu) =>
          Wide(r[4], r[5]) = WideWord(start.r[1] * start.r[2] + Wide(start.r[2], start.r[3]))

----------------------------------------------------------------------------
(* Division.                                                                 *)
WholeDivisor == {"div", "divq", "divu", "divqu"}
HalfDivisor  == {"divh_1", "divh_11", "divhu"}
Unsigned     == {"divu", "divqu", "divhu"}

Dividends    == Edges \cup {7, 100, SignBit + 1, 170}

Dividing ==
  {[Program(0 :> Ins(op), {}, {}) EXCEPT
      !.inputs = {1 :> d @@ 2 :> n : d \in Words, n \in Dividends}] :
    op \in WholeDivisor \cup HalfDivisor}

Value(op, w)  == IF op \in Unsigned THEN w ELSE Signed(w)
Divisor(op)   == LET w == start.r[1]
                 IN IF op \in WholeDivisor THEN Value(op, w)
                    ELSE IF op \in Unsigned THEN Low(Half, w) ELSE Extend(Half, w)
TooLarge(op)  == op \notin Unsigned /\ start.r[2] = SignBit /\ Divisor(op) = -1

(* The remainder is smaller than the divisor and has the dividend's sign.    *)
Euclidean(n, d, q) ==
  LET rest == n - q * d
  IN Abs(rest) < Abs(d) /\ (rest # 0 => (rest < 0) = (n < 0))

(* A division leaves the one quotient and remainder that fit together, or    *)
(* sets OV and leaves the operands, or stops the host: and that only where   *)
(* the half that divides is zero, or the quotient is 2^31.  DIV reports that *)
(* quotient, DIVH does not (op_exec_arithm.c:320-362, 718-1017).             *)
DividesOrReports ==
  \A op \in WholeDivisor \cup HalfDivisor : First.op = op /\ code = 0 :> Ins(op) =>
    LET n == Value(op, start.r[2])
        d == Divisor(op)
        q == Value(op, r[2])
    IN /\ ~ running => d = 0 \/ TooLarge(op)
       /\ Ran(code) /\ start.r[1] = 0 => r = start.r /\ "ov" \in psw
       /\ Ran(code) /\ TooLarge(op) => ("ov" \in psw <=> op \in WholeDivisor)
       /\ Ran(code) /\ d # 0 /\ ~ TooLarge(op) =>
            /\ "ov" \notin psw
            /\ Euclidean(n, d, q)
            /\ op # "divh_1" => r[3] = Word(n - q * d)
            /\ "s" \in psw <=> Signed(r[2]) < 0

----------------------------------------------------------------------------
(* Saturation.                                                               *)
Clamped(n) == IF n > SignBit - 1 THEN SignBit - 1 ELSE IF n < - SignBit THEN - SignBit ELSE n

AddThenSubtract    == 0 :> Ins("satadd_1") @@ 2 :> On("satsub_1", 3, 2)
SubtractedFrom     == 0 :> Ins("satsubr_1")
SubtractsImmediate == 0 :> WithImm("satsubi", 2, 2)

Saturating == {Program(AddThenSubtract, 1 .. 3, Samples),
               Program(SubtractedFrom, {1, 2}, Samples),
               Program(SubtractsImmediate, {1}, Words)}

(* A saturated sum or difference is the word nearest to the exact one; SAT   *)
(* tells of the first that did not fit when the last one did (op_satadd).    *)
SaturatesAtTheEnds ==
  LET a == Signed(start.r[1])  b == Signed(start.r[2])  c == Signed(start.r[3])
  IN /\ Ran(AddThenSubtract) =>
          /\ Signed(r[2]) = Clamped(Clamped(b + a) - c)
          /\ "sat" \in psw <=> Overflows(b + a) \/ Overflows(Clamped(b + a) - c)
     /\ Ran(SubtractedFrom) => Signed(r[2]) = Clamped(a - b)
     /\ Ran(SubtractsImmediate) => Signed(r[2]) = Clamped(a - Extend(Half, 2))

----------------------------------------------------------------------------
(* Shifts and searches.                                                      *)
Counts == 0 .. Width - 1

ShiftThere(back, k) == 0 :> WithImm("shl_2", k, 1) @@ 2 :> WithImm(back, k, 1)
Normalise ==
  0 :> On3("sch1l", 0, 1, 2) @@ 4 :> WithImm("add_2", MinusOne, 2) @@ 6 :> On("shl_9", 2, 1)

Shifting ==
  {Program(ShiftThere(back, k), {1}, Words) : back \in {"shr_2", "sar_2"}, k \in Counts}
  \cup {Program(Normalise, {1}, Words)}

(* What SHL moves to the left SAR brings back as the extension of the bits   *)
(* that are left, and SHR as those bits.  SCH1L counts one more than SHL     *)
(* must shift to bring the highest bit that is set to the top.               *)
ShiftsCompose ==
  /\ First.op = "shl_2" => \A k \in Counts :
       /\ Ran(ShiftThere("sar_2", k)) => Signed(r[1]) = Extend(Width - k, start.r[1])
       /\ Ran(ShiftThere("shr_2", k)) => r[1] = Low(Width - k, start.r[1])
  /\ Ran(Normalise) /\ start.r[1] # 0 =>
       /\ "s" \in psw
       /\ r[1] = start.r[1] * 2 ^ r[2]

(* What does not fit a word leaves it as the instruction says, at its ends   *)
(* or bit by bit (op_exec_sat.c, op_exec_logic.c).                           *)
FitsTheWord == SaturatesAtTheEnds /\ ShiftsCompose

----------------------------------------------------------------------------
(* Loops and calls.                                                          *)
Multiply == 0 :> On("add_1", 2, 3) @@ 2 :> WithImm("add_2", MinusOne, 1)
            @@ 4 :> If(WithImm("bcond", 2 ^ CondBits - 4, 0), "NE")

Call  == 0 :> WithImm("jr_5", 6, 5) @@ 4 :> WithImm("jr_5", 6, 0)
         @@ 6 :> On("add_1", 1, 1) @@ 8 :> On("jmp_1", 5, 0)
Call6 == 0 :> [WithImm("jarl_6", 8, 0) EXCEPT !.reg1 = 5] @@ 6 :> WithImm("jr_5", 6, 0)
         @@ 8 :> On("add_1", 1, 1) @@ 10 :> On("jmp_1", 5, 0)

Looping == {Program(Multiply, {1, 2}, {0, 3, SignBit + 1}),
            Program(Call, {1}, Samples), Program(Call6, {1}, Samples)}

(* A subroutine that saves r1, r3 and the link in r4 on the stack, with a    *)
(* frame of one word below, uses r1 and r3 and returns through the frame.    *)
Framed == 0 :> WithImm("jr_5", 6, 4) @@ 4 :> WithImm("jr_5", 18, 0)
          @@ 6 :> [WithImm("prepare", 1, 0) EXCEPT !.list = {1, 3, 4}]
          @@ 10 :> On("add_1", 1, 2) @@ 12 :> On("mov_1", 2, 1) @@ 14 :> On("mov_1", 2, 3)
          @@ 16 :> On("mov_1", 2, 4)
          @@ 18 :> [WithImm("dispose", 1, 0) EXCEPT !.list = {1, 3, 4}, !.reg1 = 4]

Stack        == [a \in 0 .. 23 |-> a % 4]
FramePrograms ==
  {[code |-> Framed, flags |-> {{}}, mem |-> Stack,
    inputs |-> {1 :> v @@ 2 :> 7 @@ 3 :> w @@ SP :> sp : v, w \in {1, 200}, sp \in {4, 12, 16, 24}}]}

Ended == CASE code = Multiply -> pc = 6 /\ r[1] = 0 /\ r[3] = Word(start.r[1] * start.r[2])
           [] code = Call     -> pc = 10 /\ r[1] = Word(2 * start.r[1]) /\ r[5] = 4
           [] code = Call6    -> pc = 12 /\ r[1] = Word(2 * start.r[1]) /\ r[5] = 6
           [] code = Framed   ->
                IF start.r[SP] = 4 THEN ~ running /\ pc = 6
                ELSE /\ pc = 22
                     /\ r = [start.r EXCEPT ![2] = Word(start.r[1] + 7), ![4] = 4]
                     /\ start.r[SP] = 12 => mem[5] # start.mem[5]
           [] OTHER           -> TRUE

(* A loop that counts down to zero ends, from zero after a whole turn of the *)
(* counter, and has run once for each count (Bcond jumps back to its start). *)
(* A subroutine returns to the instruction after the call, with either link, *)
(* and has run once; one that PREPAREs a frame gives SP and the registers it *)
(* saved back.  A frame is refused for what cannot be written above it, not  *)
(* for what it overwrites below (op_exec_spec.c:567): from 12 it writes the  *)
(* read-only byte 5, from 4 it cannot.                                       *)
ProgramsEnd == (code \in {Multiply, Call, Call6, Framed}) ~> Ended

----------------------------------------------------------------------------
(* Loads and stores: the bytes a form moves, the unit of its displacement,   *)
(* and a displacement for it.                                                *)
Form(op, bytes, unit, disp) == [op |-> op, bytes |-> bytes, unit |-> unit, disp |-> disp]

StoreForms ==
  {Form("sstb", 1, 1, 31), Form("ssth", 2, 2, 31), Form("sstw", 4, 4, 15),
   Form("stb", 1, 1, -3), Form("sth", 2, 2, -4), Form("stw", 4, 2, 3),
   Form("st_b_14", 1, 1, -9), Form("st_h_14", 2, 1, 31), Form("st_w_14", 4, 1, -32)}

SignedForms ==
  {Form("sldb", 1, 1, 31), Form("sldh", 2, 2, 31), Form("ldb", 1, 1, -3), Form("ldh", 2, 2, -4),
   Form("ld_b_14", 1, 1, -9), Form("ld_h_14", 2, 1, 31)}
LoadForms == SignedForms \cup
  {Form("sldbu", 1, 1, 3), Form("sldhu", 2, 2, 3), Form("sldw", 4, 4, 15),
   Form("ldbu", 1, 1, -3), Form("ldhu", 2, 2, -4), Form("ldw", 4, 2, 3),
   Form("ld_bu_14", 1, 1, -9), Form("ld_hu_14", 2, 1, 31), Form("ld_w_14", 4, 1, -32)}

ShortForms == {"sstb", "ssth", "sstw", "sldb", "sldh", "sldw", "sldbu", "sldhu"}

(* Stores count from r1, loads from r2, short forms from EP.                 *)
Base(f, otherwise)    == IF f.op \in ShortForms THEN EP ELSE otherwise
Reach(f, otherwise, a) == Base(f, otherwise) :> Word(a - f.disp * f.unit)

Uses(f, base, datum) == [On3(f.op, base, datum, datum) EXCEPT !.imm = f.disp]

StoreThenLoad(f, g) == 0 :> Uses(f, 1, 3) @@ Size(f.op) :> Uses(g, 2, 4)

Accessing ==
  {[code |-> StoreThenLoad(f, g), flags |-> {{}}, mem |-> Memory,
    inputs |-> {Reach(f, 1, a) @@ Reach(g, 2, Word(a + k)) @@ 3 :> w :
                  a \in {0, 2, 3, 252}, k \in -1 .. 2, w \in {39, 156, 210}}] :
    f \in StoreForms, g \in LoadForms}

(* Whatever the forms, widths and alignments of a store and of a load after  *)
(* it, the load finds the bytes the store wrote and in the others what was   *)
(* there, extended as its name says; and only an access to bytes that are    *)
(* not there or not to be written is refused (op_exec_load.c,                *)
(* op_exec_store.c).                                                         *)
LoadsSeeStores ==
  \A f \in StoreForms : First.op = f.op => \A g \in LoadForms : code = StoreThenLoad(f, g) =>
    LET a == Word(start.r[Base(f, 1)] + f.disp * f.unit)
        b == Word(start.r[Base(g, 2)] + g.disp * g.unit)
        then(c) == IF c \in Cells(a, f.bytes) THEN ByteOf(start.r[3], c - a) ELSE start.mem[c]
        word == OfBytes([k \in 0 .. g.bytes - 1 |-> then(b + k)], g.bytes)
    IN /\ Ran(code) =>
            /\ r[4] = IF g \in SignedForms THEN Word(Extend(Byte * g.bytes, word)) ELSE word
            /\ mem = [c \in DOMAIN start.mem |-> then(c)]
       /\ ~ running => ~ Writable(a, f.bytes) \/ ~ Readable(b, g.bytes)

----------------------------------------------------------------------------
(* Bits of memory.  An operation of format 8 on a bit three bytes below r1,  *)
(* then one of format 9 on the bit r2 of the byte at r3.                     *)
BitOps8 == {"tst1_8", "set1_8", "clr1_8", "not1_8"}
BitOps9 == {"tst1_9", "set1_9", "clr1_9", "not1_9"}

TwoBitOps(op, k, op2) ==
  0 :> [WithImm(op, -3, 0) EXCEPT !.bit = k] @@ 4 :> On(op2, 3, 2)

BitPrograms ==
  {[code |-> TwoBitOps(op, k, op2), flags |-> {{}, {"z"}}, mem |-> Memory,
    inputs |-> {1 :> Word(a + 3) @@ 2 :> j @@ 3 :> b :
                  j \in {0, 1, Modulus - 1}, a \in {0, 5, 254}, b \in {0, 5, 254}}] :
    op \in BitOps8, k \in 0 .. Byte - 1, op2 \in BitOps9}

(* Two CAXI on the lock at r1, from r2 to r3 and then to r4; of the words of *)
(* memory only the lower halves are used.                                    *)
TwoCaxi == 0 :> On3("caxi", 1, 2, 3) @@ 4 :> On3("caxi", 1, 2, 4)

LowHalves == [c \in DOMAIN Memory |-> IF c % 4 < 2 THEN Memory[c] ELSE 0]

CaxiPrograms ==
  {[code |-> TwoCaxi, flags |-> {{}}, mem |-> LowHalves,
    inputs |-> {1 :> a @@ 2 :> w @@ 3 :> v @@ 4 :> 7 :
                  a \in {0, 2, 4, 255}, w \in {0, 1, 2, 7, 243}, v \in {0, 1, 2, 6, 131}}]}

AfterBitOp(op, bits, k) ==
  CASE op \in {"tst1_8", "tst1_9"} -> bits
    [] op \in {"set1_8", "set1_9"} -> bits \cup {k}
    [] op \in {"clr1_8", "clr1_9"} -> bits \ {k}
    [] op \in {"not1_8", "not1_9"} -> IF k \in bits THEN bits \ {k} ELSE bits \cup {k}

(* The bits that are set in the bytes of memory.                             *)
BitsOf(m) == [c \in DOMAIN m |-> {i \in 0 .. Byte - 1 : Bit(m[c], i) = 1}]

HasBits(m, bits) == BitsOf(m) = bits /\ Range(m) \subseteq 0 .. 2 ^ Byte - 1

MayDo(op, c) == IF op \in {"tst1_8", "tst1_9"} THEN Readable(c, 1) ELSE Writable(c, 1)

(* A bit of memory can be a lock: of two operations the second tells by Z    *)
(* the bit as the first left it, and neither changes any other.  Only what   *)
(* would write is refused where nothing may be written (op_exec_bit.c).  So  *)
(* can a word: of two CAXI each tells by Z whether it exchanged the word,    *)
(* which is when it was r2, and returns what was there (op_exec_spec.c:      *)
(* 747-809).  The comment there exchanges words and the code their lower     *)
(* halves: only words of which they say the same are spoken of, those that   *)
(* fit in the lower half without its sign.                                   *)
CaxiExchanges ==
  code = TwoCaxi =>
    LET a == start.r[1] - (start.r[1] % 4)
        swapped(token, new) == IF token = start.r[2] THEN new ELSE token
        old  == start.mem[a + 1] * 2 ^ Byte + start.mem[a]
        then == swapped(old, start.r[3])
        last == swapped(then, start.r[4])
        fits == /\ Cells(a, 4) \subseteq DOMAIN start.mem
                /\ start.mem[a + 2] = 0 /\ start.mem[a + 3] = 0
                /\ {old, start.r[2], start.r[3], start.r[4]} \subseteq 0 .. 2 ^ (Half - 1) - 1
    IN /\ Ran(code) /\ fits =>
            /\ r[3] = old /\ r[4] = then
            /\ mem = [start.mem EXCEPT ![a] = Low(Byte, last), ![a + 1] = last \div 2 ^ Byte]
            /\ "z" \in psw <=> then = start.r[2]
       /\ ~ running => ~ Writable(a, 4) /\ mem = start.mem

BitsAreLocks ==
  /\ CaxiExchanges
  /\ First.op \in BitOps8 => \A k \in 0 .. Byte - 1, op2 \in BitOps9 : code = TwoBitOps(First.op, k, op2) =>
       LET a == Word(start.r[1] - 3)
           b == start.r[3]  j == start.r[2] % Byte
           first == [BitsOf(start.mem) EXCEPT ![a] = AfterBitOp(First.op, @, k)]
           last  == [first EXCEPT ![b] = AfterBitOp(op2, @, j)]
       IN /\ Ran(code) => HasBits(mem, last) /\ ("z" \in psw <=> j \notin first[b])
          /\ ~ running => \/ ~ MayDo(First.op, a) /\ mem = start.mem
                          \/ ~ MayDo(op2, b) /\ HasBits(mem, first)

----------------------------------------------------------------------------
(* Frames and tables by themselves, where the bus serves all of them, a part *)
(* or nothing, and the banks of floating point.                              *)
Framing ==
  {[code |-> 0 :> [i EXCEPT !.list = list, !.ep = MinusOne], flags |-> {{}}, mem |-> Memory,
    inputs |-> [{1, SP} -> {0, 3, 7, 8, 252}]] :
     list \in {{}, {1}, {1, 2, 3}},
     i \in {WithImm(op, 1, 2) : op \in {"prepare", "prepare_sp", "prepare_h", "prepare_hi", "prepare_w",
                                      "dispose"}}
           \cup {[WithImm("dispose", 1, 2) EXCEPT !.reg1 = 0], Ins("switch")}}

Banking ==
  {OnSingles(0 :> i @@ 4 :> Writes("FPCC", [cc |-> {1}]) @@ 8 :> ToBank(255, 1), {0}) :
     i \in {ToBank(g, b) : g \in {0, 16, 17, 32, 255, 1}, b \in {0, 1, 16, 17, 255}}}

(* Listings: machine code to be decoded, which starts past the first address *)
(* and is not executed.  Of codes 60 to 62 bits 19-16 tell apart what the    *)
(* first half-word does not; of the extended codes, all with 63 as base,     *)
(* bits 26-21 and 20-17, and of floating point with one operand reg1 too.    *)
D == INSTANCE Decoder

Base1(opcode, reg1, reg2)   == reg2 * 2 ^ 11 + opcode * 2 ^ 5 + reg1
Extended2(reg3, code2, sub) == reg3 * 2 ^ 11 + code2 * 2 ^ 5 + sub * 2

MachineCode ==
  {<<Base1(c, reg1, reg2), second, 0>> :
     c \in 0 .. 59, reg1 \in {0, 1, 16} \cup 29 .. 31, reg2 \in {0, 1, 16}, second \in {0, 43691}}
  \cup {<<Base1(c, reg1, reg2), 4096 + second, 9>> :
          c \in 60 .. 63, reg1 \in {0, 1}, reg2 \in {0, 1, 8, 16, 24}, second \in 0 .. 15}
  \cup {<<Base1(63, reg1, reg2), Extended2(reg3, c, sub), 0>> :
          c \in 0 .. 63, sub \in 0 .. 15, reg1 \in {0, 16}, reg2 \in {0, 16, 26}, reg3 \in {0, 1}}
  \cup {<<Base1(63, reg1, 1), Extended2(1, 34, sub), 0>> : reg1 \in 0 .. 31, sub \in 0 .. 15}

Listings == {Program(2 :> (Ins("undecoded") @@ [halves |-> h]), {}, {}) : h \in MachineCode}

Flipped(h, k) ==
  [h EXCEPT ![k \div 16 + 1] = IF D!At(h, k) = 1 THEN @ - 2 ^ (k % 16) ELSE @ + 2 ^ (k % 16)]

(* Machine code has one reading: no two rows of its parser disagree, so that *)
(* the order in which op_parse_private.c tries them does not matter; every   *)
(* bit of the bytes that OpFormatSize counts tells it from another           *)
(* instruction or is kept in a field; and of the half-words after them,      *)
(* which op_parse has at hand too, none is read.                             *)
OneReading ==
  0 \in DOMAIN code \/
    LET h       == code[2].halves
        rows    == D!Rows(h)
        reading == D!Decode(h)
    IN /\ \A i, j \in DOMAIN rows : rows[i].holds /\ rows[j].holds =>
            rows[i].op = rows[j].op /\ rows[i].format = rows[j].format
       /\ reading.op # "undecoded" => \A k \in 0 .. 47 :
            D!Decode(Flipped(h, k)) # reading <=> k < 8 * D!OpFormatSize[reading.format]

----------------------------------------------------------------------------
AllPrograms == Listings \cup Rejected \cup FloatPrograms \cup FramePrograms \cup CaxiPrograms \cup Framing \cup Banking
               \cup Alone \cup Comparing \cup WidePrograms \cup Dividing \cup Saturating
               \cup Shifting \cup Looping \cup Accessing \cup BitPrograms

(* A program that branches and loads r3 starts from zero in r3; one that     *)
(* asks for SAT starts without it.                                           *)
BranchesFromZero ==
  \A p \in Programs, k \in Compared : p.code = BranchesIf(k) => \A in \in p.inputs : 3 \notin DOMAIN in

StartsUnsaturated ==
  \A p \in Programs : p.code = AddThenSubtract => \A f \in p.flags : "sat" \notin f

(* LDSR writes FPST, FPCC and FPCFG, where BSEL has no reserved bit and no   *)
(* double goes past the last general register.                               *)
KeepsToMirrors(c) ==
  \A a \in DOMAIN c : LET i == c[a] IN
    /\ i.op = "ldsr" =>
         \/ i.reg = "FPST" /\ i.value \in [xc : SUBSET Exceptions, xp : SUBSET Exceptions, if : BOOLEAN]
         \/ i.reg = "FPCC" /\ i.value \in [cc : SUBSET (0 .. 7)]
         \/ i.reg = "FPCFG" /\ i.value \in [rm : 0 .. 3, xe : SUBSET Exceptions]
    /\ i.op = "ldsr_bsel" => ~ i.reserved
    /\ i.op \in FloatOps \ {"cmpf_s"} => i.reg3 + 1 \in Regs

WritesNone(c) == \A a \in DOMAIN c : c[a].op # "ldsr"

MirrorsWritten ==
  \A p \in Programs :
    p.code \in {ClearInFpsr, FromReserved} \/ WritesNone(p.code) \/ KeepsToMirrors(p.code)

ASSUME StartsAssumption == BranchesFromZero /\ StartsUnsaturated /\ MirrorsWritten

SwapThenMove == 0 :> Ins("hsw") @@ 4 :> On("mov_1", 3, 1)

SwapPrograms == {Program(SwapThenMove, {2}, Edges)}
=============================================================================
