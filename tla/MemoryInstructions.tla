-------------------------- MODULE MemoryInstructions --------------------------
(***************************************************************************)
(* The instructions that read and write memory: op_exec_load.c,            *)
(* op_exec_store.c and the bit operations of op_exec_bit.c.  The bus, which*)
(* is no part of this repository, serves the bytes of mem, lowest first,   *)
(* at any alignment, or refuses; then the handler fails.                   *)
(***************************************************************************)
EXTENDS Core

----------------------------------------------------------------------------
(* bus_get_data8, bus_put_data8 and those of two and four bytes.             *)
Cells(a, n)    == a .. a + n - 1
Readable(a, n) == Cells(a, n) \subseteq DOMAIN mem
Writable(a, n) == Readable(a, n) /\ Cells(a, n) \cap ReadOnly = {}

Read(a, n)       == OfBytes([k \in 0 .. n - 1 |-> mem[a + k]], n)
Written(a, n, w) == [c \in DOMAIN mem |-> IF c \in Cells(a, n) THEN ByteOf(w, c - a) ELSE mem[c]]

----------------------------------------------------------------------------
(* Addresses: the short forms count from EP, without a sign and in units of  *)
(* what they move; format 7 in bytes or half-words and format 14 in bytes,   *)
(* both with a sign.                                                         *)
FromEp(bits, scale) == Word(r[EP] + Low(bits, ins.imm) * scale)

(* Was the displacement of half-words and words in bytes:                    *)
FromR1InBytes(scale) == Word(R1 + HalfImm)

FromR1(scale) == Word(R1 + Extend(Half, ins.imm * scale))
FarFromR1     == Word(R1 + Extend(LongBits, ins.imm))

----------------------------------------------------------------------------
(* Loads.                                                                    *)
Load(d, a, n, w, size) ==
  \/ Readable(a, n) /\ Move(d, w, size)
  \/ ~ Readable(a, n) /\ Stop

LoadUnsigned(d, a, n, size) == Load(d, a, n, Read(a, n), size)
LoadSigned(d, a, n, size)   == Load(d, a, n, Word(Extend(Byte * n, Read(a, n))), size)

Sldb  == Executes("sldb") /\ LoadSigned(ins.reg2, FromEp(EpBits, 1), 1, 2)
Sldbu == Executes("sldbu") /\ LoadUnsigned(ins.reg2, FromEp(EpBits - 3, 1), 1, 2)
Sldh  == Executes("sldh") /\ LoadSigned(ins.reg2, FromEp(EpBits, 2), 2, 2)
Sldhu == Executes("sldhu") /\ LoadUnsigned(ins.reg2, FromEp(EpBits - 3, 2), 2, 2)
Sldw  == Executes("sldw") /\ LoadUnsigned(ins.reg2, FromEp(EpBits - 1, 4), 4, 2)

Ldb  == Executes("ldb") /\ LoadSigned(ins.reg2, FromR1(1), 1, 4)
Ldbu == Executes("ldbu") /\ LoadUnsigned(ins.reg2, FromR1(1), 1, 4)
Ldh  == Executes("ldh") /\ LoadSigned(ins.reg2, FromR1(2), 2, 4)
Ldhu == Executes("ldhu") /\ LoadUnsigned(ins.reg2, FromR1(2), 2, 4)
Ldw  == Executes("ldw") /\ LoadUnsigned(ins.reg2, FromR1(2), 4, 4)

Ldb_14  == Executes("ld_b_14") /\ LoadSigned(ins.reg3, FarFromR1, 1, 6)
Ldbu_14 == Executes("ld_bu_14") /\ LoadUnsigned(ins.reg3, FarFromR1, 1, 6)
Ldh_14  == Executes("ld_h_14") /\ LoadSigned(ins.reg3, FarFromR1, 2, 6)
Ldhu_14 == Executes("ld_hu_14") /\ LoadUnsigned(ins.reg3, FarFromR1, 2, 6)
Ldw_14  == Executes("ld_w_14") /\ LoadUnsigned(ins.reg3, FarFromR1, 4, 6)

Loads == \/ Sldb \/ Sldbu \/ Sldh \/ Sldhu \/ Sldw \/ Ldb \/ Ldbu \/ Ldh \/ Ldhu \/ Ldw
         \/ Ldb_14 \/ Ldbu_14 \/ Ldh_14 \/ Ldhu_14 \/ Ldw_14

----------------------------------------------------------------------------
(* Stores of the lower bytes of a register.  One that counts from SP may be  *)
(* refused as a stack overflow; whether it is, the core outside this         *)
(* repository decides (cpu_may_store_on_stack_overflow).                     *)
StackOver(base) == base = SP

Store(base, a, n, w, size) ==
  \/ /\ Writable(a, n)
     /\ mem' = Written(a, n, w)
     /\ MovesTo(pc + size)
     /\ UNCHANGED <<r, psw>>
  \/ (~ Writable(a, n) \/ StackOver(base)) /\ Stop

Sstb == Executes("sstb") /\ Store(EP, FromEp(EpBits, 1), 1, R2, 2)
Ssth == Executes("ssth") /\ Store(EP, FromEp(EpBits, 2), 2, R2, 2)
Sstw == Executes("sstw") /\ Store(EP, FromEp(EpBits - 1, 4), 4, R2, 2)

Stb == Executes("stb") /\ Store(ins.reg1, FromR1(1), 1, R2, 4)
Sth == Executes("sth") /\ Store(ins.reg1, FromR1(2), 2, R2, 4)
Stw == Executes("stw") /\ Store(ins.reg1, FromR1(2), 4, R2, 4)

Stb_14 == Executes("st_b_14") /\ Store(ins.reg1, FarFromR1, 1, R3, 6)
Sth_14 == Executes("st_h_14") /\ Store(ins.reg1, FarFromR1, 2, R3, 6)
Stw_14 == Executes("st_w_14") /\ Store(ins.reg1, FarFromR1, 4, R3, 6)

Stores == Sstb \/ Ssth \/ Sstw \/ Stb \/ Sth \/ Stw \/ Stb_14 \/ Sth_14 \/ Stw_14

----------------------------------------------------------------------------
(* Bits of a byte in memory.  Z tells that the bit was clear.  NOT1 sets Z   *)
(* before it writes, so that a refused write leaves it set; the others after.*)
ImmBit == ins.bit
RegBit == R2 % Byte

BitFlags(b, k) == Update(psw, [z |-> Bit(b, k) = 0])

BitWrite(a, k, v) ==
  /\ Writable(a, 1)
  /\ mem' = [mem EXCEPT ![a] = @ - Bit(@, k) * 2 ^ k + v * 2 ^ k]
  /\ psw' = BitFlags(mem[a], k)
  /\ MovesTo(pc + 4)
  /\ UNCHANGED r

TestBit(a, k) ==
  \/ Readable(a, 1) /\ psw' = BitFlags(mem[a], k) /\ Goto(pc + 4) /\ UNCHANGED r
  \/ ~ Readable(a, 1) /\ Stop

PutBit(a, k, v) == BitWrite(a, k, v) \/ (~ Writable(a, 1) /\ Stop)

InvertBit(a, k) ==
  \/ BitWrite(a, k, 1 - Bit(mem[a], k))
  \/ /\ Readable(a, 1) /\ ~ Writable(a, 1)
     /\ running' = FALSE
     /\ psw' = BitFlags(mem[a], k)
     /\ UNCHANGED <<code, pc, r, mem, fpu, start>>
  \/ ~ Readable(a, 1) /\ Stop

Tst1_8 == Executes("tst1_8") /\ TestBit(FromR1(1), ImmBit)
Set1_8 == Executes("set1_8") /\ PutBit(FromR1(1), ImmBit, 1)
Clr1_8 == Executes("clr1_8") /\ PutBit(FromR1(1), ImmBit, 0)
Not1_8 == Executes("not1_8") /\ InvertBit(FromR1(1), ImmBit)
Tst1_9 == Executes("tst1_9") /\ TestBit(R1, RegBit)
Set1_9 == Executes("set1_9") /\ PutBit(R1, RegBit, 1)
Clr1_9 == Executes("clr1_9") /\ PutBit(R1, RegBit, 0)
Not1_9 == Executes("not1_9") /\ InvertBit(R1, RegBit)

MemoryBits == Tst1_8 \/ Set1_8 \/ Clr1_8 \/ Not1_8 \/ Tst1_9 \/ Set1_9 \/ Clr1_9 \/ Not1_9
===============================================================================
