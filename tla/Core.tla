-------------------------------- MODULE Core --------------------------------
(***************************************************************************)
(* One core of the V850E2M as its instructions see it: registers, flags,   *)
(* memory, the instruction to execute and what executing it may change.    *)
(*                                                                         *)
(* What is abstracted: a word has Width bits instead of 32, a half-word    *)
(* and a byte the half and the quarter of them, and immediates their own   *)
(* sizes; a program is a function from addresses to decoded instructions,  *)
(* and fetching is not refused (Protection is about that).  r[0] is        *)
(* cleared after every step, as cpu_supply_clock does, so a handler that   *)
(* keeps no result writes it to r[0] here.                                 *)
(***************************************************************************)
EXTENDS Alu, FiniteSetsExt, Functions

CONSTANTS
  Width,      (* 32: bits of a word, a multiple of 4                           *)
  ShortBits,  (* 5: bits of an immediate of format 2                           *)
  MulBits,    (* 9: bits of the immediate of MUL and MULU                      *)
  CondBits,   (* 9: bits of the displacement of Bcond                          *)
  JumpBits,   (* 22: bits of the displacement of JR and JARL                   *)
  EpBits,     (* 7: bits of the displacement of SLD.B; SLD.W and SLD.BU have   *)
              (* one and three less                                            *)
  LongBits,   (* 23: bits of the displacement of format 14                     *)
  RegNum,     (* CPU_GREG_NUM                                                  *)
  SP,         (* CPU_REG_SP                                                    *)
  EP,         (* CPU_REG_EP                                                    *)
  ReadOnly,   (* addresses that may be read and not written                    *)
  Programs    (* code, and the registers, flags and memory it may start with   *)

Regs == 0 .. RegNum - 1

ASSUME CoreAssumption ==
  /\ Width \in Nat /\ Width % 4 = 0
  /\ SignBit = 2 ^ (Width - 1)
  /\ {ShortBits, MulBits, CondBits, JumpBits, EpBits, LongBits} \subseteq 1 .. Width
  /\ EpBits > 3
  /\ RegNum \in Nat \ {0} /\ RegNum % 2 = 0
  /\ {SP, EP} \subseteq Regs \ {0}
  /\ ReadOnly \subseteq Words
  /\ \A p \in Programs : /\ DOMAIN p.code \subseteq Words
                         /\ \A in \in p.inputs : DOMAIN in \subseteq Regs \ {0} /\ Range(in) \subseteq Words
                         /\ p.flags \subseteq SUBSET Flags
                         /\ DOMAIN p.mem \subseteq Words
                         /\ p.mem \in [DOMAIN p.mem -> 0 .. 2 ^ (Width \div 4) - 1]

VARIABLES
  code,     (* the instruction at each address                                 *)
  pc,       (* reg.pc                                                          *)
  r,        (* reg.r                                                           *)
  psw,      (* the flags of PSW that are set                                   *)
  mem,      (* the byte at each address that the bus serves                    *)
  fpu,      (* the system registers of floating point, and which are selected  *)
  running,  (* the host has not stopped the emulator                           *)
  start     (* history: registers, flags and memory at the start               *)

Codes == {p.code : p \in Programs}

vars == <<code, pc, r, psw, mem, fpu, running, start>>

(* FPSR and the parts of it that FPST, FPCC and FPCFG show: condition bits,  *)
(* exceptions of the last operation and since they were cleared, the         *)
(* rounding, what may interrupt, and whether an operand was flushed.  The    *)
(* group of floating point has, as all, a register for each bank.            *)
Exceptions == {"I", "U", "O", "Z", "V", "E"}
Banks      == 0 .. 2

FpuReset ==
  [group |-> 0, bank |-> 0, exact |-> FALSE,
   regs  |-> [b \in Banks |->
     [FPSR  |-> [cc |-> {}, xc |-> {}, xp |-> {}, rm |-> 0, xe |-> {}, if |-> FALSE],
      FPST  |-> [xc |-> {}, xp |-> {}, if |-> FALSE],
      FPCC  |-> [cc |-> {}],
      FPCFG |-> [rm |-> 0, xe |-> {}]]]]

Init ==
  \E p \in Programs : \E in \in p.inputs, f \in p.flags :
    /\ code = p.code
    /\ pc = 0
    /\ r = [n \in Regs |-> IF n \in DOMAIN in THEN in[n] ELSE 0]
    /\ psw = f
    /\ mem = p.mem
    /\ fpu = FpuReset
    /\ running = TRUE
    /\ start = [r |-> r, psw |-> psw, mem |-> mem]

----------------------------------------------------------------------------
(* Parts of words.                                                           *)
Half == Width \div 2
Byte == Width \div 4

Low(bits, n)    == n % 2 ^ bits
Extend(bits, n) == LET w == Low(bits, n) IN IF w < 2 ^ (bits - 1) THEN w ELSE w - 2 ^ bits

Bit(w, k)  == (w \div 2 ^ k) % 2
Bits(w)    == {k \in 0 .. Width - 1 : Bit(w, k) = 1}
OfBits(ks) == CHOOSE w \in Words : Bits(w) = ks

ByteOf(w, k)         == Low(Byte, w \div 2 ^ (Byte * k))
Pack(b3, b2, b1, b0) == ((b3 * 2 ^ Byte + b2) * 2 ^ Byte + b1) * 2 ^ Byte + b0

(* The number of n bytes, one, two or four, the lowest first.                *)
OfBytes(b, n) == Pack(IF n > 2 THEN b[3] ELSE 0, IF n > 2 THEN b[2] ELSE 0, IF n > 1 THEN b[1] ELSE 0, b[0])

----------------------------------------------------------------------------
(* The instruction that is executed, and its operands.                       *)
ins == code[pc]

R1 == r[ins.reg1]
R2 == r[ins.reg2]
R3 == r[ins.reg3]

ShortImm == Extend(ShortBits, ins.imm)
HalfImm  == Extend(Half, ins.imm)
Executes(op) == running /\ pc \in DOMAIN code /\ ins.op = op

CondHolds    == Conditions(psw)[ins.cond]
SetCondHolds == SetConditions(psw)[ins.cond]
CondBit      == IF CondHolds THEN 1 ELSE 0

Proceed(a)    == pc' = Word(a) /\ UNCHANGED <<code, running, start>>
MovesTo(a)    == Proceed(a) /\ UNCHANGED fpu
Goto(a)       == MovesTo(a) /\ UNCHANGED mem
Advance(size) == Goto(pc + size)

(* The host divides by zero, or the handler fails and the clock reports it.  *)
Stop == running' = FALSE /\ UNCHANGED <<code, pc, r, psw, mem, fpu, start>>

(* Were r[0] cleared only at the next fetch:                                 *)
ResultKept(d, w, changes, size) ==
  r' = [r EXCEPT ![d] = w] /\ psw' = Update(psw, changes) /\ Advance(size)

Result(d, w, changes, size) ==
  /\ r' = [r EXCEPT ![d] = w, ![0] = 0]
  /\ psw' = Update(psw, changes)
  /\ Advance(size)

Move(d, w, size) == Result(d, w, <<>>, size)

Sum(d, a, b, c, size)        == Result(d, Word(a + b + c), SumFlags(a, b, c), size)
Difference(d, a, b, c, size) == Result(d, Word(a - b - c), DifferenceFlags(a, b, c), size)
=============================================================================
