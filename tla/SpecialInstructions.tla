-------------------------- MODULE SpecialInstructions --------------------------
(***************************************************************************)
(* From op_exec_spec.c: stack frames, compare and exchange, the jump       *)
(* through a table, and LDSR to the registers of floating point and to     *)
(* BSEL, which selects them.  The core runs trusted, but for the check of  *)
(* PREPARE, to which ReadOnly is a region without permission to write.     *)
(***************************************************************************)
EXTENDS MemoryInstructions

----------------------------------------------------------------------------
(* PREPARE pushes the registers listed, the lowest first, and DISPOSE pops   *)
(* them again.  A slot that the bus does not serve ends both half way.       *)
Listed == ins.list

Upto(i) == {j \in Listed : j <= i}
From(i) == {j \in Listed : j >= i}

PushSlot(i) == Word(r[SP] - 4 * Cardinality(Upto(i)))
Pushed      == {i \in Listed : \A j \in Upto(i) : Readable(PushSlot(j), 4)}

(* Were the address checked the one that is written, the bytes below SP:     *)
MayPushBelow == Cells(Word(r[SP] - 4 * Cardinality(Listed)), 4 * Cardinality(Listed)) \cap ReadOnly = {}

(* has_permission_prepare checks the bytes above SP.                         *)
MayPush == Cells(r[SP], 4 * Cardinality(Listed)) \cap ReadOnly = {}

MemWithPushed ==
  [c \in DOMAIN mem |->
     LET over == {i \in Pushed : c \in Cells(PushSlot(i), 4)}
     IN IF over = {} THEN mem[c] ELSE LET i == Min(over) IN ByteOf(r[i], c - PushSlot(i))]

(* What the forms leave in EP; the bytes after the instruction, if it has    *)
(* any, are there.                                                           *)
EpAfter(sp) == CASE ins.op = "prepare"    -> r[EP]
                 [] ins.op = "prepare_sp" -> sp
                 [] ins.op = "prepare_h"  -> Word(Extend(Half, ins.ep))
                 [] ins.op = "prepare_hi" -> Word(ins.ep * 2 ^ Half)
                 [] ins.op = "prepare_w"  -> Word(ins.ep)

Lowered == Word(r[SP] - 4 * Cardinality(Pushed))

Prepare(op, size) ==
  /\ Executes(op)
  /\ \/ /\ MayPush /\ Pushed = Listed
        /\ LET sp == Word(Lowered - 4 * ins.imm) IN r' = [r EXCEPT ![SP] = sp, ![EP] = EpAfter(sp)]
        /\ mem' = MemWithPushed
        /\ MovesTo(pc + size)
        /\ UNCHANGED psw
     \/ /\ MayPush /\ Pushed # Listed
        /\ r' = [r EXCEPT ![SP] = Lowered]
        /\ mem' = MemWithPushed
        /\ running' = FALSE
        /\ UNCHANGED <<code, pc, psw, fpu, start>>
     \/ ~ MayPush /\ Stop

Prepare4  == Prepare("prepare", 4)
PrepareSp == Prepare("prepare_sp", 4)
PrepareH  == Prepare("prepare_h", 6)
PrepareHi == Prepare("prepare_hi", 6)
PrepareW  == Prepare("prepare_w", 8)

(* Were they popped in the order they were pushed:                           *)
PopSlotUpwards(i) == Word(r[SP] + 4 * ins.imm + 4 * (Cardinality(Upto(i)) - 1))

PopSlot(i) == Word(r[SP] + 4 * ins.imm + 4 * (Cardinality(From(i)) - 1))
Popped     == {i \in Listed : \A j \in From(i) : Readable(PopSlot(j), 4)}

Dispose ==
  /\ Executes("dispose")
  /\ r' = [n \in Regs |->
             IF n = SP THEN Word(r[SP] + 4 * ins.imm + 4 * Cardinality(Popped))
             ELSE IF n \in Popped THEN Read(PopSlot(n), 4) ELSE r[n]]
  /\ \/ /\ Popped = Listed
        /\ MovesTo(IF ins.reg1 = 0 THEN pc + 4 ELSE r'[ins.reg1])
        /\ UNCHANGED <<psw, mem>>
     \/ /\ Popped # Listed
        /\ running' = FALSE
        /\ UNCHANGED <<code, pc, psw, mem, fpu, start>>

----------------------------------------------------------------------------
(* CAXI exchanges half-words, whatever its comment says of words; the        *)
(* overflow is that of an unsigned register and a signed token.              *)
CaxiFlags(token) ==
  [cy |-> Borrow(R2, Word(token), 0),
   ov |-> Overflows(R2 - token),
   z  |-> Low(Half, R2 - token) = 0,
   s  |-> Extend(Half, R2 - token) < 0]

(* Was the new half-word always written:                                     *)
ExchangedAlways(token) == R3

Exchanged(token) == IF Low(Half, R2 - token) = 0 THEN R3 ELSE token

Caxi ==
  /\ Executes("caxi")
  /\ LET a     == R1 - (R1 % 4)
         token == Extend(Half, Read(a, 2))
     IN \/ /\ Writable(a, 2)
           /\ mem' = Written(a, 2, Exchanged(token))
           /\ r' = [r EXCEPT ![ins.reg3] = Low(Half, token), ![0] = 0]
           /\ psw' = Update(psw, CaxiFlags(token))
           /\ MovesTo(pc + 4)
        \/ ~ Writable(a, 2) /\ Stop

(* The table of half-words begins after the instruction.                     *)
Switch ==
  /\ Executes("switch")
  /\ LET a == Word(pc + 2 + 2 * R1)
     IN \/ Readable(a, 2) /\ Goto(pc + 2 + 2 * Extend(Half, Read(a, 2))) /\ UNCHANGED <<r, psw>>
        \/ ~ Readable(a, 2) /\ Stop

----------------------------------------------------------------------------
(* set_sysreg_grp_bnk: the groups and their banks by the bytes of BSEL.      *)
GroupOf == [n \in {0, 16, 17, 32, 255} |->
              CASE n = 0 -> 0 [] n = 16 -> 1 [] n = 17 -> 2 [] n = 32 -> 3 [] n = 255 -> 4]
FpuGroup == 3

BanksOf(group) == CASE group = 0   -> <<0, 16, 17>>
                    [] group = 16  -> <<0, 1, 16>>
                    [] group = 255 -> <<0, 255>>
                    [] OTHER       -> <<0>>

(* The group and the bank are bytes of a word; what LDSR compares with       *)
(* 0x2000, for whether to copy, is all of it.                                *)
Bsel ==
  /\ Executes("ldsr_bsel")
  /\ LET banks == BanksOf(ins.group)
         known == ins.group \in DOMAIN GroupOf /\ ins.bank \in Range(banks)
     IN \/ /\ known
           /\ fpu' = [fpu EXCEPT !.group = GroupOf[ins.group],
                                 !.bank  = (CHOOSE k \in DOMAIN banks : banks[k] = ins.bank) - 1,
                                 !.exact = ins.group = 32 /\ ~ ins.reserved]
           /\ Proceed(pc + 4)
           /\ UNCHANGED <<r, psw, mem>>
        \/ ~ known /\ Stop

(* fpu_sync_sysreg: FPST, FPCC and FPCFG are copied to FPSR, and FPSR is not *)
(* copied to them.                                                           *)
Synced(regs, reg) ==
  CASE reg = "FPST"  -> [regs EXCEPT !.FPSR.xc = regs.FPST.xc, !.FPSR.xp = regs.FPST.xp,
                                     !.FPSR.if = regs.FPST.if]
    [] reg = "FPCC"  -> [regs EXCEPT !.FPSR.cc = regs.FPCC.cc]
    [] reg = "FPCFG" -> [regs EXCEPT !.FPSR.rm = regs.FPCFG.rm, !.FPSR.xe = regs.FPCFG.xe]
    [] OTHER         -> regs

(* LDSR of a register of floating point: the fields of the word written are  *)
(* those of ins.value.  In another group the number means another register.  *)
Ldsr ==
  /\ Executes("ldsr")
  /\ LET b       == fpu.bank
         written == [fpu.regs[b] EXCEPT ![ins.reg] = ins.value]
         regs    == IF fpu.exact THEN Synced(written, ins.reg) ELSE written
     IN fpu' = IF fpu.group = FpuGroup THEN [fpu EXCEPT !.regs[b] = regs] ELSE fpu
  /\ Proceed(pc + 4)
  /\ UNCHANGED <<r, psw, mem>>

Special == \/ Prepare4 \/ PrepareSp \/ PrepareH \/ PrepareHi \/ PrepareW \/ Dispose
           \/ Caxi \/ Switch \/ Bsel \/ Ldsr
=============================================================================
