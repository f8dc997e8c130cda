---------------------------- MODULE Instructions ----------------------------
(***************************************************************************)
(* One core executing a program: the clock of cpu_config.c supplies it one *)
(* instruction after the other.                                            *)
(***************************************************************************)
EXTENDS IntegerInstructions, MemoryInstructions, SpecialInstructions, FloatInstructions

----------------------------------------------------------------------------
(* The fields of the registers of floating point.                            *)
FieldsOf(reg) ==
  LET Kinds == SUBSET (Exceptions \ {"E"})
  IN CASE reg = "FPSR"  -> [cc : SUBSET (0 .. 7), xc : SUBSET Exceptions, xp : Kinds,
                            rm : 0 .. 3, xe : Kinds, if : BOOLEAN]
       [] reg = "FPST"  -> [xc : SUBSET Exceptions, xp : Kinds, if : BOOLEAN]
       [] reg = "FPCC"  -> [cc : SUBSET (0 .. 7)]
       [] reg = "FPCFG" -> [rm : 0 .. 3, xe : Kinds]

(* What op_parse finds in an instruction: registers that there are, a bit of *)
(* a byte or of the condition bits, and for LDSR the fields of the register  *)
(* that is written.  The condition of CMPF, four bits, is at reg3.           *)
IsDecoded(i) ==
  /\ {i.reg1, i.reg2} \subseteq Regs
  /\ i.reg3 \in Regs \/ i.op \in {"cmpf_s", "cmpf_d"}
  /\ i.imm \in Int /\ i.ep \in Int
  /\ i.bit \in IF i.op \in {"tst1_8", "set1_8", "clr1_8", "not1_8"} THEN 0 .. Byte - 1 ELSE 0 .. 7
  /\ i.list \subseteq Regs \ {0}
  /\ i.op = "ldsr" => i.reg \in {"FPSR", "FPST", "FPCC", "FPCFG"} /\ i.value \in FieldsOf(i.reg)

ASSUME DecodedAssumption == \A p \in Programs : \A a \in DOMAIN p.code : IsDecoded(p.code[a])

(* Past the program there is nothing to execute.                             *)
Halted   == ~ running \/ pc \notin DOMAIN code
Finished == Halted /\ UNCHANGED vars

(* Machine code that does not parse, and instructions without a handler,     *)
(* end the emulator with an error.                                           *)
WithoutHandler == {"callt_2", "ctret_10", "rie_1", "rie_10", "synce_1", "syncm_1", "syncp_1"}
NotExecuted    == running /\ pc \in DOMAIN code /\ ins.op \in WithoutHandler \cup {"undecoded"} /\ Stop

WithoutFloats == \/ Arithmetic \/ Division \/ Saturation \/ Logic \/ Shifts
                 \/ SwapsAndSearches \/ Branches \/ Loads \/ Stores \/ MemoryBits
                 \/ Special \/ NotExecuted

Next == WithoutFloats \/ Floats \/ Finished

Spec == Init /\ [][Next]_vars

(* device_supply_clock gives every core its clock again and again.  Of the   *)
(* programs that are to end none computes with floats.                       *)
FairSpec == Spec /\ WF_vars(WithoutFloats)

----------------------------------------------------------------------------
FpuTypeOK(regs) ==
  /\ regs.FPSR.cc \cup regs.FPCC.cc \subseteq 0 .. 7
  /\ UNION {regs.FPSR.xc, regs.FPST.xc} \subseteq Exceptions
  /\ UNION {regs.FPSR.xp, regs.FPST.xp, regs.FPSR.xe, regs.FPCFG.xe} \subseteq Exceptions \ {"E"}
  /\ {regs.FPSR.rm, regs.FPCFG.rm} \subseteq 0 .. 3
  /\ {regs.FPSR.if, regs.FPST.if} \subseteq BOOLEAN

(* Every variable has its type, and r[0] reads as zero.                      *)
TypeOK ==
  /\ code \in Codes
  /\ pc \in Words
  /\ r \in [Regs -> Words]
  /\ r[0] = 0
  /\ psw \subseteq Flags
  /\ mem \in [DOMAIN start.mem -> 0 .. 2 ^ Byte - 1]
  /\ fpu.bank \in Banks /\ fpu.exact \in BOOLEAN
  /\ \A b \in Banks : FpuTypeOK(fpu.regs[b])
  /\ running \in BOOLEAN
  /\ start.r \in [Regs -> Words] /\ start.psw \subseteq Flags

(* The bytes an instruction occupies: OpFormatSize by its format, and two    *)
(* more for those with a word as immediate.                                  *)
SixBytes  == {"mov_6", "jmp_6", "jr_6", "jarl_6",
              "prepare_h", "prepare_hi",
              "ld_b_14", "ld_bu_14", "ld_h_14", "ld_hu_14", "ld_w_14",
              "st_b_14", "st_h_14", "st_w_14"}
FourBytes == FloatOps \cup
             {"prepare", "prepare_sp", "caxi", "ldsr", "ldsr_bsel",
              "addi", "adf", "sbf", "movea", "movhi", "setf", "sasf", "cmov_11", "cmov_12",
              "mulhi", "mul", "mulu", "mul_12", "mulu_12", "mac", "macu",
              "divh_11", "div", "divq", "divhu", "divu", "divqu",
              "satadd_11", "satsub_11", "satsubi", "andi", "xori", "ori",
              "shl_9", "shr_9", "sar_9", "shl_11", "shr_11", "sar_11",
              "hsh", "hsw", "bsh", "bsw", "sch0l", "sch1l", "sch0r", "sch1r", "jr_5",
              "ldb", "ldbu", "ldh", "ldhu", "ldw", "stb", "sth", "stw",
              "tst1_8", "set1_8", "clr1_8", "not1_8", "tst1_9", "set1_9", "clr1_9", "not1_9"}
Size(op)  == IF op = "prepare_w" THEN 8 ELSE IF op \in SixBytes THEN 6 ELSE IF op \in FourBytes THEN 4 ELSE 2
Jumps     == {"bcond", "jmp_1", "jmp_6", "jr_5", "jr_6", "jarl_6", "switch", "dispose"}

(* After an instruction that is no branch the next one of the program is     *)
(* executed, not the middle of this one (OpFormatSize, op_dec.c:35-51).      *)
NextIsExecuted ==
  [][ins.op \notin Jumps /\ running' => pc' = Word(pc + Size(ins.op))]_<<pc>>
=============================================================================
