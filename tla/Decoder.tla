------------------------------- MODULE Decoder -------------------------------
(***************************************************************************)
(* The decoder, src/cpu/cpu_dec: from the half-words of an instruction the *)
(* operation, the format and the fields of the format.  op_parse.c picks a *)
(* parser by the operation code, a parser of op_parse_private.c the first  *)
(* row that holds, and op_dec.c takes the fields apart.                    *)
(*                                                                         *)
(* An instruction is the sequence of the three half-words that memory      *)
(* holds from its address on; bit 16 is the lowest bit of the second.      *)
(***************************************************************************)
EXTENDS Integers, Sequences, FiniteSetsExt, TLC

HalfWords    == 0 .. 2 ^ 16 - 1
Words48      == [1 .. 3 -> HalfWords]

(* OP_CODE_FORMAT_F, after the formats 1 to 14.                              *)
F == 15

(* Bits hi to lo, all of one half-word.                                      *)
Slice(h, hi, lo) == (h[lo \div 16 + 1] \div 2 ^ (lo % 16)) % 2 ^ (hi - lo + 1)
At(h, k)         == Slice(h, k, k)

Opcode(h) == Slice(h, 10, 5)
Reg1(h)   == Slice(h, 4, 0)
Reg2(h)   == Slice(h, 15, 11)
Reg3(h)   == Slice(h, 31, 27)

----------------------------------------------------------------------------
(* A row of a parser: when it holds, the operation and the format.           *)
Row(holds, op, format) == [holds |-> holds, op |-> op, format |-> format]
Always(op, format)     == <<Row(TRUE, op, format)>>

(* Many codes mean something else where the second register is r0.           *)
ByReg2(h, op, format, op0, format0) ==
  <<Row(Reg2(h) # 0, op, format), Row(Reg2(h) = 0, op0, format0)>>

ByBit(h, k, op0, op1, format) == <<Row(At(h, k) = 0, op0, format), Row(At(h, k) = 1, op1, format)>>

(* The operation that has the number n.                                      *)
ByNumber(n, format, ops) == [i \in DOMAIN ops |-> Row(n = ops[i][1], ops[i][2], format)]

----------------------------------------------------------------------------
(* Base codes: bits 10-5.                                                    *)
Base0000(h) ==
  LET reg1 == Reg1(h)
      zero == Reg2(h) = 0
  IN CASE Opcode(h) = 0 ->
            <<Row(reg1 = 0 /\ zero, "nop_1", 1), Row(reg1 = 31 /\ zero, "syncp_1", 1),
              Row(reg1 = 30 /\ zero, "syncm_1", 1), Row(reg1 = 29 /\ zero, "synce_1", 1),
              Row(reg1 \in 1 .. 27 /\ zero, "mov_1", 1), Row(~ zero, "mov_1", 1)>>
       [] Opcode(h) = 1 -> Always("not_1", 1)
       [] Opcode(h) = 2 ->
            <<Row(reg1 = 0 /\ zero, "rie_1", 1), Row(reg1 # 0 /\ zero, "switch_1", 1),
              Row(reg1 = 0 /\ Reg2(h) \in 1 .. 15, "fetrap_1", 1), Row(reg1 # 0 /\ ~ zero, "divh_1", 1)>>
       [] Opcode(h) = 3 ->
            <<Row(zero, "jmp_1", 1), Row(~ zero /\ At(h, 4) = 0, "sld_bu_4", 4),
              Row(~ zero /\ At(h, 4) = 1, "sld_hu_4", 4)>>

Base0001(h) ==
  CASE Opcode(h) = 4 -> ByReg2(h, "satsubr_1", 1, "zxb_1", 1)
    [] Opcode(h) = 5 -> ByReg2(h, "satsub_1", 1, "sxb_1", 1)
    [] Opcode(h) = 6 -> ByReg2(h, "satadd_1", 1, "zxh_1", 1)
    [] Opcode(h) = 7 -> ByReg2(h, "mulh_1", 1, "sxh_1", 1)

Base001(h) ==
  LET ops == <<"or_1", "xor_1", "and_1", "tst_1", "subr_1", "sub_1", "add_1", "cmp_1">>
  IN Always(ops[Opcode(h) - 7], 1)

Base010(h) ==
  LET ops == <<"add_2", "cmp_2", "shr_2", "sar_2", "shl_2">>
  IN CASE Opcode(h) = 16         -> ByReg2(h, "mov_2", 2, "callt_2", 2)
       [] Opcode(h) = 17         -> ByReg2(h, "satadd_2", 2, "callt_2", 2)
       [] Opcode(h) \in 18 .. 22 -> Always(ops[Opcode(h) - 17], 2)
       [] Opcode(h) = 23         ->
            <<Row(Reg2(h) # 0, "mulh_2", 2), Row(Reg1(h) = 0 /\ Reg2(h) = 0, "jr_6", 6),
              Row(Reg1(h) # 0 /\ Reg2(h) = 0, "jarl_6", 6)>>

(* Bits 10-7.                                                                *)
Base011(h) == Always(<<"sld_b_4", "sst_b_4">>[Slice(h, 10, 7) - 5], 4)
Base100(h) == Always(<<"sld_h_4", "sst_h_4">>[Slice(h, 10, 7) - 7], 4)

Base101(h) ==
  IF Slice(h, 10, 7) = 10 THEN ByBit(h, 0, "sld_w_4", "sst_w_4", 4) ELSE Always("bcond_3", 3)

Base110(h) ==
  CASE Opcode(h) = 48 -> Always("addi_6", 6)
    [] Opcode(h) = 49 -> ByReg2(h, "movea_6", 6, "mov_6", 6)
    [] Opcode(h) = 50 -> ByReg2(h, "movhi_6", 6, "dispose_13", 13)
    [] Opcode(h) = 51 -> ByReg2(h, "satsubi_6", 6, "dispose_13", 13)
    [] Opcode(h) = 52 -> Always("ori_6", 6)
    [] Opcode(h) = 53 -> Always("xori_6", 6)
    [] Opcode(h) = 54 -> Always("andi_6", 6)
    [] Opcode(h) = 55 -> <<Row(Reg2(h) # 0, "mulhi_6", 6),
                          Row(Reg2(h) = 0 /\ At(h, 16) = 0, "jmp_6", 6)>>

Base1110(h) ==
  CASE Opcode(h) = 56 -> Always("ld_b_7", 7)
    [] Opcode(h) = 57 -> ByBit(h, 16, "ld_h_7", "ld_w_7", 7)
    [] Opcode(h) = 58 -> Always("st_b_7", 7)
    [] Opcode(h) = 59 -> ByBit(h, 16, "st_h_7", "st_w_7", 7)

(* Loads and stores of 48 bits, jumps, LD.BU and PREPARE share two codes.    *)
Far(h) ==
  LET ops == IF Opcode(h) = 60
             THEN << <<5, "ld_b_14">>, <<7, "ld_h_14">>, <<9, "ld_w_14">>,
                     <<13, "st_b_14">>, <<15, "st_w_14">> >>
             ELSE << <<5, "ld_bu_14">>, <<7, "ld_hu_14">>, <<13, "st_h_14">> >>
  IN [i \in DOMAIN ops |-> Row(Reg2(h) = 0 /\ Slice(h, 19, 16) = ops[i][1], ops[i][2], 14)]

(* Were LD.BU known by bit 16 alone:                                         *)
LoadOrFrameOfAny(h) ==
  LET zero == Reg2(h) = 0
  IN <<Row(zero /\ At(h, 16) = 0, "jr_5", 5), Row(~ zero /\ At(h, 16) = 0, "jarl_5", 5),
       Row(At(h, 16) = 1, "ld_bu_7", 7), Row(zero /\ Slice(h, 18, 16) = 3, "prepare_13", 13),
       Row(zero /\ Slice(h, 19, 16) = 1, "prepare_13", 13)>>

LoadOrFrame(h) ==
  LET zero == Reg2(h) = 0
  IN <<Row(zero /\ At(h, 16) = 0, "jr_5", 5), Row(~ zero /\ At(h, 16) = 0, "jarl_5", 5),
       Row(~ zero /\ At(h, 16) = 1, "ld_bu_7", 7), Row(zero /\ Slice(h, 18, 16) = 3, "prepare_13", 13),
       Row(zero /\ Slice(h, 19, 16) = 1, "prepare_13", 13)>>

Base1111(h) ==
  CASE Opcode(h) \in {60, 61} -> Far(h) \o LoadOrFrame(h)
    [] Opcode(h) = 62 ->
         ByNumber(Slice(h, 15, 14), 8,
                  << <<0, "set1_8">>, <<1, "not1_8">>, <<2, "clr1_8">>, <<3, "tst1_8">> >>)
    [] Opcode(h) = 63 -> <<Row(Reg2(h) # 0 /\ At(h, 16) = 1, "ld_hu_7", 7)>>

BaseCode(h) ==
  CASE Opcode(h) \in 0 .. 3   -> Base0000(h)
    [] Opcode(h) \in 4 .. 7   -> Base0001(h)
    [] Opcode(h) \in 8 .. 15  -> Base001(h)
    [] Opcode(h) \in 16 .. 23 -> Base010(h)
    [] Opcode(h) \in 24 .. 31 -> Base011(h)
    [] Opcode(h) \in 32 .. 39 -> Base100(h)
    [] Opcode(h) \in 40 .. 47 -> Base101(h)
    [] Opcode(h) \in 48 .. 55 -> Base110(h)
    [] Opcode(h) \in 56 .. 59 -> Base1110(h)
    [] OTHER                  -> Base1111(h)

----------------------------------------------------------------------------
(* Extended codes: bits 26-21.                                               *)
ExtendedCode(h) == Slice(h, 26, 21)
Sub(h)          == Slice(h, 20, 17)

Extend0000(h) ==
  CASE ExtendedCode(h) = 0 -> <<Row(At(h, 4) = 0, "setf_9", 9), Row(At(h, 4) = 1, "rie_10", 10)>>
    [] ExtendedCode(h) = 1 -> Always("ldsr_9", 9)
    [] ExtendedCode(h) = 2 -> Always("stsr_9", 9)
    [] OTHER               -> << >>

(* The shifts do not read all of bits 20-17.                                 *)
Extend0001(h) ==
  LET shift(op9, op11, n) == <<Row(n = 0, op9, 9), Row(n = 1, op11, 11)>>
      outer               == 2 * At(h, 20) + At(h, 17)
      two                 == Slice(h, 18, 17)
  IN CASE ExtendedCode(h) = 4 -> shift("shr_9", "shr_11", outer)
       [] ExtendedCode(h) = 5 -> shift("sar_9", "sar_11", outer)
       [] ExtendedCode(h) = 6 -> shift("shl_9", "shl_11", 4 * At(h, 20) + two)
       [] ExtendedCode(h) = 7 ->
            <<Row(two = 0, "set1_9", 9), Row(two = 1, "not1_9", 9), Row(two = 2, "clr1_9", 9),
              Row(Slice(h, 19, 17) = 3, "tst1_9", 9), Row(Slice(h, 19, 17) = 7, "caxi_11", 11)>>

Extend0010(h) ==
  CASE ExtendedCode(h) = 8  -> Always("trap_10", 10)
    [] ExtendedCode(h) = 9  -> <<Row(At(h, 11) = 0, "halt_10", 10)>>
    [] ExtendedCode(h) = 10 ->
         ByNumber(Slice(h, 19, 17), 10,
                  << <<0, "reti_10">>, <<4, "eiret_10">>, <<5, "feret_10">>, <<2, "ctret_10">> >>)
    [] ExtendedCode(h) = 11 ->
         ByNumber(Reg2(h), 10, << <<0, "di_10">>, <<16, "ei_10">>, <<26, "syscall_10">> >>)

Extend010(h) ==
  CASE ExtendedCode(h) = 16          -> Always("sasf_9", 9)
    [] ExtendedCode(h) = 17          -> ByBit(h, 17, "mul_11", "mulu_11", 11)
    [] ExtendedCode(h) \in 18 .. 19  -> ByBit(h, 17, "mul_12", "mulu_12", 12)
    [] ExtendedCode(h) = 20          -> ByBit(h, 17, "divh_11", "divhu_11", 11)
    [] ExtendedCode(h) = 22          -> ByBit(h, 17, "div_11", "divu_11", 11)
    [] ExtendedCode(h) = 23          -> ByBit(h, 17, "divq_11", "divqu_11", 11)
    [] OTHER                         -> << >>

Extend011(h) ==
  CASE ExtendedCode(h) = 24 -> Always("cmov_12", 12)
    [] ExtendedCode(h) = 25 -> Always("cmov_11", 11)
    [] ExtendedCode(h) = 26 ->
         ByNumber(Slice(h, 18, 17), 12,
                  << <<0, "bsw_12">>, <<1, "bsh_12">>, <<2, "hsw_12">>, <<3, "hsh_12">> >>)
    [] ExtendedCode(h) = 27 ->
         ByNumber(Sub(h), 9, << <<0, "sch0r_9">>, <<1, "sch1r_9">>, <<2, "sch0l_9">>, <<3, "sch1l_9">> >>)
    [] ExtendedCode(h) = 28 -> <<Row(Sub(h) = 13, "satsub_11", 11), Row(Sub(h) # 13, "sbf_11", 11)>>
    [] ExtendedCode(h) = 29 -> <<Row(Sub(h) = 13, "satadd_11", 11), Row(Sub(h) # 13, "adf_11", 11)>>
    [] ExtendedCode(h) = 30 -> Always("mac_11", 11)
    [] ExtendedCode(h) = 31 -> Always("macu_11", 11)

(* Floating point: the first register and bits 20-17 of an operation with    *)
(* one operand, bits 20-17 of one with two; bit 20 is set for doubles.       *)
OneOperandToCvtf(h) ==
  ByNumber(<<Reg1(h), Sub(h)>>, F,
    <<
       << <<0, 4>>, "absf_s_f">>, << <<0, 12>>, "absf_d_f">>, << <<2, 2>>, "ceilf_sl_f">>,
       << <<2, 10>>, "ceilf_dl_f">>, << <<18, 2>>, "ceilf_sul_f">>, << <<18, 10>>, "ceilf_dul_f">>,
       << <<18, 0>>, "ceilf_suw_f">>, << <<18, 8>>, "ceilf_duw_f">>, << <<2, 0>>, "ceilf_sw_f">>,
       << <<2, 8>>, "ceilf_dw_f">>, << <<1, 1>>, "cvtf_ls_f">>, << <<4, 2>>, "cvtf_sl_f">>,
       << <<20, 2>>, "cvtf_sul_f">>, << <<20, 0>>, "cvtf_suw_f">>, << <<4, 0>>, "cvtf_sw_f">>,
       << <<17, 1>>, "cvtf_uls_f">>, << <<16, 1>>, "cvtf_uws_f">>, << <<0, 1>>, "cvtf_ws_f">>,
       << <<1, 9>>, "cvtf_ld_f">>, << <<4, 10>>, "cvtf_dl_f">>, << <<20, 10>>, "cvtf_dul_f">>,
       << <<20, 8>>, "cvtf_duw_f">>, << <<4, 8>>, "cvtf_dw_f">>, << <<17, 9>>, "cvtf_uld_f">>,
       << <<16, 9>>, "cvtf_uwd_f">>, << <<0, 9>>, "cvtf_wd_f">> >>)

OneOperandFromFloorf(h) ==
  ByNumber(<<Reg1(h), Sub(h)>>, F,
    <<
       << <<3, 2>>, "floorf_sl_f">>, << <<19, 2>>, "floorf_sul_f">>, << <<19, 0>>, "floorf_suw_f">>,
       << <<3, 0>>, "floorf_sw_f">>, << <<3, 10>>, "floorf_dl_f">>, << <<19, 10>>, "floorf_dul_f">>,
       << <<19, 8>>, "floorf_duw_f">>, << <<3, 8>>, "floorf_dw_f">>, << <<1, 4>>, "negf_s_f">>,
       << <<1, 12>>, "negf_d_f">>, << <<1, 7>>, "recipf_s_f">>, << <<1, 15>>, "recipf_d_f">>,
       << <<2, 7>>, "rsqrtf_s_f">>, << <<2, 15>>, "rsqrtf_d_f">>, << <<0, 7>>, "sqrtf_s_f">>,
       << <<0, 15>>, "sqrtf_d_f">>, << <<3, 9>>, "cvtf_ds_f">>, << <<2, 9>>, "cvtf_sd_f">>,
       << <<1, 2>>, "trncf_sl_f">>, << <<17, 2>>, "trncf_sul_f">>, << <<17, 0>>, "trncf_suw_f">>,
       << <<1, 0>>, "trncf_sw_f">>, << <<1, 10>>, "trncf_dl_f">>, << <<17, 10>>, "trncf_dul_f">>,
       << <<17, 8>>, "trncf_duw_f">>, << <<1, 8>>, "trncf_dw_f">> >>)

OneOperand(h) == OneOperandToCvtf(h) \o OneOperandFromFloorf(h)

TwoOperands(h) ==
  ByNumber(Sub(h), F,
    << <<0, "addf_s_f">>, <<8, "addf_d_f">>, <<7, "divf_s_f">>, <<15, "divf_d_f">>,
       <<4, "maxf_s_f">>, <<12, "maxf_d_f">>, <<5, "minf_s_f">>, <<13, "minf_d_f">>,
       <<2, "mulf_s_f">>, <<1, "subf_s_f">>, <<9, "subf_d_f">>, <<10, "mulf_d_f">> >>)

Extend1000(h) ==
  CASE ExtendedCode(h) = 32 ->
         <<Row(Reg3(h) # 0 /\ At(h, 20) = 0, "cmovf_s_f", F),
           Row(Reg3(h) # 0 /\ At(h, 20) = 1, "cmovf_d_f", F),
           Row(Reg3(h) = 0 /\ At(h, 20) = 0, "trfsr_f", F)>>
    [] ExtendedCode(h) = 33 -> ByBit(h, 20, "cmpf_s_f", "cmpf_d_f", F)
    [] ExtendedCode(h) = 34 -> OneOperand(h)
    [] ExtendedCode(h) = 35 -> TwoOperands(h)

Extend101(h) ==
  Always(<<"maddf_s_f", "msubf_s_f", "nmaddf_s_f", "nmsubf_s_f">>[(ExtendedCode(h) % 4) + 1], F)

ExtendCode(h) ==
  CASE ExtendedCode(h) \in 0 .. 3   -> Extend0000(h)
    [] ExtendedCode(h) \in 4 .. 7   -> Extend0001(h)
    [] ExtendedCode(h) \in 8 .. 11  -> Extend0010(h)
    [] ExtendedCode(h) \in 16 .. 23 -> Extend010(h)
    [] ExtendedCode(h) \in 24 .. 31 -> Extend011(h)
    [] ExtendedCode(h) \in 32 .. 35 -> Extend1000(h)
    [] ExtendedCode(h) \in 40 .. 47 -> Extend101(h)
    [] OTHER                        -> << >>

----------------------------------------------------------------------------
(* op_parse: extended codes have bits 10-5 set and bit 16 clear.             *)
Rows(h) == IF Opcode(h) = 63 /\ At(h, 16) = 0 THEN ExtendCode(h) ELSE BaseCode(h)

Undecoded == [op |-> "undecoded", format |-> 0]

Parse(h) ==
  LET rows    == Rows(h)
      holding == {i \in DOMAIN rows : rows[i].holds}
  IN IF holding = {} THEN Undecoded
     ELSE LET row == rows[Min(holding)] IN [op |-> row.op, format |-> row.format]

----------------------------------------------------------------------------
(* The fields of the formats; OpFormatSize in bytes.                         *)
Fields1(h) == [opcode |-> Opcode(h), reg1 |-> Reg1(h), reg2 |-> Reg2(h)]
Fields2(h) == [opcode |-> Opcode(h), imm |-> Slice(h, 4, 0), reg2 |-> Reg2(h)]
Fields3(h) ==
  [opcode |-> Slice(h, 10, 7), disp |-> Slice(h, 15, 11) * 8 + Slice(h, 6, 4), cond |-> Slice(h, 3, 0)]
Fields4(h) ==
  [opcode1 |-> Slice(h, 10, 7), disp1 |-> Slice(h, 6, 1), gen |-> At(h, 0), reg2 |-> Reg2(h),
   opcode2 |-> Slice(h, 10, 4), disp2 |-> Slice(h, 3, 0)]

(* Were the upper bits of the displacement taken with the mask of a register:*)
Fields5Narrow(h) ==
  [opcode |-> Slice(h, 10, 6), reg2 |-> Reg2(h), disp |-> Slice(h, 4, 0) * 2 ^ 16 + h[2]]
Fields5(h) ==
  [opcode |-> Slice(h, 10, 6), reg2 |-> Reg2(h), disp |-> Slice(h, 5, 0) * 2 ^ 16 + h[2]]
Fields6(h) == [opcode |-> Opcode(h), reg1 |-> Reg1(h), reg2 |-> Reg2(h), imm |-> h[2]]
Fields7(h) ==
  [opcode |-> Opcode(h), reg1 |-> Reg1(h), reg2 |-> Reg2(h), disp |-> Slice(h, 31, 17), gen |-> At(h, 16)]
Fields8(h) ==
  [opcode |-> Opcode(h), sub |-> Slice(h, 15, 14), bit |-> Slice(h, 13, 11), reg1 |-> Reg1(h),
   disp |-> IF h[2] < 2 ^ 15 THEN h[2] ELSE h[2] - 2 ^ 16]
Fields9(h) ==
  [opcode |-> Opcode(h), reg2 |-> Reg2(h), gen |-> Reg1(h), rfu1 |-> Slice(h, 20, 17),
   rfu2 |-> Reg3(h), sub |-> Slice(h, 26, 21)]
Fields10(h) ==
  [opcode |-> Opcode(h), rfu1 |-> Slice(h, 12, 11), gen1 |-> Slice(h, 15, 13), gen2 |-> Reg1(h),
   rfu2 |-> Reg3(h), rfu3 |-> Slice(h, 20, 17), sub |-> Slice(h, 26, 21)]
Fields11(h) ==
  [opcode |-> Opcode(h), reg1 |-> Reg1(h), reg2 |-> Reg2(h), reg3 |-> Reg3(h),
   sub1 |-> Slice(h, 26, 21), rfu |-> Slice(h, 20, 18), sub2 |-> At(h, 17)]

Fields12(h) ==
  [opcode |-> Opcode(h), reg2 |-> Reg2(h), reg3 |-> Reg3(h), imml |-> Slice(h, 4, 0),
   immh |-> Slice(h, 22, 18), sub1 |-> Slice(h, 26, 23), sub2 |-> At(h, 17)]

(* The register that each of the bits 0 and 21 to 31 lists.                  *)
ListBit == 30 :> 0 @@ 31 :> 21 @@ 29 :> 22 @@ 28 :> 23 @@ 23 :> 24 @@ 22 :> 25 @@ 21 :> 26
           @@ 20 :> 27 @@ 27 :> 28 @@ 26 :> 29 @@ 25 :> 30 @@ 24 :> 31
Fields13(h) ==
  [opcode |-> Slice(h, 10, 6), rfu |-> Slice(h, 15, 11), imm |-> Slice(h, 5, 1),
   gen |-> Slice(h, 20, 16), list |-> {n \in DOMAIN ListBit : At(h, ListBit[n]) = 1}]
Fields14(h) ==
  [sub1 |-> Slice(h, 15, 11), opcode |-> Opcode(h), reg1 |-> Reg1(h), reg3 |-> Reg3(h),
   disp_low |-> Slice(h, 26, 20), sub2 |-> Slice(h, 19, 16), disp_high |-> h[3]]
FieldsF(h) ==
  [reg2 |-> Reg2(h), opcode |-> Opcode(h), reg1 |-> Reg1(h), reg3 |-> Reg3(h),
   subopcode |-> Slice(h, 25, 16)]

Fields(format, h) ==
  CASE format = 1  -> Fields1(h)  [] format = 2  -> Fields2(h)  [] format = 3  -> Fields3(h)
    [] format = 4  -> Fields4(h)  [] format = 5  -> Fields5(h)  [] format = 6  -> Fields6(h)
    [] format = 7  -> Fields7(h)  [] format = 8  -> Fields8(h)  [] format = 9  -> Fields9(h)
    [] format = 10 -> Fields10(h) [] format = 11 -> Fields11(h) [] format = 12 -> Fields12(h)
    [] format = 13 -> Fields13(h) [] format = 14 -> Fields14(h) [] format = F  -> FieldsF(h)

OpFormatSize == <<2, 2, 2, 2, 4, 4, 4, 4, 4, 4, 4, 4, 4, 6, 4>>

(* op_parse: what is read from memory becomes an operation with its fields.  *)
Decode(h) ==
  LET parsed == Parse(h)
  IN [op     |-> parsed.op, format |-> parsed.format,
      fields |-> IF parsed.format = 0 THEN << >> ELSE Fields(parsed.format, h)]
=============================================================================
