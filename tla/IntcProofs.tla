----------------------------- MODULE IntcProofs -----------------------------
(***************************************************************************)
(* What holds of Intc for every number of cores, interrupts and levels.    *)
(* The inductive invariant is TypeOK with four facts about the interrupts  *)
(* that wait and those in service; they need one another: the end of an    *)
(* interrupt keeps the count right because what is in service waits, and   *)
(* it keeps that because the order of the keys tells the interrupts apart. *)
(***************************************************************************)
EXTENDS Intc, FiniteSetTheorems, SequenceTheorems, WellFoundedInduction, TLAPS

(* A set of natural numbers that is not empty has a least element.             *)
LEMMA LeastNatural ==
  ASSUME NEW T, T \subseteq Nat, T # {}
  PROVE  \E x \in T : \A y \in T : x <= y
<1>1. PICK x \in T : \A y \in T : ~ (<<y, x>> \in OpToRel(<, Nat))
  BY NatLessThanWellFounded, WFMin
<1>2. \A y \in T : ~ (y < x)
  BY <1>1 DEF OpToRel
<1> QED
  BY <1>2

(* INTC_NUM is a number.                                                       *)
LEMMA IntsFinite == IsFiniteSet(Ints)
  BY FS_Interval, IntcAssumption DEF Ints

(* The part of the invariant that speaks of the interrupts alone.              *)
Structure == WaitCount /\ ServiceWaits /\ NestingOrder /\ IsprInService

(* The inductive invariant.                                                    *)
IInv == TypeOK /\ Structure

(* tmp_lvl orders interrupts by level, then by default priority (intc.c:256).  *)
LEMMA KeyOrder ==
  ASSUME TypeOK, NEW c \in Cores, NEW i \in Ints, NEW j \in Ints
  PROVE  /\ Key(c, i) \in Nat
         /\ Key(c, i) = Key(c, j) => i = j
         /\ Key(c, i) < Key(c, j) <=>
              wlvl[c][i] < wlvl[c][j] \/ (wlvl[c][i] = wlvl[c][j] /\ i < j)
<1>1. \A k \in Ints : k \in Int /\ 0 <= k /\ k < 65536
  BY IntcAssumption DEF Ints
<1>2. wlvl[c][i] \in Nat /\ wlvl[c][j] \in Nat
  BY IntcAssumption DEF TypeOK
<1>3. ASSUME NEW a \in Nat, NEW b \in Nat, NEW m \in Int, NEW n \in Int,
             0 <= m, m < 65536, 0 <= n, n < 65536
      PROVE  /\ a * 65536 + m \in Nat
             /\ a * 65536 + m = b * 65536 + n => m = n
             /\ a < b => a * 65536 + m < b * 65536 + n
             /\ b < a => b * 65536 + n < a * 65536 + m
  BY <1>3
<1> QED
  BY <1>1, <1>2, <1>3 DEF Key

(* get_maxpri_itno finds the candidate with the least key.                     *)
LEMMA BestIsLeast ==
  ASSUME TypeOK, NEW c \in Cores, Candidates(c) # {}
  PROVE  /\ Best(c) \in Candidates(c)
         /\ \A j \in Candidates(c) : Key(c, Best(c)) <= Key(c, j)
<1> DEFINE T == {Key(c, i) : i \in Candidates(c)}
<1>1. T \subseteq Nat /\ T # {}
  BY KeyOrder DEF Candidates
<1>2. PICK x \in T : \A y \in T : x <= y
  BY <1>1, LeastNatural
<1>3. \E i \in Candidates(c) : \A j \in Candidates(c) : Key(c, i) <= Key(c, j)
  BY <1>2
<1> QED
  BY <1>3 DEF Best

-----------------------------------------------------------------------------
(* The interrupts that wait on core c, which WaitCount counts.                 *)
WaitSet(c) == {i \in Ints : Waits(c, i)}

(* Cardinality counts it.                                                      *)
LEMMA WaitSetFinite ==
  ASSUME NEW c \in Cores
  PROVE  IsFiniteSet(WaitSet(c)) /\ Cardinality(WaitSet(c)) \in Nat
  BY IntsFinite, FS_Subset, FS_CardinalityType DEF WaitSet

(* An interrupt that waits is counted.                                         *)
LEMMA WaitingIsCounted ==
  ASSUME WaitCount, NEW c \in Cores, NEW i \in Ints, Waits(c, i)
  PROVE  wtotal[c] \in Nat /\ wtotal[c] > 0
<1>1. wtotal[c] = Cardinality(WaitSet(c))
  BY DEF WaitCount, WaitSet
<1>2. WaitSet(c) # {}
  BY DEF WaitSet
<1> QED
  BY <1>1, <1>2, WaitSetFinite, FS_EmptySet

(* The values of an xxICn register.                                            *)
ICs == [xif : BOOLEAN, mk : BOOLEAN, pr : Lvls]

(* set_wait_intno keeps the types of what it writes.                           *)
LEMMA SetWaitType ==
  ASSUME TypeOK, NEW S, NEW i \in Ints, SetWait(S, i)
  PROVE  /\ wlvl'   \in [Cores -> [Ints -> 0 .. NumLvl]]
         /\ wnum'   \in [Cores -> [Ints -> {0, 1}]]
         /\ wtotal' \in [Cores -> Nat]
<1>1. \A c \in Cores : ic[c][i].pr \in 0 .. NumLvl
  BY IntcAssumption DEF TypeOK, Lvls
<1> QED
  BY <1>1 DEF TypeOK, SetWait

(* clr_wait_intno does too; its total stays a natural number because what is   *)
(* cleared was counted.                                                        *)
LEMMA ClrWaitType ==
  ASSUME TypeOK, WaitCount, NEW c \in Cores, NEW i \in Ints, ClrWait(c, i)
  PROVE  /\ wlvl'   \in [Cores -> [Ints -> 0 .. NumLvl]]
         /\ wnum'   \in [Cores -> [Ints -> {0, 1}]]
         /\ wtotal' \in [Cores -> Nat]
<1>1. CASE wnum[c][i] > 0
  <2>1. wnum[c][i] = 1 /\ Waits(c, i)
    <3>1. wnum[c][i] \in {0, 1}
      BY DEF TypeOK
    <3>2. wnum[c][i] = 1
      BY <1>1, <3>1
    <3> QED
      BY <3>2 DEF WaitCount
  <2>2. wtotal[c] - 1 \in Nat
    BY <2>1, WaitingIsCounted
  <2>3. NumLvl \in 0 .. NumLvl
    BY IntcAssumption
  <2>4. /\ wnum'   = [wnum EXCEPT ![c][i] = 0]
        /\ wlvl'   = [wlvl EXCEPT ![c][i] = NumLvl]
        /\ wtotal' = [wtotal EXCEPT ![c] = wtotal[c] - 1]
    BY <2>1 DEF ClrWait, TypeOK
  <2> QED
    BY <2>2, <2>3, <2>4 DEF TypeOK
<1>2. CASE ~ (wnum[c][i] > 0)
  BY <1>2 DEF TypeOK, ClrWait, waiting
<1> QED
  BY <1>1, <1>2

(* So does intc_clr_currlvl_ispr.                                              *)
LEMMA EndServiceType ==
  ASSUME TypeOK, WaitCount, NEW c \in Cores, EndService(c)
  PROVE  /\ cur'    \in [Cores -> Ints \cup {-1}]
         /\ stack'  \in [Cores -> Seq(Ints)]
         /\ wlvl'   \in [Cores -> [Ints -> 0 .. NumLvl]]
         /\ wnum'   \in [Cores -> [Ints -> {0, 1}]]
         /\ wtotal' \in [Cores -> Nat]
         /\ ispr'   \in [Cores -> SUBSET Lvls]
         /\ EndedIC(c) \in [Ints -> ICs]
<1>1. CASE cur[c] = -1
  BY <1>1 DEF TypeOK, EndService, EndedIC, service, waiting, ICs
<1>2. CASE cur[c] # -1
  <2>1. cur[c] \in Ints /\ ClrWait(c, cur[c])
    BY <1>2 DEF TypeOK, EndService
  <2>2. /\ wlvl'   \in [Cores -> [Ints -> 0 .. NumLvl]]
        /\ wnum'   \in [Cores -> [Ints -> {0, 1}]]
        /\ wtotal' \in [Cores -> Nat]
    BY <2>1, ClrWaitType
  <2>3. ispr' \in [Cores -> SUBSET Lvls]
    <3>1. ispr' = [ispr EXCEPT ![c] = @ \ {wlvl[c][cur[c]]}]
      BY <1>2 DEF EndService
    <3>2. ispr \in [Cores -> SUBSET Lvls]
      BY DEF TypeOK
    <3> QED
      BY <3>1, <3>2
  <2>4. EndedIC(c) \in [Ints -> ICs]
    <3>1. ic[c] \in [Ints -> ICs]
      BY DEF TypeOK, ICs
    <3>2. [ic[c][cur[c]] EXCEPT !.xif = FALSE] \in ICs
      BY <2>1, <3>1 DEF ICs
    <3> QED
      BY <1>2, <2>1, <3>1, <3>2 DEF EndedIC
  <2>5. cur' \in [Cores -> Ints \cup {-1}] /\ stack' \in [Cores -> Seq(Ints)]
    <3>1. stack[c] \in Seq(Ints)
      BY DEF TypeOK
    <3>2. CASE stack[c] = <<>>
      BY <1>2, <3>2 DEF TypeOK, EndService
    <3>3. CASE stack[c] # <<>>
      <4>1. Len(stack[c]) \in Nat \ {0}
        BY <3>1, <3>3, EmptySeq
      <4>2. stack[c][Len(stack[c])] \in Ints
        BY <3>1, <4>1, ElementOfSeq
      <4>3. SubSeq(stack[c], 1, Len(stack[c]) - 1) \in Seq(Ints)
        <5>1. \A k \in 1 .. Len(stack[c]) - 1 : stack[c][k] \in Ints
          BY <3>1, <4>1, ElementOfSeq
        <5> QED
          BY <5>1, <4>1, SubSeqProperties
      <4> QED
        BY <1>2, <3>3, <4>2, <4>3 DEF TypeOK, EndService
    <3> QED
      BY <3>2, <3>3
  <2> QED
    BY <2>2, <2>3, <2>4, <2>5
<1> QED
  BY <1>1, <1>2

-----------------------------------------------------------------------------
(* Type correctness, one lemma for each kind of action.                        *)

(* After the reset every variable has its type.                                *)
LEMMA InitType == Init => TypeOK
<1> SUFFICES ASSUME Init PROVE TypeOK
  OBVIOUS
<1>1. NumLvl \in 0 .. NumLvl /\ NumLvl - 1 \in Lvls /\ 0 \in - MaxNmi - 1 .. MaxNmi
  BY IntcAssumption DEF Lvls
<1>2. <<>> \in Seq(Ints)
  BY EmptySeq
<1> QED
  BY <1>1, <1>2 DEF Init, TypeOK, AllCores, AllInts, ResetIC, ResetPsw, NoBits, PswBits

(* The device clock keeps the types.                                           *)
LEMMA SupplyClockType == ASSUME TypeOK, SupplyClock PROVE TypeOK'
<1>1. \A c \in Cores : TakesInt(c) => /\ Best(c) \in Ints
                                      /\ wlvl[c][Best(c)] \in Lvls
  <2> SUFFICES ASSUME NEW c \in Cores, TakesInt(c)
               PROVE  Best(c) \in Ints /\ wlvl[c][Best(c)] \in Lvls
    OBVIOUS
  <2>1. Best(c) \in Ints /\ wlvl[c][Best(c)] # NumLvl
    BY BestIsLeast DEF TakesInt, Candidates, Waits
  <2> QED
    BY <2>1, IntcAssumption DEF TypeOK, Lvls
<1>2. cur' \in [Cores -> Ints \cup {-1}]
  BY <1>1 DEF TypeOK, SupplyClock
<1>3. stack' \in [Cores -> Seq(Ints)]
  <2>1. \A c \in Cores : cur[c] # -1 => Append(stack[c], cur[c]) \in Seq(Ints)
    BY AppendProperties DEF TypeOK
  <2> QED
    BY <2>1 DEF TypeOK, SupplyClock
<1>4. ispr' \in [Cores -> SUBSET Lvls]
  BY <1>1 DEF TypeOK, SupplyClock
<1>5. /\ psw'   \in [Cores -> PswBits]
      /\ eipsw' \in [Cores -> PswBits]
      /\ fepsw' \in [Cores -> PswBits]
  <2>1. FatalPsw \in PswBits
    BY DEF FatalPsw, PswBits
  <2>2. \A c \in Cores : HandlerPsw(c) \in PswBits
    <3>1. \A c \in Cores : psw[c] \in PswBits
      BY DEF TypeOK
    <3> QED
      BY <3>1 DEF HandlerPsw, PswBits
  <2> QED
    BY <2>1, <2>2 DEF TypeOK, SupplyClock
<1>6. halt' \in [Cores -> BOOLEAN]
  BY DEF TypeOK, SupplyClock
<1> QED
  BY <1>2, <1>3, <1>4, <1>5, <1>6 DEF TypeOK, SupplyClock, waiting, request

(* common_raise_intr keeps the types.                                          *)
LEMMA CommonRaiseType ==
  ASSUME TypeOK, NEW S, NEW i \in Ints, CommonRaise(S, i) PROVE TypeOK'
<1>1. ic' \in [Cores -> [Ints -> ICs]]
  <2>1. \A c \in Cores : [ic[c] EXCEPT ![i].xif = TRUE] \in [Ints -> ICs]
    <3>1. \A c \in Cores : ic[c] \in [Ints -> ICs]
      BY DEF TypeOK, ICs
    <3>2. \A x \in ICs : [x EXCEPT !.xif = TRUE] \in ICs
      BY DEF ICs
    <3> QED
      BY <3>1, <3>2
  <2> QED
    BY <2>1 DEF TypeOK, CommonRaise, ICs
<1>2. halt' \in [Cores -> BOOLEAN]
  BY DEF TypeOK, CommonRaise
<1>3. /\ wlvl'   \in [Cores -> [Ints -> 0 .. NumLvl]]
      /\ wnum'   \in [Cores -> [Ints -> {0, 1}]]
      /\ wtotal' \in [Cores -> Nat]
  BY SetWaitType DEF CommonRaise
<1> QED
  BY <1>1, <1>2, <1>3 DEF TypeOK, CommonRaise, service, saved, request, ICs

(* intc_raise_nmi keeps the types.                                             *)
LEMMA RaiseNmiType == ASSUME TypeOK, RaiseNmi PROVE TypeOK'
<1>1. nmi' \in - MaxNmi - 1 .. MaxNmi
  <2>1. nmi \in - MaxNmi - 1 .. MaxNmi /\ MaxNmi \in Nat
    BY IntcAssumption DEF TypeOK
  <2>2. nmi' = nmi \/ (nmi < MaxNmi /\ nmi' = nmi + 1)
    BY DEF RaiseNmi
  <2> QED
    BY <2>1, <2>2
<1>2. wdt' \in BOOLEAN
  BY DEF TypeOK, RaiseNmi
<1> QED
  BY <1>1, <1>2 DEF TypeOK, RaiseNmi, service, waiting, saved

(* device_reset keeps the types.                                               *)
LEMMA DeviceResetType == ASSUME TypeOK, DeviceReset PROVE TypeOK'
<1>1. NumLvl \in 0 .. NumLvl /\ NumLvl - 1 \in Lvls /\ 0 \in - MaxNmi - 1 .. MaxNmi
  BY IntcAssumption DEF Lvls
<1>2. <<>> \in Seq(Ints)
  BY EmptySeq
<1> QED
  BY <1>1, <1>2 DEF DeviceReset, TypeOK, AllCores, AllInts, ResetIC, saved

(* Every write to a register of the controller keeps the types.                *)
LEMMA RegisterWriteType ==
  ASSUME TypeOK, WaitCount, NEW c \in Cores, RegisterWrite(c) PROVE TypeOK'
<1>1. ASSUME NEW i \in Ints, NEW v \in ICValues, WriteIC8(c, i, v) PROVE TypeOK'
  <2>1. EndService(c)
    BY <1>1 DEF WriteIC8
  <2>2. ic' \in [Cores -> [Ints -> ICs]]
    <3>1. v \in ICs /\ EndedIC(c) \in [Ints -> ICs]
      BY <2>1, EndServiceType, IntcAssumption DEF ICs
    <3> QED
      BY <1>1, <3>1 DEF TypeOK, WriteIC8, ICs
  <2> QED
    BY <1>1, <2>1, <2>2, EndServiceType DEF TypeOK, WriteIC8, saved, request, ICs
<1>2. ASSUME WriteIC8Upper(c) PROVE TypeOK'
  <2>1. EndService(c)
    BY <1>2 DEF WriteIC8Upper
  <2>2. ic' \in [Cores -> [Ints -> ICs]]
    <3>1. EndedIC(c) \in [Ints -> ICs]
      BY <2>1, EndServiceType
    <3> QED
      BY <1>2, <3>1 DEF TypeOK, WriteIC8Upper, ICs
  <2> QED
    BY <1>2, <2>1, <2>2, EndServiceType DEF TypeOK, WriteIC8Upper, saved, request, ICs
<1>3. ASSUME ic' \in [Cores -> [Ints -> ICs]],
             UNCHANGED <<service, waiting, psw, saved, halt, request>>
      PROVE  TypeOK'
  BY <1>3 DEF TypeOK, service, waiting, saved, request, ICs
<1>4. ASSUME NEW i \in Ints, NEW v \in ICValues, WriteIC16(c, i, v) PROVE TypeOK'
  <2>1. v \in ICs
    BY IntcAssumption DEF ICs
  <2>2. ic' \in [Cores -> [Ints -> ICs]]
    BY <1>4, <2>1 DEF TypeOK, WriteIC16, ICs
  <2> QED
    BY <1>3, <1>4, <2>2 DEF WriteIC16
<1>5. ASSUME NEW i \in Ints, NEW v \in ICValues, NEW w \in ICValues, WriteIC32(c, i, v, w)
      PROVE TypeOK'
  <2>1. v \in ICs /\ w \in ICs
    BY IntcAssumption DEF ICs
  <2>2. ic' \in [Cores -> [Ints -> ICs]]
    BY <1>5, <2>1 DEF TypeOK, WriteIC32, ICs
  <2> QED
    BY <1>3, <1>5, <2>2 DEF WriteIC32
<1>6. ASSUME NEW r, NEW d, NEW n, WriteIMR(c, r, d, n) PROVE TypeOK'
  <2>1. \A i \in Ints : [ic[c][i] EXCEPT !.mk = (i - ImrWidth * r) \in d] \in ICs
    <3>1. \A i \in Ints : ic[c][i] \in ICs
      BY DEF TypeOK, ICs
    <3>2. ASSUME NEW x \in ICs, NEW k
          PROVE  [x EXCEPT !.mk = (k \in d)] \in ICs
      <4>1. (k \in d) \in BOOLEAN
        OBVIOUS
      <4>2. \A b \in BOOLEAN : [x EXCEPT !.mk = b] \in ICs
        BY DEF ICs
      <4> QED
        BY ONLY <4>1, <4>2, Zenon
    <3> QED
      BY <3>1, <3>2
  <2>2. ic' \in [Cores -> [Ints -> ICs]]
    BY <1>6, <2>1 DEF TypeOK, WriteIMR, ICs
  <2> QED
    BY <1>3, <1>6, <2>2 DEF WriteIMR
<1> QED
  BY <1>1, <1>2, <1>4, <1>5, <1>6 DEF RegisterWrite, WriteIMR8, WriteIMR16

(* An instruction that writes no register of the controller.                   *)
CoreInstruction(c) ==
  DiEi(c) \/ Halt(c) \/ Trap(c) \/ FeTrap(c) \/ IllegalOpcodeTrap(c)
    \/ EiReturn(c) \/ FeRet(c) \/ NmiReturn(c)

(* Every other instruction keeps the types.                                    *)
LEMMA CoreInstructionType ==
  ASSUME TypeOK, NEW c \in Cores, CoreInstruction(c) PROVE TypeOK'
<1>1. /\ NoBits \in PswBits /\ ResetPsw \in PswBits
      /\ [np |-> TRUE, id |-> TRUE, ep |-> TRUE] \in PswBits
  BY DEF NoBits, ResetPsw, PswBits
<1>2. /\ psw'   \in [Cores -> PswBits]
      /\ eipsw' \in [Cores -> PswBits]
      /\ fepsw' \in [Cores -> PswBits]
  <2> psw[c] \in PswBits
    BY DEF TypeOK
  <2>1. \A b \in BOOLEAN : [psw[c] EXCEPT !.id = b] \in PswBits
    BY DEF PswBits
  <2>2. [psw[c] EXCEPT !.ep = TRUE, !.id = TRUE] \in PswBits
    BY DEF PswBits
  <2>3. CASE DiEi(c)
    BY <2>1, <2>3 DEF TypeOK, DiEi, saved
  <2>4. CASE Halt(c)
    BY <2>4 DEF TypeOK, Halt, saved
  <2>5. CASE Trap(c)
    BY <2>2, <2>5 DEF TypeOK, Trap
  <2>6. CASE FeTrap(c)
    BY <1>1, <2>6 DEF TypeOK, FeTrap
  <2>7. CASE IllegalOpcodeTrap(c)
    BY <1>1, <2>7 DEF TypeOK, IllegalOpcodeTrap
  <2>8. CASE EiReturn(c)
    BY <2>8 DEF TypeOK, EiReturn, saved
  <2>9. CASE FeRet(c)
    BY <2>9 DEF TypeOK, FeRet, saved
  <2>10. CASE NmiReturn(c)
    <3>1. \/ /\ psw' = [psw EXCEPT ![c] = ResetPsw]
             /\ eipsw' = [eipsw EXCEPT ![c] = NoBits]
             /\ fepsw' = [fepsw EXCEPT ![c] = NoBits]
          \/ psw' = [psw EXCEPT ![c] = fepsw[c]] /\ eipsw' = eipsw /\ fepsw' = fepsw
      BY <2>10 DEF NmiReturn, saved
    <3>2. /\ psw \in [Cores -> PswBits] /\ eipsw \in [Cores -> PswBits]
          /\ fepsw \in [Cores -> PswBits]
      BY DEF TypeOK
    <3> QED
      BY <1>1, <3>1, <3>2
  <2> QED
    BY <2>3, <2>4, <2>5, <2>6, <2>7, <2>8, <2>9, <2>10 DEF CoreInstruction
<1>3. halt' \in [Cores -> BOOLEAN]
  BY DEF TypeOK, CoreInstruction, DiEi, Halt, Trap, FeTrap, IllegalOpcodeTrap, EiReturn,
         FeRet, NmiReturn
<1>4. nmi' \in - MaxNmi - 1 .. MaxNmi
  BY IntcAssumption DEF TypeOK, CoreInstruction, DiEi, Halt, Trap, FeTrap, IllegalOpcodeTrap,
         EiReturn, FeRet, NmiReturn, request
<1>5. wdt' = wdt /\ UNCHANGED <<service, waiting, ic>>
  BY DEF CoreInstruction, DiEi, Halt, Trap, FeTrap, IllegalOpcodeTrap, EiReturn, FeRet,
         NmiReturn, request
<1> QED
  BY <1>2, <1>3, <1>4, <1>5 DEF TypeOK, service, waiting

(* Every step keeps the types.                                                 *)
LEMMA NextType == ASSUME TypeOK, WaitCount, [Next]_vars PROVE TypeOK'
<1>1. CASE SupplyClock
  BY <1>1, SupplyClockType
<1>2. ASSUME NEW i \in Sources, RaiseIntr(i) PROVE TypeOK'
  BY <1>2, CommonRaiseType, IntcAssumption DEF RaiseIntr
<1>3. CASE RaiseNmi
  BY <1>3, RaiseNmiType
<1>4. CASE DeviceReset
  BY <1>4, DeviceResetType
<1>5. ASSUME NEW c \in Cores, Instruction(c) PROVE TypeOK'
  <2>1. ASSUME NEW i \in MirInts, CpuTrigger(c, i) PROVE TypeOK'
    BY <2>1, CommonRaiseType, IntcAssumption DEF CpuTrigger
  <2> QED
    BY <1>5, <2>1, RegisterWriteType, CoreInstructionType DEF Instruction, CoreInstruction
<1>6. CASE UNCHANGED vars
  BY <1>6 DEF TypeOK, vars
<1> QED
  BY <1>1, <1>2, <1>3, <1>4, <1>5, <1>6 DEF Next

-----------------------------------------------------------------------------
(* The structure of the interrupts in service and of those that wait.          *)

(* Interrupts in service are interrupt numbers.                                *)
LEMMA InServiceType ==
  ASSUME TypeOK, NEW c \in Cores
  PROVE  /\ InService(c) \subseteq Ints
         /\ \A k \in 1 .. Len(stack[c]) : stack[c][k] \in InService(c) \cap Ints
         /\ cur[c] # -1 => cur[c] \in InService(c) \cap Ints
         /\ Len(stack[c]) \in Nat
<1>1. stack[c] \in Seq(Ints) /\ cur[c] \in Ints \cup {-1}
  BY DEF TypeOK
<1>2. Len(stack[c]) \in Nat /\ \A k \in 1 .. Len(stack[c]) : stack[c][k] \in Ints
  BY <1>1, LenProperties, ElementOfSeq
<1> QED
  BY <1>1, <1>2 DEF InService

(* After the reset nothing waits and nothing is in service.                    *)
LEMMA InitStructure == Init => Structure
<1> SUFFICES ASSUME Init PROVE Structure
  OBVIOUS
<1>1. ASSUME NEW c \in Cores
      PROVE  /\ cur[c] = -1 /\ stack[c] = <<>> /\ Len(stack[c]) = 0 /\ ispr[c] = {}
             /\ InService(c) = {} /\ WaitSet(c) = {} /\ wtotal[c] = 0
             /\ \A i \in Ints : wlvl[c][i] = NumLvl /\ wnum[c][i] = 0
  <2>1. /\ cur[c] = -1 /\ stack[c] = <<>> /\ ispr[c] = {} /\ wtotal[c] = 0
        /\ \A i \in Ints : wlvl[c][i] = NumLvl /\ wnum[c][i] = 0
    BY DEF Init, AllCores, AllInts
  <2>2. Len(stack[c]) = 0
    BY <2>1, EmptySeq
  <2> QED
    BY <2>1, <2>2 DEF InService, WaitSet, Waits
<1>2. WaitCount
  <2>1. ASSUME NEW c \in Cores
        PROVE  /\ \A i \in Ints : wnum[c][i] = 1 <=> Waits(c, i)
               /\ wtotal[c] = Cardinality(WaitSet(c))
    BY <1>1, FS_EmptySet DEF Waits
  <2> QED
    BY <2>1 DEF WaitCount, WaitSet
<1> QED
  BY <1>1, <1>2 DEF Structure, ServiceWaits, NestingOrder, IsprInService

(* A step that leaves the bookkeeping alone keeps the structure.               *)
LEMMA StructureFrame ==
  ASSUME Structure, UNCHANGED <<service, waiting>> PROVE Structure'
<1> USE DEF service, waiting
<1>1. WaitCount'
  BY DEF Structure, WaitCount, Waits
<1>2. ServiceWaits'
  BY DEF Structure, ServiceWaits, InService, Waits
<1>3. NestingOrder'
  BY DEF Structure, NestingOrder, Key
<1>4. IsprInService'
  BY DEF Structure, IsprInService, InService
<1> QED
  BY <1>1, <1>2, <1>3, <1>4 DEF Structure

(* Where the interrupts in service and the levels of those that wait stay as   *)
(* they are, so does the order of the interrupts in service.                   *)
LEMMA OrderFrame ==
  ASSUME TypeOK, ServiceWaits, NestingOrder, IsprInService,
         NEW c \in Cores,
         cur'[c] = cur[c], stack'[c] = stack[c], ispr'[c] = ispr[c],
         \A i \in Ints : Waits(c, i) => wlvl'[c][i] = wlvl[c][i]
  PROVE  /\ \A i \in InService(c)' : Waits(c, i)'
         /\ (cur[c] = -1 => stack[c] = <<>>)'
         /\ (\A j, k \in 1 .. Len(stack[c]) :
               j < k => Key(c, stack[c][k]) < Key(c, stack[c][j]))'
         /\ (\A k \in 1 .. Len(stack[c]) : Key(c, cur[c]) < Key(c, stack[c][k]))'
         /\ (ispr[c] \subseteq {wlvl[c][i] : i \in InService(c)})'
<1>1. InService(c)' = InService(c)
  BY DEF InService
<1>2. \A i \in InService(c) : i \in Ints /\ wlvl'[c][i] = wlvl[c][i]
  BY InServiceType DEF ServiceWaits
<1>3. \A i \in InService(c) : Key(c, i)' = Key(c, i) /\ Waits(c, i)'
  BY <1>2 DEF Key, Waits, ServiceWaits
<1>4. \A k \in 1 .. Len(stack[c]) : stack[c][k] \in InService(c) /\ cur[c] \in InService(c)
  <2> SUFFICES ASSUME NEW k \in 1 .. Len(stack[c])
               PROVE  stack[c][k] \in InService(c) /\ cur[c] \in InService(c)
    OBVIOUS
  <2>1. Len(stack[c]) # 0
    BY InServiceType
  <2>2. stack[c] # <<>>
    BY <2>1, EmptySeq
  <2> QED
    BY <2>2, InServiceType DEF NestingOrder
<1>5. (ispr[c] \subseteq {wlvl[c][i] : i \in InService(c)})'
  BY <1>1, <1>2 DEF IsprInService
<1>6. \A i, j \in InService(c) : Key(c, i) < Key(c, j) => (Key(c, i) < Key(c, j))'
  BY <1>3
<1> QED
  BY <1>1, <1>3, <1>4, <1>5, <1>6 DEF NestingOrder

(* A request keeps the structure (set_wait_intno).                             *)
LEMMA SetWaitStructure ==
  ASSUME IInv, NEW S, NEW i \in Ints, SetWait(S, i), UNCHANGED service
  PROVE  Structure'
<1> USE DEF IInv, Structure
<1>1. ASSUME NEW c \in Cores
      PROVE  /\ \A j \in Ints : Waits(c, j) => wlvl'[c][j] = wlvl[c][j]
             /\ c \in S /\ ~ Waits(c, i) =>
                  /\ WaitSet(c)' = WaitSet(c) \cup {i}
                  /\ wtotal'[c] = wtotal[c] + 1
                  /\ \A j \in Ints : wnum'[c][j] = IF j = i THEN 1 ELSE wnum[c][j]
             /\ c \notin S \/ Waits(c, i) =>
                  /\ WaitSet(c)' = WaitSet(c)
                  /\ wtotal'[c] = wtotal[c]
                  /\ wnum'[c] = wnum[c]
  <2>1. ic[c][i].pr # NumLvl
    BY IntcAssumption DEF TypeOK, Lvls
  <2>2. CASE c \in S /\ ~ Waits(c, i)
    <3>1. /\ wlvl'[c] = [wlvl[c] EXCEPT ![i] = ic[c][i].pr]
          /\ wnum'[c] = [wnum[c] EXCEPT ![i] = 1]
          /\ wtotal'[c] = wtotal[c] + 1
      BY <2>2 DEF SetWait
    <3>2. wlvl[c] \in [Ints -> 0 .. NumLvl] /\ wnum[c] \in [Ints -> {0, 1}]
      BY DEF TypeOK
    <3> QED
      BY <2>1, <2>2, <3>1, <3>2 DEF WaitSet, Waits
  <2>3. CASE ~ (c \in S /\ ~ Waits(c, i))
    <3>1. wlvl'[c] = wlvl[c] /\ wnum'[c] = wnum[c] /\ wtotal'[c] = wtotal[c]
      BY <2>3 DEF SetWait
    <3> QED
      BY <2>3, <3>1 DEF WaitSet, Waits
  <2> QED
    BY <2>2, <2>3
<1>2. WaitCount'
  <2> SUFFICES ASSUME NEW c \in Cores
               PROVE  /\ \A j \in Ints : wnum'[c][j] = 1 <=> j \in WaitSet(c)'
                      /\ wtotal'[c] = Cardinality(WaitSet(c)')
    BY DEF WaitCount, WaitSet
  <2>1. /\ \A j \in Ints : wnum[c][j] = 1 <=> j \in WaitSet(c)
        /\ wtotal[c] = Cardinality(WaitSet(c))
    BY DEF WaitCount, WaitSet
  <2>2. CASE c \in S /\ ~ Waits(c, i)
    <3>1. i \notin WaitSet(c)
      BY <2>2 DEF WaitSet
    <3>2. Cardinality(WaitSet(c) \cup {i}) = Cardinality(WaitSet(c)) + 1
      BY <3>1, WaitSetFinite, FS_AddElement
    <3> QED
      BY <1>1, <2>1, <2>2, <3>1, <3>2
  <2>3. CASE ~ (c \in S /\ ~ Waits(c, i))
    BY <1>1, <2>1, <2>3
  <2> QED
    BY <2>2, <2>3
<1>3. cur' = cur /\ stack' = stack /\ ispr' = ispr
  BY DEF service
<1>4. ServiceWaits' /\ NestingOrder' /\ IsprInService'
  BY <1>1, <1>3, OrderFrame DEF ServiceWaits, NestingOrder, IsprInService
<1> QED
  BY <1>2, <1>4

(* What the end of the interrupt in service does, with the facts that the      *)
(* invariant gives about it.                                                   *)
LEMMA EndServiceFacts ==
  ASSUME IInv, NEW c \in Cores, cur[c] # -1, EndService(c)
  PROVE  /\ cur[c] \in Ints /\ Waits(c, cur[c])
         /\ \A k \in 1 .. Len(stack[c]) : stack[c][k] # cur[c]
         /\ wlvl'   = [wlvl EXCEPT ![c][cur[c]] = NumLvl]
         /\ wnum'   = [wnum EXCEPT ![c][cur[c]] = 0]
         /\ wtotal' = [wtotal EXCEPT ![c] = wtotal[c] - 1]
         /\ ispr'   = [ispr EXCEPT ![c] = ispr[c] \ {wlvl[c][cur[c]]}]
         /\ \A d \in Cores \ {c} : cur'[d] = cur[d] /\ stack'[d] = stack[d]
         /\ \/ /\ stack[c] = <<>> /\ stack'[c] = <<>> /\ cur'[c] = -1
            \/ /\ Len(stack[c]) >= 1
               /\ Len(stack'[c]) = Len(stack[c]) - 1
               /\ \A k \in 1 .. Len(stack[c]) - 1 : stack'[c][k] = stack[c][k]
               /\ cur'[c] = stack[c][Len(stack[c])]
<1> USE DEF IInv, Structure
<1>1. cur[c] \in InService(c) \cap Ints
  BY InServiceType
<1>2. Waits(c, cur[c])
  BY <1>1 DEF ServiceWaits
<1>3. wnum[c][cur[c]] = 1
  BY <1>1, <1>2 DEF WaitCount
<1>4. \A k \in 1 .. Len(stack[c]) : stack[c][k] # cur[c]
  <2> SUFFICES ASSUME NEW k \in 1 .. Len(stack[c]), stack[c][k] = cur[c] PROVE FALSE
    OBVIOUS
  <2>1. Key(c, cur[c]) < Key(c, cur[c])
    BY DEF NestingOrder
  <2> QED
    BY <1>1, <2>1, KeyOrder
<1>5. /\ wlvl'   = [wlvl EXCEPT ![c][cur[c]] = NumLvl]
      /\ wnum'   = [wnum EXCEPT ![c][cur[c]] = 0]
      /\ wtotal' = [wtotal EXCEPT ![c] = wtotal[c] - 1]
      /\ ispr'   = [ispr EXCEPT ![c] = ispr[c] \ {wlvl[c][cur[c]]}]
  BY <1>3 DEF EndService, ClrWait
<1>6. \A d \in Cores \ {c} : cur'[d] = cur[d] /\ stack'[d] = stack[d]
  BY DEF EndService, TypeOK
<1>7. CASE stack[c] = <<>>
  <2>1. stack'[c] = <<>> /\ cur'[c] = -1
    BY <1>7 DEF EndService, TypeOK
  <2> QED
    BY <1>1, <1>2, <1>4, <1>5, <1>6, <1>7, <2>1
<1>8. CASE stack[c] # <<>>
  <2> DEFINE n == Len(stack[c])
  <2>1. stack[c] \in Seq(Ints) /\ n \in Nat \ {0}
    BY <1>8, EmptySeq DEF TypeOK
  <2>2. stack'[c] = SubSeq(stack[c], 1, n - 1) /\ cur'[c] = stack[c][n]
    BY <1>8 DEF EndService, TypeOK
  <2>3. \A k \in 1 .. n - 1 : stack[c][k] \in Ints
    BY <2>1, ElementOfSeq
  <2>4. /\ Len(SubSeq(stack[c], 1, n - 1)) = IF 1 <= n - 1 THEN (n - 1) - 1 + 1 ELSE 0
        /\ \A k \in 1 .. (n - 1) - 1 + 1 : SubSeq(stack[c], 1, n - 1)[k] = stack[c][1 + k - 1]
    BY <2>1, <2>3, SubSeqProperties
  <2>5. Len(stack'[c]) = n - 1 /\ \A k \in 1 .. n - 1 : stack'[c][k] = stack[c][k]
    BY <2>1, <2>2, <2>4
  <2> QED
    BY <1>1, <1>2, <1>4, <1>5, <1>6, <2>1, <2>2, <2>5
<1> QED
  BY <1>7, <1>8

(* Exactly the interrupt that ends leaves service.                             *)
LEMMA EndServiceInService ==
  ASSUME IInv, NEW c \in Cores, cur[c] # -1, EndService(c)
  PROVE  InService(c)' = InService(c) \ {cur[c]}
<1> DEFINE n == Len(stack[c])
<1>1. /\ n \in Nat
      /\ \A k \in 1 .. n : stack[c][k] \in Ints /\ stack[c][k] # cur[c] /\ stack[c][k] # -1
  BY InServiceType, EndServiceFacts, IntcAssumption DEF IInv, Ints
<1>2. InService(c) \ {cur[c]} = {stack[c][k] : k \in 1 .. n}
  BY <1>1 DEF InService
<1>3. CASE stack[c] = <<>>
  <2>1. n = 0 /\ stack'[c] = <<>> /\ Len(stack'[c]) = 0 /\ cur'[c] = -1
    BY <1>3, EndServiceFacts, EmptySeq
  <2> QED
    BY <1>2, <2>1 DEF InService
<1>4. CASE stack[c] # <<>>
  <2>1. /\ n >= 1 /\ Len(stack'[c]) = n - 1 /\ cur'[c] = stack[c][n] /\ cur'[c] # -1
        /\ \A k \in 1 .. n - 1 : stack'[c][k] = stack[c][k]
    BY <1>1, <1>4, EndServiceFacts
  <2>2. {stack[c][k] : k \in 1 .. n} = {stack'[c][k] : k \in 1 .. n - 1} \cup {cur'[c]}
    BY <1>1, <2>1
  <2> QED
    BY <1>2, <2>1, <2>2 DEF InService
<1> QED
  BY <1>3, <1>4

(* The end of an interrupt keeps the structure (intc_clr_currlvl_ispr).        *)
LEMMA EndServiceStructure ==
  ASSUME IInv, NEW c \in Cores, EndService(c) PROVE Structure'
<1> USE DEF IInv, Structure
<1>1. CASE cur[c] = -1
  BY <1>1, StructureFrame DEF EndService
<1>2. CASE cur[c] # -1
  <2> USE <1>2
  <2>1. WaitCount'
    <3> SUFFICES ASSUME NEW d \in Cores
                 PROVE  /\ \A i \in Ints : wnum'[d][i] = 1 <=> Waits(d, i)'
                        /\ wtotal'[d] = Cardinality(WaitSet(d)')
      BY DEF WaitCount, WaitSet
    <3>1. /\ \A i \in Ints : wnum[d][i] = 1 <=> Waits(d, i)
          /\ wtotal[d] = Cardinality(WaitSet(d))
      BY DEF WaitCount, WaitSet
    <3>2. CASE d = c
      <4>1. \A i \in Ints : /\ wnum'[c][i] = IF i = cur[c] THEN 0 ELSE wnum[c][i]
                            /\ wlvl'[c][i] = IF i = cur[c] THEN NumLvl ELSE wlvl[c][i]
        BY EndServiceFacts DEF TypeOK
      <4>2. WaitSet(c)' = WaitSet(c) \ {cur[c]}
        BY <4>1 DEF WaitSet, Waits
      <4>3. cur[c] \in WaitSet(c)
        BY EndServiceFacts DEF WaitSet
      <4>4. Cardinality(WaitSet(c)') = Cardinality(WaitSet(c)) - 1
        BY <4>2, <4>3, WaitSetFinite, FS_RemoveElement
      <4>5. wtotal'[c] = wtotal[c] - 1
        BY EndServiceFacts DEF TypeOK
      <4> QED
        BY <3>1, <3>2, <4>1, <4>4, <4>5 DEF Waits
    <3>3. CASE d # c
      <4>1. wnum'[d] = wnum[d] /\ wlvl'[d] = wlvl[d] /\ wtotal'[d] = wtotal[d]
        BY <3>3, EndServiceFacts DEF TypeOK
      <4> QED
        BY <3>1, <4>1 DEF WaitSet, Waits
    <3> QED
      BY <3>2, <3>3
  <2>2. ASSUME NEW d \in Cores \ {c}
        PROVE  /\ cur'[d] = cur[d] /\ stack'[d] = stack[d] /\ ispr'[d] = ispr[d]
               /\ \A i \in Ints : Waits(d, i) => wlvl'[d][i] = wlvl[d][i]
    BY EndServiceFacts DEF TypeOK
  <2>3. \A i \in Ints \ {cur[c]} : wlvl'[c][i] = wlvl[c][i]
    BY EndServiceFacts DEF TypeOK
  <2>4. \A k \in 1 .. Len(stack'[c]) : k \in 1 .. Len(stack[c]) /\ stack'[c][k] = stack[c][k]
    <3>1. Len(<<>>) = 0 /\ Len(stack[c]) \in Nat
      BY EmptySeq, InServiceType
    <3>2. CASE stack[c] = <<>>
      <4>1. stack'[c] = <<>>
        BY <3>1, <3>2, EndServiceFacts
      <4> QED
        BY <3>1, <4>1
    <3>3. CASE stack[c] # <<>>
      <4>1. /\ Len(stack'[c]) = Len(stack[c]) - 1
            /\ \A k \in 1 .. Len(stack[c]) - 1 : stack'[c][k] = stack[c][k]
        BY <3>3, EndServiceFacts
      <4> QED
        BY <3>1, <4>1
    <3> QED
      BY <3>2, <3>3
  <2>5. InService(c)' \subseteq InService(c) \ {cur[c]}
    BY EndServiceInService
  <2>6. \A i \in InService(c) \ {cur[c]} : i \in Ints /\ wlvl'[c][i] = wlvl[c][i]
    BY <2>3, InServiceType
  <2>7. \A i \in InService(c) \ {cur[c]} : Key(c, i)' = Key(c, i) /\ Waits(c, i)'
    BY <2>6 DEF Key, Waits, ServiceWaits
  <2>8. ServiceWaits'
    <3> SUFFICES ASSUME NEW d \in Cores PROVE \A i \in InService(d)' : Waits(d, i)'
      BY DEF ServiceWaits
    <3>1. CASE d = c
      BY <2>5, <2>7, <3>1
    <3>2. CASE d # c
      BY <2>2, <3>2, OrderFrame
    <3> QED
      BY <3>1, <3>2
  <2>9. NestingOrder'
    <3> SUFFICES ASSUME NEW d \in Cores
                 PROVE  /\ (cur[d] = -1 => stack[d] = <<>>)'
                        /\ (\A j, k \in 1 .. Len(stack[d]) :
                              j < k => Key(d, stack[d][k]) < Key(d, stack[d][j]))'
                        /\ (\A k \in 1 .. Len(stack[d]) : Key(d, cur[d]) < Key(d, stack[d][k]))'
      BY DEF NestingOrder
    <3>1. CASE d = c
      <4>1. (cur[c] = -1 => stack[c] = <<>>)'
        <5>1. \A k \in 1 .. Len(stack[c]) : stack[c][k] # -1
          BY InServiceType, IntcAssumption DEF Ints
        <5> QED
          BY <5>1, EndServiceFacts, InServiceType
      <4>2. \A k \in 1 .. Len(stack[c]) : stack[c][k] \in InService(c) \ {cur[c]}
        BY InServiceType, EndServiceFacts
      <4>3. ASSUME NEW j \in 1 .. Len(stack'[c]), NEW k \in 1 .. Len(stack'[c]), j < k
            PROVE  (Key(c, stack[c][k]) < Key(c, stack[c][j]))'
        <5>1. /\ j \in 1 .. Len(stack[c]) /\ k \in 1 .. Len(stack[c])
              /\ stack'[c][j] = stack[c][j] /\ stack'[c][k] = stack[c][k]
          BY <2>4, <4>3
        <5>2. Key(c, stack[c][k]) < Key(c, stack[c][j])
          BY <4>3, <5>1 DEF NestingOrder
        <5>3. /\ wlvl'[c][stack[c][k]] = wlvl[c][stack[c][k]]
              /\ wlvl'[c][stack[c][j]] = wlvl[c][stack[c][j]]
          BY <2>6, <4>2, <5>1
        <5> QED
          BY <5>1, <5>2, <5>3 DEF Key
      <4>4. ASSUME NEW k \in 1 .. Len(stack'[c])
            PROVE  (Key(c, cur[c]) < Key(c, stack[c][k]))'
        <5>0. Len(stack[c]) \in Nat
          BY InServiceType
        <5>1. stack[c] # <<>>
          BY <2>4, EmptySeq
        <5> DEFINE n == Len(stack[c])
        <5>2. /\ n >= 1 /\ Len(stack'[c]) = n - 1 /\ cur'[c] = stack[c][n]
              /\ stack'[c][k] = stack[c][k]
          BY <5>1, EndServiceFacts
        <5>3. k \in 1 .. n /\ n \in 1 .. n /\ k < n
          BY <5>0, <5>2
        <5>4. Key(c, stack[c][n]) < Key(c, stack[c][k])
          BY <5>3 DEF NestingOrder
        <5>5. /\ wlvl'[c][stack[c][k]] = wlvl[c][stack[c][k]]
              /\ wlvl'[c][stack[c][n]] = wlvl[c][stack[c][n]]
          BY <2>6, <4>2, <5>3
        <5> QED
          BY <5>2, <5>4, <5>5 DEF Key
      <4> QED
        BY <3>1, <4>1, <4>3, <4>4
    <3>2. CASE d # c
      BY <2>2, <3>2, OrderFrame
    <3> QED
      BY <3>1, <3>2
  <2>10. IsprInService'
    <3> SUFFICES ASSUME NEW d \in Cores
                 PROVE  (ispr[d] \subseteq {wlvl[d][i] : i \in InService(d)})'
      BY DEF IsprInService
    <3>1. CASE d = c
      <4> SUFFICES ASSUME NEW l \in ispr'[c]
                   PROVE  \E i \in InService(c)' : l = wlvl'[c][i]
        BY <3>1
      <4>1. l \in ispr[c] /\ l # wlvl[c][cur[c]]
        BY EndServiceFacts DEF TypeOK
      <4>2. PICK i \in InService(c) : l = wlvl[c][i]
        BY <4>1 DEF IsprInService
      <4>3. i \in InService(c)' /\ i # cur[c]
        BY <4>1, <4>2, EndServiceInService
      <4> QED
        BY <4>1, <4>2, <4>3, <2>6
    <3>2. CASE d # c
      BY <2>2, <3>2, OrderFrame
    <3> QED
      BY <3>1, <3>2
  <2> QED
    BY <2>1, <2>8, <2>9, <2>10
<1> QED
  BY <1>1, <1>2

(* What a device clock does on a core that accepts an interrupt.               *)
LEMMA AcceptFacts ==
  ASSUME IInv, SupplyClock, NEW c \in Cores, TakesInt(c)
  PROVE  /\ cur'[c] = Best(c) /\ cur'[c] \in Ints
         /\ Waits(c, cur'[c])
         /\ ispr'[c] = ispr[c] \cup {wlvl[c][Best(c)]}
         /\ \/ cur[c] = -1 /\ stack[c] = <<>> /\ stack'[c] = <<>>
            \/ /\ cur[c] \in Ints
               /\ Key(c, Best(c)) < Key(c, cur[c])
               /\ Len(stack'[c]) = Len(stack[c]) + 1
               /\ \A k \in 1 .. Len(stack[c]) : stack'[c][k] = stack[c][k]
               /\ stack'[c][Len(stack[c]) + 1] = cur[c]
<1> USE DEF IInv, Structure
<1>1. Best(c) \in Candidates(c)
  BY BestIsLeast DEF TakesInt
<1>2. /\ cur'[c] = Best(c) /\ ispr'[c] = ispr[c] \cup {wlvl[c][Best(c)]}
      /\ stack'[c] = IF cur[c] # -1 THEN Append(stack[c], cur[c]) ELSE stack[c]
  BY DEF SupplyClock
<1>3. Best(c) \in Ints /\ Waits(c, Best(c))
  BY <1>1 DEF Candidates
<1>4. CASE cur[c] = -1
  BY <1>2, <1>3, <1>4 DEF NestingOrder
<1>5. CASE cur[c] # -1
  <2>1. cur[c] \in Ints /\ stack[c] \in Seq(Ints)
    BY <1>5 DEF TypeOK
  <2>2. Key(c, Best(c)) < Key(c, cur[c])
    BY <1>1, <2>1, IntcAssumption DEF Candidates, Ints
  <2>3. /\ Len(stack'[c]) = Len(stack[c]) + 1
        /\ \A k \in 1 .. Len(stack[c]) : stack'[c][k] = stack[c][k]
        /\ stack'[c][Len(stack[c]) + 1] = cur[c]
    BY <1>2, <1>5, <2>1, AppendProperties
  <2> QED
    BY <1>2, <1>3, <2>1, <2>2, <2>3
<1> QED
  BY <1>4, <1>5

(* The interrupts in service after a device clock.                             *)
LEMMA SupplyClockService ==
  ASSUME IInv, SupplyClock, NEW c \in Cores
  PROVE  InService(c)' = InService(c) \cup (IF TakesInt(c) THEN {Best(c)} ELSE {})
<1>1. CASE ~ TakesInt(c)
  BY <1>1 DEF SupplyClock, InService
<1>2. CASE TakesInt(c)
  <2>1. cur'[c] # -1
    BY AcceptFacts, <1>2, IntcAssumption DEF Ints
  <2>2. CASE cur[c] = -1
    <3>1. stack[c] = <<>> /\ stack'[c] = <<>>
      BY AcceptFacts, <1>2, <2>2, IntcAssumption DEF Ints
    <3>2. Len(<<>>) = 0
      BY EmptySeq
    <3> QED
      BY AcceptFacts, <1>2, <2>1, <2>2, <3>1, <3>2 DEF InService
  <2>3. CASE cur[c] # -1
    <3> DEFINE n == Len(stack[c])
    <3>1. /\ n \in Nat /\ Len(stack'[c]) = n + 1
          /\ \A k \in 1 .. n : stack'[c][k] = stack[c][k]
          /\ stack'[c][n + 1] = cur[c]
      BY AcceptFacts, <1>2, <2>3, InServiceType
    <3>2. {stack'[c][k] : k \in 1 .. n + 1} = {stack[c][k] : k \in 1 .. n} \cup {cur[c]}
      BY <3>1
    <3> QED
      BY AcceptFacts, <1>2, <2>1, <2>3, <3>1, <3>2 DEF InService
  <2> QED
    BY <2>2, <2>3
<1> QED
  BY <1>1, <1>2

(* The device clock keeps the structure (intc_raise).                          *)
LEMMA SupplyClockStructure ==
  ASSUME IInv, SupplyClock PROVE Structure'
<1> USE DEF IInv, Structure
<1>1. wlvl' = wlvl /\ wnum' = wnum /\ wtotal' = wtotal
  BY DEF SupplyClock, waiting
<1>2. WaitCount'
  BY <1>1 DEF WaitCount, Waits
<1>3. ASSUME NEW c \in Cores, ~ TakesInt(c)
      PROVE  cur'[c] = cur[c] /\ stack'[c] = stack[c] /\ ispr'[c] = ispr[c]
  BY <1>3 DEF SupplyClock
<1>4. ServiceWaits'
  BY <1>1, AcceptFacts, SupplyClockService DEF ServiceWaits, Waits
<1>5. NestingOrder'
  <2> SUFFICES ASSUME NEW c \in Cores
               PROVE  /\ (cur[c] = -1 => stack[c] = <<>>)'
                      /\ (\A j, k \in 1 .. Len(stack[c]) :
                            j < k => Key(c, stack[c][k]) < Key(c, stack[c][j]))'
                      /\ (\A k \in 1 .. Len(stack[c]) : Key(c, cur[c]) < Key(c, stack[c][k]))'
    BY DEF NestingOrder
  <2>1. CASE ~ TakesInt(c)
    BY <1>1, <1>3, <2>1, OrderFrame
  <2>2. CASE TakesInt(c)
    <3>1. CASE cur[c] = -1
      <4>1. stack'[c] = <<>> /\ cur'[c] # -1
        BY AcceptFacts, <2>2, <3>1, IntcAssumption DEF Ints
      <4> QED
        BY <4>1, EmptySeq
    <3>2. CASE cur[c] # -1
      <4> DEFINE n == Len(stack[c])
      <4>1. /\ n \in Nat /\ Len(stack'[c]) = n + 1
            /\ \A k \in 1 .. n : stack'[c][k] = stack[c][k] /\ stack[c][k] \in Ints
            /\ stack'[c][n + 1] = cur[c]
            /\ cur[c] \in Ints /\ cur'[c] \in Ints
            /\ Key(c, cur'[c]) < Key(c, cur[c])
        BY AcceptFacts, <2>2, <3>2, InServiceType
      <4>2. \A k \in 1 .. n : Key(c, cur[c]) < Key(c, stack[c][k])
        BY DEF NestingOrder
      <4>3. \A k \in 1 .. n : Key(c, cur'[c]) < Key(c, stack[c][k])
        <5> SUFFICES ASSUME NEW k \in 1 .. n PROVE Key(c, cur'[c]) < Key(c, stack[c][k])
          OBVIOUS
        <5>1. /\ Key(c, cur'[c]) \in Nat /\ Key(c, cur[c]) \in Nat
              /\ Key(c, stack[c][k]) \in Nat
          BY <4>1, KeyOrder
        <5> QED
          BY <4>1, <4>2, <5>1
      <4>4. \A j, k \in 1 .. n : j < k => Key(c, stack[c][k]) < Key(c, stack[c][j])
        BY DEF NestingOrder
      <4>5. \A k \in 1 .. n + 1 : k \in 1 .. n \/ k = n + 1
        BY <4>1
      <4>6. ASSUME NEW k \in 1 .. n + 1 PROVE Key(c, cur'[c]) < Key(c, stack'[c][k])
        BY <4>1, <4>3, <4>5
      <4>7. ASSUME NEW j \in 1 .. n + 1, NEW k \in 1 .. n + 1, j < k
            PROVE  Key(c, stack'[c][k]) < Key(c, stack'[c][j])
        <5>1. j \in 1 .. n
          BY <4>1, <4>7
        <5> QED
          BY <4>1, <4>2, <4>4, <4>5, <4>7, <5>1
      <4>8. cur'[c] # -1
        BY <4>1, IntcAssumption DEF Ints
      <4>9. (\A k \in 1 .. Len(stack[c]) : Key(c, cur[c]) < Key(c, stack[c][k]))'
        BY <1>1, <4>1, <4>6 DEF Key
      <4>10. (\A j, k \in 1 .. Len(stack[c]) :
                j < k => Key(c, stack[c][k]) < Key(c, stack[c][j]))'
        BY <1>1, <4>1, <4>7 DEF Key
      <4> QED
        BY <4>8, <4>9, <4>10
    <3> QED
      BY <3>1, <3>2
  <2> QED
    BY <2>1, <2>2
<1>6. IsprInService'
  <2> SUFFICES ASSUME NEW c \in Cores, NEW l \in ispr'[c]
               PROVE  \E i \in InService(c)' : l = wlvl'[c][i]
    BY DEF IsprInService
  <2>1. l \in ispr[c] \/ (TakesInt(c) /\ l = wlvl[c][Best(c)])
    BY <1>3, AcceptFacts
  <2> QED
    BY <1>1, SupplyClockService, <2>1 DEF IsprInService
<1> QED
  BY <1>2, <1>4, <1>5, <1>6

(* device_reset establishes the structure anew.                                *)
LEMMA DeviceResetStructure == ASSUME DeviceReset PROVE Structure'
<1>1. ASSUME NEW c \in Cores
      PROVE  /\ cur'[c] = -1 /\ stack'[c] = <<>> /\ Len(stack'[c]) = 0 /\ ispr'[c] = {}
             /\ InService(c)' = {} /\ WaitSet(c)' = {} /\ wtotal'[c] = 0
             /\ \A i \in Ints : wlvl'[c][i] = NumLvl /\ wnum'[c][i] = 0
  <2>1. /\ cur'[c] = -1 /\ stack'[c] = <<>> /\ ispr'[c] = {} /\ wtotal'[c] = 0
        /\ \A i \in Ints : wlvl'[c][i] = NumLvl /\ wnum'[c][i] = 0
    BY DEF DeviceReset, AllCores, AllInts
  <2>2. Len(stack'[c]) = 0
    BY <2>1, EmptySeq
  <2> QED
    BY <2>1, <2>2 DEF InService, WaitSet, Waits
<1>2. WaitCount'
  <2>1. ASSUME NEW c \in Cores
        PROVE  /\ \A i \in Ints : wnum'[c][i] = 1 <=> Waits(c, i)'
               /\ wtotal'[c] = Cardinality(WaitSet(c)')
    BY <1>1, FS_EmptySet DEF Waits
  <2> QED
    BY <2>1 DEF WaitCount, WaitSet
<1> QED
  BY <1>1, <1>2 DEF Structure, ServiceWaits, NestingOrder, IsprInService

(* Every step keeps the structure.                                             *)
LEMMA NextStructure == ASSUME IInv, [Next]_vars PROVE Structure'
<1>1. CASE SupplyClock
  BY <1>1, SupplyClockStructure
<1>2. ASSUME NEW i \in Sources, RaiseIntr(i) PROVE Structure'
  BY <1>2, SetWaitStructure, IntcAssumption DEF RaiseIntr, CommonRaise
<1>3. CASE RaiseNmi
  BY <1>3, StructureFrame DEF RaiseNmi, IInv
<1>4. CASE DeviceReset
  BY <1>4, DeviceResetStructure
<1>5. ASSUME NEW c \in Cores, Instruction(c) PROVE Structure'
  <2>1. ASSUME NEW i \in MirInts, CpuTrigger(c, i) PROVE Structure'
    BY <2>1, SetWaitStructure, IntcAssumption DEF CpuTrigger, CommonRaise
  <2>2. CASE RegisterWrite(c)
    <3>1. EndService(c) \/ UNCHANGED <<service, waiting>>
      BY <2>2 DEF RegisterWrite, WriteIC8, WriteIC8Upper, WriteIC16, WriteIC32, WriteIMR8,
                  WriteIMR16, WriteIMR
    <3> QED
      BY <3>1, EndServiceStructure, StructureFrame DEF IInv
  <2>3. CASE CoreInstruction(c)
    <3>1. UNCHANGED <<service, waiting>>
      BY <2>3 DEF CoreInstruction, DiEi, Halt, Trap, FeTrap, IllegalOpcodeTrap, EiReturn,
                  FeRet, NmiReturn
    <3> QED
      BY <3>1, StructureFrame DEF IInv
  <2> QED
    BY <1>5, <2>1, <2>2, <2>3 DEF Instruction, CoreInstruction
<1>6. CASE UNCHANGED vars
  BY <1>6, StructureFrame DEF IInv, vars, service, waiting
<1> QED
  BY <1>1, <1>2, <1>3, <1>4, <1>5, <1>6 DEF Next

(* The inductive invariant holds in every behaviour of the controller.         *)
THEOREM Invariance == Spec => []IInv
<1>1. Init => IInv
  BY InitType, InitStructure DEF IInv
<1>2. IInv /\ [Next]_vars => IInv'
  BY NextType, NextStructure DEF IInv, Structure
<1> QED
  BY <1>1, <1>2, PTL DEF Spec

-----------------------------------------------------------------------------
(* The theorems.                                                               *)

(* Every variable of the controller keeps its type.                            *)
THEOREM TypeCorrect == Spec => []TypeOK
<1>1. IInv => TypeOK
  BY DEF IInv
<1> QED
  BY <1>1, Invariance, PTL

(* An interrupt in service goes on waiting until it ends.                      *)
THEOREM ServiceAlwaysWaits == Spec => []ServiceWaits
<1>1. IInv => ServiceWaits
  BY DEF IInv, Structure
<1> QED
  BY <1>1, Invariance, PTL

(* Preempted interrupts are stacked in the order of their urgency.             *)
THEOREM AlwaysNested == Spec => []NestingOrder
<1>1. IInv => NestingOrder
  BY DEF IInv, Structure
<1> QED
  BY <1>1, Invariance, PTL

(* waiting_int_num counts the interrupts that wait.                            *)
THEOREM CountsAgree == Spec => []WaitCount
<1>1. IInv => WaitCount
  BY DEF IInv, Structure
<1> QED
  BY <1>1, Invariance, PTL

(* ISPR names levels of interrupts in service only.                            *)
THEOREM IsprOfService == Spec => []IsprInService
<1>1. IInv => IsprInService
  BY DEF IInv, Structure
<1> QED
  BY <1>1, Invariance, PTL

(* What a step does to the level of an interrupt that waits.                   *)
LEMMA LevelStep ==
  ASSUME IInv, [Next]_vars, NEW c \in Cores, NEW i \in Ints, Waits(c, i)
  PROVE  \/ wlvl'[c][i] = wlvl[c][i]
         \/ wlvl'[c][i] = NumLvl /\ DeviceReset
         \/ wlvl'[c][i] = NumLvl /\ i = cur[c] /\ ByteWrite(c) /\ ~ WiderWrite(c)
<1> USE DEF IInv
<1>1. CASE wlvl' = wlvl
  BY <1>1
<1>2. ASSUME NEW S, NEW j \in Ints, SetWait(S, j) PROVE wlvl'[c][i] = wlvl[c][i]
  BY <1>2 DEF SetWait, TypeOK, Waits
<1>3. ASSUME NEW d \in Cores, EndService(d)
      PROVE  wlvl'[c][i] = wlvl[c][i] \/ (wlvl'[c][i] = NumLvl /\ i = cur[c] /\ d = c)
  <2>1. CASE cur[d] = -1
    BY <1>3, <2>1 DEF EndService, waiting
  <2>2. CASE cur[d] # -1
    <3>1. wlvl' = [wlvl EXCEPT ![d][cur[d]] = NumLvl] /\ cur[d] \in Ints
      BY <1>3, <2>2, EndServiceFacts
    <3> QED
      BY <3>1 DEF TypeOK
  <2> QED
    BY <2>1, <2>2
<1>4. CASE DeviceReset
  BY <1>4 DEF DeviceReset, AllInts, AllCores
<1>5. \/ wlvl' = wlvl
      \/ \E S : \E j \in Ints : SetWait(S, j)
      \/ \E d \in Cores : EndService(d) /\ ByteWrite(d)
      \/ DeviceReset
  <2>1. CASE SupplyClock
    BY <2>1 DEF SupplyClock, waiting
  <2>2. ASSUME NEW j \in Sources, RaiseIntr(j) PROVE \E S : \E k \in Ints : SetWait(S, k)
    BY <2>2, IntcAssumption DEF RaiseIntr, CommonRaise
  <2>3. CASE RaiseNmi
    BY <2>3 DEF RaiseNmi, waiting
  <2>4. ASSUME NEW d \in Cores, NEW j \in MirInts, CpuTrigger(d, j)
        PROVE  \E S : \E k \in Ints : SetWait(S, k)
    BY <2>4, IntcAssumption DEF CpuTrigger, CommonRaise
  <2>5. ASSUME NEW d \in Cores, RegisterWrite(d)
        PROVE  (EndService(d) /\ ByteWrite(d)) \/ wlvl' = wlvl
    <3>1. ByteWrite(d) => EndService(d)
      BY DEF ByteWrite, WriteIC8, WriteIC8Upper
    <3>2. ByteWrite(d) \/ wlvl' = wlvl
      BY <2>5 DEF RegisterWrite, ByteWrite, WriteIC16, WriteIC32, WriteIMR8, WriteIMR16,
                  WriteIMR, waiting
    <3> QED
      BY <3>1, <3>2
  <2>6. ASSUME NEW d \in Cores, CoreInstruction(d) PROVE wlvl' = wlvl
    BY <2>6 DEF CoreInstruction, DiEi, Halt, Trap, FeTrap, IllegalOpcodeTrap, EiReturn,
                FeRet, NmiReturn, waiting
  <2>7. CASE UNCHANGED vars
    BY <2>7 DEF vars
  <2> QED
    BY <2>1, <2>2, <2>3, <2>4, <2>5, <2>6, <2>7 DEF Next, Instruction, CoreInstruction
<1>6. WiderWrite(c) => wlvl' = wlvl
  BY DEF WiderWrite, WriteIC16, WriteIC32, waiting
<1> QED
  BY <1>1, <1>2, <1>3, <1>4, <1>5, <1>6

(* A waiting interrupt keeps the level it was requested at.                    *)
THEOREM LevelsAreKept == Spec => LevelKept
<1>1. IInv /\ [Next]_vars =>
        \A c \in Cores, i \in Ints : Waits(c, i) => wlvl'[c][i] \in {wlvl[c][i], NumLvl}
  BY LevelStep
<1> QED
  BY <1>1, Invariance, PTL DEF Spec, LevelKept

(* Only a reset of the device and a byte written by a core to an xxICn stop a  *)
(* wait, and the byte that of the current interrupt only.                      *)
THEOREM OnlyCurrentEnds == Spec => OnlyTheCurrentEnds
<1>1. IInv /\ [Next]_vars =>
        \A c \in Cores, i \in Ints :
          Waits(c, i) /\ wlvl'[c][i] = NumLvl
            => DeviceReset \/ (i = cur[c] /\ ByteWrite(c) /\ ~ WiderWrite(c))
  BY LevelStep DEF Waits
<1> QED
  BY <1>1, Invariance, PTL DEF Spec, OnlyTheCurrentEnds

(* A core in the NMI state keeps its FEPSW but for INTWDT2 and FETRAP.         *)
THEOREM FepswIsKept == Spec => FepswKept
<1>1. ASSUME TypeOK, [Next]_vars, NEW c \in Cores, psw[c].np, fepsw'[c] # fepsw[c]
      PROVE  wdt \/ FeTrap(c)
  <2>1. CASE SupplyClock
    BY <1>1, <2>1 DEF SupplyClock, TakesIntwdt2, TakesNmi
  <2>2. ASSUME NEW d \in Cores, FeTrap(d) PROVE FeTrap(c)
    BY <1>1, <2>2 DEF FeTrap, TypeOK
  <2>3. ASSUME NEW d \in Cores, NmiReturn(d) PROVE wdt
    BY <1>1, <2>3 DEF NmiReturn, saved
  <2>4. CASE fepsw' = fepsw
    BY <1>1, <2>4
  <2>5. \/ SupplyClock \/ fepsw' = fepsw
        \/ \E d \in Cores : FeTrap(d) \/ NmiReturn(d)
    <3>1. ASSUME NEW j, RaiseIntr(j) PROVE fepsw' = fepsw
      BY <3>1 DEF RaiseIntr, CommonRaise, saved
    <3>2. CASE RaiseNmi \/ DeviceReset
      BY <3>2 DEF RaiseNmi, DeviceReset, saved
    <3>3. ASSUME NEW d, NEW j, CpuTrigger(d, j) PROVE fepsw' = fepsw
      BY <3>3 DEF CpuTrigger, CommonRaise, saved
    <3>4. ASSUME NEW d, RegisterWrite(d) PROVE fepsw' = fepsw
      BY <3>4 DEF RegisterWrite, WriteIC8, WriteIC8Upper, WriteIC16, WriteIC32, WriteIMR8,
                  WriteIMR16, WriteIMR, saved
    <3>5. ASSUME NEW d, DiEi(d) \/ Halt(d) \/ Trap(d) \/ IllegalOpcodeTrap(d)
                          \/ EiReturn(d) \/ FeRet(d)
          PROVE fepsw' = fepsw
      BY <3>5 DEF DiEi, Halt, Trap, IllegalOpcodeTrap, EiReturn, FeRet, saved
    <3>6. CASE UNCHANGED vars
      BY <3>6 DEF vars
    <3> QED
      BY <1>1, <3>1, <3>2, <3>3, <3>4, <3>5, <3>6 DEF Next, Instruction
  <2> QED
    BY <2>1, <2>2, <2>3, <2>4, <2>5
<1>2. IInv /\ [Next]_vars =>
        \A c \in Cores : psw[c].np /\ fepsw'[c] # fepsw[c] => wdt \/ FeTrap(c)
  BY <1>1 DEF IInv
<1> QED
  BY <1>2, Invariance, PTL DEF Spec, FepswKept

=============================================================================
