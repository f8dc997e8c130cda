-------------------------------- MODULE Intc --------------------------------
(***************************************************************************)
(* The V850E2M interrupt controller of src/src/device/intc/intc.c and the  *)
(* part of a core that decides whether an interrupt is accepted: PSW.NP,   *)
(* PSW.ID, PSW.EP, the two saved PSWs and the HALT flag (op_exec_spec.c,   *)
(* cpu_config.c).                                                          *)
(*                                                                         *)
(* The emulator runs in one thread: a device clock (SupplyClock) and the   *)
(* instructions of the cores alternate, every one of them atomic.  The     *)
(* loop that alternates them is not in this repository, so a step here is  *)
(* any one of them, in any order.                                          *)
(*                                                                         *)
(* What is abstracted: program counters, vectors and exception codes; the  *)
(* IMR and ISPR registers as memory (IMR is written and never read back by *)
(* the controller; a program does not write the read-only ISPR); and the   *)
(* upper byte of an xxICn register, which holds nothing.                   *)
(***************************************************************************)
EXTENDS Integers, Sequences, FiniteSets

CONSTANTS
  CoreNum,    (* virtual_cpu.core_id_num: the number of cores that run         *)
  IntNum,     (* INTC_NUM: interrupt numbers are 0 .. IntNum-1                 *)
  NumLvl,     (* INTC_NUM_INTLVL: levels are 0 .. NumLvl-1, 0 the most urgent  *)
  NoUse,      (* INTC_PINTNO_NOUSE: the padding number no IMR bit stands for   *)
  ImrWidth,   (* the bits of an IMRn register                                  *)
  Sources,    (* the interrupts that devices raise                             *)
  MirInts,    (* the interrupts that a write to a MIR register raises          *)
  ICValues,   (* the xxICn values that programs write                          *)
  ImrValues,  (* the sets of bits that programs write into an IMRn register    *)
  NmiSources, (* which non-maskable requests arrive: "nmi", "intwdt2"          *)
  Traps,      (* the exceptions that programs take: "trap", "fetrap", "illegal"*)
  MaxNmi      (* bound: no NMI is raised when this many are outstanding        *)

Cores == 0 .. CoreNum - 1
Ints  == 0 .. IntNum - 1
Lvls  == 0 .. NumLvl - 1

ASSUME IntcAssumption ==
  /\ CoreNum \in 1 .. 2
  /\ IntNum \in Nat \ {0} /\ IntNum <= 65536
  /\ NumLvl \in Nat \ {0}
  /\ NoUse \in Int
  /\ ImrWidth \in Nat \ {0}
  /\ Sources \subseteq Ints
  /\ MirInts \subseteq Ints
  /\ ICValues \subseteq [xif : BOOLEAN, mk : BOOLEAN, pr : Lvls]
  /\ ImrValues \subseteq SUBSET (0 .. ImrWidth - 1)
  /\ NmiSources \subseteq {"nmi", "intwdt2"}
  /\ Traps \subseteq {"trap", "fetrap", "illegal"}
  /\ MaxNmi \in Nat

VARIABLES
  cur,      (* work[c].current_intno, -1 when no interrupt is in service       *)
  stack,    (* work[c].saved_intno_stack up to saved_intno_off, last = top     *)
  wlvl,     (* work[c].is_waiting_lvl[i], NumLvl when i does not wait          *)
  wnum,     (* work[c].waiting_lvl_num[i]                                      *)
  wtotal,   (* work[c].waiting_int_num                                         *)
  ic,       (* the xxICn registers: request flag, mask, priority level         *)
  ispr,     (* the levels whose bit is set in the ISPR register                *)
  psw,      (* PSW.NP, PSW.ID, PSW.EP                                          *)
  eipsw,    (* the same bits of EIPSW                                          *)
  fepsw,    (* the same bits of FEPSW                                          *)
  halt,     (* cores[c].core.is_halt                                           *)
  wdt,      (* nmi.intwdt2_hasreq                                              *)
  nmi       (* nmi.nmi_reqnum                                                  *)

service == <<cur, stack, ispr>>
waiting == <<wlvl, wnum, wtotal>>
saved   == <<eipsw, fepsw>>
request == <<wdt, nmi>>
vars    == <<cur, stack, wlvl, wnum, wtotal, ic, ispr, psw, eipsw, fepsw, halt, wdt, nmi>>

PswBits == [np : BOOLEAN, id : BOOLEAN, ep : BOOLEAN]
NoBits  == [np |-> FALSE, id |-> FALSE, ep |-> FALSE]

(* PSW = 0x20 after a reset of the core: ID is set, NP and EP are clear.       *)
ResetPsw == [NoBits EXCEPT !.id = TRUE]

(* xxICn = 0x47: masked, the least urgent level, no request.                   *)
ResetIC == [xif |-> FALSE, mk |-> TRUE, pr |-> NumLvl - 1]

-----------------------------------------------------------------------------
(* The selection of the next interrupt.                                        *)

Waits(c, i) == wlvl[c][i] # NumLvl

(* The level above the interrupt number, which is the default priority: the    *)
(* smaller the key, the more urgent the interrupt.                             *)
Key(c, i) == wlvl[c][i] * 65536 + i

(* Two slips in that search: the interrupt in service is not compared; the mask *)
(* bit is read from the registers of core 0.                                   *)
CandidatesUncompared(c) ==
  {i \in Ints : wtotal[c] # 0 /\ Waits(c, i) /\ cur[c] # i /\ ~ ic[c][i].mk}
CandidatesMask0(c) ==
  {i \in Ints : /\ wtotal[c] # 0
                /\ Waits(c, i)
                /\ ~ ic[0][i].mk
                /\ cur[c] >= 0 => Key(c, i) < Key(c, cur[c])}

(* get_maxpri_itno: what competes with the interrupt in service on core c.     *)
Candidates(c) ==
  {i \in Ints : /\ wtotal[c] # 0
                /\ Waits(c, i)
                /\ ~ (cur[c] > 0 /\ cur[c] = i)
                /\ ~ ic[c][i].mk
                /\ cur[c] >= 0 => Key(c, i) < Key(c, cur[c])}

(* A slip: the level is left out of the comparison.                            *)
BestByNumber(c) == CHOOSE i \in Candidates(c) : \A j \in Candidates(c) : i <= j
Best(c) == CHOOSE i \in Candidates(c) : \A j \in Candidates(c) : Key(c, i) <= Key(c, j)

(* Slips in the conditions below: the NMI that ignores PSW.NP, and the          *)
(* maskable interrupt that a sleeping core does not take.                      *)
TakesNmiTwice(c) == ~ wdt /\ nmi > 0
TakesIntAwake(c) ==
  /\ ~ halt[c] /\ ~ wdt /\ nmi <= 0
  /\ Candidates(c) # {} /\ ~ psw[c].np /\ ~ psw[c].id

(* intc_raise_pending_intr: which of the three kinds of interrupt core c takes *)
(* at this clock.  A request of an earlier kind keeps the later ones away.     *)
TakesIntwdt2(c) == wdt /\ psw[c].np
TakesNmi(c)     == ~ wdt /\ nmi > 0 /\ ~ psw[c].np
TakesInt(c)     == /\ ~ wdt
                   /\ nmi <= 0
                   /\ Candidates(c) # {}
                   /\ ~ psw[c].np
                   /\ ~ psw[c].id

(* raise_intwdt2 and raise_nmi leave the same bits in PSW, and so does         *)
(* intc_raise, which keeps NP.                                                 *)
FatalPsw   == [np |-> TRUE, id |-> TRUE, ep |-> FALSE]
HandlerPsw(c) == [psw[c] EXCEPT !.id = TRUE, !.ep = FALSE]

(* The array of saved interrupts has NumLvl elements.  The C code pushes       *)
(* without looking at that limit; what follows an overflow is undefined.       *)
StackFits == \A c \in Cores : Len(stack[c]) <= NumLvl

-----------------------------------------------------------------------------
(* device_supply_clock_intc: every core, one after the other.  What one core   *)
(* takes reads nothing that another one writes.                                *)
SupplyClock ==
  /\ cur'   = [c \in Cores |-> IF TakesInt(c) THEN Best(c) ELSE cur[c]]
  /\ stack' = [c \in Cores |-> IF TakesInt(c) /\ cur[c] # -1
                               THEN Append(stack[c], cur[c]) ELSE stack[c]]
  /\ ispr'  = [c \in Cores |-> IF TakesInt(c)
                               THEN ispr[c] \cup {wlvl[c][Best(c)]} ELSE ispr[c]]
  /\ eipsw' = [c \in Cores |-> IF TakesInt(c) THEN psw[c] ELSE eipsw[c]]
  /\ fepsw' = [c \in Cores |-> IF TakesIntwdt2(c) \/ TakesNmi(c) THEN psw[c] ELSE fepsw[c]]
  /\ psw'   = [c \in Cores |-> IF TakesIntwdt2(c) \/ TakesNmi(c) THEN FatalPsw
                               ELSE IF TakesInt(c) THEN HandlerPsw(c) ELSE psw[c]]
  /\ halt'  = [c \in Cores |-> halt[c] /\ ~ TakesIntwdt2(c) /\ ~ TakesNmi(c) /\ ~ TakesInt(c)]
  /\ UNCHANGED <<waiting, ic, request>>

-----------------------------------------------------------------------------
(* Requests.                                                                   *)

(* Three slips in set_wait_intno: a repeated request is counted; it is noted    *)
(* again, with the level that its register holds by then; whether it waits is  *)
(* read from the entries of core 0.                                            *)
SetWaitCounted(S, i) ==
  LET new == {c \in S : ~ Waits(c, i)}
  IN  /\ wlvl'   = [c \in Cores |-> IF c \in new
                                    THEN [wlvl[c] EXCEPT ![i] = ic[c][i].pr] ELSE wlvl[c]]
      /\ wnum'   = [c \in Cores |-> IF c \in S THEN [wnum[c] EXCEPT ![i] = @ + 1] ELSE wnum[c]]
      /\ wtotal' = [c \in Cores |-> IF c \in S THEN wtotal[c] + 1 ELSE wtotal[c]]
SetWaitAgain(S, i) ==
  /\ wlvl'   = [c \in Cores |-> IF c \in S THEN [wlvl[c] EXCEPT ![i] = ic[c][i].pr] ELSE wlvl[c]]
  /\ wnum'   = [c \in Cores |-> IF c \in S THEN [wnum[c] EXCEPT ![i] = 1] ELSE wnum[c]]
  /\ wtotal' = [c \in Cores |-> IF c \in S THEN wtotal[c] + 1 ELSE wtotal[c]]

SetWaitOfCore0(S, i) ==
  LET new == {c \in S : ~ Waits(0, i)}
  IN  /\ wlvl'   = [c \in Cores |-> IF c \in new
                                    THEN [wlvl[c] EXCEPT ![i] = ic[c][i].pr] ELSE wlvl[c]]
      /\ wnum'   = [c \in Cores |-> IF c \in new
                                    THEN [wnum[c] EXCEPT ![i] = 1] ELSE wnum[c]]
      /\ wtotal' = [c \in Cores |-> IF c \in new THEN wtotal[c] + 1 ELSE wtotal[c]]

(* set_wait_intno: a request is noted with the level its register holds now,   *)
(* unless the interrupt already waits (or is still in service).                *)
SetWait(S, i) ==
  LET new == {c \in S : ~ Waits(c, i)}
  IN  /\ wlvl'   = [c \in Cores |-> IF c \in new
                                    THEN [wlvl[c] EXCEPT ![i] = ic[c][i].pr] ELSE wlvl[c]]
      /\ wnum'   = [c \in Cores |-> IF c \in new
                                    THEN [wnum[c] EXCEPT ![i] = 1] ELSE wnum[c]]
      /\ wtotal' = [c \in Cores |-> IF c \in new THEN wtotal[c] + 1 ELSE wtotal[c]]

(* common_raise_intr for every core in S.                                      *)
CommonRaise(S, i) ==
  /\ ic'   = [c \in Cores |-> IF c \in S THEN [ic[c] EXCEPT ![i].xif = TRUE] ELSE ic[c]]
  /\ SetWait(S, i)
  /\ halt' = [c \in Cores |-> halt[c] /\ c \notin S]
  /\ UNCHANGED <<service, psw, saved, request>>

(* intc_raise_intr, called by device_raise_int: every core gets the request.   *)
RaiseIntr(i) == i \in Sources /\ CommonRaise(Cores, i)

(* A write to MIR_0 or MIR_1 by core c: cpu_put_data32 calls                   *)
(* intc_cpu_trigger_interrupt, which raises the interrupt on the other core.   *)
CpuTrigger(c, i) ==
  /\ i \in MirInts
  /\ ~ halt[c]
  /\ CommonRaise({1 - c} \cap Cores, i)

(* intc_raise_nmi.                                                             *)
RaiseNmi ==
  /\ \/ /\ "intwdt2" \in NmiSources
        /\ wdt' = TRUE
        /\ UNCHANGED nmi
     \/ /\ "nmi" \in NmiSources
        /\ nmi < MaxNmi
        /\ nmi' = nmi + 1
        /\ UNCHANGED wdt
  /\ UNCHANGED <<service, waiting, ic, psw, saved, halt>>
-----------------------------------------------------------------------------
(* The end of an interrupt and the registers a program writes.                 *)

(* Two slips in clr_wait_intno: the level is not cleared with the count; the    *)
(* total is not lowered.                                                       *)
ClrWaitKeepsLevel(c, i) ==
  /\ wnum'   = [wnum EXCEPT ![c][i] = 0]
  /\ wtotal' = [wtotal EXCEPT ![c] = IF wnum[c][i] > 0 THEN @ - 1 ELSE @]
  /\ UNCHANGED wlvl
ClrWaitKeepsTotal(c, i) ==
  /\ wnum' = [wnum EXCEPT ![c][i] = 0]
  /\ wlvl' = [wlvl EXCEPT ![c][i] = NumLvl]
  /\ UNCHANGED wtotal

(* clr_wait_intno.                                                             *)
ClrWait(c, i) ==
  IF wnum[c][i] > 0
  THEN /\ wnum'   = [wnum EXCEPT ![c][i] = @ - 1]
       /\ wlvl'   = [wlvl EXCEPT ![c][i] = IF wnum[c][i] = 1 THEN NumLvl ELSE @]
       /\ wtotal' = [wtotal EXCEPT ![c] = @ - 1]
  ELSE UNCHANGED waiting

(* Two slips in intc_clr_currlvl_ispr: the saved interrupt is resumed before    *)
(* the waiting entry is cleared; the level is looked up after it was cleared.  *)
EndServiceResumesFirst(c) ==
  IF stack[c] = <<>>
  THEN UNCHANGED <<service, waiting>>
  ELSE LET top == stack[c][Len(stack[c])]
       IN  /\ ispr'  = [ispr EXCEPT ![c] = @ \ {wlvl[c][cur[c]]}]
           /\ ClrWait(c, top)
           /\ cur'   = [cur EXCEPT ![c] = top]
           /\ stack' = [stack EXCEPT ![c] = SubSeq(@, 1, Len(@) - 1)]
EndServiceLevelLate(c) ==
  IF cur[c] = -1 \/ stack[c] # <<>>
  THEN UNCHANGED <<service, waiting>>
  ELSE /\ ClrWait(c, cur[c])
       /\ ispr' = [ispr EXCEPT ![c] = @ \ {wlvl'[c][cur[c]]}]
       /\ cur'  = [cur EXCEPT ![c] = -1]
       /\ UNCHANGED stack

(* intc_clr_currlvl_ispr, but for the request flag, which is EndedIC.          *)
EndService(c) ==
  IF cur[c] = -1
  THEN UNCHANGED <<service, waiting>>
  ELSE /\ ispr' = [ispr EXCEPT ![c] = @ \ {wlvl[c][cur[c]]}]
       /\ ClrWait(c, cur[c])
       /\ IF stack[c] # <<>>
          THEN /\ cur'   = [cur EXCEPT ![c] = stack[c][Len(stack[c])]]
               /\ stack' = [stack EXCEPT ![c] = SubSeq(@, 1, Len(@) - 1)]
          ELSE /\ cur' = [cur EXCEPT ![c] = -1]
               /\ UNCHANGED stack

EndedIC(c) == IF cur[c] = -1 THEN ic[c] ELSE [ic[c] EXCEPT ![cur[c]].xif = FALSE]

(* A byte written to xxICi (intc_put_data8): the hook ends the interrupt in    *)
(* service, whichever it is, and then the byte is stored.                      *)
WriteIC8(c, i, v) ==
  /\ ~ halt[c]
  /\ EndService(c)
  /\ ic' = [ic EXCEPT ![c] = [EndedIC(c) EXCEPT ![i] = v]]
  /\ UNCHANGED <<psw, saved, halt, request>>

(* A byte written to the upper half of some xxICn: get_xxICn rounds the        *)
(* address down, so that the hook ends the interrupt in service here as well.  *)
WriteIC8Upper(c) ==
  /\ ~ halt[c]
  /\ EndService(c)
  /\ ic' = [ic EXCEPT ![c] = EndedIC(c)]
  /\ UNCHANGED <<psw, saved, halt, request>>

(* A slip: the half-word written to xxICi ends the service as the byte does.   *)
WriteIC16Ends(c, i, v) ==
  /\ ~ halt[c]
  /\ EndService(c)
  /\ ic' = [ic EXCEPT ![c] = [EndedIC(c) EXCEPT ![i] = v]]
  /\ UNCHANGED <<psw, saved, halt, request>>

(* A half-word or a word written to xxICi (intc_put_data16, intc_put_data32):  *)
(* the registers are stored and nothing else happens.                          *)
WriteIC16(c, i, v) ==
  /\ ~ halt[c]
  /\ ic' = [ic EXCEPT ![c][i] = v]
  /\ UNCHANGED <<service, waiting, psw, saved, halt, request>>

WriteIC32(c, i, v, w) ==
  /\ ~ halt[c]
  /\ i + 1 \in Ints
  /\ ic' = [ic EXCEPT ![c][i] = v, ![c][i + 1] = w]
  /\ UNCHANGED <<service, waiting, psw, saved, halt, request>>

(* The interrupts that the first n bits of IMRr stand for.                     *)
ImrInts(r, n) == {i \in Ints \ {NoUse} : i >= ImrWidth * r /\ i < ImrWidth * r + n}

(* intc_hook_update_reg8 and intc_hook_update_reg16 for an address of IMRr:    *)
(* the mask bits of the registers xxICn follow the bits of the data.  A byte   *)
(* written to the upper half of IMRr and a word written to it reach no hook    *)
(* and change no mask.                                                         *)
WriteIMR(c, r, d, n) ==
  /\ ~ halt[c]
  /\ ic' = [ic EXCEPT ![c] =
              [i \in Ints |-> IF i \in ImrInts(r, n)
                              THEN [ic[c][i] EXCEPT !.mk = (i - ImrWidth * r) \in d]
                              ELSE ic[c][i]]]
  /\ UNCHANGED <<service, waiting, psw, saved, halt, request>>

WriteIMR8(c, r, d)  == WriteIMR(c, r, d, ImrWidth \div 2)
WriteIMR16(c, r, d) == WriteIMR(c, r, d, ImrWidth)

-----------------------------------------------------------------------------
(* The instructions that change what a core accepts (op_exec_spec.c).  A       *)
(* halted core executes none (cpu_supply_clock).                               *)

(* EI and DI.                                                                  *)
DiEi(c) ==
  /\ ~ halt[c]
  /\ \E b \in BOOLEAN : psw' = [psw EXCEPT ![c].id = b]
  /\ UNCHANGED <<service, waiting, ic, saved, halt, request>>

Halt(c) ==
  /\ ~ halt[c]
  /\ halt' = [halt EXCEPT ![c] = TRUE]
  /\ UNCHANGED <<service, waiting, ic, psw, saved, request>>

(* TRAP saves PSW in EIPSW and sets EP and ID, and so does SYSCALL, which      *)
(* differs in nothing that is modelled.                                        *)
Trap(c) ==
  /\ ~ halt[c]
  /\ "trap" \in Traps
  /\ eipsw' = [eipsw EXCEPT ![c] = psw[c]]
  /\ psw'   = [psw EXCEPT ![c].ep = TRUE, ![c].id = TRUE]
  /\ UNCHANGED <<service, waiting, ic, fepsw, halt, request>>

(* FETRAP saves PSW in FEPSW and sets EP, ID and NP.                           *)
FeTrap(c) ==
  /\ ~ halt[c]
  /\ "fetrap" \in Traps
  /\ fepsw' = [fepsw EXCEPT ![c] = psw[c]]
  /\ psw'   = [psw EXCEPT ![c] = [np |-> TRUE, id |-> TRUE, ep |-> TRUE]]
  /\ UNCHANGED <<service, waiting, ic, eipsw, halt, request>>

(* cpu_illegal_opcode_trap saves PSW in EIPSW and sets EP, ID and NP.          *)
IllegalOpcodeTrap(c) ==
  /\ ~ halt[c]
  /\ "illegal" \in Traps
  /\ eipsw' = [eipsw EXCEPT ![c] = psw[c]]
  /\ psw'   = [psw EXCEPT ![c] = [np |-> TRUE, id |-> TRUE, ep |-> TRUE]]
  /\ UNCHANGED <<service, waiting, ic, fepsw, halt, request>>

(* RETI without NP, or with EP, and EIRET restore EIPSW.  Neither ends the     *)
(* interrupt in service.                                                       *)
EiReturn(c) ==
  /\ ~ halt[c]
  /\ psw' = [psw EXCEPT ![c] = eipsw[c]]
  /\ UNCHANGED <<service, waiting, ic, saved, halt, request>>

(* FERET restores FEPSW and leaves the request of the NMI alone.               *)
FeRet(c) ==
  /\ ~ halt[c]
  /\ psw' = [psw EXCEPT ![c] = fepsw[c]]
  /\ UNCHANGED <<service, waiting, ic, saved, halt, request>>

(* RETI with NP and without EP: FEPSW is restored, then intc_clr_nmi counts    *)
(* one NMI as done or, when an INTWDT2 was requested, resets the core (and     *)
(* leaves the request and the controller as they are).  Bound: the count is    *)
(* not taken below -MaxNmi - 1.                                                *)
NmiReturn(c) ==
  /\ ~ halt[c]
  /\ psw[c].np
  /\ ~ psw[c].ep
  /\ \/ /\ wdt
        /\ psw'   = [psw EXCEPT ![c] = ResetPsw]
        /\ eipsw' = [eipsw EXCEPT ![c] = NoBits]
        /\ fepsw' = [fepsw EXCEPT ![c] = NoBits]
        /\ UNCHANGED nmi
     \/ /\ ~ wdt
        /\ nmi >= - MaxNmi
        /\ psw' = [psw EXCEPT ![c] = fepsw[c]]
        /\ nmi' = nmi - 1
        /\ UNCHANGED saved
  /\ UNCHANGED <<service, waiting, ic, halt, wdt>>

-----------------------------------------------------------------------------
(* The same value for every core, and for every interrupt of every core.       *)
AllCores(x) == [c \in Cores |-> x]
AllInts(x)  == AllCores([i \in Ints |-> x])

(* device_init_intc and, for every core, private_cpu_reset.                    *)
Init ==
  /\ cur    = AllCores(-1)
  /\ stack  = AllCores(<<>>)
  /\ wlvl   = AllInts(NumLvl)
  /\ wnum   = AllInts(0)
  /\ wtotal = AllCores(0)
  /\ ic     = AllInts(ResetIC)
  /\ ispr   = AllCores({})
  /\ wdt    = FALSE
  /\ nmi    = 0
  /\ psw    = AllCores(ResetPsw)
  /\ eipsw  = AllCores(NoBits)
  /\ fepsw  = AllCores(NoBits)
  /\ halt   = AllCores(FALSE)

(* device_reset runs device_init_intc again and leaves the cores alone.        *)
DeviceReset ==
  /\ cur'    = AllCores(-1)
  /\ stack'  = AllCores(<<>>)
  /\ wlvl'   = AllInts(NumLvl)
  /\ wnum'   = AllInts(0)
  /\ wtotal' = AllCores(0)
  /\ ic'     = AllInts(ResetIC)
  /\ ispr'   = AllCores({})
  /\ wdt'    = FALSE
  /\ nmi'    = 0
  /\ UNCHANGED <<psw, saved, halt>>

RegisterWrite(c) ==
  \/ \E i \in Ints, v \in ICValues : WriteIC8(c, i, v) \/ WriteIC16(c, i, v)
  \/ \E i \in Ints, v, w \in ICValues : WriteIC32(c, i, v, w)
  \/ WriteIC8Upper(c)
  \/ \E r \in 0 .. IntNum \div ImrWidth, d \in ImrValues :
        WriteIMR8(c, r, d) \/ WriteIMR16(c, r, d)

Instruction(c) ==
  \/ RegisterWrite(c)
  \/ \E i \in MirInts : CpuTrigger(c, i)
  \/ DiEi(c)
  \/ Halt(c)
  \/ Trap(c)
  \/ FeTrap(c)
  \/ IllegalOpcodeTrap(c)
  \/ EiReturn(c)
  \/ FeRet(c)
  \/ NmiReturn(c)

Next ==
  /\ StackFits
  /\ \/ SupplyClock
     \/ \E i \in Sources : RaiseIntr(i)
     \/ RaiseNmi
     \/ DeviceReset
     \/ \E c \in Cores : Instruction(c)

Spec == Init /\ [][Next]_vars

(* The emulator supplies the device clock for ever (the loop around            *)
(* device_supply_clock): it is never put off because of what the cores do.     *)
FairSpec == Spec /\ WF_vars(StackFits /\ SupplyClock)

-----------------------------------------------------------------------------
(* Properties.                                                                 *)

TypeOK ==
  /\ cur    \in [Cores -> Ints \cup {-1}]
  /\ stack  \in [Cores -> Seq(Ints)]
  /\ wlvl   \in [Cores -> [Ints -> 0 .. NumLvl]]
  /\ wnum   \in [Cores -> [Ints -> {0, 1}]]
  /\ wtotal \in [Cores -> Nat]
  /\ ic     \in [Cores -> [Ints -> [xif : BOOLEAN, mk : BOOLEAN, pr : Lvls]]]
  /\ ispr   \in [Cores -> SUBSET Lvls]
  /\ psw    \in [Cores -> PswBits]
  /\ eipsw  \in [Cores -> PswBits]
  /\ fepsw  \in [Cores -> PswBits]
  /\ halt   \in [Cores -> BOOLEAN]
  /\ wdt    \in BOOLEAN
  /\ nmi    \in - MaxNmi - 1 .. MaxNmi

(* The interrupts in service on core c: the saved ones and the current one.    *)
InService(c) == {stack[c][k] : k \in 1 .. Len(stack[c])} \cup ({cur[c]} \ {-1})

(* A step in which core c accepts an interrupt: another one is current and     *)
(* none was resumed from the stack.                                            *)
Accepts(c) == cur'[c] \notin {cur[c], -1} /\ Len(stack'[c]) >= Len(stack[c])

(* An interrupt in service waits until it is ended, with the level it was      *)
(* accepted at: get_maxpri_itno and intc_clr_currlvl_ispr read that level.     *)
ServiceWaits == \A c \in Cores : \A i \in InService(c) : Waits(c, i)

(* The saved interrupts, from the outermost to the current one, are of         *)
(* strictly increasing urgency: no interrupt is preempted by a less urgent one *)
(* or by itself, whatever programs write into the priority and mask bits while *)
(* it is in service, and the interrupt that resumes is the most urgent of      *)
(* those that were preempted.                                                  *)
NestingOrder ==
  \A c \in Cores :
    /\ cur[c] = -1 => stack[c] = <<>>
    /\ \A j, k \in 1 .. Len(stack[c]) : j < k => Key(c, stack[c][k]) < Key(c, stack[c][j])
    /\ \A k \in 1 .. Len(stack[c]) : Key(c, cur[c]) < Key(c, stack[c][k])

(* waiting_lvl_num and is_waiting_lvl agree, and waiting_int_num counts the    *)
(* interrupts that wait: get_maxpri_itno looks at no interrupt when that       *)
(* counter is 0.                                                               *)
WaitCount ==
  \A c \in Cores :
    /\ \A i \in Ints : wnum[c][i] = 1 <=> Waits(c, i)
    /\ wtotal[c] = Cardinality({i \in Ints : Waits(c, i)})

(* A bit of ISPR is set only for the level of an interrupt in service: what    *)
(* intc_raise sets, the end of that interrupt clears.                          *)
IsprInService == \A c \in Cores : ispr[c] \subseteq {wlvl[c][i] : i \in InService(c)}

(* The level of a waiting interrupt is the one its register held when it was   *)
(* requested: neither a second request nor a write to the register changes it  *)
(* before it is ended.                                                         *)
LevelKept ==
  [][\A c \in Cores, i \in Ints :
       Waits(c, i) => wlvl'[c][i] \in {wlvl[c][i], NumLvl}]_vars

(* The writes to an xxICn register that reach the hook of bytes, and those of  *)
(* half-words and words.                                                       *)
ByteWrite(c) ==
  WriteIC8Upper(c) \/ \E i \in Ints, v \in ICValues : WriteIC8(c, i, v)
WiderWrite(c) ==
  \E i \in Ints, v, w \in ICValues : WriteIC16(c, i, v) \/ WriteIC32(c, i, v, w)

(* An interrupt stops waiting in two ways only: it was the one in service on   *)
(* that core and a byte written by that core to an xxICn register ended it     *)
(* (intc_hook_update_reg8), or the whole device was reset.  No half-word and   *)
(* no word, no write to a mask register, no return from the handler and        *)
(* nothing the other core does ends a service or takes a request away.         *)
OnlyTheCurrentEnds ==
  [][\A c \in Cores, i \in Ints :
       Waits(c, i) /\ wlvl'[c][i] = NumLvl
         => DeviceReset \/ (i = cur[c] /\ ByteWrite(c) /\ ~ WiderWrite(c))]_vars

(* A core in the NMI state keeps the PSW it will return to: only INTWDT2 and a *)
(* FETRAP of its own program overwrite FEPSW before NP is cleared, and neither *)
(* a second NMI nor a trap does.                                               *)
FepswKept ==
  [][\A c \in Cores : psw[c].np /\ fepsw'[c] # fepsw[c] => wdt \/ FeTrap(c)]_vars

(* The stack of interrupt numbers, the frozen levels and the linear search     *)
(* implement the priority controller that hardware promises.                   *)
Promise == INSTANCE PriorityInterrupts WITH
             level  <- wlvl,
             active <- [c \in Cores |-> InService(c)],
             mask   <- [c \in Cores |-> {i \in Ints : ic[c][i].mk}]

KeepsPromise == Promise!Spec

(* A core that sleeps with its interrupts enabled while an interrupt competes  *)
(* wakes up, whatever the other core and the devices do, unless the whole      *)
(* device is reset, which takes the request away, or INTWDT2 is requested.     *)
HaltedCoreWakes ==
  \A c \in Cores :
    halt[c] /\ ~ psw[c].np /\ ~ psw[c].id /\ Candidates(c) # {}
      ~> ~ halt[c] \/ Candidates(c) = {} \/ wdt

(* A requested INTWDT2 makes every core enter the NMI state before the request *)
(* is withdrawn (intc.c:478-481: intc_raise_pending_intr "checks all the       *)
(* interrupts running and pending and executes the one of the highest          *)
(* priority").                                                                 *)
Intwdt2IsTaken == \A c \in Cores : wdt ~> psw[c].np \/ ~ wdt

=============================================================================
