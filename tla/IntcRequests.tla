---------------------------- MODULE IntcRequests ----------------------------
(***************************************************************************)
(* Intc with two history variables: owed remembers which requests no core  *)
(* has served, since the controller keeps one waiting entry per interrupt  *)
(* and this says what the entry stands for; asked remembers an NMI that no *)
(* core has taken, since the controller keeps one count for all of them.   *)
(***************************************************************************)
EXTENDS Intc

VARIABLES
  owed,     (* owed[c]: requested on core c, while it did not serve it, since  *)
            (* core c last accepted it                                         *)
  asked     (* an NMI was requested since any core last took one               *)

hvars == <<vars, owed, asked>>

HInit == Init /\ owed = AllCores({}) /\ asked = FALSE

(* i is requested on the cores of S.  A core that serves i absorbs the request *)
(* (set_wait_intno sees the entry of that service): it owes nothing for it.    *)
Owe(S, i) ==
  owed' = [c \in Cores |-> IF c \in S /\ i \notin InService(c) THEN owed[c] \cup {i}
                           ELSE owed[c]]

(* What Instruction(c) does but for the write to a MIR register.               *)
OtherInstruction(c) ==
  \/ RegisterWrite(c) \/ DiEi(c) \/ Halt(c)
  \/ Trap(c) \/ FeTrap(c) \/ IllegalOpcodeTrap(c)
  \/ EiReturn(c) \/ FeRet(c) \/ NmiReturn(c)

HClock ==
  /\ SupplyClock
  /\ owed' = [c \in Cores |-> IF TakesInt(c) THEN owed[c] \ {Best(c)} ELSE owed[c]]
  /\ asked' = (asked /\ \A c \in Cores : ~ TakesNmi(c))

HNext ==
  /\ StackFits
  /\ \/ HClock
     \/ \E i \in Sources : RaiseIntr(i) /\ Owe(Cores, i) /\ UNCHANGED asked
     \/ \E c \in Cores, i \in MirInts : CpuTrigger(c, i) /\ Owe({1 - c}, i) /\ UNCHANGED asked
     \/ RaiseNmi /\ UNCHANGED owed /\ asked' = (asked \/ nmi' # nmi)
     \/ DeviceReset /\ owed' = AllCores({}) /\ asked' = FALSE
     \/ \E c \in Cores : OtherInstruction(c) /\ UNCHANGED <<owed, asked>>

HSpec == HInit /\ [][HNext]_hvars

(* The emulator supplies the device clock for ever, as in FairSpec, and does   *)
(* not reset the devices: device_reset leaves the cores alone, and a core that *)
(* it finds in the NMI state returns from an NMI that is counted no more.      *)
HFairSpec == HInit /\ [][HNext /\ ~ DeviceReset]_hvars /\ WF_hvars(StackFits /\ HClock)

-----------------------------------------------------------------------------
(* A core accepts an interrupt only for a request that came after the last     *)
(* time it accepted that interrupt: the end of an interrupt leaves nothing     *)
(* behind that could start it again (intc_clr_currlvl_ispr, clr_wait_intno).   *)
NoSpuriousService ==
  [][\A c \in Cores : Accepts(c) => cur'[c] \in owed[c]]_hvars

(* The waiting entries of the interrupts that a core does not serve are the    *)
(* requests it has not answered, neither more nor fewer: on every core a       *)
(* request waits whatever the other core, the register writes and the ends of  *)
(* other interrupts do, and it is lost in one case only, when it repeats one   *)
(* that is in service there (set_wait_intno, clr_wait_intno).                  *)
RequestsWait ==
  \A c \in Cores : owed[c] = {i \in Ints : Waits(c, i) /\ i \notin InService(c)}

(* A requested NMI is taken by a core unless INTWDT2 is requested or every     *)
(* core is in the NMI state already, where it has to wait (intc.c:478-481:     *)
(* intc_raise_pending_intr "checks all the interrupts running and pending and  *)
(* executes the one of the highest priority").                                 *)
NmiIsTaken == asked ~> ~ asked \/ wdt \/ \A c \in Cores : psw[c].np
=============================================================================
