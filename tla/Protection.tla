----------------------------- MODULE Protection -----------------------------
(***************************************************************************)
(* Memory protection of one core: the banked system registers as far as    *)
(* they decide it (LDSR, op_exec_spec.c), the containers of regions that   *)
(* cpu_config.c derives from them, the permission checks of every access,  *)
(* and the exceptions and returns as they change what the core is trusted  *)
(* with.  The cores have nothing in common here.                           *)
(*                                                                         *)
(* What is abstracted: an address is the number of its block of 16 bytes,  *)
(* as the registers hold it; of PSW the four protection bits are kept, and *)
(* of an exception what it does to them (Intc has NP, ID and EP); the      *)
(* registers that record a violation are left out; a stack frame or a      *)
(* table is an access like another.                                        *)
(***************************************************************************)
EXTENDS Integers, FiniteSetsExt

CONSTANTS
  Width,      (* 28: bits in the number of a block                             *)
  Kept,       (* 24: bits of it that private_cpu_mpu_set_common_obj keeps      *)
  ExecNum,    (* TARGET_CORE_MPU_CONFIG_EXEC_MAXNUM                            *)
  DataNum,    (* TARGET_CORE_MPU_CONFIG_DATA_MAXNUM                            *)
  Reserved,   (* programs set reserved bits of BSEL                            *)
  Lowers,     (* what programs write into a lower register, IPAnL or DPAnL     *)
  Uppers,     (* what programs write into an upper register, IPAnU or DPAnU    *)
  Doubts,     (* what programs write into the protection bits of a PSW         *)
  Accesses    (* the accesses of programs: kind, device, first and last block  *)

Blocks == 0 .. 2 ^ Width - 1

PswBits == {"imp", "dmp", "npv", "pp"}

ExecRegions == 0 .. ExecNum - 1
DataRegions == ExecNum .. ExecNum + DataNum - 1
Regions     == ExecRegions \cup DataRegions

LowerType  == [lo : Blocks, on : BOOLEAN, mask : BOOLEAN]
UpperType  == [hi : Blocks, r : BOOLEAN, wx : BOOLEAN]
AccessType == [kind : {"read", "write", "exec"}, device : BOOLEAN, first : Blocks, last : Blocks]

ASSUME ProtectionAssumption ==
  /\ Width \in Nat /\ Kept \in 0 .. Width
  /\ ExecNum \in Nat \ {0} /\ DataNum \in Nat \ {0}
  /\ Reserved \in BOOLEAN
  /\ Lowers \subseteq LowerType
  /\ Uppers \subseteq UpperType
  /\ Doubts \subseteq SUBSET PswBits
  /\ Accesses \subseteq AccessType
  (* A fetch is checked as memory, wherever it is.                             *)
  /\ \A a \in Accesses : a.kind = "exec" => ~ a.device

VARIABLES
  psw,       (* the protection bits of PSW that are set: what is not trusted   *)
  eipsw,     (* the same of EIPSW                                              *)
  fepsw,     (* the same of FEPSW                                              *)
  aue,       (* the AUE bit of MPM                                             *)
  bank,      (* current_grp and current_bnk                                    *)
  selected,  (* sysreg[BSEL] is CPU_CONFIG_BSEL_MPU_BNK_SETTING                *)
  region,    (* the registers IPAnL, IPAnU, DPAnL and DPAnU                    *)
  configs,   (* mpu.exec_configs and mpu.data_configs                          *)
  outcome    (* history: the access of the last step, if it was one            *)

saved == <<eipsw, fepsw>>
vars  == <<psw, saved, aue, bank, selected, region, configs, outcome>>

NoAccess == [kind |-> "none"]

-----------------------------------------------------------------------------
(* The containers of regions.                                                  *)

(* A slip: the upper address in bytes.                                         *)
ConfigBytes(r) == [r EXCEPT !.hi = 16 * @ + 15]

(* private_cpu_mpu_set_common_obj keeps bits 4 to 27 of an address.            *)
Config(r) == [r EXCEPT !.lo = @ % 2 ^ Kept, !.hi = @ % 2 ^ Kept]

(* private_cpu_mpu_construct_containers.                                       *)
Built(regs) == [n \in Regions |-> Config(regs[n])]

(* Two slips: the containers are rebuilt from the registers as they were; the  *)
(* containers of data are forgotten.                                           *)
RebuildEarly == configs' = IF selected' THEN Built(region) ELSE configs
RebuildExec ==
  configs' = IF selected' THEN [n \in Regions |-> IF n \in ExecRegions THEN Config(region'[n])
                                                  ELSE configs[n]]
             ELSE configs

(* The end of op_exec_ldsr.                                                    *)
Rebuild == configs' = IF selected' THEN Built(region') ELSE configs

(* al & ~au and al | au.                                                       *)
Clear(a, m) == MapThenSumSet(LAMBDA i : 2 ^ i,
                 {i \in 0 .. Width - 1 : (a \div 2 ^ i) % 2 = 1 /\ (m \div 2 ^ i) % 2 = 0})
Joined(a, m) == m + Clear(a, m)

(* is_overlap: of ranges, none of which need be one.                           *)
Overlaps(c, a) ==
  LET start == IF c.mask THEN Clear(c.lo, c.hi) ELSE c.lo
      end   == IF c.mask THEN Joined(c.lo, c.hi) ELSE c.hi
  IN  ~ (start > a.last \/ end < a.first)

(* dmp_object_filter and dip_object_filter.                                    *)
Allows(c, a) ==
  /\ c.on
  /\ Overlaps(c, a)
  /\ IF a.kind = "read" THEN c.r ELSE c.wx

-----------------------------------------------------------------------------
(* The permission of an access, with the protection bits p.                    *)

Imp(p, a) == a.kind = "write" \/ "imp" \notin p \/ \E n \in ExecRegions : Allows(configs[n], a)
Dmp(p, a) == a.kind = "exec"  \/ "dmp" \notin p \/ \E n \in DataRegions : Allows(configs[n], a)

(* A slip: a read needs both protections, as everything else does.             *)
HasPermissionBoth(p, a) ==
  IF a.device THEN "pp" \notin p ELSE Imp(p, a) /\ Dmp(p, a)

(* cpu_has_permission.  cpu_has_permission_for_clock_supply permits the same.  *)
HasPermission(p, a) ==
  IF a.device THEN "pp" \notin p
  ELSE IF a.kind = "read" THEN Imp(p, a) \/ Dmp(p, a) ELSE Imp(p, a) /\ Dmp(p, a)

(* cpu_illegal_access, which the loop of the athrill core calls when an        *)
(* instruction has failed.                                                     *)
IllegalAccess(p) == psw' = {} /\ fepsw' = p

(* A fetch, or a load, a store or a stack operation of an instruction.         *)
Access(a) ==
  /\ outcome' = [kind |-> a.kind, device |-> a.device, first |-> a.first, last |-> a.last,
                 granted |-> HasPermission(psw, a)]
  /\ IF HasPermission(psw, a) THEN UNCHANGED <<psw, fepsw>> ELSE IllegalAccess(psw)
  /\ UNCHANGED <<eipsw, aue, bank, selected, region, configs>>

-----------------------------------------------------------------------------
(* LDSR.                                                                       *)

Privileged == "npv" \notin psw

(* A slip: PSW is written like a register of the program.                      *)
WritesPswUnasked(p) == bank = "cpu"

(* ldsr_has_permission: a core that is not privileged may write PSW, as long   *)
(* as it changes no bit above the flags, and nothing else.                     *)
WritesPsw(p) == bank = "cpu" /\ (Privileged \/ p = psw)

LdsrPsw(p) ==
  /\ WritesPsw(p)
  /\ psw' = p
  /\ outcome' = NoAccess
  /\ UNCHANGED <<saved, aue, bank, selected, region, configs>>

LdsrSavedPsw(p) ==
  /\ Privileged
  /\ bank = "cpu"
  /\ \/ eipsw' = p /\ UNCHANGED fepsw
     \/ fepsw' = p /\ UNCHANGED eipsw
  /\ outcome' = NoAccess
  /\ UNCHANGED <<psw, aue, bank, selected, region, configs>>

(* BSEL: set_sysreg_grp_bnk looks at the lower half only, the test that        *)
(* rebuilds the containers at all of it.  The other banks, the one for paging  *)
(* included, are registers of their own.                                       *)
LdsrBsel(b, reserved) ==
  /\ Privileged
  /\ bank' = b
  /\ selected' = (b = "setting" /\ ~ reserved)
  /\ outcome' = NoAccess
  /\ UNCHANGED <<psw, saved, aue, region>>
  /\ Rebuild

(* One register of the setting bank.                                           *)
LdsrSetting(n, r) ==
  /\ Privileged
  /\ bank = "setting"
  /\ region' = [region EXCEPT ![n] = r]
  /\ outcome' = NoAccess
  /\ UNCHANGED <<psw, saved, aue, bank, selected>>
  /\ Rebuild

LdsrLower(n, l) ==
  LdsrSetting(n, [region[n] EXCEPT !.lo = l.lo, !.on = l.on, !.mask = l.mask])
LdsrUpper(n, u) ==
  LdsrSetting(n, [region[n] EXCEPT !.hi = u.hi, !.r = u.r, !.wx = u.wx])

LdsrMpm(x) ==
  /\ Privileged
  /\ bank = "setting"
  /\ aue' = x
  /\ outcome' = NoAccess
  /\ UNCHANGED <<psw, saved, bank, selected, region>>
  /\ Rebuild

(* Every other register, and LDSR without permission, which is only recorded.  *)
LdsrOther ==
  /\ outcome' = NoAccess
  /\ UNCHANGED <<psw, saved, aue, bank, selected, region>>
  /\ IF Privileged THEN Rebuild ELSE UNCHANGED configs

-----------------------------------------------------------------------------
(* Exceptions and returns.                                                     *)

Untouched == /\ outcome' = NoAccess
             /\ UNCHANGED <<aue, bank, selected, region, configs>>

(* TRAP clears the bits before it saves PSW, FETRAP after.                     *)
Trap ==
  /\ psw' = IF aue THEN {} ELSE psw
  /\ eipsw' = psw'
  /\ UNCHANGED fepsw
  /\ Untouched

FeTrap ==
  /\ fepsw' = psw
  /\ psw' = IF aue THEN {} ELSE psw
  /\ UNCHANGED eipsw
  /\ Untouched

(* SYSCALL reads its table trusted with data; when the read is refused, the    *)
(* bit is not put back before PSW is saved for the handler.                    *)
Syscall(a) ==
  LET p == IF aue THEN {} ELSE psw \ {"dmp"}
  IN  /\ eipsw' = psw
      /\ IF HasPermission(p, a) THEN psw' = (IF aue THEN {} ELSE psw) /\ UNCHANGED fepsw
                                ELSE IllegalAccess(p)
      /\ Untouched

(* Interrupts and the illegal opcode trap leave the protection bits alone.     *)
Interrupt ==
  /\ \/ eipsw' = psw /\ UNCHANGED fepsw
     \/ fepsw' = psw /\ UNCHANGED eipsw
  /\ UNCHANGED psw
  /\ Untouched

(* RETI, EIRET and FERET.                                                      *)
Return ==
  /\ psw' \in {eipsw, fepsw}
  /\ UNCHANGED saved
  /\ Untouched

(* private_cpu_mpu_init: no region is on, DPA0 is open and DPA5 a mask.        *)
ResetRegion(n) ==
  [lo |-> 0, hi |-> 0, on |-> FALSE, mask |-> n = ExecNum + DataNum - 1,
   r |-> n = ExecNum, wx |-> n = ExecNum]

(* private_cpu_reset, which RETI reaches by intc_clr_nmi when INTWDT2 is       *)
(* pending.  MPM is not reset.                                                 *)
CpuReset ==
  /\ psw' = {} /\ eipsw' = {} /\ fepsw' = {}
  /\ bank' = "cpu" /\ selected' = FALSE
  /\ region'  = [n \in Regions |-> ResetRegion(n)]
  /\ configs' = Built(region')
  /\ outcome' = NoAccess
  /\ UNCHANGED aue

Init ==
  /\ psw = {} /\ eipsw = {} /\ fepsw = {}
  /\ aue = FALSE
  /\ bank = "cpu" /\ selected = FALSE
  /\ region  = [n \in Regions |-> ResetRegion(n)]
  /\ configs = Built(region)
  /\ outcome = NoAccess

Ldsr ==
  \/ \E p \in Doubts : LdsrPsw(p) \/ LdsrSavedPsw(p)
  \/ \E b \in {"cpu", "setting", "other"}, x \in {FALSE, Reserved} : LdsrBsel(b, x)
  \/ \E n \in Regions : \/ \E l \in Lowers : LdsrLower(n, l)
                        \/ \E u \in Uppers : LdsrUpper(n, u)
  \/ \E x \in BOOLEAN : LdsrMpm(x)
  \/ LdsrOther

Next ==
  \/ \E a \in Accesses : Access(a) \/ (a.kind = "read" /\ Syscall(a))
  \/ Ldsr
  \/ Trap \/ FeTrap \/ Interrupt \/ Return
  \/ CpuReset

Spec == Init /\ [][Next]_vars

-----------------------------------------------------------------------------
(* Properties.                                                                 *)

RegionType == [lo : Blocks, hi : Blocks, on : BOOLEAN, mask : BOOLEAN, r : BOOLEAN, wx : BOOLEAN]

OutcomeType == [kind : {"read", "write", "exec"}, device : BOOLEAN,
                first : Blocks, last : Blocks, granted : BOOLEAN]

(* Types; the containers hold addresses as short as the code makes them.       *)
TypeOK ==
  /\ psw \in SUBSET PswBits /\ eipsw \in SUBSET PswBits /\ fepsw \in SUBSET PswBits
  /\ aue \in BOOLEAN
  /\ bank \in {"cpu", "setting", "other"}
  /\ selected \in BOOLEAN
  /\ region  \in [Regions -> RegionType]
  /\ configs \in [Regions -> RegionType]
  /\ outcome \in OutcomeType \cup {NoAccess}

(* The containers that every access is checked against are those the registers *)
(* describe: no order of bank selections, register writes and resets leaves a  *)
(* stale one (if no program sets reserved bits of BSEL).                       *)
RegionsCurrent == configs = Built(region)

(* While the bank is selected in the way the code tests for, the containers    *)
(* are current whatever a program has done to BSEL before.                     *)
SelectedIsCurrent == selected => bank = "setting" /\ RegionsCurrent

Promise == INSTANCE RegionProtection WITH doubt <- psw

(* A core without privilege becomes trusted with more in three ways only: it   *)
(* returns to a PSW that was saved, it enters a handler, or it is reset.  All  *)
(* its doubts are then saved, but where AUE makes TRAP save a cleared PSW.     *)
PrivilegeIsEntered ==
  [][~ Privileged /\ psw \ psw' # {} =>
        \/ psw' \in {eipsw, fepsw} /\ UNCHANGED saved
        \/ psw' = {} /\ (aue \/ psw \subseteq eipsw' \cup fepsw')
        \/ psw' = {} /\ bank' = "cpu" /\ \A n \in Regions : ~ configs'[n].on]_vars

(* Memory protection as a program sees it: every access is judged by the       *)
(* registers as they are, with its own reading of address ranges and masks;    *)
(* only a core trusted with system registers changes them; a refused access    *)
(* ends in a fully trusted handler.                                            *)
KeepsProtection == Promise!Spec

(* An access that the registers of a region enclose, from its lower to its     *)
(* upper address, is never refused when the region is open to it, as the       *)
(* comment of TargetCoreMpuConfigType has the two addresses.                   *)
EnclosedIsGranted ==
  outcome # NoAccess /\ ~ outcome.device /\ ~ outcome.granted =>
    \A n \in IF outcome.kind = "write" THEN DataRegions
              ELSE IF outcome.kind = "exec" THEN ExecRegions ELSE Regions :
      ~ (/\ region[n].on /\ ~ region[n].mask
         /\ region[n].lo <= outcome.first /\ outcome.last <= region[n].hi
         /\ IF outcome.kind = "read" THEN region[n].r ELSE region[n].wx)
=============================================================================
