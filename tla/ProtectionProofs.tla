-------------------------- MODULE ProtectionProofs --------------------------
(***************************************************************************)
(* Theorems about Protection, for any addresses, regions and programs: the *)
(* containers follow the registers, privilege is only entered, variables   *)
(* keep their types; and, for programs that keep to ranges, memory is      *)
(* protected as RegionProtection has it.                                   *)
(***************************************************************************)
EXTENDS Protection, TLAPS

(* Which bank is selected is the same for the two that look at BSEL.           *)
BankAgrees == selected <=> bank = "setting"

(* No step but these touches a container, a region or the selection.           *)
LEMMA Untouching ==
  ASSUME \/ \E a \in Accesses : Access(a) \/ (a.kind = "read" /\ Syscall(a))
         \/ \E p \in Doubts : LdsrPsw(p) \/ LdsrSavedPsw(p)
         \/ Trap \/ FeTrap \/ Interrupt \/ Return
         \/ UNCHANGED vars
  PROVE  UNCHANGED <<bank, selected, region, configs>>
BY DEF Access, Syscall, LdsrPsw, LdsrSavedPsw, Trap, FeTrap, Interrupt, Return, Untouched, vars

(* While the bank is selected as the code tests for it, the containers are     *)
(* those of the registers, even if programs set reserved bits of BSEL.         *)
THEOREM SelectedCurrent == Spec => []SelectedIsCurrent
<1>1. Init => SelectedIsCurrent
  BY DEF Init, SelectedIsCurrent
<1>2. SelectedIsCurrent /\ [Next]_vars => SelectedIsCurrent'
  <2> SUFFICES ASSUME SelectedIsCurrent, [Next]_vars PROVE SelectedIsCurrent'
    OBVIOUS
  <2> USE DEF SelectedIsCurrent, RegionsCurrent
  <2>1. CASE UNCHANGED <<bank, selected, region, configs>>
    BY <2>1 DEF Built
  <2>2. ASSUME NEW b, NEW x, LdsrBsel(b, x) PROVE SelectedIsCurrent'
    BY <2>2 DEF LdsrBsel, Rebuild, Built
  <2>3. ASSUME NEW n, NEW r, LdsrSetting(n, r) PROVE SelectedIsCurrent'
    BY <2>3 DEF LdsrSetting, Rebuild, Built
  <2>4. ASSUME NEW x, LdsrMpm(x) PROVE SelectedIsCurrent'
    BY <2>4 DEF LdsrMpm, Rebuild, Built
  <2>5. CASE LdsrOther
    BY <2>5 DEF LdsrOther, Rebuild, Built
  <2>6. CASE CpuReset
    BY <2>6 DEF CpuReset
  <2>7. QED
    BY <2>1, <2>2, <2>3, <2>4, <2>5, <2>6, Untouching DEF Next, Ldsr, LdsrLower, LdsrUpper
<1>3. QED
  BY <1>1, <1>2, PTL DEF Spec

(* If no program sets reserved bits of BSEL, an access is never checked        *)
(* against stale containers.                                                   *)
THEOREM AlwaysCurrent ==
  ASSUME Reserved = FALSE
  PROVE  Spec => []RegionsCurrent
<1> DEFINE I == BankAgrees /\ RegionsCurrent
<1>1. Init => I
  BY DEF Init, BankAgrees, RegionsCurrent
<1>2. I /\ [Next]_vars => I'
  <2> SUFFICES ASSUME I, [Next]_vars PROVE I'
    OBVIOUS
  <2> USE DEF BankAgrees, RegionsCurrent
  <2>1. CASE UNCHANGED <<bank, selected, region, configs>>
    BY <2>1 DEF Built
  <2>2. ASSUME NEW b, NEW x \in {FALSE, Reserved}, LdsrBsel(b, x) PROVE I'
    BY <2>2 DEF LdsrBsel, Rebuild, Built
  <2>3. ASSUME NEW n, NEW r, LdsrSetting(n, r) PROVE I'
    BY <2>3 DEF LdsrSetting, Rebuild, Built
  <2>4. ASSUME NEW x, LdsrMpm(x) PROVE I'
    BY <2>4 DEF LdsrMpm, Rebuild, Built
  <2>5. CASE LdsrOther
    BY <2>5 DEF LdsrOther, Rebuild, Built
  <2>6. CASE CpuReset
    BY <2>6 DEF CpuReset
  <2>7. QED
    BY <2>1, <2>2, <2>3, <2>4, <2>5, <2>6, Untouching DEF Next, Ldsr, LdsrLower, LdsrUpper
<1>3. I => RegionsCurrent
  OBVIOUS
<1>4. QED
  BY <1>1, <1>2, <1>3, PTL DEF Spec

(* A core without privilege gains trust by a return, an entry or a reset only. *)
THEOREM PrivilegeEntered == Spec => PrivilegeIsEntered
<1> DEFINE Gain ==
      ~ Privileged /\ psw \ psw' # {} =>
        \/ psw' \in {eipsw, fepsw} /\ UNCHANGED saved
        \/ psw' = {} /\ (aue \/ psw \subseteq eipsw' \cup fepsw')
        \/ psw' = {} /\ bank' = "cpu" /\ \A n \in Regions : ~ configs'[n].on
<1>1. [Next]_vars => [Gain]_vars
  <2> SUFFICES ASSUME Next, ~ Privileged, psw \ psw' # {} PROVE Gain
    OBVIOUS
  <2>1. ASSUME NEW a \in Accesses, Access(a) PROVE Gain
    BY <2>1 DEF Access, IllegalAccess
  <2>2. ASSUME NEW a \in Accesses, Syscall(a) PROVE Gain
    BY <2>2 DEF Syscall, IllegalAccess
  <2>3. CASE Ldsr
    BY <2>3 DEF Ldsr, LdsrPsw, LdsrSavedPsw, LdsrBsel, LdsrLower, LdsrUpper, LdsrSetting, LdsrMpm,
                LdsrOther, WritesPsw
  <2>4. CASE Trap \/ FeTrap
    BY <2>4 DEF Trap, FeTrap
  <2>5. CASE Interrupt
    BY <2>5 DEF Interrupt
  <2>6. CASE Return
    BY <2>6 DEF Return
  <2>7. CASE CpuReset
    <3>1. ASSUME NEW n \in Regions PROVE ~ configs'[n].on
      BY <2>7 DEF CpuReset, Built, Config, ResetRegion
    <3>2. QED
      BY <2>7, <3>1 DEF CpuReset
  <2>8. QED
    BY <2>1, <2>2, <2>3, <2>4, <2>5, <2>6, <2>7 DEF Next
<1>2. QED
  BY <1>1, PTL DEF Spec, PrivilegeIsEntered

-----------------------------------------------------------------------------
(* Types.                                                                      *)

(* An address cut to the bits that a container keeps is no longer than it was. *)
LEMMA CutIsShorter ==
  ASSUME NEW m \in Nat \ {0}, NEW x \in Nat
  PROVE  x % m \in 0 .. x
<1>1. x % m \in 0 .. m - 1
  BY SMT
<1>2. x = m * (x \div m) + (x % m) /\ x \div m \in Nat
  BY SMT
<1> DEFINE q == x \div m
           r == x % m
<1>3. r \in 0 .. m - 1 /\ x = m * q + r /\ q \in Nat
  BY <1>1, <1>2
<1> HIDE DEF q, r
<1>4. m * q \in Nat
  BY <1>3, SMT
<1>5. r \in 0 .. x
  BY <1>3, <1>4, SMT
<1> QED
  BY <1>5 DEF r

(* Every variable keeps its type.  That powers of two are natural numbers is a *)
(* fact that the provers do not have.                                          *)
THEOREM TypeCorrect ==
  ASSUME 2 ^ Width \in Nat \ {0}, 2 ^ Kept \in Nat \ {0}
  PROVE  Spec => []TypeOK
<1>1. 0 \in Blocks
  BY SMT DEF Blocks
<1>2. ASSUME NEW x \in Blocks
      PROVE  x % 2 ^ Kept \in Blocks
  <2>1. x \in Nat /\ x <= 2 ^ Width - 1
    BY SMT DEF Blocks
  <2>2. x % 2 ^ Kept \in 0 .. x
    BY <2>1, CutIsShorter
  <2> QED
    BY <2>1, <2>2, SMT DEF Blocks
<1>3. ASSUME NEW r \in RegionType
      PROVE  Config(r) \in RegionType
  <2>1. r.lo % 2 ^ Kept \in Blocks /\ r.hi % 2 ^ Kept \in Blocks
    BY <1>2 DEF RegionType
  <2> DEFINE lo == r.lo % 2 ^ Kept
             hi == r.hi % 2 ^ Kept
  <2>2. lo \in Blocks /\ hi \in Blocks /\ Config(r) = [r EXCEPT !.lo = lo, !.hi = hi]
    BY <2>1 DEF Config
  <2> HIDE DEF lo, hi
  <2> QED
    BY <2>2 DEF RegionType
<1>4. ASSUME NEW f \in [Regions -> RegionType]
      PROVE  Built(f) \in [Regions -> RegionType]
  BY <1>3 DEF Built
<1>5. [n \in Regions |-> ResetRegion(n)] \in [Regions -> RegionType]
  BY <1>1 DEF ResetRegion, RegionType
<1>6. Init => TypeOK
  <2> SUFFICES ASSUME Init PROVE TypeOK
    OBVIOUS
  <2>1. region \in [Regions -> RegionType] /\ configs \in [Regions -> RegionType]
    BY <1>4, <1>5 DEF Init
  <2>2. /\ psw \in SUBSET PswBits /\ eipsw \in SUBSET PswBits /\ fepsw \in SUBSET PswBits
        /\ aue \in BOOLEAN /\ bank \in {"cpu", "setting", "other"} /\ selected \in BOOLEAN
        /\ outcome \in OutcomeType \cup {NoAccess}
    BY DEF Init
  <2> QED
    BY <2>1, <2>2 DEF TypeOK
<1>7. TypeOK /\ [Next]_vars => TypeOK'
  <2> SUFFICES ASSUME TypeOK, [Next]_vars PROVE TypeOK'
    OBVIOUS
  <2>1. /\ psw \in SUBSET PswBits /\ eipsw \in SUBSET PswBits /\ fepsw \in SUBSET PswBits
        /\ aue \in BOOLEAN /\ bank \in {"cpu", "setting", "other"} /\ selected \in BOOLEAN
        /\ region \in [Regions -> RegionType] /\ configs \in [Regions -> RegionType]
    BY DEF TypeOK
  <2>2. NoAccess \in OutcomeType \cup {NoAccess}
    OBVIOUS
  <2>3. ASSUME region' \in [Regions -> RegionType], Rebuild
        PROVE  configs' \in [Regions -> RegionType]
    BY <1>4, <2>1, <2>3 DEF Rebuild
  <2>4. ASSUME NEW a \in Accesses, Access(a) PROVE TypeOK'
    <3>1. outcome' \in OutcomeType
      <4>1. /\ a.kind \in {"read", "write", "exec"} /\ a.device \in BOOLEAN
            /\ a.first \in Blocks /\ a.last \in Blocks
        BY ProtectionAssumption DEF AccessType
      <4>2. HasPermission(psw, a) \in BOOLEAN
        BY DEF HasPermission, Imp, Dmp
      <4> QED
        BY <2>4, <4>1, <4>2 DEF Access, OutcomeType
    <3> QED
      BY <2>1, <2>4, <3>1 DEF Access, IllegalAccess, TypeOK
  <2>5. ASSUME NEW a \in Accesses, Syscall(a) PROVE TypeOK'
    BY <2>1, <2>2, <2>5 DEF Syscall, IllegalAccess, Untouched, TypeOK
  <2>6. ASSUME NEW p \in Doubts, LdsrPsw(p) \/ LdsrSavedPsw(p) PROVE TypeOK'
    BY <2>1, <2>2, <2>6, ProtectionAssumption DEF LdsrPsw, LdsrSavedPsw, saved, TypeOK
  <2>7. ASSUME NEW b \in {"cpu", "setting", "other"}, NEW x \in {FALSE, Reserved}, LdsrBsel(b, x)
        PROVE  TypeOK'
    <3>1. selected' \in BOOLEAN
      BY <2>7 DEF LdsrBsel
    <3> QED
      BY <2>1, <2>2, <2>3, <2>7, <3>1 DEF LdsrBsel, saved, TypeOK
  <2>8. ASSUME NEW n \in Regions, NEW r \in RegionType, LdsrSetting(n, r)
        PROVE  TypeOK'
    <3>1. region' \in [Regions -> RegionType]
      BY <2>1, <2>8 DEF LdsrSetting
    <3> QED
      BY <2>1, <2>2, <2>3, <2>8, <3>1 DEF LdsrSetting, saved, TypeOK
  <2>9. ASSUME NEW n \in Regions, NEW l \in Lowers, LdsrLower(n, l) PROVE TypeOK'
    <3>1. region[n] \in RegionType /\ l \in LowerType
      BY <2>1, ProtectionAssumption
    <3>2. [region[n] EXCEPT !.lo = l.lo, !.on = l.on, !.mask = l.mask] \in RegionType
      BY <3>1 DEF RegionType, LowerType
    <3> QED
      BY <2>8, <2>9, <3>2 DEF LdsrLower
  <2>10. ASSUME NEW n \in Regions, NEW u \in Uppers, LdsrUpper(n, u) PROVE TypeOK'
    <3>1. region[n] \in RegionType /\ u \in UpperType
      BY <2>1, ProtectionAssumption
    <3>2. [region[n] EXCEPT !.hi = u.hi, !.r = u.r, !.wx = u.wx] \in RegionType
      BY <3>1 DEF RegionType, UpperType
    <3> QED
      BY <2>8, <2>10, <3>2 DEF LdsrUpper
  <2>11. ASSUME NEW x \in BOOLEAN, LdsrMpm(x) PROVE TypeOK'
    BY <2>1, <2>2, <2>3, <2>11 DEF LdsrMpm, saved, TypeOK
  <2>12. CASE LdsrOther
    BY <2>1, <2>2, <2>3, <2>12 DEF LdsrOther, saved, TypeOK
  <2>13. CASE Trap \/ FeTrap \/ Interrupt \/ Return
    BY <2>1, <2>2, <2>13 DEF Trap, FeTrap, Interrupt, Return, Untouched, saved, TypeOK
  <2>14. CASE CpuReset
    <3>1. region' \in [Regions -> RegionType] /\ configs' \in [Regions -> RegionType]
      BY <1>4, <1>5, <2>14 DEF CpuReset
    <3> QED
      BY <2>1, <2>2, <2>14, <3>1 DEF CpuReset, TypeOK
  <2>15. CASE UNCHANGED vars
    BY <2>15 DEF vars, saved, TypeOK
  <2> QED
    BY <2>4, <2>5, <2>6, <2>7, <2>9, <2>10, <2>11, <2>12, <2>13, <2>14, <2>15 DEF Next, Ldsr
<1> QED
  BY <1>6, <1>7, PTL DEF Spec

-----------------------------------------------------------------------------
(* Refinement, for programs that keep to ranges.                               *)

(* Programs use ranges, and addresses that a container holds as they are.      *)
KeepToRanges ==
  /\ Reserved = FALSE
  /\ 0 % 2 ^ Kept = 0
  /\ \A l \in Lowers : ~ l.mask /\ l.lo % 2 ^ Kept = l.lo
  /\ \A u \in Uppers : u.hi % 2 ^ Kept = u.hi
  /\ \A a \in Accesses : a.first <= a.last

(* A region that is on is a range, and its container has its addresses.        *)
Ranges ==
  \A n \in Regions : /\ region[n].on => ~ region[n].mask
                     /\ region[n].lo % 2 ^ Kept = region[n].lo
                     /\ region[n].hi % 2 ^ Kept = region[n].hi

LEMMA OnlyRanges ==
  ASSUME KeepToRanges, TypeOK, Ranges, [Next]_vars PROVE Ranges'
<1> USE DEF Ranges
<1>1. CASE UNCHANGED region
  BY <1>1
<1>2. ASSUME NEW n \in Regions, NEW l \in Lowers, LdsrLower(n, l) PROVE Ranges'
  <2>1. region[n] \in RegionType /\ region \in [Regions -> RegionType]
    BY DEF TypeOK
  <2>2. region' = [region EXCEPT ![n] = [region[n] EXCEPT !.lo = l.lo, !.on = l.on, !.mask = l.mask]]
    BY <1>2 DEF LdsrLower, LdsrSetting
  <2>3. ~ l.mask /\ l.lo % 2 ^ Kept = l.lo
    BY DEF KeepToRanges
  <2>4. /\ region'[n].lo = l.lo /\ region'[n].hi = region[n].hi /\ region'[n].mask = l.mask
        /\ \A m \in Regions \ {n} : region'[m] = region[m]
    BY <2>1, <2>2 DEF RegionType
  <2> QED
    BY <2>3, <2>4
<1>3. ASSUME NEW n \in Regions, NEW u \in Uppers, LdsrUpper(n, u) PROVE Ranges'
  <2>1. region[n] \in RegionType /\ region \in [Regions -> RegionType]
    BY DEF TypeOK
  <2>2. region' = [region EXCEPT ![n] = [region[n] EXCEPT !.hi = u.hi, !.r = u.r, !.wx = u.wx]]
    BY <1>3 DEF LdsrUpper, LdsrSetting
  <2>3. u.hi % 2 ^ Kept = u.hi
    BY DEF KeepToRanges
  <2>4. /\ region'[n].lo = region[n].lo /\ region'[n].hi = u.hi
        /\ region'[n].on = region[n].on /\ region'[n].mask = region[n].mask
        /\ \A m \in Regions \ {n} : region'[m] = region[m]
    BY <2>1, <2>2 DEF RegionType
  <2> QED
    BY <2>3, <2>4
<1>4. CASE CpuReset
  BY <1>4 DEF CpuReset, ResetRegion, KeepToRanges
<1>5. ASSUME NEW b, NEW x, LdsrBsel(b, x) PROVE UNCHANGED region
  BY <1>5 DEF LdsrBsel
<1>6. ASSUME NEW x, LdsrMpm(x) PROVE UNCHANGED region
  BY <1>6 DEF LdsrMpm
<1>7. CASE LdsrOther
  BY <1>1, <1>7 DEF LdsrOther
<1> QED
  BY <1>1, <1>2, <1>3, <1>4, <1>5, <1>6, <1>7, Untouching DEF Next, Ldsr

(* The comparison of addresses in is_overlap finds the regions that hold a     *)
(* block of the access, and besides them at most regions whose addresses are   *)
(* in the wrong order.                                                         *)
LEMMA FindsTheRegions ==
  ASSUME KeepToRanges, TypeOK, RegionsCurrent, Ranges, NEW a \in Accesses, NEW n \in Regions
  PROVE  /\ n \in Promise!Must(a) => Allows(configs[n], a)
         /\ Allows(configs[n], a) => n \in Promise!May(a)
<1> DEFINE lo == region[n].lo
           hi == region[n].hi
           open == IF a.kind = "read" THEN region[n].r ELSE region[n].wx
<1>1. region[n] \in RegionType
  BY DEF TypeOK
<1>2. lo \in Int /\ hi \in Int /\ a.first \in Int /\ a.last \in Int /\ a.first <= a.last
  BY <1>1, ProtectionAssumption, SMT DEF KeepToRanges, RegionType, AccessType, Blocks
<1>3. configs[n] = region[n]
  <2>1. configs[n] = [region[n] EXCEPT !.lo = @ % 2 ^ Kept, !.hi = @ % 2 ^ Kept]
    BY DEF RegionsCurrent, Built, Config
  <2>2. region[n].lo % 2 ^ Kept = region[n].lo /\ region[n].hi % 2 ^ Kept = region[n].hi
    BY DEF Ranges
  <2> DEFINE l == region[n].lo % 2 ^ Kept
             h == region[n].hi % 2 ^ Kept
  <2>3. configs[n] = [region[n] EXCEPT !.lo = l, !.hi = h] /\ l = region[n].lo /\ h = region[n].hi
    BY <2>1, <2>2
  <2> HIDE DEF l, h
  <2> QED
    BY <1>1, <2>3 DEF RegionType
<1>4. region[n].on => ~ region[n].mask
  BY DEF Ranges
<1>5. Allows(configs[n], a) <=> region[n].on /\ open /\ ~ (lo > a.last \/ hi < a.first)
  BY <1>3, <1>4 DEF Allows, Overlaps
<1>6. n \in Promise!Open(a) <=> region[n].on /\ open
  BY DEF Promise!Open, Promise!Regions, Regions
<1>7. ASSUME region[n].on PROVE Promise!Regular(region[n]) <=> lo <= hi
  BY <1>4, <1>7 DEF Promise!Regular
<1>8. ASSUME region[n].on, NEW b PROVE Promise!Holds(region[n], b) <=> b \in lo .. hi
  BY <1>4, <1>8 DEF Promise!Holds
<1>9. n \in Promise!Must(a) <=>
        n \in Promise!Open(a) /\ Promise!Regular(region[n])
        /\ \E b \in a.first .. a.last : Promise!Holds(region[n], b)
  BY DEF Promise!Must
<1>10. n \in Promise!May(a) <=>
         n \in Promise!Must(a) \/ (n \in Promise!Open(a) /\ ~ Promise!Regular(region[n]))
  BY DEF Promise!May
<1> HIDE DEF lo, hi, open
<1>11. ASSUME n \in Promise!Must(a) PROVE Allows(configs[n], a)
  <2>1. region[n].on /\ open
    BY <1>6, <1>9, <1>11
  <2>2. PICK b \in a.first .. a.last : b \in lo .. hi
    BY <1>8, <1>9, <1>11, <2>1
  <2>3. ~ (lo > a.last \/ hi < a.first)
    BY <1>2, <2>2, SMT
  <2> QED
    BY <1>5, <2>1, <2>3
<1>12. ASSUME Allows(configs[n], a), Promise!Regular(region[n]) PROVE n \in Promise!Must(a)
  <2>1. region[n].on /\ open /\ ~ (lo > a.last \/ hi < a.first)
    BY <1>5, <1>12
  <2>2. lo <= hi
    BY <1>7, <1>12, <2>1
  <2>3. \E b \in a.first .. a.last : b \in lo .. hi
    <3>1. CASE lo <= a.first
      <4>1. a.first \in a.first .. a.last /\ a.first \in lo .. hi
        BY <1>2, <2>1, <3>1, SMT
      <4> QED
        BY <4>1
    <3>2. CASE ~ (lo <= a.first)
      <4>1. lo \in a.first .. a.last /\ lo \in lo .. hi
        BY <1>2, <2>1, <2>2, <3>2, SMT
      <4> QED
        BY <4>1
    <3> QED
      BY <3>1, <3>2
  <2> QED
    BY <1>6, <1>8, <1>9, <1>12, <2>1, <2>3
<1> QED
  BY <1>5, <1>6, <1>10, <1>11, <1>12

(* What HasPermission grants is between what certainly must be granted and     *)
(* what may be.                                                                *)
LEMMA JudgesRightly ==
  ASSUME KeepToRanges, TypeOK, RegionsCurrent, Ranges, NEW a \in Accesses, Access(a)
  PROVE  Promise!Access
<1> DEFINE granted == HasPermission(psw, a)
           MustBe  == Promise!Must(a)
           MayBe   == Promise!May(a)
<1>1. outcome' = [kind |-> a.kind, device |-> a.device, first |-> a.first, last |-> a.last,
                  granted |-> granted]
  BY DEF Access
<1>2. a.kind \in {"read", "write", "exec"}
  BY ProtectionAssumption DEF AccessType
<1>3. Promise!Must(outcome') = MustBe /\ Promise!May(outcome') = MayBe
  BY <1>1 DEF Promise!Must, Promise!May, Promise!Open
<1>4. \A n \in Regions : /\ n \in MustBe => Allows(configs[n], a)
                         /\ Allows(configs[n], a) => n \in MayBe
  BY FindsTheRegions
<1>5. MustBe \subseteq Regions
  BY DEF Promise!Must, Promise!Open, Promise!Regions, Regions
<1>6. ExecRegions \subseteq Regions /\ DataRegions \subseteq Regions
  BY DEF Regions
<1> HIDE DEF MustBe, MayBe
<1>7. ASSUME Promise!Verdict(a, MustBe) PROVE granted
  <2>1. ASSUME MustBe \cap ExecRegions # {} PROVE \E n \in ExecRegions : Allows(configs[n], a)
    BY <1>4, <1>6, <2>1
  <2>2. ASSUME MustBe \cap DataRegions # {} PROVE \E n \in DataRegions : Allows(configs[n], a)
    BY <1>4, <1>6, <2>2
  <2> QED
    BY <1>7, <2>1, <2>2 DEF Promise!Verdict, HasPermission, Imp, Dmp
<1>8. ASSUME granted PROVE Promise!Verdict(a, MayBe)
  <2>1. ASSUME NEW n \in ExecRegions, Allows(configs[n], a) PROVE MayBe \cap ExecRegions # {}
    BY <1>4, <1>6, <2>1
  <2>2. ASSUME NEW n \in DataRegions, Allows(configs[n], a) PROVE MayBe \cap DataRegions # {}
    BY <1>4, <1>6, <2>2
  <2> QED
    BY <1>8, <2>1, <2>2 DEF Promise!Verdict, HasPermission, Imp, Dmp
<1>9. \A S : Promise!Verdict(outcome', S) <=> Promise!Verdict(a, S)
  BY <1>1 DEF Promise!Verdict
<1>10. outcome'.granted = granted /\ outcome'.kind = a.kind
  BY <1>1
<1>11. outcome' # [kind |-> "none"]
  BY <1>2, <1>10
<1>12. psw' = (IF granted THEN psw ELSE {}) /\ UNCHANGED region
  BY DEF Access, IllegalAccess
<1> HIDE DEF granted
<1> QED
  BY <1>3, <1>7, <1>8, <1>9, <1>10, <1>11, <1>12 DEF Promise!Access, Promise!NoAccess

(* Every step is an abstract step or changes no abstract variable.             *)
LEMMA StepProtects ==
  ASSUME KeepToRanges, TypeOK, RegionsCurrent, Ranges, [Next]_vars
  PROVE  Promise!Next \/ UNCHANGED Promise!vars
<1>1. ASSUME NEW a \in Accesses, Access(a) PROVE Promise!Next
  BY <1>1, JudgesRightly DEF Promise!Next
<1>2. ASSUME outcome' = NoAccess, UNCHANGED region PROVE Promise!Next
  BY <1>2 DEF Promise!Next, Promise!Switch, Promise!NoAccess, NoAccess
<1>3. ASSUME NEW n \in Regions, NEW r, LdsrSetting(n, r) PROVE Promise!Next
  <2>1. \A m \in Regions \ {n} : region'[m] = region[m]
    BY <1>3 DEF LdsrSetting, TypeOK
  <2>2. "npv" \notin psw /\ outcome' = [kind |-> "none"] /\ psw' = psw
    BY <1>3 DEF LdsrSetting, Privileged, NoAccess
  <2> QED
    BY <2>1, <2>2 DEF Promise!Next, Promise!Configure, Promise!NoAccess, Promise!Regions, Regions
<1>4. CASE CpuReset
  <2>1. psw' = {} /\ outcome' = [kind |-> "none"]
    BY <1>4 DEF CpuReset, NoAccess
  <2>2. \A n \in Regions : ~ region'[n].on
    BY <1>4 DEF CpuReset, ResetRegion
  <2> QED
    BY <2>1, <2>2 DEF Promise!Next, Promise!Reset, Promise!Closed, Promise!NoAccess,
                      Promise!Regions, Regions
<1>5. ASSUME NEW a, Syscall(a) PROVE Promise!Next
  BY <1>2, <1>5 DEF Syscall, Untouched
<1>6. ASSUME NEW p, LdsrPsw(p) \/ LdsrSavedPsw(p) PROVE Promise!Next
  BY <1>2, <1>6 DEF LdsrPsw, LdsrSavedPsw
<1>7. ASSUME NEW b, NEW x, LdsrBsel(b, x) PROVE Promise!Next
  BY <1>2, <1>7 DEF LdsrBsel
<1>8. ASSUME NEW x, LdsrMpm(x) PROVE Promise!Next
  BY <1>2, <1>8 DEF LdsrMpm
<1>9. CASE LdsrOther \/ Trap \/ FeTrap \/ Interrupt \/ Return
  BY <1>2, <1>9 DEF LdsrOther, Trap, FeTrap, Interrupt, Return, Untouched
<1>10. CASE UNCHANGED vars
  BY <1>10 DEF vars, Promise!vars
<1> QED
  BY <1>1, <1>3, <1>4, <1>5, <1>6, <1>7, <1>8, <1>9, <1>10 DEF Next, Ldsr, LdsrLower, LdsrUpper

(* For programs that use ranges within the addresses that are kept, and set no *)
(* reserved bits of BSEL, memory is protected as RegionProtection promises.    *)
THEOREM RangesProtect ==
  ASSUME KeepToRanges, 2 ^ Width \in Nat \ {0}, 2 ^ Kept \in Nat \ {0}
  PROVE  Spec => KeepsProtection
<1>1. Init => Promise!Init
  BY DEF Init, ResetRegion, Promise!Init, Promise!Closed, Promise!NoAccess, NoAccess,
         Promise!Regions, Regions
<1>2. Init => Ranges
  BY DEF KeepToRanges, Init, ResetRegion, Ranges
<1>3. Ranges /\ TypeOK /\ [Next]_vars => Ranges'
  BY OnlyRanges
<1>4. Ranges /\ TypeOK /\ RegionsCurrent /\ [Next]_vars => [Promise!Next]_(Promise!vars)
  BY StepProtects
<1>5. Spec => []TypeOK
  BY TypeCorrect
<1>6. Spec => []RegionsCurrent
  BY AlwaysCurrent DEF KeepToRanges
<1> QED
  BY <1>1, <1>2, <1>3, <1>4, <1>5, <1>6, PTL DEF Spec, KeepsProtection, Promise!Spec
=============================================================================
