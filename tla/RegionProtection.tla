-------------------------- MODULE RegionProtection --------------------------
(***************************************************************************)
(* What memory protection promises, without caches, banks or saved states: *)
(* an access is judged by the registers as they are at that moment, only a *)
(* core that is trusted with system registers changes them, and a refused  *)
(* access ends in a handler that is trusted with everything.  Protection   *)
(* implements it.                                                          *)
(*                                                                         *)
(* A region whose registers mean nothing (the lower address above the      *)
(* upper one, or a mask with holes, for which target_cpu.h:319-320         *)
(* guarantees nothing) may be read as allowing an access or not.           *)
(***************************************************************************)
EXTENDS Integers

CONSTANTS
  Width,        (* bits in the number of a block of 16 bytes                   *)
  ExecRegions,  (* the regions IPAn                                            *)
  DataRegions   (* the regions DPAn                                            *)

VARIABLES
  region,  (* the registers of every region                                    *)
  doubt,   (* what the core is not trusted with: subset of imp, dmp, npv, pp   *)
  outcome  (* the access of the last step and whether it was granted, if the   *)
           (* last step was one                                                *)

vars == <<region, doubt, outcome>>

Regions == ExecRegions \cup DataRegions

NoAccess == [kind |-> "none"]

Bit(a, i) == (a \div 2 ^ i) % 2

Regular(r) ==
  IF r.mask THEN \E k \in 0 .. Width : r.hi = 2 ^ k - 1 ELSE r.lo <= r.hi

(* The block is in the region: between the two addresses, or equal to the one  *)
(* address in every bit that the mask leaves alone.                            *)
Holds(r, b) ==
  IF r.mask THEN \A i \in 0 .. Width - 1 : Bit(r.hi, i) = 0 => Bit(b, i) = Bit(r.lo, i)
            ELSE b \in r.lo .. r.hi

(* The regions that are open to this kind of access; of these, the ones that   *)
(* certainly allow it, and the ones that may be read that way.                 *)
Open(a) ==
  {n \in Regions : region[n].on /\ IF a.kind = "read" THEN region[n].r ELSE region[n].wx}
Must(a) ==
  {n \in Open(a) : Regular(region[n]) /\ \E b \in a.first .. a.last : Holds(region[n], b)}
May(a) == Must(a) \cup {n \in Open(a) : ~ Regular(region[n])}

(* The verdict when the regions of S allow the access.  A write is no matter   *)
(* of IPAn, a fetch none of DPAn, and a read needs only one of the two.        *)
Verdict(a, S) ==
  LET imp == a.kind = "write" \/ "imp" \notin doubt \/ S \cap ExecRegions # {}
      dmp == a.kind = "exec"  \/ "dmp" \notin doubt \/ S \cap DataRegions # {}
  IN  IF a.device THEN "pp" \notin doubt
      ELSE IF a.kind = "read" THEN imp \/ dmp ELSE imp /\ dmp

Access ==
  /\ outcome' # NoAccess
  /\ Verdict(outcome', Must(outcome')) => outcome'.granted
  /\ outcome'.granted => Verdict(outcome', May(outcome'))
  /\ doubt' = IF outcome'.granted THEN doubt ELSE {}
  /\ UNCHANGED region

(* One register is written.                                                    *)
Configure ==
  /\ "npv" \notin doubt
  /\ \E n \in Regions : \A m \in Regions \ {n} : region'[m] = region[m]
  /\ outcome' = NoAccess
  /\ UNCHANGED doubt

(* An exception, a return from one, or a trusted program that changes PSW.     *)
Switch == outcome' = NoAccess /\ UNCHANGED region

Closed == \A n \in Regions : ~ region[n].on

Reset == Closed' /\ doubt' = {} /\ outcome' = NoAccess

Init == Closed /\ doubt = {} /\ outcome = NoAccess

Next == Access \/ Configure \/ Switch \/ Reset

Spec == Init /\ [][Next]_vars
=============================================================================
