------------------------------- MODULE MCIntc -------------------------------
(***************************************************************************)
(* Values for the constants of Intc: a few interrupts, two or three        *)
(* levels, and the few values of the registers that tell them apart.       *)
(***************************************************************************)
EXTENDS Intc

IC(m, p) == [xif |-> FALSE, mk |-> m, pr |-> p]

(* An unmasked interrupt of either of two levels, and a masked one.            *)
TwoLevels == {IC(FALSE, 0), IC(FALSE, 1), IC(TRUE, 1)}

OneLevel == {IC(FALSE, 0)}
=============================================================================
