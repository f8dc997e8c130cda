------------------------- MODULE PriorityInterrupts -------------------------
(***************************************************************************)
(* What a nested priority interrupt controller promises a program, without *)
(* its data structures: interrupts wait at a level, the most urgent one    *)
(* that is not masked preempts, and the end of an interrupt ends the most  *)
(* urgent one in service.  Intc implements it; there the set of interrupts *)
(* in service is a stack, and "the most urgent" is its top.                *)
(***************************************************************************)
EXTENDS Integers

CONSTANTS
  Cores,   (* the cores, each with a controller of its own                     *)
  Ints,    (* the interrupts; the smaller number is the more urgent one        *)
  NumLvl   (* levels are 0 .. NumLvl-1, 0 the most urgent                      *)

VARIABLES
  level,   (* the level at which an interrupt waits, NumLvl when it does not   *)
  active,  (* the interrupts in service; they go on waiting until they end     *)
  mask     (* the interrupts a core does not accept                            *)

vars == <<level, active, mask>>

(* On core c, interrupt i is more urgent than j.                               *)
Beats(c, i, j) ==
  \/ level[c][i] < level[c][j]
  \/ level[c][i] = level[c][j] /\ i < j

MostUrgent(c, i, S) == \A j \in S \ {i} : Beats(c, i, j)

Init ==
  /\ level  = [c \in Cores |-> [i \in Ints |-> NumLvl]]
  /\ active = [c \in Cores |-> {}]
  /\ mask   = [c \in Cores |-> Ints]

(* Interrupt i is requested on the cores of S; where it waits already the      *)
(* request is absorbed.                                                        *)
Request(S, i) ==
  /\ \A c \in Cores \ S : level'[c] = level[c]
  /\ \A c \in S :
       \E l \in 0 .. NumLvl - 1 :
         level'[c] = IF level[c][i] = NumLvl THEN [level[c] EXCEPT ![i] = l] ELSE level[c]
  /\ UNCHANGED <<active, mask>>

(* The interrupts that may preempt what core c is doing.                       *)
Eligible(c) ==
  {i \in Ints \ (mask[c] \cup active[c]) : /\ level[c][i] # NumLvl
                                           /\ \A j \in active[c] : Beats(c, i, j)}

(* At a device clock some cores accept their most urgent eligible interrupt.   *)
Accept ==
  /\ \A c \in Cores :
       \/ active'[c] = active[c]
       \/ \E i \in Eligible(c) : /\ MostUrgent(c, i, Eligible(c))
                                 /\ active'[c] = active[c] \cup {i}
  /\ UNCHANGED <<level, mask>>

(* The most urgent interrupt in service on core c ends and waits no longer;    *)
(* the same write may change the masks of that core.                           *)
End(c) ==
  /\ \E i \in active[c] :
       /\ MostUrgent(c, i, active[c])
       /\ active' = [active EXCEPT ![c] = @ \ {i}]
       /\ level'  = [level EXCEPT ![c][i] = NumLvl]
  /\ \A d \in Cores \ {c} : mask'[d] = mask[d]

Remask(c) ==
  /\ \A d \in Cores \ {c} : mask'[d] = mask[d]
  /\ UNCHANGED <<level, active>>

Reset ==
  /\ level'  = [c \in Cores |-> [i \in Ints |-> NumLvl]]
  /\ active' = [c \in Cores |-> {}]
  /\ mask'   = [c \in Cores |-> Ints]

Next ==
  \/ \E S \in SUBSET Cores, i \in Ints : Request(S, i)
  \/ Accept
  \/ \E c \in Cores : End(c) \/ Remask(c)
  \/ Reset

Spec == Init /\ [][Next]_vars
=============================================================================
