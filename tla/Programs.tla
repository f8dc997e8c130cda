------------------------------ MODULE Programs ------------------------------
(***************************************************************************)
(* How the programs of MCInstructions and MCFloats are written.            *)
(***************************************************************************)
EXTENDS Instructions

(* What the TLC module calls so, by definitions that proofs can expand.      *)
d :> e == [x \in {d} |-> e]
f @@ g == [x \in DOMAIN f \cup DOMAIN g |-> IF x \in DOMAIN f THEN f[x] ELSE g[x]]

Ins(op) ==
  [op |-> op, reg1 |-> 1, reg2 |-> 2, reg3 |-> 3, reg4 |-> 4, imm |-> 0, bit |-> 0, cond |-> "E",
   list |-> {}, ep |-> 0]

On(op, reg1, reg2)         == [Ins(op) EXCEPT !.reg1 = reg1, !.reg2 = reg2]
On3(op, reg1, reg2, reg3)  == [Ins(op) EXCEPT !.reg1 = reg1, !.reg2 = reg2, !.reg3 = reg3]
WithImm(op, imm, reg2)     == [Ins(op) EXCEPT !.imm = imm, !.reg2 = reg2]
If(i, cond)                == [i EXCEPT !.cond = cond]

MinusOne == 2 ^ ShortBits - 1

(* The ends and the middle of a word and of its halves, and some between.    *)
Edges   == {0, 1, SignBit - 1, SignBit, Modulus - 1}
Samples == Edges \cup {2, 3, 7, 8, 15, 16, 63, 64, 85, 100, SignBit + 1, 170, 192, 240,
                        Modulus - 2}

Program(c, regs, values) ==
  [code |-> c, inputs |-> [regs -> values], flags |-> {{}}, mem |-> << >>]

(* A program c came to its end.                                              *)
Ran(c) == running /\ pc \notin DOMAIN code /\ code = c
=============================================================================
