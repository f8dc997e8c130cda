---------------------------- MODULE MCProtection ----------------------------
(* Values for the runs of Protection.                                          *)
EXTENDS Protection

(* From block 1 on, or any block that the mask makes equal to block 2.         *)
SomeLowers == {[lo |-> 1, on |-> TRUE, mask |-> FALSE], [lo |-> 2, on |-> TRUE, mask |-> TRUE]}

(* To block 1, read only, or to block 3; as masks, of one bit and of two.      *)
SomeUppers == {[hi |-> 1, r |-> TRUE, wx |-> FALSE], [hi |-> 3, r |-> TRUE, wx |-> TRUE]}

(* Nothing, everything, and the two protections that SYSCALL and a load treat  *)
(* differently.                                                                *)
SomeDoubts == {{}, PswBits, {"imp"}}

Memory(kind, first, last) ==
  [kind |-> kind, device |-> FALSE, first |-> first, last |-> last]
Device(kind) ==
  [kind |-> kind, device |-> TRUE, first |-> 4, last |-> 4]

(* Data across two blocks, code within one (the check asks for two bytes of    *)
(* any instruction), below every region but the masks, a device.               *)
SomeAccesses ==
  {Memory("read", 2, 3), Memory("write", 2, 3), Memory("exec", 2, 2),
   Memory("write", 0, 0), Device("read")}

(* A region above the addresses that are kept, open to an access within it.    *)
HighLowers   == {[lo |-> 5, on |-> TRUE, mask |-> FALSE]}
HighUppers   == {[hi |-> 6, r |-> TRUE, wx |-> TRUE]}
HighAccesses == {Memory("write", 5, 6)}
=============================================================================
