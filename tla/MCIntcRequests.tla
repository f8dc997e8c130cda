--------------------------- MODULE MCIntcRequests ---------------------------
(* Values for the constants of IntcRequests.                                   *)
EXTENDS IntcRequests

(* One level, never masked once written.                                       *)
OneLevel == {[xif |-> FALSE, mk |-> FALSE, pr |-> 0]}
=============================================================================
