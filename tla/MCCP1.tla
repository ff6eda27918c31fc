------------------------------- MODULE MCCP1 --------------------------------
(***************************************************************************)
(* A pair of registers of two words and one doubleword of memory.          *)
(***************************************************************************)
EXTENDS CP1, TLC

CONSTANT address

Doubleword01 == address :> (0 :> 1 @@ 1 :> 0)

Ones == {[h \in 0 .. 1 |-> 1]}

(* Every comparison in one format, but for C.le: neither of its formats    *)
(* computes what it is called after.                                       *)
Sound == {<<"d", cond>> : cond \in {4, 8}} \cup {<<"s", cond>> : cond \in (0 .. 15) \ {4, 8, 14}}
=============================================================================
