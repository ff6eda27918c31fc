------------------------------ MODULE MCDCache ------------------------------
(***************************************************************************)
(* Three lines, two of which compete for a set of the data cache.  The     *)
(* first of them holds code, which a device may load or the processor      *)
(* write; its set in the instruction cache is also used by another page.   *)
(***************************************************************************)
EXTENDS Caches, TLC

CONSTANTS a, b, c, p, q, r, s0, s1, i0, PageP, PageQ

Physical == a :> p @@ b :> q @@ c :> r
Indexed  == a :> s0 @@ b :> s0 @@ c :> s1

Code == {0 :> p}
InSlot0 == [x \in Code |-> i0]
OnPageP == [x \in Code |-> PageP]

Clear == {[pState |-> 0, pTagLo |-> PageQ]}
=============================================================================
