----------------------------- MODULE MCRegions -----------------------------
(***************************************************************************)
(* Instance of Regions for TLC: halves of an address have five bits.       *)
(***************************************************************************)
EXTENDS Regions

(* Every status without supervisor mode. *)
MCStatusValues ==
  [ux : BOOLEAN, sx : BOOLEAN, kx : BOOLEAN, ksu : {0, 2}, exl : BOOLEAN, erl : BOOLEAN]
=============================================================================
