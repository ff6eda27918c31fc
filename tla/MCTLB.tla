------------------------------- MODULE MCTLB --------------------------------
(***************************************************************************)
(* Address spaces of 16 pairs of pages per region, of which 32-bit         *)
(* addresses reach the first 8 pairs.                                      *)
(***************************************************************************)
EXTENDS TLB, TLC

Lo(global, pfn) == [global |-> global, pfn |-> pfn]

Entry(region, vpn2, mask, asid, global, pfn) ==
  [region |-> region, vpn2 |-> vpn2, mask |-> mask, asid |-> asid,
   lo0 |-> Lo(global, pfn), lo1 |-> Lo(TRUE, pfn + 8)]

NoEntry == [region |-> 0, vpn2 |-> 0, mask |-> 0, asid |-> 0,
            lo0 |-> Lo(FALSE, 0), lo1 |-> Lo(FALSE, 0)]

Anywhere(contents) == Slots \X contents

(* Global entries of several sizes, each in a slot of its own but two that *)
(* share one with their neighbour, and an entry of an address space.       *)
Pages == <<Entry(0, 0, 0, 1, TRUE, 16), Entry(0, 1, 0, 1, TRUE, 32),
           Entry(0, 2, 1, 1, TRUE, 48), Entry(0, 5, 0, 1, TRUE, 64),
           Entry(0, 8, 3, 1, TRUE, 80), Entry(2, 0, 0, 1, TRUE, 96),
           Entry(3, 2, 0, 1, TRUE, 112)>>

Private == Entry(0, 6, 0, 2, FALSE, 128)

SystemEntries == {Pages[i] : i \in 1 .. 7} \cup {Private}

SystemUses == {<<i, Pages[i]>> : i \in 1 .. 7} \cup {<<2, Pages[4]>>, <<6, Private>>}

(* These entries meet what the theorems about the TLB ask of software. *)
ASSUME SystemConforms == OneSpaceIn(SystemUses)

(* Entries of one address space in any slot: these do not. *)
SpaceEntries ==
  {Entry(0, 0, 0, 1, FALSE, 16), Entry(0, 1, 0, 1, FALSE, 32), Entry(0, 2, 0, 1, FALSE, 48)}

SpaceUses == Anywhere(SpaceEntries)
=============================================================================
