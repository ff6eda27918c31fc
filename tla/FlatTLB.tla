------------------------------ MODULE FlatTLB -------------------------------
(***************************************************************************)
(* What the TLB promises: an array of entries, some of them in use, which  *)
(* is searched as a set.  Software fills the registers, writes them to a   *)
(* slot, reads them back from it, or asks which slot maps a page.          *)
(***************************************************************************)
EXTENDS Integers

CONSTANTS
  Slots,      \* the places for entries
  Entries,    \* the contents software gives the registers
  Empty       \* the contents of a slot that was never written

VARIABLES
  regs,       \* EntryHi, EntryLo0, EntryLo1 and PageMask
  index,      \* the Index register
  slots,      \* what was last written to each slot
  live        \* the slots in use

vars == <<regs, index, slots, live>>

IsGlobal(e) == e.lo0.global /\ e.lo1.global

(* The pairs of pages an entry maps. *)
Pairs(e) == e.vpn2 .. e.vpn2 + e.mask

(* Entry e maps the pair of pages that hi names. *)
Maps(e, hi) ==
  /\ e.region = hi.region
  /\ IsGlobal(e) \/ e.asid = hi.asid
  /\ hi.vpn2 \in Pairs(e)

Init ==
  /\ regs = Empty
  /\ index \in [probe : {FALSE}, index : Slots]
  /\ slots = [i \in Slots |-> Empty]
  /\ live = {}

SetRegisters ==
  /\ regs' \in Entries
  /\ UNCHANGED <<index, slots, live>>

SetIndex ==
  /\ \E i \in Slots : index' = [index EXCEPT !.index = i]
  /\ UNCHANGED <<regs, slots, live>>

Write ==
  /\ slots' = [slots EXCEPT ![index.index] = regs]
  /\ live' = live \cup {index.index}
  /\ UNCHANGED <<regs, index>>

Read ==
  /\ regs' = slots[index.index]
  /\ UNCHANGED <<index, slots, live>>

Probe ==
  /\ IF \E i \in live : Maps(slots[i], regs)
     THEN \E i \in live : Maps(slots[i], regs) /\ index' = [probe |-> TRUE, index |-> i]
     ELSE index' = [index EXCEPT !.probe = FALSE]
  /\ UNCHANGED <<regs, slots, live>>

Next == SetRegisters \/ SetIndex \/ Write \/ Read \/ Probe

Spec == Init /\ [][Next]_vars
=============================================================================
