------------------------------ MODULE Regions ------------------------------
(***************************************************************************)
(* The address space (Region.c) and its use: the IC stage (ICStage.c) and  *)
(* the DC stage (DCStage.c) keep the region of their last address in a     *)
(* latch and only look a region up again when an address leaves it, while  *)
(* the mode that decides what a region is changes under them (CP0.c).      *)
(*                                                                         *)
(* The 64-bit address space is scaled: either half of an address has       *)
(* 8 * Eighth values, and the constants in the code keep their proportion. *)
(***************************************************************************)
EXTENDS Integers

CONSTANTS
  Eighth,         \* 0x20000000 in the code
  Addresses,      \* the virtual addresses that programs use
  StatusValues    \* the values of the Status register that they set

ASSUME EighthAssumption == Eighth \in Nat /\ Eighth >= 2

Half == 8 * Eighth

ASSUME AddressesAssumption == Addresses \subseteq 0..Half * Half - 1

VARIABLES
  status,         \* cp0.regs.status
  icrf,           \* icrfLatch.region
  dcwb,           \* dcwbLatch.region
  used            \* the last translation, if made under the present status

vars == <<status, icrf, dcwb, used>>

(* The constants of the code. *)
x20000000 == Eighth
x80000000 == 4 * Eighth
xA0000000 == 5 * Eighth
xC0000000 == 6 * Eighth
xE0000000 == 7 * Eighth
x40000000 == 2 * Eighth
xFFFFFFFF == Half - 1
x00000100 == 2

(* uint64_t and uint32_t subtraction. *)
Minus64(a, b) == (a - b) % (Half * Half)
Minus32(a, b) == (a - b) % Half

Joined(upper, lower) == upper * Half + lower

-----------------------------------------------------------------------------
(* The regions: offset, start, length, cached, mapped. *)
Mapped(start, length) ==
  [offset |-> 0, start |-> start, length |-> length, cached |-> TRUE, mapped |-> TRUE]

Unmapped(start, cached) ==
  [offset |-> start, start |-> start, length |-> x20000000, cached |-> cached, mapped |-> FALSE]

USEG   == Mapped(0, x80000000)
UXSEG  == Mapped(0, Joined(x00000100, 0))
XKSSEG == Mapped(Joined(x40000000, 0), Joined(x00000100, 0))
XKSEG  == Mapped(Joined(xC0000000, 0), Joined(x00000100, 0) - x80000000)
SSEG   == Mapped(Joined(xFFFFFFFF, xC0000000), x20000000)
KSEG3  == Mapped(Joined(xFFFFFFFF, xE0000000), x20000000)
KSEG0  == Unmapped(Joined(xFFFFFFFF, x80000000), TRUE)
KSEG1  == Unmapped(Joined(xFFFFFFFF, xA0000000), FALSE)

NULL == [offset |-> 0, start |-> 0, length |-> 0, cached |-> FALSE, mapped |-> FALSE]

GetDefaultRegion == KSEG0

(* Kernel mode is used if the erl or exl bits are set. *)
effectiveMode == IF status.erl \/ status.exl THEN 0 ELSE status.ksu

(* Mutant: the operating mode is taken from ksu alone. *)
UpperRegionByKSU(lower) ==
  IF status.ksu = 0 /\ Minus32(lower, xE0000000) < x20000000 THEN KSEG3
  ELSE IF status.ksu = 0 /\ Minus32(lower, xA0000000) < x20000000 THEN KSEG1
  ELSE IF status.ksu = 0 /\ Minus32(lower, x80000000) < x20000000 THEN KSEG0
  ELSE IF Minus32(lower, xC0000000) > x20000000 THEN SSEG
  ELSE NULL

(* The segments of the upper 2 GB, with a sign-extended address. *)
UpperRegion(lower) ==
  IF effectiveMode = 0 /\ Minus32(lower, xE0000000) < x20000000 THEN KSEG3
  ELSE IF effectiveMode = 0 /\ Minus32(lower, xA0000000) < x20000000 THEN KSEG1
  ELSE IF effectiveMode = 0 /\ Minus32(lower, x80000000) < x20000000 THEN KSEG0
  ELSE IF Minus32(lower, xC0000000) > x20000000 THEN SSEG
  ELSE NULL

GetRegionInfo(address) ==
  LET upper == address \div Half
      lower == address % Half
  IN  IF lower < x80000000
      THEN IF upper < x00000100 /\ status.ux THEN UXSEG ELSE USEG
      ELSE IF upper = xFFFFFFFF /\ effectiveMode < 2 THEN UpperRegion(lower)
      ELSE IF effectiveMode = 0 /\ status.kx
           THEN IF upper = xC0000000 /\ Minus32(lower, x80000000) > 0 THEN XKSEG ELSE NULL
      ELSE IF /\ \/ effectiveMode = 1 /\ status.sx
                 \/ effectiveMode = 0 /\ status.kx
              /\ Minus32(upper, x40000000) < x00000100
           THEN XKSSEG
      ELSE NULL

-----------------------------------------------------------------------------
(* Mutant: an address one past the end of the region counts as inside. *)
InsideOrNext(address, region) == Minus64(address, region.start) <= region.length

(* (address - region->start) < region->length *)
Inside(address, region) == Minus64(address, region.start) < region.length

(* The region of the latch serves while the address stays inside it. *)
RegionFor(address, latched) ==
  IF Inside(address, latched) THEN latched ELSE GetRegionInfo(address)

(* What is known of a translation afterwards: the stage that made it, of    *)
(* which address, and the region and address it went on with.               *)
Translation(by, address, region) ==
  [by |-> by, vaddr |-> address, region |-> region, paddr |-> Minus64(address, region.offset)]

NoTranslation == [by |-> "none", vaddr |-> 0, region |-> NULL, paddr |-> 0]

(* ICStage: without a region (an address error that is not implemented) the *)
(* latch keeps its.                                                         *)
Fetch(pc) ==
  LET region == RegionFor(pc, icrf)
  IN  /\ icrf' = IF region = NULL THEN icrf ELSE region
      /\ used' = Translation("IC", pc, region)
      /\ UNCHANGED <<status, dcwb>>

(* DCStage, likewise. *)
Access(address) ==
  LET region == RegionFor(address, dcwb)
  IN  /\ dcwb' = IF region = NULL THEN dcwb ELSE region
      /\ used' = Translation("DC", address, region)
      /\ UNCHANGED <<status, icrf>>

(* The CACHE instruction always looks the region up. *)
CacheOp(address) ==
  /\ used' = Translation("CACHE", address, GetRegionInfo(address))
  /\ UNCHANGED <<status, icrf, dcwb>>

(* MTC0 to Status; an exception sets exl, ERET clears erl or else exl. *)
SetStatus(value) ==
  /\ status' = value
  /\ used' = NoTranslation
  /\ UNCHANGED <<icrf, dcwb>>

MTC0Status == \E value \in StatusValues : SetStatus(value)

Exception == SetStatus([status EXCEPT !.exl = TRUE])

ERET ==
  SetStatus(IF status.erl THEN [status EXCEPT !.erl = FALSE] ELSE [status EXCEPT !.exl = FALSE])

Init ==
  /\ status = [ux |-> FALSE, sx |-> FALSE, kx |-> FALSE, ksu |-> 0, exl |-> FALSE, erl |-> TRUE]
  /\ icrf = GetDefaultRegion
  /\ dcwb = GetDefaultRegion
  /\ used = NoTranslation

Next ==
  \/ \E a \in Addresses : Fetch(a) \/ Access(a) \/ CacheOp(a)
  \/ MTC0Status
  \/ Exception
  \/ ERET

Spec == Init /\ [][Next]_vars

-----------------------------------------------------------------------------
(* The addresses of programs that compute with 32 bits. *)
SignExtended ==
  (0..x80000000 - 1) \cup {Joined(xFFFFFFFF, lower) : lower \in x80000000..Half - 1}

(***************************************************************************)
(* The address map of the manual, for sign-extended 32-bit addresses: the  *)
(* segment, whether the mode may use it, and what becomes of an address.   *)
(***************************************************************************)
Segment(address) ==
  LET lower == address % Half
  IN  CASE lower < x80000000                        -> "useg"
        [] lower >= x80000000 /\ lower < xA0000000  -> "kseg0"
        [] lower >= xA0000000 /\ lower < xC0000000  -> "kseg1"
        [] lower >= xC0000000 /\ lower < xE0000000  -> "ksseg"
        [] lower >= xE0000000                       -> "kseg3"

MayUse(segment) == effectiveMode = 0 \/ segment = "useg"

MapsTo(address) ==
  CASE Segment(address) = "kseg0" ->
         [mapped |-> FALSE, cached |-> TRUE, to |-> (address % Half) - x80000000]
    [] Segment(address) = "kseg1" ->
         [mapped |-> FALSE, cached |-> FALSE, to |-> (address % Half) - xA0000000]
    [] OTHER -> [mapped |-> TRUE, cached |-> TRUE, to |-> address]

(***************************************************************************)
(* Whatever a latch still holds from other addresses and other modes, an   *)
(* address that the present mode may use is translated as the manual says  *)
(* (GetRegionInfo; the tests of ICStage.c and DCStage.c).  ksseg is left   *)
(* out: the code finds no region for it.                                   *)
(***************************************************************************)
TranslatesRight ==
  used.by # "none" /\ MayUse(Segment(used.vaddr)) /\ Segment(used.vaddr) # "ksseg"
  => [mapped |-> used.region.mapped, cached |-> used.region.cached, to |-> used.paddr]
       = MapsTo(used.vaddr)

(***************************************************************************)
(* The segments that are not mapped never reach past the 512 MB that they  *)
(* are windows of: no address outside a segment, looked up or latched, is  *)
(* translated by its offset.                                               *)
(***************************************************************************)
UnmappedInWindow ==
  used.region # NULL /\ ~used.region.mapped => used.paddr < x20000000
=============================================================================
