--------------------------- MODULE RegionsProofs ---------------------------
(***************************************************************************)
(* Proofs about the address space, for halves of any width.  The constants *)
(* of the code are products of Eighth; Square stands for 2^64, so that all *)
(* comparisons of addresses are linear in Eighth and Square.               *)
(***************************************************************************)
EXTENDS Regions, TLAPS

-----------------------------------------------------------------------------
(* Arithmetic of words. *)

LEMMA Quotient ==
  ASSUME NEW n \in Nat, n > 0, NEW u \in Int, NEW l \in 0..n - 1
  PROVE  (u * n + l) \div n = u /\ (u * n + l) % n = l
<1> DEFINE x == u * n + l
           q == x \div n
           m == x % n
<1>1. x \in Int /\ q \in Int /\ m \in 0..n - 1 /\ x = q * n + m
  BY SMT
<1> HIDE DEF q, m
<1>2. (q - u) * n = l - m /\ l - m < n /\ m - l < n
  BY <1>1 DEF x
<1>3. CASE q - u >= 1
  <2>1. (q - u) * n >= n
    BY <1>1, <1>3, SMT
  <2> QED
    BY <1>1, <1>2, <2>1
<1>4. CASE u - q >= 1
  <2>1. (u - q) * n >= n
    BY <1>1, <1>4, SMT
  <2>2. (u - q) * n = m - l
    BY <1>1, <1>2
  <2> QED
    BY <1>1, <1>2, <2>1, <2>2
<1>5. CASE q = u
  BY <1>1, <1>5 DEF x, q, m
<1> QED
  BY <1>1, <1>3, <1>4, <1>5

LEMMA Wraps ==
  ASSUME NEW n \in Nat, NEW a \in 0..n - 1, NEW b \in 0..n - 1
  PROVE  (a - b) % n = IF b <= a THEN a - b ELSE a - b + n
<1>1. CASE b <= a
  <2>1. a - b = 0 * n + (a - b) /\ a - b \in 0..n - 1
    BY <1>1
  <2> QED
    BY <1>1, <2>1, Quotient
<1>2. CASE ~(b <= a)
  <2>1. a - b = (-1) * n + (a - b + n) /\ a - b + n \in 0..n - 1
    BY <1>2
  <2> QED
    BY <1>2, <2>1, Quotient
<1> QED
  BY <1>1, <1>2

-----------------------------------------------------------------------------
(* Addresses. *)

Square == Half * Half

(* The constants of the code, over Eighth and Square. *)
Constants ==
  /\ Half = 8 * Eighth /\ x20000000 = Eighth /\ x40000000 = 2 * Eighth
  /\ x80000000 = 4 * Eighth /\ xA0000000 = 5 * Eighth /\ xC0000000 = 6 * Eighth
  /\ xE0000000 = 7 * Eighth /\ xFFFFFFFF = Half - 1 /\ x00000100 = 2

LEMMA Sizes ==
  /\ Constants
  /\ Eighth \in Nat /\ Eighth >= 2
  /\ Square \in Nat /\ Square >= 16 * Half
  /\ \A l \in Int : Joined(xFFFFFFFF, l) = Square - Half + l
  /\ 4 * Joined(x40000000, 0) = Square /\ Joined(x40000000, 0) \in Nat
  /\ 4 * Joined(xC0000000, 0) = 3 * Square /\ Joined(xC0000000, 0) \in Nat
  /\ Joined(x00000100, 0) = 2 * Half
<1>1. Constants /\ Eighth \in Nat /\ Eighth >= 2
  BY EighthAssumption DEF Constants, Half, x20000000, x40000000, x80000000, xA0000000,
     xC0000000, xE0000000, xFFFFFFFF, x00000100
<1>2. Square \in Nat /\ Square >= 16 * Half
  <2>1. Half \in Nat /\ Half >= 16
    BY <1>1 DEF Constants
  <2> QED
    BY <2>1 DEF Square
<1>3. ASSUME NEW l \in Int
      PROVE  Joined(xFFFFFFFF, l) = Square - Half + l
  BY <1>1 DEF Constants, Joined, Square
<1>4. /\ 4 * Joined(x40000000, 0) = Square /\ Joined(x40000000, 0) \in Nat
      /\ 4 * Joined(xC0000000, 0) = 3 * Square /\ Joined(xC0000000, 0) \in Nat
      /\ Joined(x00000100, 0) = 2 * Half
  BY <1>1 DEF Constants, Joined, Square
<1> QED
  BY <1>1, <1>2, <1>3, <1>4

LEMMA Parts ==
  ASSUME NEW upper \in Int, NEW lower \in 0..Half - 1
  PROVE  Joined(upper, lower) \div Half = upper /\ Joined(upper, lower) % Half = lower
<1>1. Half \in Nat /\ Half > 0
  BY Sizes DEF Constants
<1> QED
  BY <1>1, Quotient DEF Joined

(* A sign-extended address is one of the lowest or one of the highest 2 GB. *)
LEMMA Halves ==
  ASSUME NEW address \in SignExtended
  PROVE  /\ address \in 0..Square - 1
         /\ address % Half \in 0..Half - 1
         /\ \/ /\ address < x80000000
               /\ address \div Half = 0 /\ address % Half = address
            \/ /\ address \div Half = xFFFFFFFF /\ address % Half >= x80000000
               /\ address = Square - Half + (address % Half)
<1> USE Sizes DEF Constants
<1>1. CASE address \in 0..x80000000 - 1
  <2>1. address = 0 * Half + address /\ address \in 0..Half - 1 /\ Half \in Nat /\ Half > 0
    BY <1>1
  <2>2. address \div Half = 0 /\ address % Half = address
    BY <2>1, Quotient
  <2> QED
    BY <1>1, <2>2
<1>2. ASSUME NEW l \in x80000000..Half - 1, address = Joined(xFFFFFFFF, l)
      PROVE  /\ address \div Half = xFFFFFFFF /\ address % Half = l
             /\ address = Square - Half + l
  <2>1. l \in 0..Half - 1 /\ xFFFFFFFF \in Int
    OBVIOUS
  <2>2. address \div Half = xFFFFFFFF /\ address % Half = l
    BY <1>2, <2>1, Parts
  <2>3. address = Square - Half + l
    BY <1>2
  <2> QED
    BY <2>2, <2>3
<1>3. CASE \E l \in x80000000..Half - 1 : address = Joined(xFFFFFFFF, l)
  BY <1>2, <1>3
<1> QED
  BY <1>1, <1>3 DEF SignExtended

(* The regions, each a range of the 64-bit addresses. *)
Tables == {USEG, UXSEG, XKSSEG, XKSEG, SSEG, KSEG3, KSEG0, KSEG1}

LEMMA Ranges ==
  ASSUME NEW region \in Tables
  PROVE  /\ region.start \in 0..Square - 1
         /\ region.offset = IF region.mapped THEN 0 ELSE region.start
         /\ region # NULL
<1> USE Sizes DEF Constants, Mapped, Unmapped
<1>1. CASE region \in {USEG, UXSEG, XKSSEG, XKSEG}
  BY <1>1 DEF USEG, UXSEG, XKSSEG, XKSEG, NULL
<1>2. CASE region \in {SSEG, KSEG3, KSEG0, KSEG1}
  BY <1>2 DEF SSEG, KSEG3, KSEG0, KSEG1, NULL
<1> QED
  BY <1>1, <1>2 DEF Tables

LEMMA Distance ==
  ASSUME NEW address \in 0..Square - 1, NEW start \in 0..Square - 1
  PROVE  Minus64(address, start)
           = IF start <= address THEN address - start ELSE address - start + Square
BY Wraps, Sizes DEF Minus64, Square

LEMMA HalfDistance ==
  ASSUME NEW lower \in 0..Half - 1, NEW start \in 0..Half - 1
  PROVE  Minus32(lower, start) = IF start <= lower THEN lower - start ELSE lower - start + Half
<1>1. Half \in Nat
  BY Sizes DEF Constants
<1> QED
  BY <1>1, Wraps DEF Minus32

LEMMA HighDistance ==
  ASSUME NEW lower \in 0..Half - 1, NEW start \in 0..Half - 1, start <= lower
  PROVE  Minus64(Square - Half + lower, Square - Half + start) = lower - start
<1> DEFINE a == Square - Half + lower
           b == Square - Half + start
<1>1. a \in 0..Square - 1 /\ b \in 0..Square - 1 /\ b <= a /\ a - b = lower - start
  BY Sizes DEF Constants
<1> HIDE DEF a, b
<1>2. Minus64(a, b) = lower - start
  BY <1>1, Distance
<1> QED
  BY <1>2 DEF a, b

(* A region that an address is in translates it as the manual says. *)
LEMMA RegionServes ==
  ASSUME NEW address \in SignExtended, NEW region \in Tables, Inside(address, region)
  PROVE  [mapped |-> region.mapped, cached |-> region.cached,
          to |-> Minus64(address, region.offset)] = MapsTo(address)
<1> DEFINE lower == address % Half
           distance == IF region.start <= address THEN address - region.start
                       ELSE address - region.start + Square
<1>1. distance < region.length
  BY Distance, Halves, Ranges DEF Inside
<1>2. Minus64(address, 0) = address
  BY Distance, Halves, Sizes
<1>3. /\ address \in 0..Square - 1 /\ lower \in 0..Half - 1
      /\ \/ address < x80000000 /\ lower = address
         \/ lower >= x80000000 /\ address = Square - Half + lower
  BY Halves
<1> HIDE DEF lower
<1>4. CASE region \in {USEG, UXSEG, XKSSEG, XKSEG}
  <2>1. region.mapped /\ region.cached /\ region.offset = 0
    BY <1>4 DEF USEG, UXSEG, XKSSEG, XKSEG, Mapped
  <2>2. lower < x80000000
    BY <1>1, <1>3, <1>4, Sizes DEF USEG, UXSEG, XKSSEG, XKSEG, Mapped, Constants
  <2>3. Segment(address) = "useg"
    BY <2>2, <1>3, Sizes DEF Segment, lower, Constants
  <2> QED
    BY <2>1, <2>3, <1>2 DEF MapsTo
<1>5. CASE region \in {SSEG, KSEG3}
  <2>1. region.mapped /\ region.cached /\ region.offset = 0
    BY <1>5 DEF SSEG, KSEG3, Mapped
  <2>2. lower >= xC0000000
    BY <1>1, <1>3, <1>5, Sizes DEF SSEG, KSEG3, Mapped, Constants
  <2>3. Segment(address) \in {"ksseg", "kseg3"}
    BY <2>2, <1>3, Sizes DEF Segment, lower, Constants
  <2> QED
    BY <2>1, <2>3, <1>2 DEF MapsTo
<1>6. CASE region = KSEG0
  <2>1. /\ region.mapped = FALSE /\ region.cached = TRUE /\ region.offset = Square - Half + x80000000
        /\ region.start = region.offset /\ region.length = x20000000
    BY <1>6, Sizes DEF KSEG0, Unmapped, Constants
  <2>2. lower >= x80000000 /\ lower < xA0000000 /\ distance = lower - x80000000
    BY <1>1, <1>3, <2>1, Sizes DEF Constants
  <2>3. Segment(address) = "kseg0"
    BY <2>2, <1>3, Sizes DEF Segment, lower, Constants
  <2>4. Minus64(address, region.offset) = lower - x80000000
    BY <2>1, <2>2, <1>3, Ranges, Distance
  <2> QED
    BY <2>1, <2>3, <2>4 DEF MapsTo, lower
<1>7. CASE region = KSEG1
  <2>1. /\ region.mapped = FALSE /\ region.cached = FALSE /\ region.offset = Square - Half + xA0000000
        /\ region.start = region.offset /\ region.length = x20000000
    BY <1>7, Sizes DEF KSEG1, Unmapped, Constants
  <2>2. lower >= xA0000000 /\ lower < xC0000000 /\ distance = lower - xA0000000
    BY <1>1, <1>3, <2>1, Sizes DEF Constants
  <2>3. Segment(address) = "kseg1"
    BY <2>2, <1>3, Sizes DEF Segment, lower, Constants
  <2>4. Minus64(address, region.offset) = lower - xA0000000
    BY <2>1, <2>2, <1>3, Ranges, Distance
  <2> QED
    BY <2>1, <2>3, <2>4 DEF MapsTo, lower
<1> QED
  BY <1>4, <1>5, <1>6, <1>7 DEF Tables

(* An unmapped region that an address is in is a window of 512 MB. *)
LEMMA WindowServes ==
  ASSUME NEW address \in 0..Square - 1, NEW region \in Tables, Inside(address, region),
         ~region.mapped
  PROVE  Minus64(address, region.offset) < x20000000
<1>1. region \in {KSEG0, KSEG1}
  BY DEF Tables, USEG, UXSEG, XKSSEG, XKSEG, SSEG, KSEG3, Mapped
<1>2. region.length = x20000000 /\ region.offset = region.start
  BY <1>1 DEF KSEG0, KSEG1, Unmapped
<1> QED
  BY <1>2 DEF Inside

-----------------------------------------------------------------------------
(* Lookups. *)

LEMMA LookupInTables ==
  ASSUME NEW address \in 0..Square - 1
  PROVE  /\ GetRegionInfo(address) \in Tables \cup {NULL}
         /\ GetRegionInfo(address) \in {KSEG0, KSEG1} => Inside(address, GetRegionInfo(address))
<1> DEFINE upper == address \div Half
           lower == address % Half
<1>1. CASE GetRegionInfo(address) \in {KSEG0, KSEG1}
  <2>1. /\ KSEG0 \notin {USEG, UXSEG, XKSSEG, XKSEG, SSEG, KSEG3, NULL}
        /\ KSEG1 \notin {USEG, UXSEG, XKSSEG, XKSEG, SSEG, KSEG3, NULL}
    BY Sizes DEF KSEG0, KSEG1, USEG, UXSEG, XKSSEG, XKSEG, SSEG, KSEG3, NULL, Mapped, Unmapped,
       Constants
  <2>2. upper = xFFFFFFFF /\ GetRegionInfo(address) = UpperRegion(lower)
    BY <1>1, <2>1 DEF GetRegionInfo
  <2>3. \/ GetRegionInfo(address) = KSEG0 /\ Minus32(lower, x80000000) < x20000000
        \/ GetRegionInfo(address) = KSEG1 /\ Minus32(lower, xA0000000) < x20000000
    BY <1>1, <2>1, <2>2 DEF UpperRegion
  <2>4. lower \in 0..Half - 1 /\ address = Square - Half + lower
    <3>1. Half \in Nat /\ Half > 0 /\ address \in Int
      BY Sizes DEF Constants
    <3>2. address = upper * Half + lower /\ lower \in 0..Half - 1
      BY <3>1, SMT
    <3>3. Joined(upper, lower) = Square - Half + lower
      BY <2>2, <3>2, Sizes
    <3> QED
      BY <3>2, <3>3 DEF Joined
  <2> HIDE DEF lower, upper
  <2>5. ASSUME NEW start \in {x80000000, xA0000000}, Minus32(lower, start) < x20000000,
               NEW region \in {KSEG0, KSEG1}, region.start = Square - Half + start
        PROVE  Inside(address, region)
    <3>1. start \in 0..Half - 1 /\ x20000000 = Eighth /\ start + Eighth < Half
      BY Sizes DEF Constants
    <3>2. Minus32(lower, start) = IF start <= lower THEN lower - start ELSE lower - start + Half
      BY <3>1, <2>4, HalfDistance
    <3>3. start <= lower
      BY <3>1, <3>2, <2>4, <2>5, Sizes DEF Constants
    <3>4. region \in Tables /\ region.length = x20000000
      BY DEF Tables, KSEG0, KSEG1, Unmapped
    <3>5. Minus64(address, region.start) = lower - start
      BY <3>1, <3>3, <2>4, <2>5, HighDistance
    <3> QED
      BY <3>2, <3>3, <3>4, <3>5, <2>5 DEF Inside
  <2>6. /\ KSEG0.start = Square - Half + x80000000
        /\ KSEG1.start = Square - Half + xA0000000
    BY Sizes DEF KSEG0, KSEG1, Unmapped, Constants
  <2>7. GetRegionInfo(address) \in Tables
    BY <1>1 DEF Tables
  <2> QED
    BY <2>3, <2>5, <2>6, <2>7
<1>2. CASE GetRegionInfo(address) \notin {KSEG0, KSEG1}
  BY <1>2 DEF GetRegionInfo, UpperRegion, Tables
<1> QED
  BY <1>1, <1>2

(* An address that the mode may use is in the region that is found for it. *)
LEMMA LookupServes ==
  ASSUME NEW address \in SignExtended, MayUse(Segment(address)), Segment(address) # "ksseg"
  PROVE  GetRegionInfo(address) \in Tables /\ Inside(address, GetRegionInfo(address))
<1> DEFINE upper == address \div Half
           lower == address % Half
<1>1. /\ address \in 0..Square - 1 /\ lower \in 0..Half - 1
      /\ \/ address < x80000000 /\ lower = address /\ upper = 0
         \/ /\ lower >= x80000000 /\ address = Square - Half + lower
            /\ upper = xFFFFFFFF
  BY Halves
<1>2. CASE lower < x80000000
  <2>1. GetRegionInfo(address) \in {USEG, UXSEG}
    BY <1>2 DEF GetRegionInfo
  <2>2. address < x80000000 /\ Minus64(address, 0) = address
    BY <1>1, <1>2, Distance, Sizes DEF Constants
  <2>3. ASSUME NEW region \in {USEG, UXSEG}
        PROVE  region \in Tables /\ Inside(address, region)
    <3>1. region.start = 0 /\ region.length \in Int /\ region.length >= x80000000
      BY Sizes DEF USEG, UXSEG, Mapped, Constants
    <3>2. Minus64(address, region.start) < region.length
      BY <2>2, <3>1, <1>1, Sizes DEF Constants
    <3> QED
      BY <3>2 DEF Inside, Tables
  <2> QED
    BY <2>1, <2>3
<1>3. CASE lower >= x80000000
  <2>1. /\ upper = xFFFFFFFF /\ address = Square - Half + lower
        /\ ~(lower < x80000000)
    BY <1>1, <1>3, Sizes DEF Constants
  <2>2. Segment(address) \in {"kseg0", "kseg1", "kseg3"} /\ effectiveMode = 0
    BY <2>1, <1>1, Sizes DEF Segment, MayUse, Constants
  <2>3. GetRegionInfo(address) = UpperRegion(lower)
    BY <2>1, <2>2 DEF GetRegionInfo
  <2>4. CASE lower >= xE0000000
    <3>1. Minus32(lower, xE0000000) = lower - xE0000000
      BY <2>4, <1>1, HalfDistance, Sizes DEF Constants
    <3>2. GetRegionInfo(address) = KSEG3
      BY <3>1, <2>2, <2>3, <2>4, <1>1, Sizes DEF UpperRegion, Constants
    <3>3. KSEG3.start = Square - Half + xE0000000 /\ KSEG3.length = x20000000
      BY Sizes DEF KSEG3, Mapped, Constants
    <3>4. KSEG3 \in Tables
      BY DEF Tables
    <3>5. Minus64(address, KSEG3.start) = lower - xE0000000
      <4>1. xE0000000 \in 0..Half - 1 /\ xE0000000 <= lower
        BY <2>4, Sizes DEF Constants
      <4> QED
        BY <4>1, <3>3, <2>1, <1>1, HighDistance
    <3> QED
      BY <3>2, <3>3, <3>4, <3>5, <1>1, Sizes DEF Inside, Constants
  <2>5. CASE lower < xE0000000
    <3>1. lower < xC0000000
      BY <2>2, <2>5, <1>1, Sizes DEF Segment, Constants
    <3>2. ASSUME NEW start \in {x80000000, xA0000000, xE0000000}
          PROVE  Minus32(lower, start)
                   = IF start <= lower THEN lower - start ELSE lower - start + Half
      <4>1. start \in 0..Half - 1
        BY Sizes DEF Constants
      <4> QED
        BY <4>1, <1>1, HalfDistance
    <3>3. ~(Minus32(lower, xE0000000) < x20000000)
      BY <3>1, <3>2, <1>1, <1>3, Sizes DEF Constants
    <3>4. GetRegionInfo(address) \in {KSEG0, KSEG1}
      BY <3>1, <3>2, <3>3, <2>2, <2>3, <1>1, <1>3, Sizes DEF UpperRegion, Constants
    <3> QED
      BY <3>4, <1>1, LookupInTables DEF Tables
  <2> QED
    BY <2>4, <2>5, <1>1, Sizes DEF Constants
<1> QED
  BY <1>1, <1>2, <1>3, Sizes DEF Constants

(* What a lookup finds translates as it should. *)
LEMMA FoundRegion ==
  ASSUME NEW address \in 0..Square - 1
  PROVE  LET region == GetRegionInfo(address)
         IN  /\ region # NULL /\ ~region.mapped => Minus64(address, region.offset) < x20000000
             /\ address \in SignExtended /\ MayUse(Segment(address)) /\ Segment(address) # "ksseg"
                => [mapped |-> region.mapped, cached |-> region.cached,
                    to |-> Minus64(address, region.offset)] = MapsTo(address)
<1> DEFINE region == GetRegionInfo(address)
<1>1. ASSUME region # NULL, ~region.mapped
      PROVE  Minus64(address, region.offset) < x20000000
  <2>1. region \in {KSEG0, KSEG1}
    BY <1>1, LookupInTables DEF Tables, USEG, UXSEG, XKSSEG, XKSEG, SSEG, KSEG3, Mapped
  <2> QED
    BY <1>1, <2>1, LookupInTables, WindowServes
<1>2. ASSUME address \in SignExtended, MayUse(Segment(address)), Segment(address) # "ksseg"
      PROVE  [mapped |-> region.mapped, cached |-> region.cached,
              to |-> Minus64(address, region.offset)] = MapsTo(address)
  BY <1>2, LookupServes, RegionServes
<1> QED
  BY <1>1, <1>2

(* The same holds with the region of a latch. *)
LEMMA ServedRegion ==
  ASSUME NEW address \in 0..Square - 1, NEW latched \in Tables
  PROVE  LET region == RegionFor(address, latched)
         IN  /\ region \in Tables \cup {NULL}
             /\ region # NULL /\ ~region.mapped => Minus64(address, region.offset) < x20000000
             /\ address \in SignExtended /\ MayUse(Segment(address)) /\ Segment(address) # "ksseg"
                => [mapped |-> region.mapped, cached |-> region.cached,
                    to |-> Minus64(address, region.offset)] = MapsTo(address)
<1>1. CASE Inside(address, latched)
  BY <1>1, WindowServes, RegionServes DEF RegionFor
<1>2. CASE ~Inside(address, latched)
  BY <1>2, LookupInTables, FoundRegion DEF RegionFor
<1> QED
  BY <1>1, <1>2

-----------------------------------------------------------------------------
(* The invariant: a latch holds a region of the table, never NULL. *)
Latched == icrf \in Tables /\ dcwb \in Tables

IInv == Latched /\ UnmappedInWindow /\ (Addresses \subseteq SignExtended => TranslatesRight)

(* What a step that translates an address must show. *)
LEMMA TranslationServes ==
  ASSUME NEW address \in Addresses, NEW region, NEW by \in {"IC", "DC", "CACHE"},
         \/ region = GetRegionInfo(address)
         \/ \E latched \in Tables : region = RegionFor(address, latched),
         used' = Translation(by, address, region), UNCHANGED status
  PROVE  UnmappedInWindow' /\ (Addresses \subseteq SignExtended => TranslatesRight')
<1>1. address \in 0..Square - 1
  BY AddressesAssumption DEF Square
<1>2. /\ region # NULL /\ ~region.mapped => Minus64(address, region.offset) < x20000000
      /\ address \in SignExtended /\ MayUse(Segment(address)) /\ Segment(address) # "ksseg"
         => [mapped |-> region.mapped, cached |-> region.cached,
             to |-> Minus64(address, region.offset)] = MapsTo(address)
  <2>1. CASE region = GetRegionInfo(address)
    BY <1>1, <2>1, FoundRegion
  <2>2. CASE \E latched \in Tables : region = RegionFor(address, latched)
    BY <1>1, <2>2, ServedRegion
  <2> QED
    BY <2>1, <2>2
<1>3. /\ used'.by # "none" /\ used'.vaddr = address /\ used'.region = region
      /\ used'.paddr = Minus64(address, region.offset)
  BY DEF Translation
<1>4. MayUse(Segment(address))' = MayUse(Segment(address))
  BY DEF MayUse, effectiveMode
<1>5. UnmappedInWindow'
  BY <1>2, <1>3 DEF UnmappedInWindow
<1>6. ASSUME Addresses \subseteq SignExtended
      PROVE  TranslatesRight'
  <2>1. address \in SignExtended
    BY <1>6
  <2>2. TranslatesRight' =
          (MayUse(Segment(address)) /\ Segment(address) # "ksseg"
           => [mapped |-> region.mapped, cached |-> region.cached,
               to |-> Minus64(address, region.offset)] = MapsTo(address))
    BY <1>3 DEF TranslatesRight, MayUse, effectiveMode
  <2> QED
    BY <1>2, <2>1, <2>2
<1> QED
  BY <1>5, <1>6

LEMMA InitInv == Init => IInv
BY DEF Init, IInv, Latched, Tables, GetDefaultRegion, UnmappedInWindow, TranslatesRight,
   NoTranslation

LEMMA NextInv == IInv /\ [Next]_vars => IInv'
<1> SUFFICES ASSUME IInv, [Next]_vars
             PROVE  IInv'
  OBVIOUS
<1>1. ASSUME NEW a \in Addresses, Fetch(a)
      PROVE  IInv'
  <2>1. a \in 0..Square - 1
    BY AddressesAssumption DEF Square
  <2>2. Latched'
    BY <1>1, <2>1, ServedRegion DEF Fetch, IInv, Latched
  <2>3. UnmappedInWindow' /\ (Addresses \subseteq SignExtended => TranslatesRight')
    BY <1>1, TranslationServes DEF Fetch, IInv, Latched
  <2> QED
    BY <2>2, <2>3 DEF IInv
<1>2. ASSUME NEW a \in Addresses, Access(a)
      PROVE  IInv'
  <2>1. a \in 0..Square - 1
    BY AddressesAssumption DEF Square
  <2>2. Latched'
    BY <1>2, <2>1, ServedRegion DEF Access, IInv, Latched
  <2>3. UnmappedInWindow' /\ (Addresses \subseteq SignExtended => TranslatesRight')
    BY <1>2, TranslationServes DEF Access, IInv, Latched
  <2> QED
    BY <2>2, <2>3 DEF IInv
<1>3. ASSUME NEW a \in Addresses, CacheOp(a)
      PROVE  IInv'
  <2>1. Latched'
    BY <1>3 DEF CacheOp, IInv, Latched
  <2>2. UnmappedInWindow' /\ (Addresses \subseteq SignExtended => TranslatesRight')
    BY <1>3, TranslationServes DEF CacheOp
  <2> QED
    BY <2>1, <2>2 DEF IInv
<1>4. ASSUME NEW value, SetStatus(value)
      PROVE  IInv'
  BY <1>4 DEF SetStatus, IInv, Latched, UnmappedInWindow, TranslatesRight, NoTranslation
<1>5. CASE UNCHANGED vars
  BY <1>5 DEF vars, IInv, Latched, UnmappedInWindow, TranslatesRight, MayUse, effectiveMode
<1>6. CASE MTC0Status
  BY <1>4, <1>6 DEF MTC0Status
<1>7. CASE Exception
  BY <1>4, <1>7 DEF Exception
<1>8. CASE ERET
  BY <1>4, <1>8 DEF ERET
<1> QED
  BY <1>1, <1>2, <1>3, <1>5, <1>6, <1>7, <1>8 DEF Next

LEMMA Inductive == Spec => []IInv
BY InitInv, NextInv, PTL DEF Spec

(* The latched regions and the lookup (ICStage.c, DCStage.c, Region.c)      *)
(* never apply the offset of an unmapped segment to an address outside it.  *)
THEOREM WindowsAreRight == Spec => []UnmappedInWindow
<1>1. IInv => UnmappedInWindow
  BY DEF IInv
<1> QED
  BY <1>1, Inductive, PTL

(* With sign-extended addresses, every fetch, access and CACHE operation is *)
(* translated as the present mode's address map says, for any sequence of   *)
(* addresses and values of Status and whatever region a latch still holds.  *)
THEOREM TranslationIsRight ==
  ASSUME Addresses \subseteq SignExtended
  PROVE  Spec => []TranslatesRight
<1>1. IInv => TranslatesRight
  BY DEF IInv
<1> QED
  BY <1>1, Inductive, PTL
=============================================================================
