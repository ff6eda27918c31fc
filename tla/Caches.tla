------------------------------- MODULE Caches -------------------------------
(***************************************************************************)
(* The instruction cache (ICache.c, the CACHE operations in EXStage.c, the *)
(* refills in Fault.c) beside the data cache, over one memory.             *)
(*                                                                         *)
(* Neither cache looks into the other: code that was stored must be        *)
(* written back, and the line that may hold the old code invalidated,      *)
(* before it is fetched.  ready is that discipline, which the code does    *)
(* not know of.                                                            *)
(*                                                                         *)
(* A code line is a line of the instruction cache, made of lines of the    *)
(* data cache.  Software runs in unmapped segments, where virtual and      *)
(* physical addresses select one set (VR4300FaultCOP only has the latter). *)
(***************************************************************************)
EXTENDS DCache, Naturals

CONSTANTS
  Half,       \* the parts of a code line, as large as a line of DCache
  CLine,      \* code lines, each a function from Half to physical lines
  Slot,       \* sets of the instruction cache
  SlotOf,     \* the set of each code line, address >> 5 & 0x1FF
  Page,       \* values of a tag
  PageOf,     \* the tag of each code line, address >> 12
  Page0,      \* the tag 0
  TagWrites   \* what software writes to TagLo

ASSUME CodeAssumption ==
  /\ CLine \subseteq [Half -> PLine]
  /\ SlotOf \in [CLine -> Slot]
  /\ PageOf \in [CLine -> Page]
  /\ Page0 \in Page

(* Within a page, the set tells code lines apart; they do not overlap. *)
ASSUME DistinctAssumption ==
  \A c, d \in CLine : c # d =>
    /\ SlotOf[c] # SlotOf[d] \/ PageOf[c] # PageOf[d]
    /\ \A g, h \in Half : c[g] # d[h]

TagLo == [pState : 0..3, pTagLo : Page]

ASSUME TagAssumption == TagWrites \subseteq TagLo

VARIABLES
  ilines,     \* per set: tag and data
  ivalid,     \* per set: whether the line is valid
  tagLo,      \* cp0.regs.tagLo
  ready       \* code lines that software knows to be written back and not stale

ivars == <<ilines, ivalid, tagLo>>

-----------------------------------------------------------------------------
(* VR4300ICacheProbe *)
ICacheProbe(c) == ivalid[SlotOf[c]] /\ ilines[SlotOf[c]].tag = PageOf[c]

(* VR4300ICacheFill: the line comes from memory, past the data cache. *)
ICacheFill(c) ==
  /\ ilines' = [ilines EXCEPT ![SlotOf[c]] =
                  [tag |-> PageOf[c], data |-> [h \in Half |-> mem[c[h]]]]]
  /\ ivalid' = [ivalid EXCEPT ![SlotOf[c]] = TRUE]

(* Memory holds what was stored to the code line. *)
WrittenBack(c) == \A h \in Half : \A i \in Holders(c[h]) : ~lines[i].dirty

(* What software learns from the invalidation of a set. *)
Renewed(s) == {c \in CLine : SlotOf[c] = s /\ WrittenBack(c)}

(* A fetch that misses: VR4300FaultICB fills the line. *)
Fetch(c) ==
  /\ ~ICacheProbe(c)
  /\ ICacheFill(c)
  /\ UNCHANGED <<tagLo, ready>>

(* CACHE Fill, by way of VR4300FaultCOP. *)
FillOp(c) ==
  /\ ICacheFill(c)
  /\ UNCHANGED <<tagLo, ready>>

IndexInvalidate(s) ==
  /\ ivalid' = [ivalid EXCEPT ![s] = FALSE]
  /\ ready' = ready \cup Renewed(s)
  /\ UNCHANGED <<ilines, tagLo>>

(* The code does not look at valid. *)
IHitInvalidate(c) ==
  /\ ivalid' = IF ilines[SlotOf[c]].tag = PageOf[c]
               THEN [ivalid EXCEPT ![SlotOf[c]] = FALSE] ELSE ivalid
  /\ ready' = ready \cup (Renewed(SlotOf[c]) \cap {c})
  /\ UNCHANGED <<ilines, tagLo>>

IndexLoadTag(s) ==
  /\ tagLo' = [pState |-> IF ivalid[s] THEN 2 ELSE 0, pTagLo |-> ilines[s].tag]
  /\ UNCHANGED <<ilines, ivalid, ready>>

MTC0TagLo(tag) ==
  /\ tagLo' = tag
  /\ UNCHANGED <<ilines, ivalid, ready>>

(* Software uses Index_Store_Tag to invalidate; a tag that makes the line   *)
(* valid vouches for unknown data, unless it is the tag that is there.      *)
AfterStoreTag(s) ==
  IF tagLo.pState < 2 THEN ready \cup Renewed(s)
  ELSE IF ivalid[s] /\ ilines[s].tag = tagLo.pTagLo THEN ready
  ELSE {c \in ready : SlotOf[c] # s}

(* Mutant: the line becomes valid, but never invalid. *)
StoreTagKeepsValid(s) ==
  /\ ivalid' = [ivalid EXCEPT ![s] = @ \/ tagLo.pState \div 2 = 1]
  /\ ilines' = [ilines EXCEPT ![s] = [tag |-> tagLo.pTagLo, data |-> @.data]]
  /\ ready' = AfterStoreTag(s)
  /\ UNCHANGED tagLo

IndexStoreTag(s) ==
  /\ ivalid' = [ivalid EXCEPT ![s] = tagLo.pState \div 2 = 1]
  /\ ilines' = [ilines EXCEPT ![s] = [tag |-> tagLo.pTagLo, data |-> @.data]]
  /\ ready' = AfterStoreTag(s)
  /\ UNCHANGED tagLo

CodeStep ==
  \/ \E c \in CLine : Fetch(c) \/ FillOp(c) \/ IHitInvalidate(c)
  \/ \E s \in Slot : IndexInvalidate(s) \/ IndexLoadTag(s) \/ IndexStoreTag(s)
  \/ \E tag \in TagWrites : MTC0TagLo(tag)

(* A store to code makes the old copy stale. *)
Stored(p) ==
  \/ \E v \in VLine, w \in Word, x \in Value : Phys[v] = p /\ Store(v, w, x)
  \/ \E w \in Word, x \in Value : StoreUncached(p, w, x)

DataStep ==
  /\ Next
  /\ ready' = {c \in ready : \A h \in Half : ~Stored(c[h])}
  /\ UNCHANGED ivars

CachesInit ==
  /\ Init
  /\ ivalid = [s \in Slot |-> FALSE]
  /\ ilines = [s \in Slot |-> [tag |-> Page0, data |-> [h \in Half |-> [w \in Word |-> Zero]]]]
  /\ tagLo = [pState |-> 0, pTagLo |-> Page0]
  /\ ready = CLine

CachesNext == (CodeStep /\ UNCHANGED vars) \/ DataStep

CachesSpec == CachesInit /\ [][CachesNext]_<<vars, ivars, ready>>

-----------------------------------------------------------------------------
(***************************************************************************)
(* A fetch that hits a line which software has written back and            *)
(* invalidated since it changed it reads what the stores of the processor  *)
(* and of the devices have made of it (VR4300ICacheProbe, VR4300ICacheFill *)
(* and the CACHE operations on both caches, in any order, with refills and *)
(* evictions between them).                                                *)
(***************************************************************************)
CodeIsCurrent ==
  \A c \in ready : ICacheProbe(c) =>
    \A h \in Half : ilines[SlotOf[c]].data[h] = Contents(c[h])
=============================================================================
