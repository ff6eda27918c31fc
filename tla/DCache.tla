------------------------------- MODULE DCache -------------------------------
(***************************************************************************)
(* The data cache (DCache.c), the loads and stores that go through it or   *)
(* past it (DCStage.c) and the CACHE operations on it (EXStage.c), over a  *)
(* memory the devices write as well.                                       *)
(*                                                                         *)
(* The code does not snoop: software must write a line back before it      *)
(* hands it to a device, and not use it through the cache until the device *)
(* is done.  lent is that discipline, which the code does not know of, and *)
(* op says which kind of operation the last step was.                      *)
(*                                                                         *)
(* The cache is indexed by virtual and tagged by physical lines; Phys is   *)
(* what region offset and TLB make of a virtual line, Index the nine bits  *)
(* vaddr >> 4 & 0x1FF that select the set.                                 *)
(***************************************************************************)
CONSTANTS
  VLine,      \* virtual lines in cached regions
  PLine,      \* physical lines
  Phys,       \* the physical line of each virtual one
  Index,      \* the set of each virtual line
  Set,        \* sets of the cache
  Word,       \* words in a line
  Value,      \* contents of a word
  Nothing,    \* no load has returned yet
  Line0,      \* the physical line at address 0, the tag of a zeroed set
  Zero,       \* the value 0
  Buffers,    \* physical lines that software shares with the devices
  Handover    \* the CACHE operations software hands lines over with

ASSUME MappingAssumption ==
  /\ Phys \in [VLine -> PLine]
  /\ Index \in [VLine -> Set]

ASSUME ZeroAssumption == Line0 \in PLine /\ Zero \in Value

(* Virtual lines with one physical line share a set: so in KSEG0, and in   *)
(* mapped regions when pages are at least as large as the cache.           *)
ASSUME NoAliasAssumption ==
  \A v, w \in VLine : Phys[v] = Phys[w] => Index[v] = Index[w]

ASSUME HandoverAssumption == Handover \subseteq {"invalidate", "keep"}

VARIABLES
  lines,      \* per set: tag, data and dirty flag
  valid,      \* per set: whether the line is valid
  mem,        \* memory behind the bus
  target,     \* the register the last load wrote
  lent,       \* lines that software has handed to the devices
  op          \* the kind of the last operation

vars == <<lines, valid, mem, target, lent, op>>

Line == [Word -> Value]

-----------------------------------------------------------------------------
(* VR4300DCacheProbe *)
Probe(v) == valid[Index[v]] /\ lines[Index[v]].tag = Phys[v]

(* Mutant: the dirty flag alone decides about the write-back. *)
FlushedIfDirty(i, dirty) ==
  IF dirty THEN [mem EXCEPT ![lines[i].tag] = lines[i].data] ELSE mem

(* The write-back that VR4300DCacheFill starts with: memory after it. *)
Flushed(i, dirty) ==
  IF valid[i] /\ dirty THEN [mem EXCEPT ![lines[i].tag] = lines[i].data] ELSE mem

(* Mutants: the set keeps its tag, or is tagged with the virtual line. *)
FilledKeepsTag(v, m) == [tag |-> lines[Index[v]].tag, data |-> m[Phys[v]], dirty |-> FALSE]

FilledTagsVirtual(v, m) == [tag |-> v, data |-> m[Phys[v]], dirty |-> FALSE]

(* The line VR4300DCacheFill leaves, when memory is m by then. *)
Filled(v, m) == [tag |-> Phys[v], data |-> m[Phys[v]], dirty |-> FALSE]

(* VR4300DCacheFill, dirty being the flag it finds. *)
Fill(v, dirty) ==
  LET m == Flushed(Index[v], dirty)
  IN  /\ mem'   = m
      /\ lines' = [lines EXCEPT ![Index[v]] = Filled(v, m)]

(* DCStage looks the line up, and fills it on a miss, before the memory    *)
(* function uses it: the line and memory by then.                          *)
AfterMiss(v) == IF Probe(v) THEN mem ELSE Flushed(Index[v], lines[Index[v]].dirty)

Found(v) == IF Probe(v) THEN lines[Index[v]] ELSE Filled(v, AfterMiss(v))

Touch(v, line) ==
  /\ mem'   = AfterMiss(v)
  /\ lines' = [lines EXCEPT ![Index[v]] = line]
  /\ valid' = [valid EXCEPT ![Index[v]] = TRUE]

-----------------------------------------------------------------------------
Init ==
  /\ valid  = [i \in Set |-> FALSE]
  /\ lines  = [i \in Set |-> [tag |-> Line0, data |-> [w \in Word |-> Zero], dirty |-> FALSE]]
  /\ mem   \in [PLine -> Line]
  /\ target = Nothing
  /\ lent   = {}
  /\ op     = "none"

(* Cached loads and stores. *)
Load(v, w) ==
  /\ Phys[v] \notin lent
  /\ Touch(v, Found(v))
  /\ target' = Found(v).data[w]
  /\ op' = "load"
  /\ UNCHANGED lent

(* Mutant: a store does not set the dirty flag. *)
StoreStaysClean(v, w, x) ==
  /\ Phys[v] \notin lent
  /\ Touch(v, [Found(v) EXCEPT !.data = [@ EXCEPT ![w] = x]])
  /\ op' = "store"
  /\ UNCHANGED <<target, lent>>

Store(v, w, x) ==
  /\ Phys[v] \notin lent
  /\ Touch(v, [Found(v) EXCEPT !.data = [@ EXCEPT ![w] = x], !.dirty = TRUE])
  /\ op' = "store"
  /\ UNCHANGED <<target, lent>>

(* Loads and stores through KSEG1, and those of the devices. *)
LoadUncached(p, w) ==
  /\ p \in lent
  /\ target' = mem[p][w]
  /\ op' = "load"
  /\ UNCHANGED <<lines, valid, mem, lent>>

StoreUncached(p, w, x) ==
  /\ p \in lent
  /\ mem' = [mem EXCEPT ![p] = [@ EXCEPT ![w] = x]]
  /\ op' = "store"
  /\ UNCHANGED <<lines, valid, target, lent>>

(* CACHE, on whatever line the set of the address holds. *)
IndexWriteBackInvalidate(v) ==
  /\ IF valid[Index[v]] THEN Fill(v, TRUE) ELSE UNCHANGED <<lines, mem>>
  /\ valid' = [valid EXCEPT ![Index[v]] = FALSE]
  /\ op' = "maintain"
  /\ UNCHANGED <<target, lent>>

(* CACHE, on the line of the address if its tag is there; the code does    *)
(* not look at valid.                                                      *)
TagMatches(v) == lines[Index[v]].tag = Phys[v]

Invalidate(v) ==
  valid' = IF TagMatches(v) THEN [valid EXCEPT ![Index[v]] = FALSE] ELSE valid

HitInvalidate(v) ==
  /\ Phys[v] \notin lent
  /\ Invalidate(v)
  /\ op' = "invalidate"
  /\ UNCHANGED <<lines, mem, target, lent>>

FillIfMatches(v) ==
  IF TagMatches(v) THEN Fill(v, lines[Index[v]].dirty) ELSE UNCHANGED <<lines, mem>>

(* Mutant: Hit_Write_Back_Invalidate writes nothing back. *)
HitInvalidateOnly(v) ==
  /\ Phys[v] \notin lent
  /\ Invalidate(v)
  /\ lent' \in {lent} \cup {lent \cup ({Phys[v]} \cap Buffers) : h \in Handover \cap {"invalidate"}}
  /\ op' = "maintain"
  /\ UNCHANGED <<lines, mem, target>>

HitWriteBackInvalidate(v) ==
  /\ Phys[v] \notin lent
  /\ FillIfMatches(v)
  /\ Invalidate(v)
  /\ lent' \in {lent} \cup {lent \cup ({Phys[v]} \cap Buffers) : h \in Handover \cap {"invalidate"}}
  /\ op' = "maintain"
  /\ UNCHANGED target

HitWriteBack(v) ==
  /\ Phys[v] \notin lent
  /\ FillIfMatches(v)
  /\ valid' = IF TagMatches(v) THEN [valid EXCEPT ![Index[v]] = TRUE] ELSE valid
  /\ lent' \in {lent} \cup {lent \cup ({Phys[v]} \cap Buffers) : h \in Handover \cap {"keep"}}
  /\ op' = "maintain"
  /\ UNCHANGED target

(* Software takes a line back: it invalidates what the cache still holds. *)
TakeBack(v) ==
  /\ Phys[v] \in lent
  /\ Invalidate(v)
  /\ lent' = lent \ {Phys[v]}
  /\ op' = "maintain"
  /\ UNCHANGED <<lines, mem, target>>

Next ==
  \/ \E v \in VLine :
       \/ \E w \in Word : Load(v, w)
       \/ \E w \in Word, x \in Value : Store(v, w, x)
       \/ IndexWriteBackInvalidate(v)
       \/ HitInvalidate(v)
       \/ HitWriteBackInvalidate(v)
       \/ HitWriteBack(v)
       \/ TakeBack(v)
  \/ \E p \in PLine, w \in Word :
       \/ LoadUncached(p, w)
       \/ \E x \in Value : StoreUncached(p, w, x)

Spec == Init /\ [][Next]_vars

-----------------------------------------------------------------------------
(* Where the current contents of a line are: in memory while it is lent,   *)
(* in the cache while it is there, in memory otherwise.                    *)
Holders(p) == {i \in Set : valid[i] /\ lines[i].tag = p}

Contents(p) ==
  IF p \notin lent /\ Holders(p) # {}
  THEN lines[CHOOSE i \in Holders(p) : TRUE].data
  ELSE mem[p]

Flat == INSTANCE FlatMemory WITH memory <- [p \in PLine |-> Contents(p)]

TypeOK ==
  /\ lines \in [Set -> [tag: PLine, data: Line, dirty: BOOLEAN]]
  /\ valid \in [Set -> BOOLEAN]
  /\ mem \in [PLine -> Line]
  /\ target \in Value \cup {Nothing}
  /\ lent \subseteq PLine
  /\ op \in {"none", "load", "store", "invalidate", "maintain"}

(* No physical line is held in two sets. *)
OneHolder ==
  \A i, j \in Set :
    valid[i] /\ valid[j] /\ lines[i].tag = lines[j].tag => i = j

(* A valid line that is not dirty is what memory holds, unless a device    *)
(* may have written that; nothing dirty is kept of such a line.            *)
CleanMatchesMemory ==
  \A i \in Set : valid[i] =>
    IF lines[i].tag \in lent THEN ~lines[i].dirty
    ELSE lines[i].dirty \/ lines[i].data = mem[lines[i].tag]

(* The processor and the devices see one memory. *)
FlatSpec == Flat!Spec

(* Only a line that is valid and dirty is written over memory, and only    *)
(* the devices change a line that is lent to them.                         *)
OnlyDirtyWrittenBack ==
  [][\A p \in PLine : mem'[p] # mem[p] =>
       \/ \E i \in Holders(p) : lines[i].dirty
       \/ \E w \in Word, x \in Value : StoreUncached(p, w, x)]_vars
=============================================================================
