---------------------------- MODULE CachesProofs ----------------------------
(***************************************************************************)
(* Proofs about the data cache, for any number of lines, sets, words and   *)
(* values and any address mapping without aliases, and then about the two  *)
(* caches over one memory, for any number of lines and sets of both and    *)
(* any tags: under software that keeps the hand-over discipline of DCache  *)
(* and, for the second part, the discipline of Caches for code.            *)
(***************************************************************************)
EXTENDS Caches, TLAPS

-----------------------------------------------------------------------------
(* The data cache. *)

CacheLine == [tag: PLine, data: Line, dirty: BOOLEAN]

(* A set only holds lines whose addresses select it. *)
Homed ==
  \A i \in Set : valid[i] => \E v \in VLine : lines[i].tag = Phys[v] /\ i = Index[v]

IInv ==
  /\ TypeOK
  /\ Homed
  /\ CleanMatchesMemory

-----------------------------------------------------------------------------
(* The sets and tags an address selects. *)
LEMMA MappingType ==
  ASSUME NEW v \in VLine
  PROVE  Index[v] \in Set /\ Phys[v] \in PLine
  BY MappingAssumption

(* No line has two homes. *)
LEMMA HomedOneHolder == Homed => OneHolder
  BY NoAliasAssumption DEF Homed, OneHolder

(* What a write-back leaves in memory. *)
LEMMA FlushedType ==
  ASSUME TypeOK, NEW i \in Set, NEW d \in BOOLEAN
  PROVE  Flushed(i, d) \in [PLine -> Line]
  BY DEF TypeOK, Flushed

(* A write-back puts the line of its set into memory, and nothing else. *)
LEMMA FlushedFacts ==
  ASSUME TypeOK, NEW i \in Set, NEW d \in BOOLEAN, NEW p \in PLine
  PROVE  /\ valid[i] /\ d /\ p = lines[i].tag => Flushed(i, d)[p] = lines[i].data
         /\ ~(valid[i] /\ d /\ p = lines[i].tag) => Flushed(i, d)[p] = mem[p]
  BY DEF TypeOK, Flushed

(* A fill leaves a line. *)
LEMMA FilledType ==
  ASSUME NEW v \in VLine, NEW m \in [PLine -> Line]
  PROVE  Filled(v, m) \in CacheLine
  BY MappingType DEF Filled, CacheLine

(* What a lookup finds or fills is a line with the tag looked up. *)
LEMMA FoundType ==
  ASSUME TypeOK, NEW v \in VLine
  PROVE  /\ AfterMiss(v) \in [PLine -> Line]
         /\ Found(v) \in CacheLine
         /\ Found(v).tag = Phys[v]
  <1>1. Index[v] \in Set /\ Phys[v] \in PLine
    BY MappingType
  <1>2. lines[Index[v]] \in CacheLine /\ lines[Index[v]].dirty \in BOOLEAN
    BY <1>1 DEF TypeOK, CacheLine
  <1>3. AfterMiss(v) \in [PLine -> Line]
    BY <1>1, <1>2, FlushedType DEF AfterMiss, TypeOK
  <1>4. CASE Probe(v)
    BY <1>2, <1>3, <1>4 DEF Found, Probe
  <1>5. CASE ~Probe(v)
    BY <1>3, <1>5, FilledType DEF Found, Filled
  <1> QED BY <1>4, <1>5

-----------------------------------------------------------------------------
(* The effect of an access on IInv: the line of v is valid afterwards, the *)
(* one it replaces, if any, written back.                                  *)
LEMMA TouchIInv ==
  ASSUME IInv, NEW v \in VLine, Phys[v] \notin lent,
         NEW line \in CacheLine, line.tag = Phys[v],
         line.dirty \/ line.data = AfterMiss(v)[Phys[v]],
         Touch(v, line), lent' = lent,
         target' \in Value \cup {Nothing}, op' \in {"load", "store"}
  PROVE  IInv'
  <1>1. Index[v] \in Set /\ Phys[v] \in PLine
    BY MappingType
  <1>2. TypeOK'
    BY <1>1, FoundType DEF IInv, TypeOK, Touch, CacheLine
  <1>3. Homed'
    BY <1>1, <1>2 DEF IInv, TypeOK, Homed, Touch
  <1>4. ASSUME NEW i \in Set, valid'[i], i # Index[v]
        PROVE  IF lines'[i].tag \in lent' THEN ~lines'[i].dirty
               ELSE lines'[i].dirty \/ lines'[i].data = mem'[lines'[i].tag]
    <2>1. valid[i] /\ lines'[i] = lines[i]
      BY <1>1, <1>4 DEF IInv, TypeOK, Touch
    <2>2. lines[i] \in CacheLine /\ lines[i].tag \in PLine
      BY DEF IInv, TypeOK, CacheLine
    <2>3. mem'[lines[i].tag] = mem[lines[i].tag]
      <3>1. ~(valid[Index[v]] /\ lines[Index[v]].tag = lines[i].tag)
        BY <1>1, <1>4, <2>1, HomedOneHolder DEF IInv, OneHolder
      <3>2. lines[Index[v]].dirty \in BOOLEAN
        BY <1>1 DEF IInv, TypeOK
      <3> QED BY <1>1, <2>2, <3>1, <3>2, FlushedFacts DEF IInv, Touch, AfterMiss
    <2> QED BY <2>1, <2>3 DEF IInv, CleanMatchesMemory
  <1>5. lines'[Index[v]] = line
    BY <1>1 DEF IInv, TypeOK, Touch
  <1>6. CleanMatchesMemory'
    BY <1>1, <1>4, <1>5 DEF CleanMatchesMemory, Touch
  <1> QED BY <1>2, <1>3, <1>6 DEF IInv

(* A lookup finds a line that is dirty or equal to what memory then holds. *)
LEMMA FoundClean ==
  ASSUME IInv, NEW v \in VLine, Phys[v] \notin lent
  PROVE  Found(v).dirty \/ Found(v).data = AfterMiss(v)[Phys[v]]
  <1>1. Index[v] \in Set
    BY MappingType
  <1>2. CASE Probe(v)
    BY <1>1, <1>2 DEF IInv, CleanMatchesMemory, Probe, Found, AfterMiss
  <1>3. CASE ~Probe(v)
    BY <1>3 DEF Found, Filled
  <1> QED BY <1>2, <1>3

(* A line is held in the set its address selects or not at all. *)
LEMMA HeldAtHome ==
  ASSUME Homed, NEW v \in VLine, NEW i \in Set, valid[i], lines[i].tag = Phys[v]
  PROVE  i = Index[v] /\ TagMatches(v)
  BY NoAliasAssumption DEF Homed, TagMatches

(* The types of what a fill leaves. *)
LEMMA FillType ==
  ASSUME TypeOK, NEW v \in VLine, NEW d \in BOOLEAN, Fill(v, d)
  PROVE  /\ lines' \in [Set -> CacheLine]
         /\ mem' \in [PLine -> Line]
         /\ lines'[Index[v]] = Filled(v, mem')
  <1>1. Index[v] \in Set
    BY MappingType
  <1>2. mem' \in [PLine -> Line]
    BY <1>1, FlushedType DEF Fill
  <1>3. lines' = [lines EXCEPT ![Index[v]] = Filled(v, mem')]
    BY DEF Fill
  <1>4. Filled(v, mem') \in CacheLine
    BY <1>2, FilledType
  <1>5. lines \in [Set -> CacheLine]
    BY DEF TypeOK, CacheLine
  <1> QED BY <1>1, <1>2, <1>3, <1>4, <1>5

(* A fill disturbs neither another set that is valid nor the memory behind *)
(* that set.                                                               *)
LEMMA FillOthers ==
  ASSUME IInv, NEW v \in VLine, NEW d \in BOOLEAN, Fill(v, d),
         NEW i \in Set, i # Index[v], valid[i]
  PROVE  lines'[i] = lines[i] /\ mem'[lines[i].tag] = mem[lines[i].tag]
  <1>1. Index[v] \in Set
    BY MappingType
  <1>2. lines'[i] = lines[i]
    BY <1>1 DEF Fill, IInv, TypeOK
  <1>3. lines[i].tag \in PLine
    BY DEF IInv, TypeOK
  <1>4. ~(valid[Index[v]] /\ lines[Index[v]].tag = lines[i].tag)
    BY <1>1, HomedOneHolder DEF IInv, OneHolder
  <1>5. mem'[lines[i].tag] = mem[lines[i].tag]
    BY <1>1, <1>3, <1>4, FlushedFacts DEF IInv, Fill
  <1> QED BY <1>2, <1>5

(* A CACHE operation on the line of v, or a step that changes who may use  *)
(* it: what is valid in other sets stays as it was; the set of v, if it is *)
(* still valid, is as it was or has just been filled with the line of v;   *)
(* and lent changes for the line of v only when it is out of the cache or  *)
(* clean.                                                                  *)
LEMMA OperationIInv ==
  ASSUME IInv, NEW v \in VLine, TypeOK',
         \A i \in Set : i # Index[v] /\ valid'[i] =>
           /\ valid[i]
           /\ lines'[i] = lines[i]
           /\ mem'[lines[i].tag] = mem[lines[i].tag],
         valid'[Index[v]] =>
           \/ /\ lines'[Index[v]] = Filled(v, mem')
           \/ /\ valid[Index[v]]
              /\ ~TagMatches(v)
              /\ lines'[Index[v]] = lines[Index[v]]
              /\ mem' = mem,
         \A q \in PLine : q # Phys[v] => (q \in lent' <=> q \in lent)
  PROVE  IInv'
  <1>1. Index[v] \in Set /\ Phys[v] \in PLine
    BY MappingType
  <1>2. Homed'
    BY <1>1 DEF IInv, Homed, Filled
  <1>3. ASSUME NEW i \in Set, valid'[i]
        PROVE  IF lines'[i].tag \in lent' THEN ~lines'[i].dirty
               ELSE lines'[i].dirty \/ lines'[i].data = mem'[lines'[i].tag]
    <2>1. CASE lines'[Index[v]] = Filled(v, mem') /\ i = Index[v]
      BY <2>1 DEF Filled
    <2>2. CASE ~(lines'[Index[v]] = Filled(v, mem') /\ i = Index[v])
      <3>1. /\ valid[i]
            /\ lines'[i] = lines[i]
            /\ mem'[lines[i].tag] = mem[lines[i].tag]
        BY <1>3, <2>2
      <3>2. lines[i].tag # Phys[v]
        <4>1. CASE i = Index[v]
          BY <1>3, <2>2, <4>1 DEF TagMatches
        <4>2. CASE i # Index[v]
          BY <3>1, <4>2, HeldAtHome DEF IInv
        <4> QED BY <4>1, <4>2
      <3>3. lines[i].tag \in PLine
        BY DEF IInv, TypeOK
      <3> QED BY <3>1, <3>2, <3>3 DEF IInv, CleanMatchesMemory
    <2> QED BY <2>1, <2>2
  <1>4. CleanMatchesMemory'
    BY <1>3 DEF CleanMatchesMemory
  <1> QED BY <1>2, <1>4 DEF IInv

(* The types an operation on the line of v leaves, whether it fills or not. *)
LEMMA FillIfMatchesType ==
  ASSUME TypeOK, NEW v \in VLine, FillIfMatches(v)
  PROVE  /\ lines' \in [Set -> CacheLine]
         /\ mem' \in [PLine -> Line]
         /\ TagMatches(v) =>
              /\ Fill(v, lines[Index[v]].dirty)
              /\ lines'[Index[v]] = Filled(v, mem')
         /\ ~TagMatches(v) => lines' = lines /\ mem' = mem
  <1>1. lines[Index[v]].dirty \in BOOLEAN
    BY MappingType DEF TypeOK
  <1>2. CASE TagMatches(v)
    BY <1>1, <1>2, FillType DEF FillIfMatches
  <1>3. CASE ~TagMatches(v)
    BY <1>3 DEF FillIfMatches, TypeOK, CacheLine
  <1> QED BY <1>2, <1>3

(* What it does to the other sets: nothing. *)
LEMMA FillIfMatchesOthers ==
  ASSUME IInv, NEW v \in VLine, FillIfMatches(v),
         NEW i \in Set, i # Index[v], valid[i]
  PROVE  lines'[i] = lines[i] /\ mem'[lines[i].tag] = mem[lines[i].tag]
  <1>1. lines[Index[v]].dirty \in BOOLEAN
    BY MappingType DEF IInv, TypeOK
  <1>2. CASE TagMatches(v)
    BY <1>1, <1>2, FillOthers DEF FillIfMatches
  <1>3. CASE ~TagMatches(v)
    BY <1>3 DEF FillIfMatches
  <1> QED BY <1>2, <1>3

(* An invalidation touches one set, and leaves it valid only when its tag  *)
(* is another.                                                             *)
LEMMA InvalidateFacts ==
  ASSUME TypeOK, NEW v \in VLine, Invalidate(v)
  PROVE  /\ valid' \in [Set -> BOOLEAN]
         /\ \A i \in Set : i # Index[v] => (valid'[i] <=> valid[i])
         /\ valid'[Index[v]] => valid[Index[v]] /\ ~TagMatches(v)
  <1>1. Index[v] \in Set
    BY MappingType
  <1>2. CASE TagMatches(v)
    BY <1>1, <1>2 DEF Invalidate, TypeOK
  <1>3. CASE ~TagMatches(v)
    BY <1>1, <1>3 DEF Invalidate, TypeOK
  <1> QED BY <1>2, <1>3

(* The cache is empty at first. *)
LEMMA InitIInv == Init => IInv
  <1> SUFFICES ASSUME Init PROVE IInv
    OBVIOUS
  <1>1. TypeOK
    BY ZeroAssumption DEF Init, TypeOK, Line
  <1>2. Homed /\ CleanMatchesMemory
    BY DEF Init, Homed, CleanMatchesMemory
  <1> QED BY <1>1, <1>2 DEF IInv

(* Every operation preserves IInv. *)
LEMMA NextIInv == IInv /\ [Next]_vars => IInv'
  <1> SUFFICES ASSUME IInv, [Next]_vars PROVE IInv'
    OBVIOUS
  <1>0. TypeOK
    BY DEF IInv
  <1>1. ASSUME NEW v \in VLine, NEW w \in Word, Load(v, w) PROVE IInv'
    <2>1. Found(v) \in CacheLine /\ Found(v).tag = Phys[v]
      BY <1>0, FoundType
    <2>2. target' \in Value \cup {Nothing}
      BY <1>1, <2>1 DEF Load, CacheLine, Line
    <2> QED BY <1>1, <2>1, <2>2, FoundClean, TouchIInv DEF Load
  <1>2. ASSUME NEW v \in VLine, NEW w \in Word, NEW x \in Value, Store(v, w, x)
        PROVE  IInv'
    <2> DEFINE line == [Found(v) EXCEPT !.data = [@ EXCEPT ![w] = x], !.dirty = TRUE]
    <2>1. Found(v) \in CacheLine /\ Found(v).tag = Phys[v]
      BY <1>0, FoundType
    <2>2. line \in CacheLine /\ line.tag = Phys[v] /\ line.dirty
      BY <2>1 DEF CacheLine, Line
    <2>3. target' \in Value \cup {Nothing}
      BY <1>0, <1>2 DEF Store, TypeOK
    <2>4. Touch(v, line) /\ Phys[v] \notin lent /\ lent' = lent /\ op' \in {"load", "store"}
      BY <1>2 DEF Store
    <2> HIDE DEF line
    <2> QED BY <2>2, <2>3, <2>4, TouchIInv
  <1>3. ASSUME NEW v \in VLine, IndexWriteBackInvalidate(v) PROVE IInv'
    <2>1. Index[v] \in Set
      BY MappingType
    <2>2. valid' = [valid EXCEPT ![Index[v]] = FALSE]
      BY <1>3 DEF IndexWriteBackInvalidate
    <2>3. CASE valid[Index[v]]
      <3>1. Fill(v, TRUE)
        BY <1>3, <2>3 DEF IndexWriteBackInvalidate
      <3>2. lines' \in [Set -> CacheLine] /\ mem' \in [PLine -> Line]
        BY <1>0, <3>1, FillType
      <3>3. TypeOK'
        BY <1>0, <1>3, <2>2, <3>2 DEF TypeOK, IndexWriteBackInvalidate, CacheLine
      <3>4. \A i \in Set : i # Index[v] /\ valid[i] =>
              lines'[i] = lines[i] /\ mem'[lines[i].tag] = mem[lines[i].tag]
        BY <3>1, FillOthers
      <3>5. \A i \in Set : i # Index[v] => (valid'[i] <=> valid[i])
        BY <1>0, <2>2 DEF TypeOK
      <3>6. ~valid'[Index[v]]
        BY <1>0, <2>1, <2>2 DEF TypeOK
      <3>7. lent' = lent
        BY <1>3 DEF IndexWriteBackInvalidate
      <3> QED BY <3>3, <3>4, <3>5, <3>6, <3>7, OperationIInv
    <2>4. CASE ~valid[Index[v]]
      BY <1>3, <2>1, <2>2, <2>4
      DEF IndexWriteBackInvalidate, IInv, TypeOK, Homed, CleanMatchesMemory
    <2> QED BY <2>3, <2>4
  <1>4. ASSUME NEW v \in VLine, HitInvalidate(v) PROVE IInv'
    <2>1. Invalidate(v) /\ lines' = lines /\ mem' = mem /\ lent' = lent
      BY <1>4 DEF HitInvalidate
    <2>2. TypeOK'
      BY <1>0, <1>4, <2>1, InvalidateFacts DEF TypeOK, HitInvalidate
    <2> QED BY <1>0, <2>1, <2>2, InvalidateFacts, OperationIInv
  <1>5. ASSUME NEW v \in VLine, HitWriteBackInvalidate(v) PROVE IInv'
    <2>1. Invalidate(v) /\ FillIfMatches(v)
      BY <1>5 DEF HitWriteBackInvalidate
    <2>2. lent' = lent \/ lent' = lent \cup {Phys[v]}
      BY <1>5 DEF HitWriteBackInvalidate
    <2>3. TypeOK'
      BY <1>0, <1>5, <2>1, <2>2, MappingType, InvalidateFacts, FillIfMatchesType
      DEF TypeOK, HitWriteBackInvalidate, CacheLine
    <2>4. \A i \in Set : i # Index[v] /\ valid[i] =>
            lines'[i] = lines[i] /\ mem'[lines[i].tag] = mem[lines[i].tag]
      BY <2>1, FillIfMatchesOthers
    <2>5. ~TagMatches(v) => lines' = lines /\ mem' = mem
      BY <1>0, <2>1, FillIfMatchesType
    <2> QED BY <1>0, <2>1, <2>2, <2>3, <2>4, <2>5, InvalidateFacts, OperationIInv
  <1>6. ASSUME NEW v \in VLine, HitWriteBack(v) PROVE IInv'
    <2>1. FillIfMatches(v) /\ Index[v] \in Set
      BY <1>6, MappingType DEF HitWriteBack
    <2>2. lent' = lent \/ lent' = lent \cup {Phys[v]}
      BY <1>6 DEF HitWriteBack
    <2>3. /\ valid' \in [Set -> BOOLEAN]
          /\ \A i \in Set : i # Index[v] => (valid'[i] <=> valid[i])
          /\ ~TagMatches(v) => valid' = valid
      <3>1. CASE TagMatches(v)
        BY <1>0, <1>6, <3>1 DEF HitWriteBack, TypeOK
      <3>2. CASE ~TagMatches(v)
        BY <1>0, <1>6, <3>2 DEF HitWriteBack, TypeOK
      <3> QED BY <3>1, <3>2
    <2>4. TypeOK'
      BY <1>0, <1>6, <2>1, <2>2, <2>3, MappingType, FillIfMatchesType
      DEF TypeOK, HitWriteBack, CacheLine
    <2>5. \A i \in Set : i # Index[v] /\ valid[i] =>
            lines'[i] = lines[i] /\ mem'[lines[i].tag] = mem[lines[i].tag]
      BY <2>1, FillIfMatchesOthers
    <2>6. /\ ~TagMatches(v) => lines' = lines /\ mem' = mem
          /\ TagMatches(v) => lines'[Index[v]] = Filled(v, mem')
      BY <1>0, <2>1, FillIfMatchesType
    <2> QED BY <2>2, <2>3, <2>4, <2>5, <2>6, OperationIInv
  <1>7. ASSUME NEW v \in VLine, TakeBack(v) PROVE IInv'
    <2>1. Invalidate(v) /\ lines' = lines /\ mem' = mem /\ lent' = lent \ {Phys[v]}
      BY <1>7 DEF TakeBack
    <2>2. TypeOK'
      BY <1>0, <1>7, <2>1, InvalidateFacts DEF TypeOK, TakeBack
    <2> QED BY <1>0, <2>1, <2>2, InvalidateFacts, OperationIInv
  <1>8. ASSUME NEW p \in PLine, NEW w \in Word, LoadUncached(p, w) PROVE IInv'
    <2>1. TypeOK'
      BY <1>8 DEF LoadUncached, IInv, TypeOK, Line
    <2> QED BY <1>8, <2>1 DEF LoadUncached, IInv, Homed, CleanMatchesMemory
  <1>9. ASSUME NEW p \in PLine, NEW w \in Word, NEW x \in Value, StoreUncached(p, w, x)
        PROVE  IInv'
    <2>1. TypeOK'
      BY <1>9 DEF StoreUncached, IInv, TypeOK, Line
    <2>2. Homed'
      BY <1>9 DEF StoreUncached, IInv, Homed
    <2>3. CleanMatchesMemory'
      BY <1>9 DEF StoreUncached, IInv, TypeOK, CleanMatchesMemory
    <2> QED BY <2>1, <2>2, <2>3 DEF IInv
  <1>10. CASE UNCHANGED vars
    BY <1>10 DEF vars, IInv, TypeOK, Homed, CleanMatchesMemory
  <1> QED BY <1>1, <1>2, <1>3, <1>4, <1>5, <1>6, <1>7, <1>8, <1>9, <1>10 DEF Next

(* The inductive invariant. *)
LEMMA SpecIInv == Spec => []IInv
  BY InitIInv, NextIInv, PTL DEF Spec

(* The cache keeps one copy of a line at most, and a copy that it need not *)
(* write back is the line in memory, whatever CACHE operations and         *)
(* hand-overs software performs: VR4300DCacheFill and the Hit operations,  *)
(* which do not look at valid, never separate the two.                     *)
THEOREM CleanCopies == Spec => []CleanMatchesMemory
  <1>1. IInv => CleanMatchesMemory
    BY DEF IInv
  <1> QED BY <1>1, SpecIInv, PTL

(* Two sets never hold the same line (VR4300DCacheFill). *)
THEOREM OneCopy == Spec => []OneHolder
  <1>1. IInv => OneHolder
    BY HomedOneHolder DEF IInv
  <1> QED BY <1>1, SpecIInv, PTL

(* Tags, data and the line a device owns keep their types (DCache.c).       *)
THEOREM TypeCorrect == Spec => []TypeOK
  <1>1. IInv => TypeOK
    BY DEF IInv
  <1> QED BY <1>1, SpecIInv, PTL

-----------------------------------------------------------------------------
(* The refinement.  Software that keeps a copy of the lines it hands over  *)
(* can write that copy over what the devices store, so the theorem is      *)
(* about software that does not: then no lent line is in the cache.        *)
LentNotHeld == \A i \in Set : valid[i] => lines[i].tag \notin lent

(* Where the contents of a line are, without the choice of a holder. *)
Located ==
  /\ \A i \in Set : valid[i] /\ lines[i].tag \notin lent =>
       Contents(lines[i].tag) = lines[i].data
  /\ \A p \in PLine : p \in lent \/ (\A i \in Set : valid[i] => lines[i].tag # p) =>
       Contents(p) = mem[p]
  /\ \A p \in PLine : Contents(p) \in Line

RInv == IInv /\ LentNotHeld /\ Located

(* Whichever holder is chosen, there is but one. *)
LEMMA ContentsLocated == IInv => Located
  <1> SUFFICES ASSUME IInv PROVE Located
    OBVIOUS
  <1>1. ASSUME NEW i \in Set, valid[i], lines[i].tag \notin lent
        PROVE  Contents(lines[i].tag) = lines[i].data
    <2> DEFINE j == CHOOSE j \in Holders(lines[i].tag) : TRUE
    <2>1. i \in Holders(lines[i].tag)
      BY <1>1 DEF Holders
    <2>2. j \in Holders(lines[i].tag)
      BY <2>1
    <2>3. j = i
      BY <1>1, <2>2, HomedOneHolder DEF IInv, OneHolder, Holders
    <2> QED BY <1>1, <2>1, <2>3 DEF Contents
  <1>2. ASSUME NEW p \in PLine, p \in lent \/ (\A i \in Set : valid[i] => lines[i].tag # p)
        PROVE  Contents(p) = mem[p]
    BY <1>2 DEF Contents, Holders
  <1>3. ASSUME NEW p \in PLine PROVE Contents(p) \in Line
    <2>1. CASE \E i \in Set : valid[i] /\ lines[i].tag = p /\ p \notin lent
      BY <1>1, <2>1 DEF IInv, TypeOK
    <2>2. CASE ~(\E i \in Set : valid[i] /\ lines[i].tag = p /\ p \notin lent)
      BY <1>2, <2>2 DEF IInv, TypeOK
    <2> QED BY <2>1, <2>2
  <1> QED BY <1>1, <1>2, <1>3 DEF Located

(* An access finds the contents of its line. *)
LEMMA FoundContents ==
  ASSUME RInv, NEW v \in VLine, Phys[v] \notin lent
  PROVE  Found(v).data = Contents(Phys[v])
  <1>1. Index[v] \in Set /\ Phys[v] \in PLine /\ lines[Index[v]].dirty \in BOOLEAN
    BY MappingType DEF RInv, IInv, TypeOK
  <1>2. CASE Probe(v)
    BY <1>1, <1>2 DEF RInv, Located, Probe, Found
  <1>3. CASE ~Probe(v)
    <2>1. \A i \in Set : valid[i] => lines[i].tag # Phys[v]
      BY <1>3, HeldAtHome DEF RInv, IInv, Probe, TagMatches
    <2>2. Contents(Phys[v]) = mem[Phys[v]]
      BY <1>1, <2>1 DEF RInv, Located
    <2>3. AfterMiss(v)[Phys[v]] = mem[Phys[v]]
      BY <1>1, <1>3, <2>1, FlushedFacts DEF RInv, IInv, AfterMiss
    <2> QED BY <1>3, <2>2, <2>3 DEF Found, Filled
  <1> QED BY <1>2, <1>3

(* An operation on the set of v cannot be observed on another line: what   *)
(* it evicts it writes back, unless memory already holds it.               *)
LEMMA OtherContents ==
  ASSUME RInv, RInv', NEW v \in VLine, NEW p \in PLine, p # Phys[v],
         p \in lent' <=> p \in lent,
         \A i \in Set : i # Index[v] =>
           /\ valid'[i] <=> valid[i]
           /\ valid[i] => lines'[i] = lines[i],
         \/ /\ valid'[Index[v]] => lines'[Index[v]].tag = Phys[v]
            /\ IF valid[Index[v]] /\ lines[Index[v]].tag = p
               THEN mem'[p] = lines[Index[v]].data
               ELSE mem'[p] = mem[p]
         \/ /\ valid'[Index[v]] => valid[Index[v]]
            /\ valid[Index[v]] /\ ~valid'[Index[v]] => lines[Index[v]].tag = Phys[v]
            /\ lines'[Index[v]] = lines[Index[v]]
            /\ mem'[p] = mem[p]
  PROVE  Contents(p)' = Contents(p)
  <1>1. Index[v] \in Set /\ Phys[v] \in PLine
    BY MappingType
  <1>2. CASE p \in lent
    <2>1. Contents(p) = mem[p] /\ Contents(p)' = mem'[p]
      BY <1>2 DEF RInv, Located
    <2>2. ~(valid[Index[v]] /\ lines[Index[v]].tag = p)
      BY <1>1, <1>2 DEF RInv, LentNotHeld
    <2> QED BY <2>1, <2>2
  <1>3. CASE p \notin lent /\ \E i \in Set : valid'[i] /\ lines'[i].tag = p
    <2>1. PICK i \in Set : valid'[i] /\ lines'[i].tag = p
      BY <1>3
    <2>2. valid[i] /\ lines'[i] = lines[i]
      BY <2>1
    <2>3. Contents(p) = lines[i].data /\ Contents(p)' = lines'[i].data
      BY <1>3, <2>1, <2>2 DEF RInv, Located
    <2> QED BY <2>2, <2>3
  <1>4. CASE p \notin lent /\ ~(\E i \in Set : valid'[i] /\ lines'[i].tag = p)
    <2>1. Contents(p)' = mem'[p]
      BY <1>4 DEF RInv, Located
    <2>2. CASE valid[Index[v]] /\ lines[Index[v]].tag = p
      <3>1. Contents(p) = lines[Index[v]].data
        BY <1>1, <1>4, <2>2 DEF RInv, Located
      <3> QED BY <1>1, <1>4, <2>1, <2>2, <3>1
    <2>3. CASE ~(valid[Index[v]] /\ lines[Index[v]].tag = p)
      <3>1. \A i \in Set : valid[i] => lines[i].tag # p
        BY <1>4, <2>3
      <3>2. Contents(p) = mem[p]
        BY <3>1 DEF RInv, Located
      <3> QED BY <2>1, <2>3, <3>2
    <2> QED BY <2>2, <2>3
  <1> QED BY <1>2, <1>3, <1>4

(* Contents that are the same for every line are the same memory. *)
LEMMA SameContents ==
  ASSUME \A p \in PLine : Contents(p)' = Contents(p)
  PROVE  [p \in PLine |-> Contents(p)]' = [p \in PLine |-> Contents(p)]
  OBVIOUS

(* A step that changes none of the four variables cannot change contents. *)
LEMMA StillContents ==
  ASSUME UNCHANGED <<lines, valid, mem, lent>>, NEW p \in PLine
  PROVE  Contents(p)' = Contents(p)
  BY DEF Contents, Holders

(* An access replaces the contents of its line, and of no other. *)
LEMMA TouchContents ==
  ASSUME RInv, RInv', NEW v \in VLine, Phys[v] \notin lent, lent' = lent,
         NEW line \in CacheLine, line.tag = Phys[v], Touch(v, line)
  PROVE  /\ Contents(Phys[v])' = line.data
         /\ \A p \in PLine : p # Phys[v] => Contents(p)' = Contents(p)
  <1>1. Index[v] \in Set /\ Phys[v] \in PLine /\ lines[Index[v]].dirty \in BOOLEAN
    BY MappingType DEF RInv, IInv, TypeOK
  <1>2. valid'[Index[v]] /\ lines'[Index[v]] = line
    BY <1>1 DEF RInv, IInv, TypeOK, Touch
  <1>3. Contents(Phys[v])' = line.data
    BY <1>1, <1>2 DEF RInv, Located
  <1>4. \A i \in Set : i # Index[v] =>
          /\ valid'[i] <=> valid[i]
          /\ valid[i] => lines'[i] = lines[i]
    BY <1>1 DEF RInv, IInv, TypeOK, Touch
  <1>5. ASSUME NEW p \in PLine, p # Phys[v] PROVE Contents(p)' = Contents(p)
    <2>1. IF valid[Index[v]] /\ lines[Index[v]].tag = p
          THEN mem'[p] = lines[Index[v]].data
          ELSE mem'[p] = mem[p]
      <3>1. CASE Probe(v)
        BY <1>5, <3>1 DEF Probe, Touch, AfterMiss
      <3>2. CASE ~Probe(v)
        <4>1. mem' = Flushed(Index[v], lines[Index[v]].dirty)
          BY <3>2 DEF Touch, AfterMiss
        <4>2. CASE valid[Index[v]] /\ lines[Index[v]].tag = p
          BY <1>1, <4>1, <4>2, FlushedFacts
          DEF RInv, IInv, LentNotHeld, CleanMatchesMemory
        <4>3. CASE ~(valid[Index[v]] /\ lines[Index[v]].tag = p)
          BY <1>1, <4>1, <4>3, FlushedFacts DEF RInv, IInv
        <4> QED BY <4>2, <4>3
      <3> QED BY <3>1, <3>2
    <2> QED BY <1>2, <1>4, <1>5, <2>1, OtherContents
  <1> QED BY <1>3, <1>5

(* A write-back or invalidation of the line of v keeps every other line. *)
LEMMA MaintainOthers ==
  ASSUME RInv, RInv', NEW v \in VLine, FillIfMatches(v),
         \A i \in Set : i # Index[v] => (valid'[i] <=> valid[i]),
         ~TagMatches(v) => (valid'[Index[v]] <=> valid[Index[v]]),
         NEW p \in PLine, p # Phys[v], p \in lent' <=> p \in lent
  PROVE  Contents(p)' = Contents(p)
  <1>1. Index[v] \in Set /\ lines[Index[v]].dirty \in BOOLEAN
    BY MappingType DEF RInv, IInv, TypeOK
  <1>2. \A i \in Set : i # Index[v] /\ valid[i] => lines'[i] = lines[i]
    BY FillIfMatchesOthers DEF RInv
  <1>3. CASE TagMatches(v)
    <2>1. mem' = Flushed(Index[v], lines[Index[v]].dirty)
      BY <1>3 DEF FillIfMatches, Fill
    <2>2. mem'[p] = mem[p]
      BY <1>1, <1>3, <2>1, FlushedFacts DEF RInv, IInv, TagMatches
    <2>3. lines'[Index[v]].tag = Phys[v]
      <3>1. TypeOK
        BY DEF RInv, IInv
      <3>2. lines'[Index[v]] = Filled(v, mem')
        BY <1>3, <3>1, FillIfMatchesType
      <3> QED BY <3>2 DEF Filled
    <2> QED BY <1>2, <1>3, <2>2, <2>3, OtherContents DEF TagMatches
  <1>4. CASE ~TagMatches(v)
    <2>1. lines' = lines /\ mem' = mem
      BY <1>4 DEF FillIfMatches
    <2> QED BY <1>2, <1>4, <2>1, OtherContents
  <1> QED BY <1>3, <1>4

(* And it leaves in memory the contents of the line of v. *)
LEMMA MaintainOwn ==
  ASSUME RInv, NEW v \in VLine, FillIfMatches(v), Phys[v] \notin lent
  PROVE  mem'[Phys[v]] = IF TagMatches(v) THEN Contents(Phys[v]) ELSE mem[Phys[v]]
  <1>1. Index[v] \in Set /\ Phys[v] \in PLine /\ lines[Index[v]].dirty \in BOOLEAN
    BY MappingType DEF RInv, IInv, TypeOK
  <1>2. CASE ~TagMatches(v)
    BY <1>2 DEF FillIfMatches
  <1>3. CASE TagMatches(v)
    <2>1. mem' = Flushed(Index[v], lines[Index[v]].dirty)
      BY <1>3 DEF FillIfMatches, Fill
    <2>2. CASE valid[Index[v]]
      <3>1. Contents(Phys[v]) = lines[Index[v]].data
        BY <1>1, <1>3, <2>2 DEF RInv, Located, TagMatches
      <3>2. lines[Index[v]].dirty \/ lines[Index[v]].data = mem[Phys[v]]
        BY <1>1, <1>3, <2>2 DEF RInv, IInv, CleanMatchesMemory, TagMatches
      <3> QED BY <1>1, <1>3, <2>1, <2>2, <3>1, <3>2, FlushedFacts DEF RInv, IInv, TagMatches
    <2>3. CASE ~valid[Index[v]]
      <3>1. \A i \in Set : valid[i] => lines[i].tag # Phys[v]
        BY <2>3, HeldAtHome DEF RInv, IInv
      <3>2. Contents(Phys[v]) = mem[Phys[v]]
        BY <1>1, <3>1 DEF RInv, Located
      <3> QED BY <1>1, <1>3, <2>1, <2>3, <3>2, FlushedFacts DEF RInv, IInv
    <2> QED BY <2>2, <2>3
  <1> QED BY <1>2, <1>3

(* The abstract memory starts as the concrete one. *)
LEMMA InitFlat == Init => Flat!Init
  <1> SUFFICES ASSUME Init PROVE Flat!Init
    OBVIOUS
  <1>1. \A p \in PLine : Contents(p) = mem[p]
    BY DEF Init, Contents, Holders
  <1>2. [p \in PLine |-> Contents(p)] = mem
    BY <1>1 DEF Init
  <1> QED BY <1>2 DEF Init, Flat!Init, Flat!Line, Line

(* Cached accesses are accesses to the abstract memory. *)
LEMMA LoadFlat ==
  ASSUME RInv, RInv', NEW v \in VLine, NEW w \in Word, Load(v, w)
  PROVE  Flat!Load(Phys[v], w)
  <1>1. Found(v) \in CacheLine /\ Found(v).tag = Phys[v] /\ Phys[v] \in PLine
    BY FoundType, MappingType DEF RInv, IInv
  <1>2. Found(v).data = Contents(Phys[v])
    BY FoundContents DEF Load
  <1>3. \A p \in PLine : Contents(p)' = Contents(p)
    BY <1>1, <1>2, TouchContents DEF Load
  <1>4. [p \in PLine |-> Contents(p)]' = [p \in PLine |-> Contents(p)]
    BY <1>3, SameContents
  <1> QED BY <1>1, <1>2, <1>4 DEF Load, Flat!Load

(* A store writes one word of the contents. *)
LEMMA StoreFlat ==
  ASSUME RInv, RInv', NEW v \in VLine, NEW w \in Word, NEW x \in Value, Store(v, w, x)
  PROVE  Flat!Store(Phys[v], w, x)
  <1> DEFINE line == [Found(v) EXCEPT !.data = [@ EXCEPT ![w] = x], !.dirty = TRUE]
  <1>1. Found(v) \in CacheLine /\ Found(v).tag = Phys[v] /\ Phys[v] \in PLine
    BY FoundType, MappingType DEF RInv, IInv
  <1>2. Found(v).data = Contents(Phys[v])
    BY FoundContents DEF Store
  <1>3. /\ line \in CacheLine
        /\ line.tag = Phys[v]
        /\ line.data = [Found(v).data EXCEPT ![w] = x]
    BY <1>1 DEF CacheLine, Line
  <1>4. Touch(v, line) /\ Phys[v] \notin lent /\ lent' = lent
    BY DEF Store
  <1> HIDE DEF line
  <1>5. /\ Contents(Phys[v])' = [Contents(Phys[v]) EXCEPT ![w] = x]
        /\ \A p \in PLine : p # Phys[v] => Contents(p)' = Contents(p)
    BY <1>2, <1>3, <1>4, TouchContents
  <1>6. [p \in PLine |-> Contents(p)]' =
          [[p \in PLine |-> Contents(p)] EXCEPT ![Phys[v]] = [@ EXCEPT ![w] = x]]
    BY <1>1, <1>5
  <1> QED BY <1>6 DEF Store, Flat!Store

(* Accesses past the cache are, too: nothing lent is in the cache. *)
LEMMA LoadUncachedFlat ==
  ASSUME RInv, RInv', NEW p \in PLine, NEW w \in Word, LoadUncached(p, w)
  PROVE  Flat!Load(p, w)
  <1>1. Contents(p) = mem[p]
    BY DEF RInv, Located, LoadUncached
  <1>2. \A q \in PLine : Contents(q)' = Contents(q)
    BY StillContents DEF LoadUncached
  <1>3. [q \in PLine |-> Contents(q)]' = [q \in PLine |-> Contents(q)]
    BY <1>2, SameContents
  <1> QED BY <1>1, <1>3 DEF LoadUncached, Flat!Load

(* So are the stores of the devices, which own the line they write. *)
LEMMA StoreUncachedFlat ==
  ASSUME RInv, RInv', NEW p \in PLine, NEW w \in Word, NEW x \in Value,
         StoreUncached(p, w, x)
  PROVE  Flat!Store(p, w, x)
  <1>1. Contents(p) = mem[p] /\ Contents(p)' = mem'[p]
    BY DEF RInv, Located, StoreUncached
  <1>2. Contents(p)' = [Contents(p) EXCEPT ![w] = x]
    BY <1>1 DEF RInv, IInv, TypeOK, StoreUncached
  <1>3. ASSUME NEW q \in PLine, q # p PROVE Contents(q)' = Contents(q)
    <2>1. mem'[q] = mem[q]
      BY <1>3 DEF RInv, IInv, TypeOK, StoreUncached
    <2>2. CASE q \in lent \/ \A i \in Set : valid[i] => lines[i].tag # q
      BY <2>1, <2>2 DEF RInv, Located, StoreUncached
    <2>3. CASE ~(q \in lent \/ \A i \in Set : valid[i] => lines[i].tag # q)
      BY <2>3 DEF RInv, Located, StoreUncached
    <2> QED BY <2>2, <2>3
  <1>4. [q \in PLine |-> Contents(q)]' =
          [[q \in PLine |-> Contents(q)] EXCEPT ![p] = [@ EXCEPT ![w] = x]]
    BY <1>2, <1>3
  <1> QED BY <1>4 DEF StoreUncached, Flat!Store

(* Hit_Invalidate may lose the line it names, and no other. *)
LEMMA InvalidateFlat ==
  ASSUME RInv, RInv', NEW v \in VLine, HitInvalidate(v)
  PROVE  Flat!Invalidate(Phys[v])
  <1>1. Phys[v] \in PLine
    BY MappingType
  <1>2. Contents(Phys[v])' \in Line
    BY <1>1 DEF RInv, Located
  <1>3. ASSUME NEW p \in PLine, p # Phys[v] PROVE Contents(p)' = Contents(p)
    <2>1. /\ \A i \in Set : i # Index[v] => (valid'[i] <=> valid[i])
          /\ valid'[Index[v]] => valid[Index[v]]
      BY InvalidateFacts DEF HitInvalidate, RInv, IInv
    <2>2. ~TagMatches(v) => valid' = valid
      BY DEF HitInvalidate, Invalidate
    <2> QED BY <1>3, <2>1, <2>2, OtherContents DEF HitInvalidate, TagMatches
  <1>4. [p \in PLine |-> Contents(p)]' =
          [[p \in PLine |-> Contents(p)] EXCEPT ![Phys[v]] = Contents(Phys[v])']
    BY <1>1, <1>3
  <1> QED BY <1>2, <1>4 DEF HitInvalidate, Flat!Invalidate, Flat!Line, Line

(* No other CACHE operation, and no hand-over, can be observed. *)
LEMMA IndexWriteBackInvalidateFlat ==
  ASSUME RInv, RInv', NEW v \in VLine, IndexWriteBackInvalidate(v)
  PROVE  Flat!Maintain
  <1>1. Index[v] \in Set
    BY MappingType
  <1>2. valid' = [valid EXCEPT ![Index[v]] = FALSE] /\ lent' = lent
    BY DEF IndexWriteBackInvalidate
  <1>3. /\ \A i \in Set : i # Index[v] => (valid'[i] <=> valid[i])
        /\ ~valid'[Index[v]]
    BY <1>1, <1>2 DEF RInv, IInv, TypeOK
  <1>4. ASSUME NEW p \in PLine PROVE Contents(p)' = Contents(p)
    <2>1. CASE ~valid[Index[v]]
      <3>1. lines' = lines /\ mem' = mem
        BY <2>1 DEF IndexWriteBackInvalidate
      <3>2. valid' = valid
        BY <1>1, <1>2, <2>1 DEF RInv, IInv, TypeOK
      <3> QED BY <1>2, <3>1, <3>2, StillContents
    <2>2. CASE valid[Index[v]]
      <3>1. Fill(v, TRUE)
        BY <2>2 DEF IndexWriteBackInvalidate
      <3>2. \A i \in Set : i # Index[v] /\ valid[i] => lines'[i] = lines[i]
        BY <3>1, FillOthers DEF RInv
      <3>3. mem'[p] = IF lines[Index[v]].tag = p THEN lines[Index[v]].data ELSE mem[p]
        BY <1>1, <2>2, <3>1, FlushedFacts DEF RInv, IInv, Fill
      <3>4. CASE p # Phys[v]
        BY <1>2, <1>3, <2>2, <3>2, <3>3, <3>4, OtherContents
      <3>5. CASE p = Phys[v]
        <4>1. \A i \in Set : valid'[i] => lines'[i].tag # p
          BY <1>3, <3>2, <3>5, HeldAtHome DEF RInv, IInv
        <4>2. Contents(p)' = mem'[p]
          BY <4>1 DEF RInv, Located
        <4>3. CASE lines[Index[v]].tag = p
          BY <1>1, <2>2, <3>3, <4>2, <4>3 DEF RInv, LentNotHeld, Located
        <4>4. CASE lines[Index[v]].tag # p
          <5>1. \A i \in Set : valid[i] => lines[i].tag # p
            BY <3>5, <4>4, HeldAtHome DEF RInv, IInv
          <5> QED BY <3>3, <4>2, <4>4, <5>1 DEF RInv, Located
        <4> QED BY <4>3, <4>4
      <3> QED BY <3>4, <3>5
    <2> QED BY <2>1, <2>2
  <1>5. [p \in PLine |-> Contents(p)]' = [p \in PLine |-> Contents(p)]
    BY <1>4, SameContents
  <1> QED BY <1>5 DEF IndexWriteBackInvalidate, Flat!Maintain

(* Nor can a write-back that keeps the line, or that drops it. *)
LEMMA HitWriteBackInvalidateFlat ==
  ASSUME RInv, RInv', NEW v \in VLine, HitWriteBackInvalidate(v)
  PROVE  Flat!Maintain
  <1>1. Index[v] \in Set /\ Phys[v] \in PLine
    BY MappingType
  <1>2. FillIfMatches(v) /\ Invalidate(v) /\ Phys[v] \notin lent
    BY DEF HitWriteBackInvalidate
  <1>3. \A p \in PLine : p # Phys[v] => (p \in lent' <=> p \in lent)
    BY DEF HitWriteBackInvalidate
  <1>4. /\ \A i \in Set : i # Index[v] => (valid'[i] <=> valid[i])
        /\ valid'[Index[v]] => ~TagMatches(v)
        /\ ~TagMatches(v) => (valid'[Index[v]] <=> valid[Index[v]])
    BY <1>2, InvalidateFacts DEF RInv, IInv, Invalidate
  <1>5. ASSUME NEW p \in PLine PROVE Contents(p)' = Contents(p)
    <2>1. CASE p # Phys[v]
      BY <1>2, <1>3, <1>4, <2>1, MaintainOthers
    <2>2. CASE p = Phys[v]
      <3>1. \A i \in Set : i # Index[v] /\ valid[i] => lines'[i] = lines[i]
        BY <1>2, FillIfMatchesOthers DEF RInv
      <3>2. \A i \in Set : valid'[i] => lines'[i].tag # p
        <4>1. \A i \in Set : i # Index[v] /\ valid'[i] => lines'[i].tag # p
          BY <1>4, <2>2, <3>1, HeldAtHome DEF RInv, IInv
        <4>2. ~TagMatches(v) => lines' = lines
          BY <1>2 DEF FillIfMatches
        <4> QED BY <1>4, <2>2, <4>1, <4>2 DEF TagMatches
      <3>3. Contents(p)' = mem'[p]
        BY <3>2 DEF RInv, Located
      <3>4. CASE TagMatches(v)
        BY <1>2, <2>2, <3>3, <3>4, MaintainOwn
      <3>5. CASE ~TagMatches(v)
        <4>1. \A i \in Set : valid[i] => lines[i].tag # p
          BY <2>2, <3>5, HeldAtHome DEF RInv, IInv
        <4> QED BY <1>2, <2>2, <3>3, <3>5, <4>1, MaintainOwn DEF RInv, Located
      <3> QED BY <3>4, <3>5
    <2> QED BY <2>1, <2>2
  <1>6. [p \in PLine |-> Contents(p)]' = [p \in PLine |-> Contents(p)]
    BY <1>5, SameContents
  <1> QED BY <1>6 DEF HitWriteBackInvalidate, Flat!Maintain

(* Hit_Write_Back keeps its line, which software then must not hand over. *)
LEMMA HitWriteBackFlat ==
  ASSUME RInv, RInv', "keep" \notin Handover, NEW v \in VLine, HitWriteBack(v)
  PROVE  Flat!Maintain
  <1>1. Index[v] \in Set /\ Phys[v] \in PLine
    BY MappingType
  <1>2. FillIfMatches(v) /\ Phys[v] \notin lent /\ lent' = lent
    BY DEF HitWriteBack
  <1>3. /\ \A i \in Set : i # Index[v] => (valid'[i] <=> valid[i])
        /\ TagMatches(v) => valid'[Index[v]]
        /\ ~TagMatches(v) => valid' = valid
    BY <1>1 DEF RInv, IInv, TypeOK, HitWriteBack
  <1>4. ASSUME NEW p \in PLine PROVE Contents(p)' = Contents(p)
    <2>1. CASE p # Phys[v]
      BY <1>2, <1>3, <2>1, MaintainOthers
    <2>2. CASE p = Phys[v] /\ TagMatches(v)
      <3>1. lines'[Index[v]].tag = Phys[v] /\ lines'[Index[v]].data = mem'[Phys[v]]
        <4>1. TypeOK
          BY DEF RInv, IInv
        <4>2. lines'[Index[v]] = Filled(v, mem')
          BY <1>2, <2>2, <4>1, FillIfMatchesType
        <4> QED BY <4>2 DEF Filled
      <3>2. Contents(p)' = lines'[Index[v]].data
        BY <1>1, <1>2, <1>3, <2>2, <3>1 DEF RInv, Located
      <3> QED BY <1>2, <2>2, <3>1, <3>2, MaintainOwn
    <2>3. CASE ~TagMatches(v)
      <3>1. lines' = lines /\ mem' = mem /\ valid' = valid
        BY <1>2, <1>3, <2>3 DEF FillIfMatches
      <3> QED BY <1>2, <3>1, StillContents
    <2> QED BY <2>1, <2>2, <2>3
  <1>5. [p \in PLine |-> Contents(p)]' = [p \in PLine |-> Contents(p)]
    BY <1>4, SameContents
  <1> QED BY <1>5 DEF HitWriteBack, Flat!Maintain

(* A line that is taken back is where the devices left it. *)
LEMMA TakeBackFlat ==
  ASSUME RInv, RInv', NEW v \in VLine, TakeBack(v)
  PROVE  Flat!Maintain
  <1>1. Phys[v] \in PLine
    BY MappingType
  <1>2. /\ \A i \in Set : i # Index[v] => (valid'[i] <=> valid[i])
        /\ valid'[Index[v]] => valid[Index[v]]
        /\ ~TagMatches(v) => valid' = valid
    BY InvalidateFacts DEF TakeBack, Invalidate, RInv, IInv
  <1>3. ASSUME NEW p \in PLine PROVE Contents(p)' = Contents(p)
    <2>1. CASE p # Phys[v]
      BY <1>2, <2>1, OtherContents DEF TakeBack, TagMatches
    <2>2. CASE p = Phys[v]
      <3>1. Contents(p) = mem[p]
        BY <2>2 DEF RInv, Located, TakeBack
      <3>2. \A i \in Set : valid'[i] => lines'[i].tag # p
        BY <1>2, <2>2 DEF RInv, LentNotHeld, TakeBack
      <3>3. Contents(p)' = mem'[p]
        BY <3>2 DEF RInv, Located
      <3> QED BY <3>1, <3>3 DEF TakeBack
    <2> QED BY <2>1, <2>2
  <1>4. [p \in PLine |-> Contents(p)]' = [p \in PLine |-> Contents(p)]
    BY <1>3, SameContents
  <1> QED BY <1>4 DEF TakeBack, Flat!Maintain

(* Lines that are handed over stay out of the cache. *)
LEMMA NextLentNotHeld ==
  ASSUME "keep" \notin Handover, IInv, LentNotHeld, [Next]_vars
  PROVE  LentNotHeld'
  <1>1. ASSUME NEW v \in VLine, NEW line, line.tag = Phys[v],
               Phys[v] \notin lent, Touch(v, line), lent' = lent
        PROVE  LentNotHeld'
    BY <1>1, MappingType DEF IInv, TypeOK, Touch, LentNotHeld
  <1>2. ASSUME NEW v \in VLine, NEW w \in Word, Load(v, w) PROVE LentNotHeld'
    BY <1>1, <1>2, FoundType DEF IInv, Load
  <1>3. ASSUME NEW v \in VLine, NEW w \in Word, NEW x \in Value, Store(v, w, x)
        PROVE  LentNotHeld'
    <2>1. [Found(v) EXCEPT !.data = [@ EXCEPT ![w] = x], !.dirty = TRUE].tag = Phys[v]
      BY FoundType DEF IInv, CacheLine
    <2> QED BY <1>1, <1>3, <2>1 DEF Store
  <1>4. ASSUME NEW v \in VLine, IndexWriteBackInvalidate(v) PROVE LentNotHeld'
    <2>1. lines' = lines \/ Fill(v, TRUE)
      BY <1>4 DEF IndexWriteBackInvalidate
    <2>2. \A i \in Set : i # Index[v] /\ valid[i] => lines'[i] = lines[i]
      BY <2>1, FillOthers
    <2> QED BY <1>4, <2>2, MappingType
        DEF IndexWriteBackInvalidate, IInv, TypeOK, LentNotHeld
  <1>5. ASSUME NEW v \in VLine, HitInvalidate(v) PROVE LentNotHeld'
    BY <1>5, InvalidateFacts DEF HitInvalidate, IInv, LentNotHeld
  <1>6. ASSUME NEW v \in VLine, HitWriteBackInvalidate(v) PROVE LentNotHeld'
    <2>1. Invalidate(v) /\ FillIfMatches(v) /\ lent' \subseteq lent \cup {Phys[v]}
      BY <1>6 DEF HitWriteBackInvalidate
    <2>2. \A i \in Set : i # Index[v] /\ valid[i] => lines'[i] = lines[i]
      BY <2>1, FillIfMatchesOthers
    <2>3. ~TagMatches(v) => lines' = lines
      BY <2>1 DEF FillIfMatches
    <2>4. /\ \A i \in Set : i # Index[v] => (valid'[i] <=> valid[i])
          /\ valid'[Index[v]] => valid[Index[v]] /\ ~TagMatches(v)
      BY <2>1, InvalidateFacts DEF IInv
    <2>5. \A i \in Set : valid'[i] =>
            valid[i] /\ lines'[i] = lines[i] /\ lines[i].tag # Phys[v]
      BY <2>2, <2>3, <2>4, HeldAtHome DEF IInv, TagMatches
    <2> QED BY <2>1, <2>5 DEF LentNotHeld
  <1>7. ASSUME NEW v \in VLine, HitWriteBack(v) PROVE LentNotHeld'
    <2>1. FillIfMatches(v) /\ lent' = lent /\ Phys[v] \notin lent /\ Index[v] \in Set
      BY <1>7, MappingType DEF HitWriteBack
    <2>2. \A i \in Set : i # Index[v] /\ valid[i] => lines'[i] = lines[i]
      BY <2>1, FillIfMatchesOthers
    <2>3. CASE TagMatches(v)
      <3>1. TypeOK
        BY DEF IInv
      <3>2. lines'[Index[v]] = Filled(v, mem')
        BY <2>1, <2>3, <3>1, FillIfMatchesType
      <3>3. \A i \in Set : i # Index[v] => (valid'[i] <=> valid[i])
        BY <1>7, <2>3, <3>1 DEF HitWriteBack, TypeOK
      <3> QED BY <2>1, <2>2, <3>2, <3>3 DEF LentNotHeld, Filled
    <2>4. CASE ~TagMatches(v)
      BY <1>7, <2>1, <2>4 DEF HitWriteBack, FillIfMatches, LentNotHeld
    <2> QED BY <2>3, <2>4
  <1>8. ASSUME NEW v \in VLine, TakeBack(v) PROVE LentNotHeld'
    BY <1>8, InvalidateFacts DEF TakeBack, IInv, LentNotHeld
  <1>9. ASSUME NEW p \in PLine, NEW w \in Word, LoadUncached(p, w) PROVE LentNotHeld'
    BY <1>9 DEF LoadUncached, LentNotHeld
  <1>10. ASSUME NEW p \in PLine, NEW w \in Word, NEW x \in Value, StoreUncached(p, w, x)
         PROVE  LentNotHeld'
    BY <1>10 DEF StoreUncached, LentNotHeld
  <1>11. CASE UNCHANGED vars
    BY <1>11 DEF vars, LentNotHeld
  <1> QED BY <1>2, <1>3, <1>4, <1>5, <1>6, <1>7, <1>8, <1>9, <1>10, <1>11 DEF Next

(* Every step of the cache is a step of the abstract memory, or a stutter. *)
LEMMA NextFlat ==
  ASSUME "keep" \notin Handover, RInv, RInv', [Next]_vars
  PROVE  [Flat!Next]_(Flat!vars)
  <1>1. ASSUME NEW v \in VLine, NEW w \in Word, Load(v, w) PROVE Flat!Next
    BY <1>1, LoadFlat, MappingType DEF Flat!Next
  <1>2. ASSUME NEW v \in VLine, NEW w \in Word, NEW x \in Value, Store(v, w, x)
        PROVE  Flat!Next
    BY <1>2, StoreFlat, MappingType DEF Flat!Next
  <1>3. ASSUME NEW v \in VLine, IndexWriteBackInvalidate(v) PROVE Flat!Next
    BY <1>3, IndexWriteBackInvalidateFlat DEF Flat!Next
  <1>4. ASSUME NEW v \in VLine, HitInvalidate(v) PROVE Flat!Next
    BY <1>4, InvalidateFlat, MappingType DEF Flat!Next
  <1>5. ASSUME NEW v \in VLine, HitWriteBackInvalidate(v) PROVE Flat!Next
    BY <1>5, HitWriteBackInvalidateFlat DEF Flat!Next
  <1>6. ASSUME NEW v \in VLine, HitWriteBack(v) PROVE Flat!Next
    BY <1>6, HitWriteBackFlat DEF Flat!Next
  <1>7. ASSUME NEW v \in VLine, TakeBack(v) PROVE Flat!Next
    BY <1>7, TakeBackFlat DEF Flat!Next
  <1>8. ASSUME NEW p \in PLine, NEW w \in Word, LoadUncached(p, w) PROVE Flat!Next
    BY <1>8, LoadUncachedFlat DEF Flat!Next
  <1>9. ASSUME NEW p \in PLine, NEW w \in Word, NEW x \in Value, StoreUncached(p, w, x)
        PROVE  Flat!Next
    BY <1>9, StoreUncachedFlat DEF Flat!Next
  <1>10. CASE UNCHANGED vars
    <2>1. \A p \in PLine : Contents(p)' = Contents(p)
      BY <1>10, StillContents DEF vars
    <2>2. [p \in PLine |-> Contents(p)]' = [p \in PLine |-> Contents(p)]
      BY <2>1, SameContents
    <2> QED BY <1>10, <2>2 DEF vars, Flat!vars
  <1> QED BY <1>1, <1>2, <1>3, <1>4, <1>5, <1>6, <1>7, <1>8, <1>9, <1>10 DEF Next

LEMMA SpecRInv ==
  ASSUME "keep" \notin Handover
  PROVE  Spec => []RInv
  <1>1. Init => RInv
    BY InitIInv, ContentsLocated DEF RInv, Init, LentNotHeld
  <1>2. RInv /\ [Next]_vars => RInv'
    <2>1. IInv /\ [Next]_vars => IInv'
      BY NextIInv
    <2>2. IInv' => Located'
      BY ContentsLocated, PTL
    <2>3. IInv /\ LentNotHeld /\ [Next]_vars => LentNotHeld'
      BY NextLentNotHeld
    <2> QED BY <2>1, <2>2, <2>3 DEF RInv
  <1> QED BY <1>1, <1>2, PTL DEF Spec

(* The cache implements one memory for processor and devices, provided     *)
(* software keeps no copy of a line it hands over: VR4300DCacheFill, the   *)
(* memory functions and the CACHE operations together never lose a store,  *)
(* return an old value, or write a stale line over memory.                 *)
THEOREM CacheIsFlat ==
  ASSUME "keep" \notin Handover
  PROVE  Spec => FlatSpec
  <1>1. RInv /\ RInv' /\ [Next]_vars => [Flat!Next]_(Flat!vars)
    BY NextFlat
  <1> QED BY <1>1, SpecRInv, InitFlat, PTL DEF Spec, FlatSpec, Flat!Spec

-----------------------------------------------------------------------------
(* No copy of the line is newer than memory. *)
Clean(p) == \A i \in Set : valid[i] /\ lines[i].tag = p => ~lines[i].dirty

(* A write-back of any line leaves a clean one as it is. *)
LEMMA FlushedKeeps ==
  ASSUME RInv, NEW p \in PLine, Clean(p), NEW i \in Set, NEW d \in BOOLEAN
  PROVE  Flushed(i, d)[p] = mem[p]
<1>1. CASE valid[i] /\ lines[i].tag = p
  <2>1. lines[i].data = mem[p]
    BY <1>1 DEF RInv, IInv, LentNotHeld, Clean, CleanMatchesMemory
  <2> QED
    BY <1>1, <2>1, FlushedFacts DEF RInv, IInv
<1>2. CASE ~(valid[i] /\ lines[i].tag = p)
  BY <1>2, FlushedFacts DEF RInv, IInv
<1> QED
  BY <1>1, <1>2

(* No step but a device's store changes a clean line in memory. *)
LEMMA NextKeeps ==
  ASSUME RInv, NEW p \in PLine, Clean(p), Next, mem'[p] # mem[p]
  PROVE  \E w \in Word, x \in Value : StoreUncached(p, w, x)
<1> USE DEF RInv, IInv
<1>1. ASSUME NEW v \in VLine, mem' = mem \/ \E d \in BOOLEAN : mem' = Flushed(Index[v], d)
      PROVE  FALSE
  BY <1>1, FlushedKeeps, MappingType
<1>2. ASSUME NEW v \in VLine PROVE lines[Index[v]].dirty \in BOOLEAN
  BY MappingType DEF TypeOK
<1>3. ASSUME NEW v \in VLine, NEW line, Touch(v, line) PROVE FALSE
  BY <1>1, <1>2, <1>3 DEF Touch, AfterMiss
<1>4. ASSUME NEW v \in VLine, NEW w \in Word, Load(v, w) PROVE FALSE
  BY <1>3, <1>4 DEF Load
<1>5. ASSUME NEW v \in VLine, NEW w \in Word, NEW x \in Value, Store(v, w, x) PROVE FALSE
  BY <1>3, <1>5 DEF Store
<1>6. ASSUME NEW v \in VLine, IndexWriteBackInvalidate(v) PROVE FALSE
  BY <1>1, <1>6 DEF IndexWriteBackInvalidate, Fill
<1>7. ASSUME NEW v \in VLine, HitWriteBackInvalidate(v) \/ HitWriteBack(v) PROVE FALSE
  BY <1>1, <1>2, <1>7 DEF HitWriteBackInvalidate, HitWriteBack, FillIfMatches, Fill
<1>8. ASSUME NEW v \in VLine, HitInvalidate(v) \/ TakeBack(v) PROVE FALSE
  BY <1>8 DEF HitInvalidate, TakeBack
<1>9. ASSUME NEW q \in PLine, NEW w \in Word, LoadUncached(q, w) PROVE FALSE
  BY <1>9 DEF LoadUncached
<1>10. ASSUME NEW q \in PLine, NEW w \in Word, NEW x \in Value, StoreUncached(q, w, x)
       PROVE  q = p
  BY <1>10 DEF StoreUncached, TypeOK
<1> QED
  BY <1>4, <1>5, <1>6, <1>7, <1>8, <1>9, <1>10 DEF Next

(* VR4300DCacheFill and the CACHE operations write over memory only what a *)
(* store left in the cache: a line that is valid and dirty, whatever stale *)
(* tags and flags the other sets hold.                                     *)
THEOREM WriteBacksAreDirty ==
  ASSUME "keep" \notin Handover
  PROVE  Spec => OnlyDirtyWrittenBack
<1>1. RInv /\ [Next]_vars =>
        [\A p \in PLine : mem'[p] # mem[p] =>
           \/ \E i \in Holders(p) : lines[i].dirty
           \/ \E w \in Word, x \in Value : StoreUncached(p, w, x)]_vars
  BY NextKeeps DEF Clean, Holders
<1> QED
  BY <1>1, SpecRInv, PTL DEF Spec, OnlyDirtyWrittenBack

-----------------------------------------------------------------------------
(* Both caches. *)

(* A line that is fetched without a miss is the one in memory. *)
Fetched(c) == ICacheProbe(c) => \A h \in Half : ilines[SlotOf[c]].data[h] = mem[c[h]]

ITypeOK ==
  /\ ilines \in [Slot -> [tag : Page, data : [Half -> Line]]]
  /\ ivalid \in [Slot -> BOOLEAN]
  /\ tagLo \in TagLo
  /\ ready \subseteq CLine

CodeGood == \A c \in ready : (\A h \in Half : Clean(c[h])) /\ Fetched(c)

CInv == RInv /\ ITypeOK /\ CodeGood

-----------------------------------------------------------------------------
LEMMA CodeType ==
  ASSUME NEW c \in CLine
  PROVE  /\ SlotOf[c] \in Slot /\ PageOf[c] \in Page
         /\ \A h \in Half : c[h] \in PLine
BY CodeAssumption

LEMMA CleanIsWrittenBack ==
  ASSUME NEW c \in CLine
  PROVE  WrittenBack(c) <=> \A h \in Half : Clean(c[h])
BY DEF WrittenBack, Clean, Holders

(* What a clean line holds is what memory holds. *)
LEMMA CleanContents ==
  ASSUME RInv, NEW p \in PLine, Clean(p)
  PROVE  Contents(p) = mem[p]
<1>1. CASE p \in lent \/ (\A i \in Set : valid[i] => lines[i].tag # p)
  BY <1>1 DEF RInv, Located
<1>2. ASSUME NEW i \in Set, valid[i], lines[i].tag = p, p \notin lent
      PROVE  Contents(p) = mem[p]
  BY <1>2 DEF RInv, IInv, Located, Clean, CleanMatchesMemory
<1> QED
  BY <1>1, <1>2

(* A fill leaves a clean line as it is in memory, and its own set clean. *)
LEMMA FillKeeps ==
  ASSUME RInv, NEW p \in PLine, Clean(p), NEW v \in VLine, NEW d \in BOOLEAN, Fill(v, d)
  PROVE  /\ mem'[p] = mem[p]
         /\ \A i \in Set : IF i = Index[v] THEN ~lines'[i].dirty ELSE lines'[i] = lines[i]
<1>1. Index[v] \in Set /\ lines \in [Set -> CacheLine]
  BY MappingType DEF RInv, IInv, TypeOK, CacheLine
<1>2. mem'[p] = mem[p]
  BY <1>1, FlushedKeeps DEF Fill
<1>3. \A i \in Set : IF i = Index[v] THEN ~lines'[i].dirty ELSE lines'[i] = lines[i]
  BY <1>1 DEF Fill, Filled
<1> QED
  BY <1>2, <1>3

LEMMA TouchKeeps ==
  ASSUME RInv, NEW p \in PLine, Clean(p), NEW v \in VLine, NEW line, Touch(v, line),
         line.tag = p => ~line.dirty
  PROVE  mem'[p] = mem[p] /\ Clean(p)'
<1>1. Index[v] \in Set /\ lines[Index[v]].dirty \in BOOLEAN
  BY MappingType DEF RInv, IInv, TypeOK
<1>2. mem'[p] = mem[p]
  BY <1>1, FlushedKeeps DEF Touch, AfterMiss
<1>3. ASSUME NEW i \in Set, valid'[i], lines'[i].tag = p
      PROVE  ~lines'[i].dirty
  <2>1. CASE i = Index[v]
    BY <1>1, <1>3, <2>1 DEF Touch, RInv, IInv, TypeOK
  <2>2. CASE i # Index[v]
    BY <1>1, <1>3, <2>2 DEF Touch, RInv, IInv, TypeOK, Clean
  <2> QED
    BY <2>1, <2>2
<1> QED
  BY <1>2, <1>3 DEF Clean

(* No step but a store of its own changes a clean line in memory, or dirties it. *)
LEMMA StepKeeps ==
  ASSUME RInv, NEW p \in PLine, Clean(p), Next, ~Stored(p)
  PROVE  mem'[p] = mem[p] /\ Clean(p)'
<1> USE DEF RInv, IInv
<1>1. ASSUME NEW v \in VLine, NEW w \in Word, Load(v, w)
      PROVE  mem'[p] = mem[p] /\ Clean(p)'
  <2>1. Found(v).tag = p => ~Found(v).dirty
    BY MappingType DEF Found, Probe, Filled, Clean
  <2> QED
    BY <1>1, <2>1, TouchKeeps DEF Load
<1>2. ASSUME NEW v \in VLine, NEW w \in Word, NEW x \in Value, Store(v, w, x)
      PROVE  mem'[p] = mem[p] /\ Clean(p)'
  <2>1. Phys[v] # p
    BY <1>2 DEF Stored
  <2> DEFINE line == [Found(v) EXCEPT !.data = [@ EXCEPT ![w] = x], !.dirty = TRUE]
  <2>2. line.tag = Phys[v]
    BY FoundType DEF CacheLine
  <2>3. Touch(v, line)
    BY <1>2 DEF Store
  <2> HIDE DEF line
  <2> QED
    BY <2>1, <2>2, <2>3, TouchKeeps
<1>3. ASSUME NEW v \in VLine, NEW d \in BOOLEAN, Fill(v, d),
             \A i \in Set : valid'[i] => valid[i] \/ i = Index[v]
      PROVE  mem'[p] = mem[p] /\ Clean(p)'
  BY <1>3, FillKeeps DEF Clean
<1>4. ASSUME UNCHANGED <<lines, mem>>, \A i \in Set : valid'[i] => valid[i]
      PROVE  mem'[p] = mem[p] /\ Clean(p)'
  BY <1>4 DEF Clean
<1>5. ASSUME NEW v \in VLine, IndexWriteBackInvalidate(v)
      PROVE  mem'[p] = mem[p] /\ Clean(p)'
  <2>1. \A i \in Set : valid'[i] => valid[i]
    BY <1>5, MappingType DEF IndexWriteBackInvalidate, TypeOK
  <2> QED
    BY <1>3, <1>4, <1>5, <2>1 DEF IndexWriteBackInvalidate
<1>6. ASSUME NEW v \in VLine, Invalidate(v)
      PROVE  \A i \in Set : valid'[i] => valid[i]
  BY <1>6, InvalidateFacts, MappingType
<1>7. ASSUME NEW v \in VLine, HitWriteBackInvalidate(v)
      PROVE  mem'[p] = mem[p] /\ Clean(p)'
  <2>1. lines[Index[v]].dirty \in BOOLEAN
    BY MappingType DEF TypeOK
  <2> QED
    BY <1>3, <1>4, <1>6, <1>7, <2>1 DEF HitWriteBackInvalidate, FillIfMatches
<1>8. ASSUME NEW v \in VLine, HitWriteBack(v)
      PROVE  mem'[p] = mem[p] /\ Clean(p)'
  <2>1. lines[Index[v]].dirty \in BOOLEAN
    BY MappingType DEF TypeOK
  <2>2. CASE TagMatches(v)
    <3>1. \A i \in Set : valid'[i] => valid[i] \/ i = Index[v]
      BY <1>8, <2>2, MappingType DEF HitWriteBack, TypeOK
    <3> QED
      BY <1>3, <1>8, <2>1, <2>2, <3>1 DEF HitWriteBack, FillIfMatches
  <2>3. CASE ~TagMatches(v)
    BY <1>4, <1>8, <2>3 DEF HitWriteBack, FillIfMatches
  <2> QED
    BY <2>2, <2>3
<1>9. ASSUME NEW v \in VLine, HitInvalidate(v) \/ TakeBack(v)
      PROVE  mem'[p] = mem[p] /\ Clean(p)'
  BY <1>4, <1>6, <1>9 DEF HitInvalidate, TakeBack
<1>10. ASSUME NEW q \in PLine, NEW w \in Word, LoadUncached(q, w)
       PROVE  mem'[p] = mem[p] /\ Clean(p)'
  BY <1>10 DEF LoadUncached, Clean
<1>11. ASSUME NEW q \in PLine, NEW w \in Word, NEW x \in Value, StoreUncached(q, w, x)
       PROVE  mem'[p] = mem[p] /\ Clean(p)'
  <2>1. q # p
    BY <1>11 DEF Stored
  <2>2. mem'[p] = mem[p]
    BY <1>11, <2>1 DEF StoreUncached, TypeOK
  <2> QED
    BY <1>11, <2>2 DEF StoreUncached, Clean
<1> QED
  BY <1>1, <1>2, <1>5, <1>7, <1>8, <1>9, <1>10, <1>11 DEF Next, HitInvalidate

-----------------------------------------------------------------------------
(* The steps of the data cache. *)
LEMMA DataStepGood ==
  ASSUME CInv, RInv', DataStep
  PROVE  ITypeOK' /\ CodeGood'
<1>1. ITypeOK' /\ ready' \subseteq ready /\ UNCHANGED <<ilines, ivalid>>
  BY DEF CInv, ITypeOK, DataStep, ivars
<1>2. ASSUME NEW c \in ready'
      PROVE  (\A h \in Half : Clean(c[h])') /\ Fetched(c)'
  <2>1. c \in ready /\ c \in CLine /\ \A h \in Half : ~Stored(c[h])
    BY <1>1 DEF DataStep, CInv, ITypeOK
  <2>2. \A h \in Half : mem'[c[h]] = mem[c[h]] /\ Clean(c[h])'
    BY <2>1, CodeType, StepKeeps DEF DataStep, CInv, CodeGood
  <2>3. Fetched(c)'
    BY <1>1, <2>1, <2>2 DEF Fetched, ICacheProbe, CInv, CodeGood
  <2> QED
    BY <2>2, <2>3
<1> QED
  BY <1>1, <1>2 DEF CodeGood

-----------------------------------------------------------------------------
(* The steps of the instruction cache. *)

(* A set that loses lines at most, and lines that become ready when they   *)
(* are not in it.                                                          *)
LEMMA InvalidateGood ==
  ASSUME CInv, UNCHANGED vars, ilines' = ilines, tagLo' \in TagLo,
         ivalid' \in [Slot -> BOOLEAN], \A s \in Slot : ivalid'[s] => ivalid[s],
         ready' \subseteq CLine,
         \A c \in ready' : c \in ready \/ (WrittenBack(c) /\ ~ICacheProbe(c)')
  PROVE  ITypeOK' /\ CodeGood'
<1>1. ITypeOK'
  BY DEF CInv, ITypeOK
<1>2. ASSUME NEW c \in ready'
      PROVE  (\A h \in Half : Clean(c[h])') /\ Fetched(c)'
  <2>1. \A h \in Half : Clean(c[h])' <=> Clean(c[h])
    BY DEF Clean, vars
  <2>2. \A h \in Half : Clean(c[h])
    BY <1>2, CleanIsWrittenBack DEF CInv, CodeGood
  <2>3. ICacheProbe(c)' => c \in ready /\ ICacheProbe(c)
    BY <1>2, CodeType DEF ICacheProbe, CInv, ITypeOK
  <2>4. Fetched(c)'
    BY <2>3 DEF Fetched, CInv, CodeGood, vars
  <2> QED
    BY <2>1, <2>2, <2>4
<1> QED
  BY <1>1, <1>2 DEF CodeGood

LEMMA FillGood ==
  ASSUME CInv, UNCHANGED <<vars, tagLo, ready>>, NEW c \in CLine, ICacheFill(c)
  PROVE  ITypeOK' /\ CodeGood'
<1>1. SlotOf[c] \in Slot /\ PageOf[c] \in Page /\ [h \in Half |-> mem[c[h]]] \in [Half -> Line]
  BY CodeType DEF CInv, RInv, IInv, TypeOK
<1>2. ITypeOK'
  BY <1>1 DEF CInv, ITypeOK, ICacheFill
<1>3. ASSUME NEW d \in ready'
      PROVE  (\A h \in Half : Clean(d[h])') /\ Fetched(d)'
  <2>1. d \in ready /\ d \in CLine
    BY <1>3 DEF CInv, ITypeOK
  <2>2. \A h \in Half : Clean(d[h])'
    BY <2>1 DEF Clean, vars, CInv, CodeGood
  <2>3. CASE SlotOf[d] # SlotOf[c]
    <3>1. Fetched(d) /\ mem' = mem
      BY <2>1 DEF CInv, CodeGood, vars
    <3>2. /\ ivalid'[SlotOf[d]] = ivalid[SlotOf[d]]
          /\ ilines'[SlotOf[d]] = ilines[SlotOf[d]]
      BY <1>1, <2>1, <2>3, CodeType DEF ICacheFill, CInv, ITypeOK
    <3> QED
      BY <2>2, <3>1, <3>2 DEF Fetched, ICacheProbe
  <2>4. CASE SlotOf[d] = SlotOf[c]
    <3>1. ilines'[SlotOf[d]] = [tag |-> PageOf[c], data |-> [h \in Half |-> mem[c[h]]]]
      BY <1>1, <2>4 DEF ICacheFill, CInv, ITypeOK
    <3>2. ICacheProbe(d)' => d = c
      BY <2>1, <2>4, <3>1, DistinctAssumption DEF ICacheProbe
    <3>3. ASSUME ICacheProbe(d)', NEW h \in Half
          PROVE  (ilines[SlotOf[d]].data[h])' = (mem[d[h]])'
      <4>1. d = c /\ mem' = mem
        BY <3>2, <3>3 DEF vars
      <4> QED
        BY <3>1, <4>1
    <3>4. Fetched(d)'
      BY <3>3 DEF Fetched
    <3> QED
      BY <2>2, <3>4
  <2> QED
    BY <2>2, <2>3, <2>4
<1> QED
  BY <1>2, <1>3 DEF CodeGood

LEMMA StoreTagGood ==
  ASSUME CInv, UNCHANGED vars, NEW s \in Slot, IndexStoreTag(s)
  PROVE  ITypeOK' /\ CodeGood'
<1>1. tagLo \in TagLo /\ tagLo' = tagLo /\ tagLo.pState \in 0..3 /\ tagLo.pTagLo \in Page
  BY DEF CInv, ITypeOK, IndexStoreTag, TagLo
<1>2. ITypeOK'
  BY <1>1 DEF CInv, ITypeOK, IndexStoreTag, AfterStoreTag, Renewed
<1>3. /\ ivalid'[s] = (tagLo.pState \div 2 = 1)
      /\ ilines'[s] = [tag |-> tagLo.pTagLo, data |-> ilines[s].data]
      /\ \A t \in Slot : t # s => ivalid'[t] = ivalid[t] /\ ilines'[t] = ilines[t]
  BY DEF IndexStoreTag, CInv, ITypeOK
<1>4. ASSUME NEW c \in ready'
      PROVE  (\A h \in Half : Clean(c[h])') /\ Fetched(c)'
  <2>1. c \in CLine /\ (c \in ready \/ (SlotOf[c] = s /\ WrittenBack(c)))
    BY <1>4 DEF IndexStoreTag, AfterStoreTag, Renewed, CInv, ITypeOK
  <2>2. \A h \in Half : Clean(c[h])'
    <3>1. \A h \in Half : Clean(c[h])
      BY <2>1, CleanIsWrittenBack DEF CInv, CodeGood
    <3> QED
      BY <3>1 DEF Clean, vars
  <2>3. CASE SlotOf[c] # s
    <3>1. c \in ready /\ Fetched(c)
      BY <2>1, <2>3 DEF CInv, CodeGood
    <3>2. /\ ivalid'[SlotOf[c]] = ivalid[SlotOf[c]]
          /\ ilines'[SlotOf[c]] = ilines[SlotOf[c]] /\ mem' = mem
      BY <1>3, <2>1, <2>3, CodeType DEF vars
    <3> QED
      BY <2>2, <3>1, <3>2 DEF Fetched, ICacheProbe
  <2>4. CASE SlotOf[c] = s /\ tagLo.pState < 2
    <3>1. ~ivalid'[s]
      <4>1. tagLo.pState \in {0, 1}
        BY <1>1, <2>4
      <4>2. \A n \in {0, 1} : n \div 2 # 1
        BY SMT
      <4> QED
        BY <1>3, <4>1, <4>2
    <3> QED
      BY <2>2, <2>4, <3>1 DEF Fetched, ICacheProbe
  <2>5. CASE SlotOf[c] = s /\ ~(tagLo.pState < 2)
    <3>1. c \in ready /\ ivalid[s] /\ ilines[s].tag = tagLo.pTagLo
      BY <1>4, <2>5 DEF IndexStoreTag, AfterStoreTag
    <3>2. ICacheProbe(c)' => ICacheProbe(c)
      BY <1>3, <2>5, <3>1 DEF ICacheProbe
    <3> QED
      BY <1>3, <2>2, <2>5, <3>1, <3>2 DEF Fetched, vars, CInv, CodeGood
  <2> QED
    BY <2>2, <2>3, <2>4, <2>5
<1> QED
  BY <1>2, <1>4 DEF CodeGood

LEMMA CodeStepGood ==
  ASSUME CInv, CodeStep, UNCHANGED vars
  PROVE  ITypeOK' /\ CodeGood'
<1>1. ASSUME NEW c \in CLine, Fetch(c) \/ FillOp(c)
      PROVE  ITypeOK' /\ CodeGood'
  BY <1>1, FillGood DEF Fetch, FillOp
<1>2. ASSUME NEW c \in CLine, IHitInvalidate(c)
      PROVE  ITypeOK' /\ CodeGood'
  <2>1. /\ ivalid' \in [Slot -> BOOLEAN] /\ \A s \in Slot : ivalid'[s] => ivalid[s]
        /\ ~ICacheProbe(c)'
    BY <1>2, CodeType DEF IHitInvalidate, ICacheProbe, CInv, ITypeOK
  <2>2. \A d \in ready' : d \in CLine /\ (d \in ready \/ (d = c /\ WrittenBack(c)))
    BY <1>2 DEF IHitInvalidate, Renewed, CInv, ITypeOK
  <2> QED
    BY <1>2, <2>1, <2>2, InvalidateGood DEF IHitInvalidate, CInv, ITypeOK
<1>3. ASSUME NEW s \in Slot, IndexInvalidate(s)
      PROVE  ITypeOK' /\ CodeGood'
  <2>1. /\ ivalid' \in [Slot -> BOOLEAN] /\ \A t \in Slot : ivalid'[t] => ivalid[t]
        /\ ~ivalid'[s]
    BY <1>3 DEF IndexInvalidate, CInv, ITypeOK
  <2>2. \A d \in ready' : d \in CLine /\ (d \in ready \/ (SlotOf[d] = s /\ WrittenBack(d)))
    BY <1>3 DEF IndexInvalidate, Renewed, CInv, ITypeOK
  <2>3. \A d \in CLine : SlotOf[d] = s => ~ICacheProbe(d)'
    BY <2>1 DEF ICacheProbe
  <2> QED
    BY <1>3, <2>1, <2>2, <2>3, InvalidateGood DEF IndexInvalidate, CInv, ITypeOK
<1>4. ASSUME tagLo' \in TagLo, UNCHANGED <<ilines, ivalid, ready>>
      PROVE  ITypeOK' /\ CodeGood'
  BY <1>4, InvalidateGood DEF CInv, ITypeOK
<1>5. ASSUME NEW s \in Slot, IndexLoadTag(s)
      PROVE  ITypeOK' /\ CodeGood'
  <2>1. tagLo' \in TagLo
    BY <1>5 DEF IndexLoadTag, TagLo, CInv, ITypeOK
  <2> QED
    BY <1>4, <1>5, <2>1 DEF IndexLoadTag
<1>6. ASSUME NEW tag \in TagWrites, MTC0TagLo(tag)
      PROVE  ITypeOK' /\ CodeGood'
  BY <1>4, <1>6, TagAssumption DEF MTC0TagLo
<1>7. ASSUME NEW s \in Slot, IndexStoreTag(s)
      PROVE  ITypeOK' /\ CodeGood'
  BY <1>7, StoreTagGood
<1> QED
  BY <1>1, <1>2, <1>3, <1>5, <1>6, <1>7 DEF CodeStep

-----------------------------------------------------------------------------
LEMMA InitCode == CachesInit => ITypeOK /\ CodeGood
BY CodeAssumption, ZeroAssumption
   DEF CachesInit, Init, ITypeOK, TagLo, Line, CodeGood, Clean, Fetched, ICacheProbe

LEMMA NextCode ==
  ASSUME CInv, RInv', [CachesNext]_<<vars, ivars, ready>>
  PROVE  ITypeOK' /\ CodeGood'
<1>1. CASE CodeStep /\ UNCHANGED vars
  BY <1>1, CodeStepGood
<1>2. CASE DataStep
  BY <1>2, DataStepGood
<1>3. CASE UNCHANGED <<vars, ivars, ready>>
  BY <1>3 DEF vars, ivars, CInv, ITypeOK, CodeGood, Clean, Fetched, ICacheProbe
<1> QED
  BY <1>1, <1>2, <1>3 DEF CachesNext

LEMMA CodeGoodIsCurrent == CInv => CodeIsCurrent
<1> SUFFICES ASSUME CInv, NEW c \in ready, ICacheProbe(c), NEW h \in Half
             PROVE  ilines[SlotOf[c]].data[h] = Contents(c[h])
  BY DEF CodeIsCurrent
<1>1. c[h] \in PLine /\ Clean(c[h]) /\ ilines[SlotOf[c]].data[h] = mem[c[h]]
  BY CodeType DEF CInv, ITypeOK, CodeGood, Fetched
<1> QED
  BY <1>1, CleanContents DEF CInv

(* Beside the instruction cache, the data cache behaves as by itself, and  *)
(* an instruction fetch never sees less than what the processor and the    *)
(* devices have stored, when software writes code back and invalidates it: *)
(* VR4300ICacheFill, VR4300ICacheProbe and the CACHE operations of both.   *)
THEOREM CodeFetchIsRight ==
  ASSUME "keep" \notin Handover
  PROVE  CachesSpec => []CodeIsCurrent
<1>1. CachesInit => CInv
  <2>1. Init => RInv
    BY InitIInv, ContentsLocated DEF RInv, Init, LentNotHeld
  <2> QED
    BY <2>1, InitCode DEF CachesInit, CInv
<1>2. CInv /\ [CachesNext]_<<vars, ivars, ready>> => CInv'
  <2>1. [CachesNext]_<<vars, ivars, ready>> => [Next]_vars
    BY DEF CachesNext, DataStep
  <2>2. IInv /\ [Next]_vars => IInv'
    BY NextIInv
  <2>3. IInv' => Located'
    BY ContentsLocated, PTL
  <2>4. IInv /\ LentNotHeld /\ [Next]_vars => LentNotHeld'
    BY NextLentNotHeld
  <2>5. RInv /\ [Next]_vars => RInv'
    BY <2>2, <2>3, <2>4 DEF RInv
  <2> QED
    BY <2>1, <2>5, NextCode DEF CInv
<1> QED
  BY <1>1, <1>2, CodeGoodIsCurrent, PTL DEF CachesSpec
=============================================================================
