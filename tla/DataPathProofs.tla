--------------------------- MODULE DataPathProofs ---------------------------
(***************************************************************************)
(* Proof that the pipeline implements the machine that executes one        *)
(* instruction after another, for every set of registers, every program,   *)
(* every placing of interrupts and every width of a byte.  What the units  *)
(* compute plays no part in it: Compute, HiLo, Load and Store are never    *)
(* expanded.                                                               *)
(***************************************************************************)
EXTENDS DataPath, TLAPS

(* A function on the names of the registers, whatever its values. *)
IsFile(f) == f = [r \in Registers |-> f[r]]

IsLatch(l) ==
  l = [ dest |-> l.dest, data |-> l.data, function |-> l.function, address |-> l.address,
        store |-> l.store ]

(* What the refinement needs of a reachable state: the memory function has *)
(* been called when the exception is handled.                              *)
Inv ==
  /\ IsFile(regs)
  /\ IsLatch(exdc)
  /\ phase \in {"NORMAL", "START_RF", "START_EX", "START_DC", "HANDLE"}
  /\ phase = "HANDLE" => exdc.function = "NULL"

-----------------------------------------------------------------------------
(* Facts about the register file. *)
LEMMA WriteIsFile ==
  ASSUME NEW f, IsFile(f), NEW d, NEW v
  PROVE  IsFile([f EXCEPT ![d] = v])
  BY DEF IsFile

(* A result put in before register 0 is zeroed is put in after it, unless   *)
(* it is register 0's.                                                      *)
LEMMA WriteBesideZero ==
  ASSUME NEW f, IsFile(f), NEW d, NEW v
  PROVE  /\ d = 0 => [[f EXCEPT ![d] = v] EXCEPT ![0] = 0] = [f EXCEPT ![0] = 0]
         /\ d # 0 => [[f EXCEPT ![d] = v] EXCEPT ![0] = 0]
                       = [[f EXCEPT ![0] = 0] EXCEPT ![d] = v]
  BY DEF IsFile

LEMMA ZeroTwice ==
  ASSUME NEW f, IsFile(f)
  PROVE  [[f EXCEPT ![0] = 0] EXCEPT ![0] = 0] = [f EXCEPT ![0] = 0]
  BY DEF IsFile

(* A register that is written holds what is written, and to write any other *)
(* name changes nothing.                                                    *)
LEMMA WriteOutside ==
  ASSUME NEW f, IsFile(f), NEW d, d \notin Registers, NEW v
  PROVE  [f EXCEPT ![d] = v] = f
  BY DEF IsFile

LEMMA ReadWritten ==
  ASSUME NEW f, IsFile(f), NEW d \in Registers, NEW v, d # 0
  PROVE  [[f EXCEPT ![d] = v] EXCEPT ![0] = 0][d] = v
  BY DEF IsFile

(* To take the forwarded result e of f out again and write it back makes no *)
(* difference, except to register 0.                                        *)
LEMMA RestoredThenForwarded ==
  ASSUME NEW f, IsFile(f), NEW r
  PROVE  Forwarded(Restored(f, r), r) = Forwarded(f, r)
  BY DEF IsFile, Forwarded, Restored

LEMMA RestoredThenWritten ==
  ASSUME NEW f, IsFile(f), NEW e, NEW x, NEW d, NEW v
  PROVE  LET g == [f EXCEPT ![e] = x]
             h == [[g EXCEPT ![0] = 0] EXCEPT ![e] = f[e]]
         IN  [[[h EXCEPT ![e] = x] EXCEPT ![d] = v] EXCEPT ![0] = 0]
               = [[g EXCEPT ![d] = v] EXCEPT ![0] = 0]
  BY DEF IsFile

-----------------------------------------------------------------------------
(* Facts about the units: a unit computes or accesses memory, not both. *)
LEMMA UnitsWithFunction ==
  ASSUME NEW w, w.unit \in ByRegisters \cup ByImmediate
  PROVE  FunctionOf(w) = "NULL"
  BY DEF FunctionOf, MemoryFunction, ByRegisters, ByImmediate

LEMMA Functions3 ==
  /\ "NULL" \notin Loads
  /\ "NULL" \notin Stores
  /\ \A f \in Loads : f \notin Stores
  BY DEF Loads, Stores, Merging

LEMMA DestMeansResult ==
  ASSUME NEW w, Dest(w) # 0
  PROVE  w.unit \in ByRegisters \cup ByImmediate \/ FunctionOf(w) \in Loads
  BY DEF Dest

-----------------------------------------------------------------------------
LEMMA InitInv == Init => Inv
  BY DEF Init, Inv, IsFile, IsLatch

LEMMA InvNext == Inv /\ [Next]_vars => Inv'
<1> SUFFICES ASSUME Inv, [Next]_vars PROVE Inv'
  OBVIOUS
<1> USE DEF Inv
<1>1. ASSUME DC, EX, phase' \in {"NORMAL", "START_RF", "START_EX", "START_DC"}
      PROVE  Inv'
  <2>1. IsFile(regs')
    BY <1>1, WriteIsFile DEF EX, EXWith, Restored, Forwarded, AfterWB
  <2>2. IsLatch(exdc')
    BY <1>1 DEF EX, EXWith, IsLatch
  <2> QED
    BY <1>1, <2>1, <2>2
<1>2. CASE NormalCycle
  BY <1>1, <1>2 DEF NormalCycle
<1>3. CASE StartRF
  BY <1>1, <1>3 DEF StartRF
<1>4. CASE StartEX
  BY <1>1, <1>4 DEF StartEX
<1>5. CASE StartDC
  <2>1. IsFile(regs')
    BY <1>5, WriteIsFile DEF StartDC, WB, AfterWB
  <2>2. IsLatch(exdc') /\ exdc'.function = "NULL"
    BY <1>5 DEF StartDC, NoEX, IsLatch
  <2> QED
    BY <1>5, <2>1, <2>2 DEF StartDC
<1>6. CASE HandleExceptions
  <2>1. IsLatch(exdc')
    BY <1>6 DEF HandleExceptions, IsLatch
  <2> QED
    BY <1>6, <2>1 DEF HandleExceptions
<1>7. CASE UNCHANGED vars
  BY <1>7 DEF vars
<1> QED
  BY <1>2, <1>3, <1>4, <1>5, <1>6, <1>7 DEF Next

(* The memory function has been called when the latches are trashed. *)
THEOREM DataPathInvariant == Spec => []Inv
  BY InitInv, InvNext, PTL DEF Spec

-----------------------------------------------------------------------------
(* The refinement, action by action. *)

(* What the instruction in EX leaves in the EX/DC latch, once the DC stage   *)
(* has seen to it, is the result that FlatCPU gives it.                      *)
LEMMA NextResult ==
  ASSUME Inv, DC, EX, Dest(rfex) # 0, Dest(rfex) \in Registers,
         phase \in {"NORMAL", "START_RF"}
  PROVE  AfterDC'.data = Flat!Result
<1> DEFINE w == rfex
           rs == Operands[rfex.rs]
           rt == Operands[rfex.rt]
<1>1. /\ exdc'.function = FunctionOf(w)
      /\ exdc'.data = EXData(rs, rt)
      /\ FunctionOf(w) # "NULL" => exdc'.address = Address(w, rs)
  BY DEF EX, EXWith
<1>2. dcwb' = AfterDC /\ line' = LineAfterDC
  BY DEF DC
<1>3. ProgramRegisters = Operands
  BY DEF ProgramRegisters
<1>4. CASE w.unit \in ByRegisters \cup ByImmediate
  <2>1. FunctionOf(w) = "NULL"
    BY <1>4, UnitsWithFunction
  <2>2. AfterDC'.data = Compute(w, rs, rt, hilo)
    BY <1>1, <1>4, <2>1 DEF AfterDC, EXData
  <2>3. Flat!Result = Compute(w, rs, rt, hilo)
    BY <1>3, <2>1, Functions3 DEF Flat!Result
  <2> QED
    BY <2>2, <2>3
<1>5. CASE FunctionOf(w) \in Loads
  <2>1. AfterDC'.data = Load(FunctionOf(w), LineAfterDC, Address(w, rs), AfterDC.data)
    BY <1>1, <1>2, <1>5, Functions3 DEF AfterDC
  <2>2. Flat!Old = AfterDC.data
    <3>1. CASE exdc.dest = Dest(w)
      <4>1. IsFile(AfterWB)
        BY WriteIsFile DEF Inv, AfterWB
      <4>2. Operands[Dest(w)] = AfterDC.data
        BY <3>1, <4>1, ReadWritten DEF Operands, Forwarded, AfterDC
      <4> QED
        BY <1>3, <4>2 DEF Flat!Old
    <3>2. CASE exdc.dest # Dest(w)
      BY <3>2 DEF Flat!Old
    <3> QED
      BY <3>1, <3>2
  <2>3. Flat!Result = Load(FunctionOf(w), LineAfterDC, Address(w, rs), Flat!Old)
    BY <1>3, <1>5 DEF Flat!Result
  <2> QED
    BY <2>1, <2>2, <2>3
<1> QED
  BY <1>4, <1>5, DestMeansResult

(* HI, LO and memory change as FlatCPU says whenever EX runs. *)
LEMMA EXSideEffects ==
  ASSUME Inv, DC, EX, phase \in {"NORMAL", "START_RF", "START_EX"}
  PROVE  Flat!SideEffects
<1> DEFINE rs == Operands[rfex.rs]
           rt == Operands[rfex.rt]
<1>1. ProgramRegisters = Operands
  BY DEF ProgramRegisters
<1>2. hilo' = HiLo(rfex, rs, rt, hilo)
  BY DEF EX, EXWith
<1>3. LineAfterDC' = IF FunctionOf(rfex) \in Stores
                     THEN Store(FunctionOf(rfex), LineAfterDC, Address(rfex, rs), rt)
                     ELSE LineAfterDC
  <2>1. line' = LineAfterDC
    BY DEF DC
  <2>2. exdc'.function = FunctionOf(rfex)
    BY DEF EX, EXWith
  <2>3. CASE FunctionOf(rfex) \in Stores
    <3>1. exdc'.address = Address(rfex, rs) /\ exdc'.store = rt
      BY <2>3, Functions3 DEF EX, EXWith
    <3> QED
      BY <2>1, <2>2, <2>3, <3>1 DEF LineAfterDC
  <2>4. CASE FunctionOf(rfex) \notin Stores
    BY <2>1, <2>2, <2>4 DEF LineAfterDC
  <2> QED
    BY <2>3, <2>4
<1> QED
  BY <1>1, <1>2, <1>3 DEF Flat!SideEffects

(* The cycles in which RF runs behind EX execute an instruction. *)
LEMMA CycleExecutes ==
  ASSUME Inv, DC, EX, phase \in {"NORMAL", "START_RF"},
         phase' \in {"NORMAL", "START_RF", "START_EX"}
  PROVE  Flat!Execute
<1> DEFINE g == [AfterWB EXCEPT ![exdc.dest] = AfterDC.data]
           d == Dest(rfex)
           v == AfterDC'.data
<1>1. Flat!SideEffects
  BY EXSideEffects
<1>2. exdc'.dest = d
  BY DEF EX, EXWith
<1>3. ProgramRegisters = Operands /\ ProgramRegisters' = Operands'
  BY DEF ProgramRegisters
<1>4. IsFile(g)
  BY WriteIsFile DEF Inv, AfterWB
<1>5. Operands = [g EXCEPT ![0] = 0]
  BY DEF Operands, Forwarded, AfterDC
<1>6. Operands' = [[g EXCEPT ![d] = v] EXCEPT ![0] = 0]
  <2> DEFINE h == [[g EXCEPT ![0] = 0] EXCEPT ![exdc.dest] = AfterWB[exdc.dest]]
  <2>1. AfterWB' = [h EXCEPT ![exdc.dest] = AfterDC.data]
    <3>1. regs' = h
      BY DEF EX, EXWith, Restored, Forwarded, AfterDC
    <3>2. dcwb' = AfterDC /\ AfterDC.dest = exdc.dest
      BY DEF DC, AfterDC
    <3> QED
      BY <3>1, <3>2 DEF AfterWB
  <2>2. AfterDC'.dest = d
    BY <1>2 DEF AfterDC
  <2>3. Operands' = [[[h EXCEPT ![exdc.dest] = AfterDC.data] EXCEPT ![d] = v] EXCEPT ![0] = 0]
    BY <2>1, <2>2 DEF Operands, Forwarded
  <2>4. IsFile(AfterWB)
    BY WriteIsFile DEF Inv, AfterWB
  <2> QED
    BY <2>3, <2>4, RestoredThenWritten
<1>7. Operands' = IF d = 0 THEN Operands ELSE [Operands EXCEPT ![d] = Flat!Result]
  <2>1. CASE d = 0
    BY <1>4, <1>5, <1>6, <2>1, WriteBesideZero
  <2>2. CASE d # 0 /\ d \in Registers
    <3>1. v = Flat!Result
      BY <2>2, NextResult
    <3>2. Operands' = [Operands EXCEPT ![d] = v]
      BY <1>4, <1>5, <1>6, <2>2, WriteBesideZero
    <3> QED
      BY <2>2, <3>1, <3>2
  <2>3. CASE d \notin Registers
    <3>1. d # 0
      BY <2>3, RegistersHaveZero
    <3>2. IsFile(Operands)
      BY <1>4, <1>5, WriteIsFile
    <3>3. Operands' = Operands
      BY <1>4, <1>5, <1>6, <2>3, WriteOutside
    <3>4. [Operands EXCEPT ![d] = Flat!Result] = Operands
      BY <2>3, <3>2, WriteOutside
    <3> QED
      BY <3>1, <3>3, <3>4
  <2> QED
    BY <2>1, <2>2, <2>3
<1>8. ~(phase' \in {"START_DC", "HANDLE"})
  OBVIOUS
<1> QED
  BY <1>1, <1>2, <1>3, <1>7, <1>8 DEF Flat!Execute

LEMMA StartEXAborts == Inv /\ StartEX => Flat!Abort
<1> SUFFICES ASSUME Inv, StartEX PROVE Flat!Abort
  OBVIOUS
<1>1. Flat!SideEffects
  BY EXSideEffects DEF StartEX
<1>2. ProgramRegisters = Operands
  BY DEF ProgramRegisters, StartEX
<1>3. ProgramRegisters' = Operands
  <2>1. ProgramRegisters' = Forwarded(regs', dcwb')
    BY DEF ProgramRegisters, StartEX
  <2>2. IsFile(AfterWB)
    BY WriteIsFile DEF Inv, AfterWB
  <2>3. regs' = Restored(AfterWB, AfterDC) /\ dcwb' = AfterDC
    BY DEF StartEX, DC, EX, EXWith
  <2> QED
    BY <2>1, <2>2, <2>3, RestoredThenForwarded DEF Operands, Forwarded
<1> QED
  BY <1>1, <1>2, <1>3 DEF Flat!Abort, StartEX

LEMMA StartDCFlushes == Inv /\ StartDC => Flat!Flush
<1> SUFFICES ASSUME Inv, StartDC PROVE Flat!Flush
  OBVIOUS
<1>1. ProgramRegisters = [AfterWB EXCEPT ![0] = 0]
  BY DEF ProgramRegisters, StartDC, Forwarded, AfterWB
<1>2. ProgramRegisters' = [AfterWB EXCEPT ![0] = 0]
  BY DEF ProgramRegisters, StartDC, WB
<1>3. LineAfterDC' = LineAfterDC
  <2>1. exdc'.function = "NULL"
    BY DEF StartDC, NoEX, Inv, IsLatch
  <2> QED
    BY <2>1, Functions3 DEF StartDC, DC, LineAfterDC
<1> QED
  BY <1>1, <1>2, <1>3 DEF Flat!Flush, StartDC

LEMMA HandlerFlushes == Inv /\ HandleExceptions => Flat!Flush
<1> SUFFICES ASSUME Inv, HandleExceptions PROVE Flat!Flush
  OBVIOUS
<1>1. ProgramRegisters = [regs EXCEPT ![0] = 0]
  BY DEF ProgramRegisters, HandleExceptions
<1>2. exdc'.dest = 0 /\ exdc'.data = 0 /\ exdc'.function = "NULL" /\ exdc.function = "NULL"
  BY DEF HandleExceptions, Inv, IsLatch
<1>3. ProgramRegisters' = [regs EXCEPT ![0] = 0]
  <2>1. ProgramRegisters' = Operands'
    BY DEF ProgramRegisters, HandleExceptions
  <2>2. AfterWB' = [regs EXCEPT ![0] = 0]
    BY DEF HandleExceptions, AfterWB, NoResult
  <2>3. AfterDC'.dest = 0 /\ AfterDC'.data = 0
    BY <1>2 DEF AfterDC
  <2>4. Operands' = [[[regs EXCEPT ![0] = 0] EXCEPT ![0] = 0] EXCEPT ![0] = 0]
    BY <2>2, <2>3 DEF Operands, Forwarded
  <2> QED
    BY <2>1, <2>4, ZeroTwice DEF Inv
<1>4. LineAfterDC = line /\ LineAfterDC' = line
  BY <1>2, Functions3 DEF LineAfterDC, HandleExceptions
<1> QED
  BY <1>1, <1>2, <1>3, <1>4 DEF Flat!Flush, HandleExceptions

LEMMA DataPathInit == Init => Flat!Init
<1> SUFFICES ASSUME Init PROVE Flat!Init
  OBVIOUS
<1>1. IsFile(regs) /\ regs = [r \in Registers |-> 0]
  BY DEF Init, IsFile
<1>2. [regs EXCEPT ![0] = 0] = regs
  BY <1>1
<1>3. AfterWB = regs
  BY <1>2 DEF Init, AfterWB, NoResult
<1>4. AfterDC.dest = 0 /\ AfterDC.data = 0
  BY DEF Init, AfterDC
<1>5. Operands = regs
  BY <1>2, <1>3, <1>4 DEF Operands, Forwarded
<1>6. ProgramRegisters = regs
  BY <1>5 DEF ProgramRegisters, Init
<1> QED
  BY <1>1, <1>6 DEF Flat!Init, Init

LEMMA DataPathStep == Inv /\ [Next]_vars => [Flat!Next]_(Flat!vars)
<1> SUFFICES ASSUME Inv, [Next]_vars PROVE [Flat!Next]_(Flat!vars)
  OBVIOUS
<1>1. CASE NormalCycle
  BY <1>1, CycleExecutes DEF NormalCycle, Flat!Next
<1>2. CASE StartRF
  BY <1>2, CycleExecutes DEF StartRF, Flat!Next
<1>3. CASE StartEX
  BY <1>3, StartEXAborts DEF Flat!Next
<1>4. CASE StartDC
  BY <1>4, StartDCFlushes DEF Flat!Next
<1>5. CASE HandleExceptions
  BY <1>5, HandlerFlushes DEF Flat!Next
<1>6. CASE UNCHANGED vars
  BY <1>6 DEF vars, Flat!vars, ProgramRegisters, Operands, Forwarded, AfterWB, AfterDC, LineAfterDC
<1> QED
  BY <1>1, <1>2, <1>3, <1>4, <1>5, <1>6 DEF Next

(* The pipeline with its forwarding (VR4300EXStage), its DC and WB stages    *)
(* and its drain before an exception (CycleVR4300_StartRF, StartEX, StartDC) *)
(* implements FlatCPU.                                                       *)
THEOREM DataPathIsFlat == Spec => FlatSpec
<1>1. Init => Flat!Init
  BY DataPathInit
<1>2. Inv /\ [Next]_vars => [Flat!Next]_(Flat!vars)
  BY DataPathStep
<1> QED
  BY <1>1, <1>2, DataPathInvariant, PTL DEF Spec, FlatSpec, Flat!Spec
=============================================================================
