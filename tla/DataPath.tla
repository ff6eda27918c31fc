------------------------------ MODULE DataPath ------------------------------
(***************************************************************************)
(* The data of the pipeline: what an integer instruction reads, computes   *)
(* and writes on its way through EX (EXStage.c), DC (DCStage.c) and WB     *)
(* (WBStage.c), with the forwarding of results that are not written back   *)
(* yet, and what is left of it all when the pipeline is drained for an     *)
(* exception.  Control - which instruction is fetched - is the module      *)
(* Pipeline's; here the instructions come as a stream.                     *)
(*                                                                         *)
(* The memory is one line of the data cache, present from the start: how   *)
(* lines get there is the module DCache's.  An instruction cache miss runs *)
(* only RF and IC until it is over and touches none of this.               *)
(***************************************************************************)
EXTENDS Integer, Sequences

CONSTANTS
  Registers,   \* the names of the general-purpose registers
  Starts,      \* [line, stream, interrupts]: memory, program, interrupts to come
  Handlers     \* the instructions that an exception handler may execute

ASSUME RegistersHaveZero == 0 \in Registers

VARIABLES
  regs,        \* vr4300->regs, the general-purpose ones
  hilo,        \* HI and LO
  line,        \* the line of memory
  iwMask,      \* icrfLatch.iwMask: 0 masks the next fetch
  rfex,        \* rfexLatch: the instruction that EX executes next
  exdc,        \* exdcLatch: result and memoryData
  dcwb,        \* dcwbLatch: result
  phase,       \* excpIndex: what CycleVR4300 runs
  stream,      \* the decoded words still to be fetched
  interrupts   \* bound: how many more interrupts are taken

vars == <<regs, hilo, line, iwMask, rfex, exdc, dcwb, phase, stream, interrupts>>

NoResult == [dest |-> 0, data |-> 0]

-----------------------------------------------------------------------------
(* The stages of a cycle, in the order in which it runs them: WB, DC, EX,  *)
(* RF.  A stage reads what those before it have just left.                 *)
AfterWB == [regs EXCEPT ![dcwb.dest] = dcwb.data]

(* Where no EX follows, that is what the registers become. *)
WB == regs' = AfterWB

(* The destination is always copied, the data only when there is no memory  *)
(* function: a load writes the data through its target, where it may merge  *)
(* with what is there, and a store leaves it as it is.                      *)
AfterDC ==
  [ dest |-> exdc.dest,
    data |-> IF exdc.function = "NULL" THEN exdc.data
             ELSE IF exdc.function \in Loads
                  THEN Load(exdc.function, line, exdc.address, dcwb.data)
                  ELSE dcwb.data ]

LineAfterDC ==
  IF exdc.function \in Stores
  THEN Store(exdc.function, line, exdc.address, exdc.store)
  ELSE line

DC == dcwb' = AfterDC /\ line' = LineAfterDC

(* Without EX behind it, DC leaves the latch but for the memory function. *)
NoEX == exdc' = [exdc EXCEPT !.function = "NULL"]

(* Mutant: register 0 is zeroed before the result is put in. *)
ForwardedToZero(file, result) == [file EXCEPT ![0] = 0, ![result.dest] = result.data]

(* The register file as EX reads it: DC/WB's result put in, then register 0 *)
(* set to zero.                                                             *)
Forwarded(file, result) == [file EXCEPT ![result.dest] = result.data, ![0] = 0]

Operands == Forwarded(AfterWB, AfterDC)

(* The forwarded result is taken out again, for WB to write it next. *)
Restored(file, result) ==
  [Forwarded(file, result) EXCEPT ![result.dest] = file[result.dest]]

(* result.data: the merging loads store rt there, which the DC stage does   *)
(* not read; the units without a result leave it.                           *)
EXData(rs, rt) ==
  IF rfex.unit \in ByRegisters \cup ByImmediate THEN Compute(rfex, rs, rt, hilo)
  ELSE IF FunctionOf(rfex) \in Merging THEN rt
  ELSE exdc.data

EXWith(rs, rt) ==
  /\ regs' = Restored(AfterWB, AfterDC)
  /\ hilo' = HiLo(rfex, rs, rt, hilo)
  /\ exdc' = [ dest     |-> Dest(rfex),
               data     |-> EXData(rs, rt),
               function |-> FunctionOf(rfex),
               address  |-> IF FunctionOf(rfex) # "NULL" THEN Address(rfex, rs)
                                                         ELSE exdc.address,
               store    |-> IF FunctionOf(rfex) \in Stores THEN rt ELSE exdc.store ]

(* The host's division may trap on the operands of the instruction in EX:   *)
(* the process dies, there is no next state.                                *)
EX ==
  /\ ~HostTraps(rfex, Operands[rfex.rs], Operands[rfex.rt])
  /\ EXWith(Operands[rfex.rs], Operands[rfex.rt])

(* The next word, unless it is masked or there is none. *)
RF ==
  /\ iwMask' = 1
  /\ IF iwMask = 1 /\ stream # <<>>
     THEN rfex' = Head(stream) /\ stream' = Tail(stream)
     ELSE rfex' = Masked /\ UNCHANGED stream

NoRF == UNCHANGED <<iwMask, rfex, stream>>

-----------------------------------------------------------------------------
(* VR4300Init: everything is zero, and a reset is queued. *)
Init ==
  /\ regs = [r \in Registers |-> 0]
  /\ hilo = [hi |-> 0, lo |-> 0]
  /\ iwMask = 0
  /\ rfex = Masked
  /\ exdc = [dest |-> 0, data |-> 0, function |-> "NULL", address |-> 0, store |-> 0]
  /\ dcwb = NoResult
  /\ phase = "START_RF"
  /\ \E start \in Starts :
       /\ line = start.line
       /\ stream = start.stream
       /\ interrupts = start.interrupts

(* CycleVR4300: an interrupt may be queued at the end of a cycle. *)
NormalCycle ==
  /\ phase = "NORMAL"
  /\ DC /\ EX /\ RF
  /\ \/ phase' = "NORMAL" /\ UNCHANGED interrupts
     \/ interrupts > 0 /\ phase' = "START_RF" /\ interrupts' = interrupts - 1

StartRF ==
  /\ phase = "START_RF"
  /\ DC /\ EX /\ RF
  /\ phase' = "START_EX"
  /\ UNCHANGED interrupts

(* The instruction that EX executes here is the one the exception aborts. *)
StartEX ==
  /\ phase = "START_EX"
  /\ DC /\ EX /\ NoRF
  /\ phase' = "START_DC"
  /\ UNCHANGED interrupts

StartDC ==
  /\ phase = "START_DC"
  /\ WB /\ DC /\ NoEX /\ NoRF
  /\ phase' = "HANDLE"
  /\ UNCHANGED <<hilo, interrupts>>

(* The outputs of the latches are trashed; the handler's instructions come  *)
(* first, and the aborted one, to which EPC points, is fetched again.       *)
HandleExceptions ==
  /\ phase = "HANDLE"
  /\ dcwb' = NoResult
  /\ exdc' = [exdc EXCEPT !.dest = 0, !.data = 0]
  /\ rfex' = [rfex EXCEPT !.unit = "INV", !.name = "INV"]
  /\ iwMask' = 0
  /\ \E handler \in Handlers : stream' = handler \o <<rfex>> \o stream
  /\ phase' = "NORMAL"
  /\ UNCHANGED <<regs, hilo, line, interrupts>>

Next == NormalCycle \/ StartRF \/ StartEX \/ StartDC \/ HandleExceptions

Spec == Init /\ [][Next]_vars

-----------------------------------------------------------------------------
(***************************************************************************)
(* What the pipeline amounts to.  The instructions in EX/DC and DC/WB have *)
(* been executed as far as the programmer is concerned, so the registers   *)
(* are those that EX reads; an aborted instruction in EX/DC counts for its *)
(* store only.                                                             *)
(***************************************************************************)
ProgramRegisters ==
  IF phase = "START_DC" THEN Forwarded(regs, dcwb)
  ELSE IF phase = "HANDLE" THEN [regs EXCEPT ![0] = 0]
  ELSE Operands

Flat == INSTANCE FlatCPU WITH
          regs    <- ProgramRegisters,
          line    <- LineAfterDC,
          word    <- rfex,
          wrote   <- IF phase \in {"START_DC", "HANDLE"} THEN 0 ELSE exdc.dest,
          residue <- AfterDC.data

(* The pipeline implements the machine that executes one instruction after *)
(* another: the forwarding of EXStage.c, the DC and WB stages and the      *)
(* drain of an exception show in nothing else.                             *)
FlatSpec == Flat!Spec
=============================================================================
