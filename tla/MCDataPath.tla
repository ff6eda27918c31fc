----------------------------- MODULE MCDataPath -----------------------------
(***************************************************************************)
(* Instance of DataPath for TLC: bytes of one bit, so registers of eight,  *)
(* words of four; four registers; and three families of programs, each of  *)
(* which starts by loading r1 and r2 from memory.                          *)
(***************************************************************************)
EXTENDS DataPath, InstructionSet

CONSTANT Values   \* the values of r1 and r2 that the arithmetic is tried on

MCRegisters == 0..3

(* The line whose doublewords are x and y. *)
LineOf(x, y) == [k \in 0..15 |-> IF k < 8 THEN Byte(x, 8, k) ELSE Byte(y, 8, k - 8)]

(* 8 is encoded as the sign-extended word 0b1000: it addresses offset 8. *)
Prefix == <<IType("LD", 1, 0, 0), IType("LUI", 2, 0, 2), IType("LD", 2, 2, 0)>>

InSequence(S) == FoldSet(LAMBDA x, seq : Append(seq, x), <<>>, S)

Shifts == {"SLL", "SRL", "SRA", "DSLL", "DSRL", "DSRA", "DSLL32", "DSRL32", "DSRA32"}
Products == {"MULT", "MULTU", "DMULT", "DMULTU", "MTHI", "MTLO"}
Divisions == {"DIV", "DIVU", "DDIV", "DDIVU"}
RegisterOps == DOMAIN Special \ (Shifts \cup Products \cup Divisions)
ImmediateOps == {"ADDI", "ADDIU", "SLTI", "SLTIU", "ANDI", "ORI", "XORI", "LUI", "DADDI", "DADDIU"}

AllArithmetic ==
  InSequence({RType(n, 3, 1, 2, 0) : n \in Products \cup RegisterOps}
           \cup {RType(n, 3, 1, 2, sa) : n \in Shifts, sa \in 0..Word - 1}
           \cup {IType(n, 3, 1, imm) : n \in ImmediateOps, imm \in 0..2^Half - 1})

(* Every instruction on the same operands; a division in a program of its   *)
(* own, as the host's may trap.                                             *)
Arithmetic ==
  {[line |-> LineOf(x, y), stream |-> Prefix \o tail, interrupts |-> 0] :
     x \in Values, y \in Values,
     tail \in {AllArithmetic} \cup {<<RType(n, 0, 1, 2, 0), RType("MFLO", 3, 0, 0, 0)>> : n \in Divisions}}

(* Every load and store at every address it may be given: the base in r3 is *)
(* a multiple of four.                                                      *)
MemoryOps == {n \in DOMAIN Primary : n \in DOMAIN MemoryFunction}

Natural(name) == CASE name \in {"LH", "LHU", "SH"} -> 2
                   [] name \in {"LW", "LWU", "SW"} -> 4
                   [] name \in {"LD", "SD"} -> 8
                   [] OTHER -> 1

At(base, offset) ==
  InSequence({IType(n, 2, 3, offset) :
              n \in {m \in MemoryOps : (4 * base + offset) % Natural(m) = 0}})

Unaligned ==
  {[line |-> LineOf(x, y),
    stream |-> Prefix \o <<IType("LUI", 3, 0, base)>> \o At(base, offset),
    interrupts |-> 0] :
     x \in {0, 75, 180, 255}, y \in {0, 147, 203, 255}, base \in 0..3, offset \in -2..1}

(* Three instructions that depend on each other through r1, r2, HI, LO and  *)
(* memory, with interrupts.                                                 *)
Dependent ==
  { RType("ADDU", 1, 1, 2, 0), RType("OR", 0, 1, 2, 0), RType("DSUBU", 2, 0, 1, 0),
    RType("MULT", 0, 1, 2, 0), RType("MFLO", 1, 0, 0, 0), IType("SD", 1, 0, 0),
    IType("LD", 1, 0, 0), IType("LWL", 2, 0, 1), IType("LWR", 2, 0, 2) }

Interrupted ==
  {[line |-> LineOf(75, 147), stream |-> Prefix \o <<a, b, c>>, interrupts |-> 1] :
     a \in Dependent, b \in Dependent, c \in Dependent}

MCStarts ==
  {[start EXCEPT !.stream = [n \in DOMAIN start.stream |-> Decoded(start.stream[n])]] :
     start \in Arithmetic \cup Unaligned \cup Interrupted}

(* A handler saves nothing and uses a register of its own. *)
MCHandlers == {<<>>, <<Decoded(IType("LUI", 3, 0, 1))>>}

-----------------------------------------------------------------------------
(***************************************************************************)
(* Every functional unit (EXStage.c), reached through the decoder's tables *)
(* and fed by the forwarding, leaves in the EX/DC latch, or in HI and LO,  *)
(* what the instruction set says of the instruction's operands; and it     *)
(* names the register, or the memory function, of the instruction.         *)
(***************************************************************************)
RightResult(w, rs, rt, old, latch, new) ==
  /\ HiLoMayBe(w, rs, rt, old, new)
  /\ latch.dest = CASE w.name \in RegisterOps \cup Shifts -> w.rd
                   [] w.name \in ImmediateOps            -> w.rt
                   [] w.name \in MemoryOps /\ latch.function \in Loads -> w.rt
                   [] OTHER -> 0
  /\ w.name \in RegisterOps \cup Shifts \cup ImmediateOps => MayBe(w, rs, rt, old, latch.data)
  /\ w.name \in MemoryOps =>
       /\ IsDword(latch.address, rs + Immediate(w))
       /\ latch.function \in Stores => latch.store = rt

EXRight ==
  phase \in {"NORMAL", "START_RF", "START_EX"} =>
    RightResult(rfex, Operands[rfex.rs], Operands[rfex.rt], hilo, exdc', hilo')

ResultsRight == [][EXRight]_vars

(***************************************************************************)
(* The memory functions (DCStage.c) move the bytes of the instruction set, *)
(* at every alignment: the masks and shifts of the unaligned loads merge   *)
(* just the bytes of their side, the stores write no other byte of the     *)
(* line, and the register is extended as its load says.                    *)
(***************************************************************************)
DCRight ==
  phase # "HANDLE" /\ exdc.function # "NULL" =>
    IF exdc.function \in Loads
    THEN LoadMoves(exdc.function, exdc.address, line, dcwb.data, dcwb'.data)
    ELSE StoreMoves(exdc.function, exdc.address, exdc.store, line, line')

LanesRight == [][DCRight]_vars

-----------------------------------------------------------------------------
(***************************************************************************)
(* What the comment above the end of VR4300LoadWordRight says of a load    *)
(* that does not reach the last byte of its word: it does not touch the    *)
(* upper half of its register.  The code merges with what the instruction  *)
(* before has left in the DC/WB latch, whichever its register was: the     *)
(* register's own value, which EX stores for it, is not read.              *)
(***************************************************************************)
KeepsUpperHalf ==
  /\ phase = "NORMAL"
  /\ rfex.unit = "LWR"
  /\ rfex.rt # 0
  /\ (ProgramRegisters[rfex.rs] + Immediate(rfex)) % 4 # 3
  => Above(ProgramRegisters'[rfex.rt], 4) = Above(ProgramRegisters[rfex.rt], 4)

UpperHalfKept == [][KeepsUpperHalf]_vars
=============================================================================
