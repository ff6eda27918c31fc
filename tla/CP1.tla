-------------------------------- MODULE CP1 ---------------------------------
(***************************************************************************)
(* The floating point unit (CP1.c), one instruction of the EX stage after  *)
(* the other, together with the part of the DC stage it relies on: a load  *)
(* leaves its target in the EX/DC latch and takes place at the start of    *)
(* the next cycle, before EX.                                              *)
(*                                                                         *)
(* Half 0 of a register is w.data[0] of the union, its low word.  The      *)
(* values of operations are left open, and so is the relation of the       *)
(* operands of a comparison; which exceptions they may raise on the host   *)
(* is kept.  mode stands for rm and fs, which are stored and read back.    *)
(* The control register's cause, enables and flags are written by CTC1     *)
(* only and never read: the state is in their native copies.               *)
(***************************************************************************)
EXTENDS Integers

CONSTANTS
  N,            \* number of registers: 32 in the code
  Word,
  Zero,
  Addr,         \* addresses of doublewords
  Memory,       \* what the bus and the data cache return there
  Raisable,     \* the host's exceptions that are looked at
  Mode,
  Mode0,
  Results,      \* values that operations yield
  Comparisons   \* the comparisons in use, as <<format, condition>>

ASSUME RegisterAssumption == N \in Nat \ {0}

ASSUME WordAssumption == Zero \in Word /\ Mode0 \in Mode

ASSUME MemoryAssumption == Memory \in [Addr -> [0 .. 1 -> Word]]

ASSUME ResultsAssumption == Results \subseteq [0 .. 1 -> Word]

ASSUME ComparisonsAssumption == Comparisons \subseteq {"s", "d"} \X (0 .. 15)

VARIABLES
  regs,     \* regs
  control,  \* nativeFlags, nativeEnables, nativeCause, c, coc and mode
  status,   \* cu (of CP1) and fr of the Status register
  latch,    \* memoryData of the EX/DC latch
  inst      \* the last instruction, with what it took and gave

vars == <<regs, control, status, latch, inst>>

Register == 0 .. N - 1
Formats  == {"s", "d"}

Architected == {"inexact", "underflow", "overflow", "divbyzero", "invalid"} \cap Raisable

Idle == [function |-> "none"]

-----------------------------------------------------------------------------
(* Moves between stages *)

(* Mutant: half 0 of a doubleword is the word at its address. *)
DeliveredSwapped ==
  IF latch.function = "none" THEN regs
  ELSE [regs EXCEPT ![latch.target] =
          [h \in 0 .. 1 |-> IF h \notin latch.halves THEN @[h]
                            ELSE IF latch.function = "LoadDWord" THEN Memory[latch.address][h]
                            ELSE Memory[latch.address][latch.word]]]

(* DC, when the latch holds a load: the registers after it. *)
Delivered ==
  IF latch.function = "none" THEN regs
  ELSE [regs EXCEPT ![latch.target] =
          [h \in 0 .. 1 |-> IF h \notin latch.halves THEN @[h]
                            ELSE IF latch.function = "LoadDWord" THEN Memory[latch.address][1 - h]
                            ELSE Memory[latch.address][latch.word]]]

(* A cycle whose instruction leaves the registers alone and loads nothing. *)
Keep == regs' = Delivered /\ latch' = Idle

FPUCheckUsable == status.cu

Unusable ==
  /\ ~FPUCheckUsable
  /\ inst' = [op |-> "unusable"]
  /\ Keep
  /\ UNCHANGED <<control, status>>

(* The two words of an even register have numbers of their own if FR is clear. *)
View(n) == IF status.fr THEN n ELSE n - (n % 2)
Side(n) == IF status.fr THEN 0 ELSE n % 2

-----------------------------------------------------------------------------
(* Operations *)

(* FPUUpdateState, when the host has raised some exceptions. *)
Updated(raised) == [control EXCEPT !.flags = @ \cup raised, !.cause = raised]

(* Mutant: a result is written although an exception is enabled. *)
OperateAlways(n, wide, exceptions) ==
  /\ FPUCheckUsable
  /\ inst' = [op |-> "compute", n |-> n, wide |-> wide]
  /\ \E raised \in SUBSET (exceptions \cap Raisable), value \in Results :
       /\ control' = Updated(raised)
       /\ regs' = [Delivered EXCEPT ![n] = IF wide THEN value ELSE [@ EXCEPT ![0] = value[0]]]
  /\ latch' = Idle
  /\ UNCHANGED status

(* What operations have in common: fd is not written if an exception is    *)
(* enabled.  A result of one word goes to half 0.                          *)
Operate(n, wide, exceptions) ==
  /\ FPUCheckUsable
  /\ inst' = [op |-> "compute", n |-> n, wide |-> wide]
  /\ \E raised \in SUBSET (exceptions \cap Raisable), value \in Results :
       /\ control' = Updated(raised)
       /\ regs' = IF raised \cap control.enables # {} THEN Delivered
                  ELSE [Delivered EXCEPT ![n] =
                          IF wide THEN value ELSE [@ EXCEPT ![0] = value[0]]]
  /\ latch' = Idle
  /\ UNCHANGED status

OperandExceptions == {"invalid", "denormal"}
FixedExceptions   == OperandExceptions \cup {"inexact"}
ResultExceptions  == FixedExceptions \cup {"overflow", "underflow"}

ABS(n, fmt)  == Operate(n, fmt = "d", OperandExceptions)
ADD(n, fmt)  == Operate(n, fmt = "d", ResultExceptions)
DIV(n, fmt)  == Operate(n, fmt = "d", ResultExceptions \cup {"divbyzero"})
MUL(n, fmt)  == Operate(n, fmt = "d", ResultExceptions)
NEG(n, fmt)  == Operate(n, fmt = "d", OperandExceptions)
SQRT(n, fmt) == Operate(n, fmt = "d", FixedExceptions)
SUB(n, fmt)  == Operate(n, fmt = "d", ResultExceptions)

(* To fixed point, of one word or of two. *)
CEIL(n, long)  == Operate(n, long, FixedExceptions)
FLOOR(n, long) == Operate(n, long, FixedExceptions)
ROUND(n, long) == Operate(n, long, FixedExceptions)
TRUNC(n, long) == Operate(n, long, FixedExceptions)
CVTl(n) == Operate(n, TRUE, FixedExceptions)
CVTw(n) == Operate(n, FALSE, FixedExceptions)

CVTd(n) == Operate(n, TRUE, FixedExceptions)
CVTs(n) == Operate(n, FALSE, ResultExceptions)

MOV(n, m, fmt) ==
  /\ FPUCheckUsable
  /\ inst' = [op |-> "move", n |-> n, m |-> m, wide |-> fmt = "d"]
  /\ regs' = [Delivered EXCEPT ![n] =
                IF fmt = "d" THEN Delivered[m] ELSE [@ EXCEPT ![0] = Delivered[m][0]]]
  /\ latch' = Idle
  /\ UNCHANGED <<control, status>>

-----------------------------------------------------------------------------
(* Comparisons *)

(* The host's flags after fcomip: all are set for unordered operands. *)
Flags(rel) == [un |-> rel = "un", eq |-> rel \in {"eq", "un"}, lt |-> rel \in {"lt", "un"},
               le |-> rel \in {"lt", "eq", "un"}]

(* Mutant: the flag of the relation is taken without that for unordered operands. *)
CeqOfNaNs(host) == host.eq

Cf(host) == FALSE
Cun(host) == host.un
Ceq(host) == ~host.un /\ host.eq
Cueq(host) == host.un \/ host.eq
Colt(host) == ~host.un /\ host.lt
Cult(host) == host.un \/ host.lt
Cole(host) == ~host.un /\ host.le
Cule(host) == host.un \/ host.le
Csf(host) == FALSE
Cngle(host) == host.un
Cseq(host) == IF host.un THEN FALSE ELSE host.eq
Cngl(host) == host.un \/ host.eq
Clt(host) == IF host.un THEN FALSE ELSE host.lt
Cnge(host) == host.un \/ host.lt
Cle(host) == host.un \/ (IF host.un THEN FALSE ELSE host.le)
Cngt(host) == host.un \/ host.le

(* The conditions, in the order of the tables of functions. *)
Condition(cond, host) ==
  \/ (cond = 0 /\ Cf(host))       \/ (cond = 1 /\ Cun(host))
  \/ (cond = 2 /\ Ceq(host))      \/ (cond = 3 /\ Cueq(host))
  \/ (cond = 4 /\ Colt(host))     \/ (cond = 5 /\ Cult(host))
  \/ (cond = 6 /\ Cole(host))     \/ (cond = 7 /\ Cule(host))
  \/ (cond = 8 /\ Csf(host))      \/ (cond = 9 /\ Cngle(host))
  \/ (cond = 10 /\ Cseq(host))    \/ (cond = 11 /\ Cngl(host))
  \/ (cond = 12 /\ Clt(host))     \/ (cond = 13 /\ Cnge(host))
  \/ (cond = 14 /\ Cle(host))     \/ (cond = 15 /\ Cngt(host))

(* C.f compares nothing; fcomip raises invalid for unordered operands. *)
ComparisonRaises(cond, rel) ==
  {raised \in SUBSET (OperandExceptions \cap Raisable) :
     IF cond = 0 THEN raised = {}
     ELSE "invalid" \in raised <=> rel = "un" /\ "invalid" \in Raisable}

(* Mutant: c, which CFC1 reads, is not updated. *)
ComparedOnce(fmt, cond, rel, raised) ==
  [Updated(raised) EXCEPT !.coc = Condition(cond, Flags(rel))]

(* C.olt.s computes no condition; C.sf.s returns early for unordered operands. *)
Compared(fmt, cond, rel, raised) ==
  IF fmt = "s" /\ cond = 8 /\ rel = "un" THEN [control EXCEPT !.coc = FALSE]
  ELSE LET coc == IF fmt = "s" /\ cond = 4 THEN control.coc ELSE Condition(cond, Flags(rel))
       IN  [Updated(raised) EXCEPT !.coc = coc, !.c = coc]

Compare(fmt, cond, rel) ==
  /\ FPUCheckUsable
  /\ inst' = [op |-> "compare", cond |-> cond, rel |-> rel]
  /\ \E raised \in ComparisonRaises(cond, rel) : control' = Compared(fmt, cond, rel, raised)
  /\ Keep
  /\ UNCHANGED status

BC1(on) ==
  /\ FPUCheckUsable
  /\ inst' = [op |-> "branch", on |-> on, taken |-> control.coc = on]
  /\ Keep
  /\ UNCHANGED <<control, status>>

-----------------------------------------------------------------------------
(* Moves and loads *)

(* Mutant: the bit of unimplemented operations is taken for an exception. *)
SimulatedKeepsAll(bits) == bits

(* CTC1SimulatedToNative and CFC1NativeToSimulated: exceptions that only   *)
(* one side knows are dropped.                                             *)
CTC1SimulatedToNative(bits) == bits \cap Architected
CFC1NativeToSimulated(bits) == bits \cap Architected

CTC1(value) ==
  /\ FPUCheckUsable
  /\ inst' = [op |-> "write", control |-> [value EXCEPT !.cause = @ \ {"unimplemented"}]]
  /\ control' = [flags   |-> CTC1SimulatedToNative(value.flags),
                 enables |-> CTC1SimulatedToNative(value.enables),
                 cause   |-> CTC1SimulatedToNative(value.cause),
                 c |-> value.c, coc |-> value.c, mode |-> value.mode]
  /\ Keep
  /\ UNCHANGED status

ControlRead ==
  [flags   |-> CFC1NativeToSimulated(control.flags),
   enables |-> CFC1NativeToSimulated(control.enables),
   cause   |-> CFC1NativeToSimulated(control.cause),
   c |-> control.c, mode |-> control.mode]

CFC1 ==
  /\ FPUCheckUsable
  /\ inst' = [op |-> "read", control |-> ControlRead]
  /\ Keep
  /\ UNCHANGED <<control, status>>

MTC1(n, w) ==
  /\ FPUCheckUsable
  /\ inst' = [op |-> "write", n |-> n, word |-> w]
  /\ regs' = [Delivered EXCEPT ![View(n)] = [@ EXCEPT ![Side(n)] = w]]
  /\ latch' = Idle
  /\ UNCHANGED <<control, status>>

DMTC1(n, d) ==
  /\ FPUCheckUsable
  /\ inst' = [op |-> "write", n |-> n, doubleword |-> d]
  /\ regs' = [Delivered EXCEPT ![View(n)] = d]
  /\ latch' = Idle
  /\ UNCHANGED <<control, status>>

(* Mutant: EX runs before DC. *)
MFC1TooEarly(n) ==
  /\ FPUCheckUsable
  /\ inst' = [op |-> "read", n |-> n, word |-> regs[View(n)][Side(n)]]
  /\ Keep
  /\ UNCHANGED <<control, status>>

(* MFC1, and SWC1 up to what it hands to the store. *)
MFC1(n) ==
  /\ FPUCheckUsable
  /\ inst' = [op |-> "read", n |-> n, word |-> Delivered[View(n)][Side(n)]]
  /\ Keep
  /\ UNCHANGED <<control, status>>

SWC1(n) == MFC1(n)

DMFC1(n) ==
  /\ FPUCheckUsable
  /\ inst' = [op |-> "read", n |-> n, doubleword |-> Delivered[View(n)]]
  /\ Keep
  /\ UNCHANGED <<control, status>>

SDC1(n) == DMFC1(n)

LWC1(n, a, k) ==
  /\ FPUCheckUsable
  /\ inst' = [op |-> "load", n |-> n, addr |-> a, word |-> k]
  /\ regs' = Delivered
  /\ latch' = [function |-> "LoadWordFPU", target |-> View(n), halves |-> {Side(n)},
               address |-> a, word |-> k]
  /\ UNCHANGED <<control, status>>

LDC1(n, a) ==
  /\ FPUCheckUsable
  /\ inst' = [op |-> "load", n |-> n, addr |-> a]
  /\ regs' = Delivered
  /\ latch' = [function |-> "LoadDWord", target |-> View(n), halves |-> 0 .. 1, address |-> a]
  /\ UNCHANGED <<control, status>>

-----------------------------------------------------------------------------
(* The rest of the processor *)

(* MTC0 to Status. *)
MTC0 ==
  /\ status' \in [cu : BOOLEAN, fr : BOOLEAN]
  /\ inst' = [op |-> "none"]
  /\ Keep
  /\ UNCHANGED control

(* A cycle with an instruction of another unit. *)
Other ==
  /\ inst' = [op |-> "none"]
  /\ Keep
  /\ UNCHANGED <<control, status>>

Init ==
  /\ regs = [n \in Register |-> [h \in 0 .. 1 |-> Zero]]
  /\ control = [flags |-> {}, enables |-> {}, cause |-> {}, c |-> FALSE, coc |-> FALSE,
                mode |-> Mode0]
  /\ status \in [cu : BOOLEAN, fr : BOOLEAN]
  /\ latch = Idle
  /\ inst = [op |-> "none"]

ControlValues ==
  [flags : SUBSET Architected, enables : SUBSET Architected,
   cause : SUBSET (Architected \cup {"unimplemented"}), c : BOOLEAN, mode : Mode]

Next ==
  \/ Unusable \/ CFC1 \/ MTC0 \/ Other
  \/ \E value \in ControlValues : CTC1(value)
  \/ \E on \in BOOLEAN : BC1(on)
  \/ \E x \in Comparisons, rel \in {"lt", "eq", "gt", "un"} : Compare(x[1], x[2], rel)
  \/ \E n \in Register :
       \/ \E fmt \in Formats :
            \/ ABS(n, fmt) \/ ADD(n, fmt) \/ DIV(n, fmt) \/ MUL(n, fmt) \/ NEG(n, fmt)
            \/ SQRT(n, fmt) \/ SUB(n, fmt)
            \/ \E m \in Register : MOV(n, m, fmt)
       \/ \E long \in BOOLEAN : CEIL(n, long) \/ FLOOR(n, long) \/ ROUND(n, long) \/ TRUNC(n, long)
       \/ CVTd(n) \/ CVTl(n) \/ CVTs(n) \/ CVTw(n)
       \/ \E w \in Word : MTC1(n, w)
       \/ \E d \in [0 .. 1 -> Word] : DMTC1(n, d)
       \/ MFC1(n) \/ SWC1(n) \/ DMFC1(n) \/ SDC1(n)
       \/ \E a \in Addr : LDC1(n, a) \/ \E k \in 0 .. 1 : LWC1(n, a, k)

Spec == Init /\ [][Next]_vars

-----------------------------------------------------------------------------
(* Properties *)

(* Types: the latch holds nothing or a load with a target among the registers. *)
TypeOK ==
  /\ regs \in [Register -> [0 .. 1 -> Word]]
  /\ control \in [flags : SUBSET (Architected \cup {"denormal"}), enables : SUBSET Architected,
                  cause : SUBSET (Architected \cup {"denormal"}),
                  c : BOOLEAN, coc : BOOLEAN, mode : Mode]
  /\ status \in [cu : BOOLEAN, fr : BOOLEAN]
  /\ latch \in {Idle}
       \cup [function : {"LoadWordFPU"}, target : Register, halves : {{0}, {1}},
             address : Addr, word : 0 .. 1]
       \cup [function : {"LoadDWord"}, target : Register, halves : {0 .. 1}, address : Addr]

(* The condition BC1 branches on is the one CFC1 shows. *)
ConditionsAgree == control.coc = control.c

Flat == INSTANCE FlatFPU WITH
  file <- Delivered,
  fcr <- ControlRead,
  status <- [cu1 |-> status.cu, fr |-> status.fr],
  Exceptions <- Architected

(* The unit, with its loads under way, its two copies of the condition and *)
(* the host's exceptions, implements one that runs an instruction at once. *)
FlatSpec == Flat!Spec
=============================================================================
