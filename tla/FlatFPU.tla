------------------------------ MODULE FlatFPU -------------------------------
(***************************************************************************)
(* What the floating point unit promises a program: registers of two       *)
(* words, a control register with one set each of exceptions that were     *)
(* raised, may be raised, and were raised last, and instructions that take *)
(* effect in program order.  The instruction set numbers the comparisons   *)
(* by the relations for which they hold.                                   *)
(***************************************************************************)
EXTENDS Integers

CONSTANTS
  N,           \* number of registers
  Word,        \* contents of half a register
  Zero,        \* the word 0
  Addr,        \* addresses of doublewords
  Memory,      \* the words at addresses, the most significant one first
  Exceptions,  \* that the control register knows
  Mode,        \* values of the rounding mode and of FS
  Mode0        \* their value after a reset

VARIABLES
  file,        \* the registers
  fcr,         \* the control register
  status,      \* CU1 and FR of the Status register
  inst         \* the last instruction, with what it took and gave

vars == <<file, fcr, status, inst>>

Register   == 0 .. N - 1
Doubleword == [0 .. 1 -> Word]
Relation   == {"lt", "eq", "gt", "un"}
Control    == [flags : SUBSET Exceptions, enables : SUBSET Exceptions,
               cause : SUBSET Exceptions, c : BOOLEAN, mode : Mode]

Init ==
  /\ file = [n \in Register |-> [h \in 0 .. 1 |-> Zero]]
  /\ fcr = [flags |-> {}, enables |-> {}, cause |-> {}, c |-> FALSE, mode |-> Mode0]
  /\ status \in [cu1 : BOOLEAN, fr : BOOLEAN]
  /\ inst = [op |-> "none"]

(* With FR clear, the two words of an even register have numbers of their own. *)
Reg(n)  == IF status.fr THEN n ELSE n - (n % 2)
Half(n) == IF status.fr THEN 0 ELSE n % 2

(* The low word of a register is the result, or all of it is. *)
Written(n, value, wide) ==
  [file EXCEPT ![n] = IF wide THEN value ELSE [@ EXCEPT ![0] = value[0]]]

(* The control register when an instruction has raised the exceptions cause. *)
Recorded(cause, c) ==
  [flags |-> fcr.flags \cup cause, enables |-> fcr.enables, cause |-> cause, c |-> c,
   mode |-> fcr.mode]

(* Comparison cond holds for a relation of its operands. *)
Holds(cond, rel) ==
  \/ rel = "un" /\ cond % 2 = 1
  \/ rel = "eq" /\ (cond \div 2) % 2 = 1
  \/ rel = "lt" /\ (cond \div 4) % 2 = 1

(* inst' is the instruction, and each action its effect. *)

SetStatus ==
  /\ inst' = [op |-> "none"]
  /\ status' \in [cu1 : BOOLEAN, fr : BOOLEAN]
  /\ UNCHANGED <<file, fcr>>

Unusable ==
  /\ inst' = [op |-> "unusable"]
  /\ ~status.cu1
  /\ UNCHANGED <<file, fcr, status>>

(* An operation raises exceptions and writes its result if none of them is *)
(* enabled.                                                                *)
Compute ==
  /\ inst' \in [op : {"compute"}, n : Register, wide : BOOLEAN]
  /\ fcr'.cause \subseteq Exceptions
  /\ fcr' = Recorded(fcr'.cause, fcr.c)
  /\ IF fcr'.cause \cap fcr.enables # {} THEN UNCHANGED file
     ELSE \E value \in Doubleword : file' = Written(inst'.n, value, inst'.wide)
  /\ UNCHANGED status

Compare ==
  /\ inst' \in [op : {"compare"}, cond : 0 .. 15, rel : Relation]
  /\ fcr'.cause \subseteq Exceptions
  /\ fcr' = Recorded(fcr'.cause, Holds(inst'.cond, inst'.rel))
  /\ UNCHANGED <<file, status>>

Move ==
  /\ inst' \in [op : {"move"}, n : Register, m : Register, wide : BOOLEAN]
  /\ file' = Written(inst'.n, file[inst'.m], inst'.wide)
  /\ UNCHANGED <<fcr, status>>

WriteWord ==
  /\ inst' \in [op : {"write"}, n : Register, word : Word]
  /\ file' = [file EXCEPT ![Reg(inst'.n)] = [@ EXCEPT ![Half(inst'.n)] = inst'.word]]
  /\ UNCHANGED <<fcr, status>>

WriteDoubleword ==
  /\ inst' \in [op : {"write"}, n : Register, doubleword : Doubleword]
  /\ file' = [file EXCEPT ![Reg(inst'.n)] = inst'.doubleword]
  /\ UNCHANGED <<fcr, status>>

WriteControl ==
  /\ inst' \in [op : {"write"}, control : Control]
  /\ fcr' = inst'.control
  /\ UNCHANGED <<file, status>>

LoadWord ==
  /\ inst' \in [op : {"load"}, n : Register, addr : Addr, word : 0 .. 1]
  /\ file' = [file EXCEPT ![Reg(inst'.n)] =
                [@ EXCEPT ![Half(inst'.n)] = Memory[inst'.addr][inst'.word]]]
  /\ UNCHANGED <<fcr, status>>

LoadDoubleword ==
  /\ inst' \in [op : {"load"}, n : Register, addr : Addr]
  /\ file' = [file EXCEPT ![Reg(inst'.n)] = [h \in 0 .. 1 |-> Memory[inst'.addr][1 - h]]]
  /\ UNCHANGED <<fcr, status>>

(* What an instruction gives an integer register, memory or a branch. *)
Answer ==
  \/ \E n \in Register :
       \/ inst' = [op |-> "read", n |-> n, word |-> file[Reg(n)][Half(n)]]
       \/ inst' = [op |-> "read", n |-> n, doubleword |-> file[Reg(n)]]
  \/ inst' = [op |-> "read", control |-> fcr]
  \/ \E on \in BOOLEAN : inst' = [op |-> "branch", on |-> on, taken |-> fcr.c = on]

Read == Answer /\ UNCHANGED <<file, fcr, status>>

Next ==
  \/ SetStatus \/ Unusable
  \/ /\ status.cu1
     /\ \/ Compute \/ Compare \/ Move \/ WriteWord \/ WriteDoubleword \/ WriteControl
        \/ LoadWord \/ LoadDoubleword \/ Read

Spec == Init /\ [][Next]_vars
=============================================================================
