------------------------------ MODULE FlatCPU ------------------------------
(***************************************************************************)
(* The integer unit as its programmer sees it: a register file, HI and LO, *)
(* a line of memory, and one instruction after another that reads its      *)
(* operands, and writes its results at once.  DataPath, with its latches,  *)
(* its forwarding and its drained pipeline, implements it.                 *)
(*                                                                         *)
(* Two things of the code are part of the promise, for what they are.  An  *)
(* instruction that an exception aborts does not write its register, yet   *)
(* keeps its effect on HI, LO and memory: it will be executed again.  And  *)
(* a load that merges with its register (LWL, LWR, LDL, LDR) only does so  *)
(* right behind the instruction that wrote that register; otherwise it     *)
(* merges with residue, of which nothing is promised.                      *)
(***************************************************************************)
EXTENDS Naturals

CONSTANTS
  Registers,            \* the names of the general-purpose registers
  Dest(_),              \* the register that an instruction writes, 0 if none
  Compute(_, _, _, _),  \* its result, from rs, rt, HI and LO
  HiLo(_, _, _, _),     \* HI and LO after it
  FunctionOf(_),        \* the memory function it calls, if any
  Loads,                \* the memory functions that load
  Stores,               \* and those that store
  Address(_, _),        \* the address, from rs
  Load(_, _, _, _),     \* what is loaded, over the old value
  Store(_, _, _, _)     \* the memory after a store

VARIABLES
  regs,        \* the general-purpose registers
  hilo,        \* HI and LO
  line,        \* memory
  word,        \* the instruction to execute next, which may be any
  wrote,       \* the register that the last instruction wrote, or 0
  residue      \* what a merging load finds if wrote is not its register

vars == <<regs, hilo, line, word, wrote, residue>>

Init ==
  /\ regs = [r \in Registers |-> 0]
  /\ hilo = [hi |-> 0, lo |-> 0]
  /\ wrote = 0

(* What a merging load merges with. *)
Old == IF wrote = Dest(word) THEN regs[Dest(word)] ELSE residue

Result ==
  IF FunctionOf(word) \in Loads
  THEN Load(FunctionOf(word), line, Address(word, regs[word.rs]), Old)
  ELSE Compute(word, regs[word.rs], regs[word.rt], hilo)

(* The effects that an exception does not undo. *)
SideEffects ==
  /\ hilo' = HiLo(word, regs[word.rs], regs[word.rt], hilo)
  /\ line' = IF FunctionOf(word) \in Stores
             THEN Store(FunctionOf(word), line, Address(word, regs[word.rs]), regs[word.rt])
             ELSE line

Execute ==
  /\ SideEffects
  /\ regs' = IF Dest(word) = 0 THEN regs ELSE [regs EXCEPT ![Dest(word)] = Result]
  /\ wrote' = Dest(word)

Abort ==
  /\ SideEffects
  /\ regs' = regs
  /\ wrote' = 0

(* The pipeline is flushed. *)
Flush ==
  /\ wrote' = 0
  /\ UNCHANGED <<regs, hilo, line>>

Next == Execute \/ Abort \/ Flush

Spec == Init /\ [][Next]_vars
=============================================================================
