----------------------------- MODULE FlatMemory -----------------------------
(***************************************************************************)
(* What the data cache promises: the processor and the devices share one   *)
(* memory, a load returns what was last stored, and no cache operation but *)
(* an invalidation, which may lose the line it names, can be observed.     *)
(***************************************************************************)
CONSTANTS
  PLine,      \* physical lines
  Word,       \* word offsets within a line
  Value,      \* contents of a word
  Nothing     \* no load has returned yet

VARIABLES
  memory,     \* contents of every line
  target,     \* the value the last load returned
  op          \* the kind of the last operation

vars == <<memory, target, op>>

Line == [Word -> Value]

Init ==
  /\ memory \in [PLine -> Line]
  /\ target = Nothing
  /\ op = "none"

Load(p, w) ==
  /\ op' = "load"
  /\ target' = memory[p][w]
  /\ UNCHANGED memory

Store(p, w, x) ==
  /\ op' = "store"
  /\ memory' = [memory EXCEPT ![p] = [@ EXCEPT ![w] = x]]
  /\ UNCHANGED target

Invalidate(p) ==
  /\ op' = "invalidate"
  /\ \E line \in Line : memory' = [memory EXCEPT ![p] = line]
  /\ UNCHANGED target

(* Write-backs, and the hand-over of lines between their users. *)
Maintain ==
  /\ op' = "maintain"
  /\ UNCHANGED <<memory, target>>

Next ==
  \/ \E p \in PLine :
       \/ \E w \in Word : Load(p, w)
       \/ \E w \in Word, x \in Value : Store(p, w, x)
       \/ Invalidate(p)
  \/ Maintain

Spec == Init /\ [][Next]_vars
=============================================================================
