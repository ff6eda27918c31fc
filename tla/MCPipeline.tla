----------------------------- MODULE MCPipeline -----------------------------
(***************************************************************************)
(* Programs for the pipeline.  Each has boot code at the uncached reset    *)
(* vector (2), a general handler (4), a handler for the boot vectors (32)  *)
(* and a body from 8 on.  Lines are two words long and the cache has four  *)
(* sets, so that words 8 apart compete for a set.                          *)
(***************************************************************************)
EXTENDS Pipeline, TLC

Kernel  == [ie |-> FALSE, exl |-> FALSE, erl |-> FALSE, bev |-> FALSE, cu1 |-> FALSE]
Enabled == [Kernel EXCEPT !.ie = TRUE]

I(op)         == [op |-> op, target |-> 0, status |-> Kernel]
To(op, addr)  == [op |-> op, target |-> addr, status |-> Kernel]
Status(value) == [op |-> "status", target |-> 0, status |-> value]

Addresses == 0 .. 33
Cached    == Addresses \ {2, 3}

(* Boot: enable interrupts in the delay slot of the jump to the body.      *)
(* Handler: acknowledge, give the program its floating point unit, return. *)
System ==
  2 :> To("j", 8) @@ 3 :> Status(Enabled) @@
  4 :> I("compare") @@ 5 :> Status([Enabled EXCEPT !.exl = TRUE, !.cu1 = TRUE]) @@
  6 :> I("eret") @@
  32 :> To("j", 4) @@ 33 :> I("alu")

Load(body) == [a \in Addresses |->
                 IF a \in DOMAIN body THEN body[a]
                 ELSE IF a \in DOMAIN System THEN System[a] ELSE I("alu")]

(* A loop with every kind of control transfer, whose lines compete for     *)
(* the cache and are invalidated and filled by CACHE, two calls of one     *)
(* subroutine, and a way out to three loops: a branch and a J to           *)
(* themselves, which are fast-forwarded, and a likely branch to itself,    *)
(* which is not.                                                           *)
LoopProgram == Load(
  8  :> I("cp1") @@ 9 :> To("branch", 12) @@ 10 :> I("mem") @@ 11 :> To("index", 8) @@
  12 :> To("likely", 8) @@ 13 :> I("mem") @@
  14 :> Status([Enabled EXCEPT !.bev = TRUE]) @@
  15 :> To("bal", 28) @@ 16 :> To("fill", 10) @@ 17 :> To("jal", 28) @@
  19 :> To("branch", 8) @@
  22 :> To("branch", 22) @@ 24 :> To("likely", 24) @@ 25 :> I("mem") @@
  26 :> To("j", 26) @@ 28 :> I("mem") @@ 29 :> I("ret"))

(* Branches on the floating point condition, whose unit the program gives  *)
(* up in each round, and a call that annuls its slot when it is not made.  *)
FloatProgram == Load(
  8  :> To("bc1", 12) @@ 9 :> I("mem") @@ 10 :> To("hit", 8) @@
  12 :> To("bc1l", 8) @@ 14 :> Status(Enabled) @@ 15 :> To("ball", 20) @@ 16 :> I("mem") @@
  17 :> To("jr", 8) @@ 20 :> I("ret"))

(* A floating point operation in the delay slot of a jump. *)
SlotProgram == Load(
  8  :> To("jr", 12) @@ 9 :> I("cp1") @@ 12 :> Status(Enabled) @@ 13 :> To("jr", 8))

(* The conditions on programs under which ProgramOrder and PreciseEPC are  *)
(* proved: SlotProgram breaks the second.                                  *)
ASSUME ProgramsConform ==
  /\ SlotsHoldNoBranch
  /\ Program # SlotProgram => SlotsHoldNoFloat /\ BusyLoopsInLine
=============================================================================
