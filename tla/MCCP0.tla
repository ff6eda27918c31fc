------------------------------- MODULE MCCP0 -------------------------------
(***************************************************************************)
(* The software for CP0: boot code at 1, a program at 4 with a delay slot, *)
(* a handler for the boot vectors at 8 and the handler proper at 10, which *)
(* saves what it is about to change, acknowledges, opens interrupts, closes *)
(* them again and restores.  The second instruction after the one that     *)
(* closes interrupts is the first that may set EXL.                        *)
(***************************************************************************)
EXTENDS CP0

I(op)            == [op |-> op]
Jump(target)     == [op |-> "j", target |-> target]
Write(reg, ws)   == [op |-> "write", reg |-> reg, words |-> ws]
Save(reg)        == [op |-> "save", reg |-> reg]
Restore(reg)     == [op |-> "restore", reg |-> reg]

(* Interrupts on: IE and the two bits of IM; KX, FR, CU1 and CU0. *)
Running == {0, 7, 10, 15, 26, 28, 29}

(* The handler's: CU3, and the sign of the word with it, RP, SR. *)
Handling == {0, 10, 15, 20, 27} \cup 31..63

Boot == <<Write("STATUS", {Running}), Jump(4), I("nop")>>

Body == <<Write("ENTRYHI", {{0, 13, 30}, {7} \cup 31..63}), I("store"), Jump(4),
          Write("STATUS", {Running, Running \cup {22}})>>

BevHandler == <<Jump(10), I("nop")>>

Handler ==
  << I("enter"), Save("STATUS"), Save("CAUSE"), Save("EPC"), Save("ENTRYHI"), Save("INDEX"),
     [op |-> "compare", count |-> 7], I("store"), Write("ENTRYHI", {{3, 14}}), Write("INDEX", {{2}}),
     [op |-> "open", reg |-> "STATUS", word |-> Handling], I("nop"),
     Write("STATUS", {Handling \ {0}}), I("nop"),
     Restore("STATUS"), Restore("CAUSE"), Restore("EPC"), Restore("ENTRYHI"), Restore("INDEX"),
     I("leave"), I("eret"), I("nop") >>

MCProgram == <<I("nop")>> \o Boot \o Body \o BevHandler \o Handler

Software == [a \in 0 .. Len(MCProgram) - 1 |-> MCProgram[a + 1]]
=============================================================================
