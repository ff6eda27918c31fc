-------------------------------- MODULE CP0 --------------------------------
(***************************************************************************)
(* The registers of coprocessor 0 (CP0.c) under software that saves and    *)
(* restores them: an exception handler that lets interrupts nest.  What an *)
(* interrupt needs comes together here: the devices and the timer that     *)
(* raise it (Interrupts), the three cycles that drain the pipeline before  *)
(* its handler runs (Pipeline.c), the state the handler saves, MFC0, MTC0  *)
(* and ERET.                                                               *)
(*                                                                         *)
(* An instruction executes at once, as FlatCPU has it: an aborted one      *)
(* keeps what it did to CP0 and memory, and does not write its register.   *)
(* Fetches hit, as those of uncached code do.  Addresses count words.  The *)
(* value of a register is the set of the positions of its ones.            *)
(***************************************************************************)
EXTENDS Integers, Sequences

CONSTANTS
  Program,      \* what the word at each address decodes to
  ResetVector,  \* VR4300_RESET_VECTOR
  Vector,       \* VR4300_GENERAL_VECTOR
  BevVector,    \* VR4300_GENERAL_BEV_VECTOR
  MaxDepth,     \* the depth to which the software lets interrupts nest
  Devices, DP, Modes, Period, MaxWrites   \* of Interrupts

Bubble == -1    \* an invalidated instruction

ASSUME ProgramAssumption ==
  /\ DOMAIN Program \subseteq Nat
  /\ 0 \in DOMAIN Program
  /\ {ResetVector, Vector, BevVector} \subseteq DOMAIN Program \ {0}

ASSUME InterruptsAssumption ==
  DP \in Devices /\ "ebus" \in Modes /\ Period \in Nat \ {0} /\ MaxWrites \in Nat

ASSUME CompareAssumption ==
  \A a \in DOMAIN Program : Program[a].op = "compare" => Program[a].count \in 0 .. Period - 1

VARIABLES
  cpu,          \* of Interrupts: the MI, Cause.IP, Count and Compare
  writes,       \* of Interrupts, unused
  cp0,          \* the other registers by field, and interruptRaiseMask
  icrf,         \* IC/RF latch
  rfex,         \* RF/EX latch: the address of the instruction in it
  storing,      \* EX/DC latch: a store to an MI register is about to be done
  fm,           \* the fault manager; excpIndex is its phase
  frames,       \* the handler's stack: what it saved, per level
  contexts      \* history: what each exception interrupted

vars == <<cpu, writes, cp0, icrf, rfex, storing, fm, frames, contexts>>

MI == INSTANCE Interrupts

-----------------------------------------------------------------------------
(* The fields of a register, each with the position of its lowest bit: as   *)
(* MFC0 puts them together ...                                              *)
MFC0Fields ==
  [ INDEX    |-> [index |-> 0, probe |-> 31],
    ENTRYLO0 |-> [global |-> 0, valid |-> 1, dirty |-> 2, attribute |-> 3, pfn |-> 6],
    ENTRYLO1 |-> [global |-> 0, valid |-> 1, dirty |-> 2, attribute |-> 3, pfn |-> 6],
    PAGEMASK |-> [pageMask |-> 13],
    ENTRYHI  |-> [asid |-> 0, vpn2 |-> 13, region |-> 62],
    STATUS   |-> [ie |-> 0, exl |-> 1, erl |-> 2, ksu |-> 3, ux |-> 5, sx |-> 6, kx |-> 7,
                  im |-> 8, de |-> 16, ce |-> 17, ch |-> 18, sr |-> 20, ts |-> 21,
                  bev |-> 22, its |-> 24, re |-> 25, fr |-> 26, rp |-> 27, cu |-> 28],
    CAUSE    |-> [excCode |-> 2, ip |-> 8, ce |-> 28, bd |-> 31],
    EPC      |-> [epc |-> 0] ]

(* ... and as MTC0 takes them apart, each with its width. *)
At(low, width) == [low |-> low, width |-> width]

EntryLoFields ==
  [global |-> At(0, 1), valid |-> At(1, 1), dirty |-> At(2, 1), attribute |-> At(3, 3),
   pfn |-> At(6, 20)]

MTC0Fields ==
  [ INDEX    |-> [index |-> At(0, 6)],
    ENTRYLO0 |-> EntryLoFields,
    ENTRYLO1 |-> EntryLoFields,
    PAGEMASK |-> [pageMask |-> At(13, 12)],
    ENTRYHI  |-> [asid |-> At(0, 8), vpn2 |-> At(13, 27), region |-> At(62, 2)],
    STATUS   |-> [ie |-> At(0, 1), exl |-> At(1, 1), erl |-> At(2, 1), ksu |-> At(3, 2),
                  ux |-> At(5, 1), sx |-> At(6, 1), kx |-> At(7, 1), im |-> At(8, 8),
                  de |-> At(16, 1), ce |-> At(17, 1), ch |-> At(18, 1), sr |-> At(20, 1),
                  bev |-> At(22, 1), its |-> At(24, 1), re |-> At(25, 1), fr |-> At(26, 1),
                  rp |-> At(27, 1), cu |-> At(28, 4)],
    EPC      |-> [epc |-> At(0, 64)],
    CONFIG   |-> [k0 |-> At(0, 3), cu |-> At(3, 1), be |-> At(15, 1), ep |-> At(24, 4)],
    TAGLO    |-> [pState |-> At(6, 2), pTagLo |-> At(8, 20)] ]

(* The bits of Cause.IP; the program writes the lowest two. *)
Pending == [software0 |-> 0, software1 |-> 1, rcp |-> 2, timer |-> 7]

SoftwareInterrupts == {"software0", "software1"}

Up == {0}       \* the value of a flag that is set

Down == {}

(* MFC0: 32 bits of the register, sign-extended. *)
Extended(word) ==
  LET low == word \cap 0..31 IN IF 31 \in low THEN low \cup 32..63 ELSE low

Shifted(bits, low) == {b + low : b \in bits}

FieldOf(r, f) == IF f = "ip" THEN {Pending[i] : i \in cpu.ip} ELSE cp0[r][f]

(* Mutant: FR and RP are read in the wrong order. *)
MFC0Swapped(r) ==
  LET place(f) == IF f = "fr" THEN MFC0Fields[r]["rp"]
                  ELSE IF f = "rp" THEN MFC0Fields[r]["fr"] ELSE MFC0Fields[r][f]
  IN  Extended(UNION {Shifted(FieldOf(r, f), place(f)) : f \in DOMAIN MFC0Fields[r]})

MFC0(r) ==
  Extended(UNION {Shifted(FieldOf(r, f), MFC0Fields[r][f]) : f \in DOMAIN MFC0Fields[r]})

(* Mutant: interrupts get through although they are disabled. *)
RaiseAlways(status) == status.exl = Down /\ status.erl = Down

(* Mutant: EXL does not keep interrupts away. *)
RaiseInHandlers(status) == status.ie = Up /\ status.erl = Down

(* MTC0.  The three bits that let interrupts through are copied. *)
Raise(status) == status.ie = Up /\ status.exl = Down /\ status.erl = Down

(* Mutant: a field keeps the bits above it. *)
FieldsUnmasked(r, word) ==
  [f \in DOMAIN cp0[r] |->
     IF f \in DOMAIN MTC0Fields[r]
     THEN {b \in 0..63 : b + MTC0Fields[r][f].low \in word}
     ELSE cp0[r][f]]

FieldsFrom(r, word) ==
  [f \in DOMAIN cp0[r] |->
     IF f \in DOMAIN MTC0Fields[r]
     THEN {b \in 0..MTC0Fields[r][f].width - 1 : b + MTC0Fields[r][f].low \in word}
     ELSE cp0[r][f]]

MTC0(r, word) ==
  LET written == [cp0 EXCEPT ![r] = FieldsFrom(r, word)]
  IN  IF r \notin DOMAIN MTC0Fields THEN cp0
      ELSE IF r = "STATUS" THEN [written EXCEPT !.raise = Raise(written.STATUS)]
      ELSE written

(* Mutant: all of Cause.IP is written. *)
MTC0CauseAll(s, word) == [s EXCEPT !.ip = {i \in DOMAIN Pending : Pending[i] + 8 \in word}]

MTC0Cause(s, word) ==
  [s EXCEPT !.ip = (@ \ SoftwareInterrupts)
                     \cup {i \in SoftwareInterrupts : Pending[i] + 8 \in word}]

-----------------------------------------------------------------------------
(* Addresses of code as registers hold them, in a kernel segment. *)
WordOf(a) == 31..63 \cup {b \in 2..30 : (a \div 2^(b - 2)) % 2 = 1}

AddressOf(word) ==
  IF \E a \in DOMAIN Program : word = WordOf(a)
  THEN CHOOSE a \in DOMAIN Program : word = WordOf(a)
  ELSE 0

(***************************************************************************)
(* Instructions of the software, by what they do to CP0:                   *)
(*   enter, leave    move the handler's stack pointer                      *)
(*   save, restore   MFC0 to and MTC0 from the frame at the top            *)
(*   write           MTC0 of a constant                                    *)
(*   open            MTC0 to Status of a constant, with IE as MaxDepth     *)
(*                   allows                                                *)
(*   compare         MTC0 to Compare of a constant                         *)
(*   store           a store to an MI register                             *)
(*   j, eret, nop                                                          *)
(***************************************************************************)
Insn == IF rfex = Bubble THEN [op |-> "nop"] ELSE Program[rfex]

IsBranch(a) == a # Bubble /\ Program[a].op = "j"

Top == frames[Len(frames)]

(* The values that rt may have. *)
Operands ==
  CASE Insn.op = "write"   -> Insn.words
    [] Insn.op = "open"    -> {IF Len(frames) < MaxDepth THEN Insn.word ELSE Insn.word \ {0}}
    [] Insn.op = "restore" -> {Top[Insn.reg]}
    [] OTHER               -> {{}}

IsMove == Insn.op \in {"write", "open", "restore"}

(* ERET, from an error or from an exception. *)
ERET ==
  LET status == IF cp0.STATUS.erl = Up THEN [cp0.STATUS EXCEPT !.erl = Down]
                                       ELSE [cp0.STATUS EXCEPT !.exl = Down]
  IN  [cp0 EXCEPT !.STATUS = status, !.raise = Raise(status)]

Return == IF cp0.STATUS.erl = Up THEN cp0.errorEPC ELSE cp0.EPC.epc

(* What EX makes of CP0, of the MI's side of Cause, and of the fetch.  A    *)
(* transfer of control leaves the latch one short of its target.            *)
CP0After(word) == IF Insn.op = "eret" THEN ERET
                  ELSE IF IsMove THEN MTC0(Insn.reg, word) ELSE cp0

MIAfter(s, word) ==
  CASE Insn.op = "compare"          -> MI!MTC0Compare(s, Insn.count)
    [] IsMove /\ Insn.reg = "CAUSE" -> MTC0Cause(s, word)
    [] OTHER                        -> s

Fetching ==
  CASE Insn.op = "j"    -> [icrf EXCEPT !.pc = Insn.target - 1]
    [] Insn.op = "eret" -> [icrf EXCEPT !.pc = AddressOf(Return) - 1, !.live = FALSE]
    [] OTHER            -> icrf

(* The software's own state, which an aborted instruction does not change. *)
FramesAfter ==
  CASE Insn.op = "enter" -> Append(frames, <<>>)
    [] Insn.op = "leave" -> SubSeq(frames, 1, Len(frames) - 1)
    [] Insn.op = "save" /\ Insn.reg \in DOMAIN MFC0Fields ->
         [frames EXCEPT ![Len(frames)] =
            [r \in DOMAIN @ \cup {Insn.reg} |-> IF r = Insn.reg THEN MFC0(r) ELSE @[r]]]
    [] OTHER -> frames

ContextsAfter ==
  IF Insn.op = "eret" /\ contexts # <<>> THEN SubSeq(contexts, 1, Len(contexts) - 1)
                                         ELSE contexts

-----------------------------------------------------------------------------
(* The stages.  DC performs the store, if there is one. *)
AfterDC == IF storing THEN MI!Stored ELSE {cpu}

EX(word) ==
  /\ cp0' = CP0After(word)
  /\ storing' = (Insn.op = "store")
  /\ contexts' = ContextsAfter

(* RF fetches and moves the PC on; IC addresses the next word, unless the   *)
(* PC is in no region.                                                      *)
RF == rfex' = IF Fetching.live THEN Fetching.addr ELSE Bubble

Moved == [pc |-> Fetching.pc + 1, addr |-> Fetching.addr, live |-> TRUE]

RFAndIC ==
  /\ RF
  /\ icrf' = IF Moved.pc \in DOMAIN Program THEN [Moved EXCEPT !.addr = Moved.pc]
                                                ELSE Moved

(* IncrementCycleCounters ends every cycle. *)
EndCycle(s) == cpu' = MI!IncrementCycleCounters(s) /\ UNCHANGED writes

(* CheckForPendingInterrupts, after the stages. *)
InterruptPending(s) == cp0'.raise /\ \E i \in s.ip : Pending[i] \in cp0'.STATUS.im

CheckForPendingInterrupts(s) ==
  fm' = IF InterruptPending(s)
        THEN [excp |-> "INTR", excpIndex |-> "START_RF", pc |-> icrf'.pc,
              afterBranch |-> IsBranch(rfex')]
        ELSE fm

NormalCycle ==
  /\ fm.excpIndex = "NORMAL"
  /\ \E s \in AfterDC, word \in Operands :
       /\ EX(word) /\ RFAndIC /\ frames' = FramesAfter
       /\ CheckForPendingInterrupts(MIAfter(s, word))
       /\ EndCycle(MIAfter(s, word))

StartRF ==
  /\ fm.excpIndex = "START_RF"
  /\ fm' = [fm EXCEPT !.excpIndex = "START_EX"]
  /\ \E s \in AfterDC, word \in Operands :
       /\ EX(word) /\ RF /\ icrf' = Moved /\ frames' = FramesAfter
       /\ EndCycle(MIAfter(s, word))

(* EX executes the instruction that the exception aborts. *)
StartEX ==
  /\ fm.excpIndex = "START_EX"
  /\ fm' = [fm EXCEPT !.excpIndex = "START_DC"]
  /\ \E s \in AfterDC, word \in Operands :
       /\ EX(word) /\ icrf' = Fetching
       /\ EndCycle(MIAfter(s, word))
  /\ UNCHANGED <<rfex, frames>>

StartDC ==
  /\ fm.excpIndex = "START_DC"
  /\ fm' = [fm EXCEPT !.excpIndex = "HANDLE"]
  /\ storing' = FALSE
  /\ \E s \in AfterDC : EndCycle(s)
  /\ UNCHANGED <<cp0, icrf, rfex, frames, contexts>>

(* The registers that an exception and its handler must leave alone. *)
Kept(c) == [r \in DOMAIN c \ {"CAUSE", "EPC"} |-> c[r]]

FaultingInstruction == IF fm.afterBranch THEN fm.pc - 1 ELSE fm.pc

CommonExceptionHandler ==
  LET entered == [cp0 EXCEPT !.CAUSE.excCode = {}, !.CAUSE.ce = {}, !.STATUS.exl = Up,
                             !.raise = FALSE]
  IN  IF cp0.STATUS.exl = Up THEN entered
      ELSE [entered EXCEPT !.CAUSE.bd = IF fm.afterBranch THEN Up ELSE Down,
                           !.EPC.epc = WordOf(FaultingInstruction)]

FaultINTR ==
  /\ cp0' = CommonExceptionHandler
  /\ icrf' = [icrf EXCEPT !.live = FALSE,
                          !.pc = (IF cp0.STATUS.bev = Up THEN BevVector ELSE Vector) - 1]
  /\ contexts' = Append(contexts, [resume |-> WordOf(FaultingInstruction), cp0 |-> Kept(cp0)])

FaultRST ==
  /\ cp0' = [cp0 EXCEPT !.STATUS = [@ EXCEPT !.ts = Down, !.sr = Down, !.rp = Down,
                                             !.erl = Up, !.bev = Up],
                        !.CONFIG = [@ EXCEPT !.ep = {}, !.be = Up, !.ec = {}]]
  /\ icrf' = [icrf EXCEPT !.live = FALSE, !.pc = ResetVector - 1]
  /\ UNCHANGED contexts

HandleExceptions ==
  /\ fm.excpIndex = "HANDLE"
  /\ fm' = [fm EXCEPT !.excp = "INV", !.excpIndex = "NORMAL"]
  /\ rfex' = Bubble
  /\ IF fm.excp = "RST" THEN FaultRST ELSE FaultINTR
  /\ EndCycle(cpu)
  /\ UNCHANGED <<storing, frames>>

CycleVR4300 == NormalCycle \/ StartRF \/ StartEX \/ StartDC \/ HandleExceptions

(* Devices act between two cycles. *)
Device ==
  /\ MI!Raise \/ MI!Clear
  /\ UNCHANGED <<cp0, icrf, rfex, storing, fm, frames, contexts>>

Zero(fields) == [f \in fields |-> {}]

(* InitVR4300: everything is zero, and a hard reset is queued. *)
Init ==
  /\ MI!Init
  /\ cp0 = [INDEX |-> Zero({"index", "probe"}),
            ENTRYLO0 |-> Zero(DOMAIN EntryLoFields), ENTRYLO1 |-> Zero(DOMAIN EntryLoFields),
            PAGEMASK |-> Zero({"pageMask"}), ENTRYHI |-> Zero({"asid", "vpn2", "region"}),
            STATUS |-> Zero(DOMAIN MFC0Fields["STATUS"]),
            CAUSE |-> Zero({"excCode", "ce", "bd"}), EPC |-> Zero({"epc"}),
            CONFIG |-> Zero({"k0", "cu", "be", "ep", "ec"}),
            TAGLO |-> Zero({"pState", "pTagLo"}), errorEPC |-> {}, raise |-> FALSE]
  /\ icrf = [pc |-> 0, addr |-> 0, live |-> FALSE]
  /\ rfex = Bubble
  /\ storing = FALSE
  /\ fm = [excp |-> "RST", excpIndex |-> "START_RF", pc |-> 0, afterBranch |-> FALSE]
  /\ frames = <<>>
  /\ contexts = <<>>

Next == CycleVR4300 \/ Device

Spec == Init /\ [][Next]_vars

-----------------------------------------------------------------------------
Flag == {Up, Down}

(* Every field holds bits of its own width, whatever was moved to it, and   *)
(* the latches hold words of the program.                                   *)
TypeOK ==
  /\ \A r \in DOMAIN MTC0Fields : \A f \in DOMAIN MTC0Fields[r] :
       cp0[r][f] \subseteq 0 .. MTC0Fields[r][f].width - 1
  /\ {cp0.INDEX.probe, cp0.STATUS.ts, cp0.CAUSE.bd} \subseteq Flag
  /\ cp0.raise \in BOOLEAN
  /\ icrf.addr \in DOMAIN Program /\ rfex \in DOMAIN Program \cup {Bubble}

(* The MI's bit of Cause stays right while the handler writes old values of *)
(* Cause back.                                                              *)
CauseFollowsMI == MI!CauseFollowsMI

(* A timer interrupt waits for a move to Compare: no old value of Cause     *)
(* that the handler restores, and no device, withdraws it.                  *)
TimerWaits ==
  [][ "timer" \in cpu.ip /\ "timer" \notin cpu'.ip => Insn.op = "compare" ]_vars

(* Software that may set EXL or ERL has closed interrupts before: neither   *)
(* of the two instructions that execute between an interrupt and its        *)
(* handler (Pipeline.c:171, Pipeline.c:185) sets one of them.               *)
ClosesInTime ==
  fm.excp = "INTR" /\ fm.excpIndex \in {"START_RF", "START_EX"} /\ IsMove /\ Insn.reg = "STATUS"
    => \A word \in Operands :
         FieldsFrom("STATUS", word).exl = Down /\ FieldsFrom("STATUS", word).erl = Down

(* An interrupt is queued three cycles before its handler runs, in which    *)
(* two more instructions execute: none of them makes it arrive inside of    *)
(* another handler, where EPC would not be saved.                           *)
NotInHandler ==
  [][ HandleExceptions /\ fm.excp = "INTR"
        => cp0.STATUS.exl = Down /\ cp0.STATUS.erl = Down ]_vars

(* When a handler returns, the interrupted program - which may be another   *)
(* handler - goes on at the instruction that was aborted, or its branch,    *)
(* and with every register of CP0 as it was: what MFC0 read, MTC0 put back, *)
(* although both went through interrupts that did the same.  Handlers nest  *)
(* as deep as they mean to, and each one leaves its own frame.              *)
RestoresContext ==
  [][ Len(contexts') < Len(contexts)
        => LET interrupted == contexts[Len(contexts)]
           IN  /\ Return = interrupted.resume /\ Kept(cp0') = interrupted.cp0
               /\ Len(contexts) <= MaxDepth /\ Len(frames) = Len(contexts') ]_vars
=============================================================================
