------------------------------ MODULE Pipeline ------------------------------
(***************************************************************************)
(* The control path of the VR4300 simulator: the five pipeline stages, the *)
(* latches between them, the fault manager that stalls, drains and flushes *)
(* them, the instruction cache they fetch from and the CP0 status bits     *)
(* that decide when an interrupt is taken (Pipeline.c, Fault.c, ICStage.c, *)
(* RFStage.c, EXStage.c, WBStage.c, ICache.c and parts of CP0.c, CP1.c).   *)
(*                                                                         *)
(* cpu is the part of struct VR4300 every stage receives as its argument.  *)
(* A stage is an operator from a machine state to a machine state, and a   *)
(* cycle is the composition of stages that the code runs in that cycle, in *)
(* the code's order (WB first, IC last).                                   *)
(*                                                                         *)
(* Addresses count words.  An instruction word is identified with the      *)
(* address it is stored at, so Program[i] is what word i decodes to; an    *)
(* iwMask of 0, which turns the fetched word into INV, is a Bubble.        *)
(***************************************************************************)
EXTENDS Integers

CONSTANTS
  CodeAddr,     \* word addresses GetRegionInfo knows a region for
  CachedAddr,   \* those whose region is cached
  Program,      \* what the word at each address decodes to
  LineWords,    \* words in an instruction cache line (8 in the code)
  NumSets,      \* lines of the instruction cache (512 in the code)
  ResetVector,  \* VR4300_RESET_VECTOR
  Vector,       \* VR4300_GENERAL_VECTOR
  BevVector,    \* VR4300_GENERAL_BEV_VECTOR
  StallCycles,  \* cycles an interlock stalls (54 in the code)
  MaxResets     \* bound on the resets requested after initialization

(***************************************************************************)
(* Instructions, kept apart as far as they differ in control:              *)
(*   alu      writes a register, nothing else                              *)
(*   mem      hands a memory function to DC                                *)
(*   branch   BEQ BNE BGEZ...      likely   their likely forms             *)
(*   j        J, which tests for a jump to itself      jr  JR              *)
(*   jal      JAL, JALR            bal, ball  BGEZAL... and BGEZALL...     *)
(*   ret      JR to the link register, RA                                  *)
(*   cp1      a floating point operation               bc1  BC1F, BC1T     *)
(*   status   MTC0 to Status       compare  MTC0 to Compare     eret       *)
(*   fill, index, hit   CACHE: Fill, Index_Invalidate, Hit_Invalidate      *)
(***************************************************************************)
Ops == {"alu", "mem", "branch", "likely", "j", "jr", "jal", "bal", "ball", "ret", "cp1",
        "bc1", "bc1l", "status", "compare", "eret", "fill", "index", "hit"}

StatusBits == [ie: BOOLEAN, exl: BOOLEAN, erl: BOOLEAN, bev: BOOLEAN, cu1: BOOLEAN]

Insns == [op: Ops, target: CodeAddr, status: StatusBits]

ASSUME AddressAssumption ==
  /\ CodeAddr \subseteq Nat
  /\ CachedAddr \subseteq CodeAddr
  /\ 0 \in CodeAddr
  /\ {ResetVector, Vector, BevVector} \subseteq CodeAddr \ {0}

ASSUME ProgramAssumption == Program \in [CodeAddr -> Insns]

ASSUME CacheAssumption == LineWords \in Nat \ {0} /\ NumSets \in Nat \ {0}

ASSUME BoundAssumption == StallCycles \in Nat /\ MaxResets \in Nat

Bubble == -1      \* an invalidated instruction: opcode.id == INV, flags == 0
NoLine == -1      \* valid[idx] == false

(* enum VR4300PCUIndex: which entry of CycleVR4300Short a fault runs. *)
NORMAL      == -1
START_RF    == 0
START_EX    == 1
START_DC    == 2
HANDLE      == 3
RESUME_RF   == 5
FASTFORWARD == 8

VARIABLES
  cpu,          \* struct VR4300, as far as control depends on it
  resets        \* resets requested so far

vars == <<cpu, resets>>

-----------------------------------------------------------------------------
(* OPCODE_INFO_BRANCH *)
IsBranch(insn) ==
  /\ insn # Bubble
  /\ Program[insn].op \in {"branch", "likely", "j", "jr", "jal", "bal", "ball", "ret",
                           "bc1", "bc1l"}

(* The instructions whose destination is RA. *)
Links(insn) == insn # Bubble /\ Program[insn].op \in {"jal", "bal", "ball"}

-----------------------------------------------------------------------------
(***************************************************************************)
(* Where an instruction sends control, as the instruction set defines it.  *)
(* EX records it beside the instruction and Retire follows it, so that     *)
(* arch is the path the program order prescribes for the instructions that *)
(* write back: arch.pc is the next to do so, arch.npc the one after it,    *)
(* arch.from the branch that just did (its delay slot is next unless it    *)
(* was annulled: arch.slot), and arch.ra the address that RA should hold.  *)
(***************************************************************************)
Flows == {"next", "taken", "untaken", "annul", "return"}

ArchAt(pc, ra) ==
  [pc |-> pc, npc |-> pc + 1, from |-> Bubble, slot |-> FALSE, ra |-> ra]

(* A link is to the instruction behind the delay slot. *)
LinkedBy(arch, insn) == IF Links(insn) THEN arch.pc + 2 ELSE arch.ra

GoesTo(arch, insn, to) == IF Program[insn].op = "ret" THEN arch.ra ELSE to

Retire(arch, insn, flow, to) ==
  LET ra == LinkedBy(arch, insn)
  IN  CASE insn = Bubble -> arch
        [] insn # Bubble /\ flow = "next" ->
             ArchAt(arch.npc, ra)
        [] insn # Bubble /\ flow = "taken" ->
             [pc |-> arch.npc, npc |-> GoesTo(arch, insn, to), from |-> insn, slot |-> TRUE,
              ra |-> ra]
        [] insn # Bubble /\ flow = "untaken" ->
             [pc |-> arch.npc, npc |-> arch.npc + 1, from |-> insn, slot |-> TRUE, ra |-> ra]
        [] insn # Bubble /\ flow = "annul" ->
             [pc |-> arch.npc + 1, npc |-> arch.npc + 2, from |-> insn, slot |-> FALSE,
              ra |-> ra]
        [] insn # Bubble /\ flow = "return" -> ArchAt(to, ra)

-----------------------------------------------------------------------------
(* The instruction cache: the line each set holds. *)
Line(addr) == addr \div LineWords

SetOf(addr) == Line(addr) % NumSets

ICacheProbe(s, addr) == s.icache[SetOf(addr)] = Line(addr)

ICacheSet(s, addr, line) == [s EXCEPT !.icache[SetOf(addr)] = line]

ICacheFill(s, vaddr, paddr) == ICacheSet(s, vaddr, Line(paddr))

-----------------------------------------------------------------------------
(* The fault manager.  A fault that is not further down the pipeline than  *)
(* the one queued is dropped; only a busy loop gives way to any exception. *)

(* Mutant: a busy loop is no exemption from the order of faults. *)
QueueExceptionInOrder(s, fault, faultingPC, afterBranch, data, index) ==
  IF index <= s.fm.excpIndex
  THEN s
  ELSE [s EXCEPT !.fm = [@ EXCEPT !.pc = faultingPC, !.afterBranch = afterBranch,
                                  !.excpData = data, !.excpIndex = index,
                                  !.excp = fault, !.faulting = TRUE]]

QueueException(s, fault, faultingPC, afterBranch, data, index) ==
  IF index <= s.fm.excpIndex /\ s.fm.excpIndex # FASTFORWARD
  THEN s
  ELSE [s EXCEPT !.fm = [@ EXCEPT !.pc          = faultingPC,
                                  !.afterBranch = afterBranch,
                                  !.excpData    = data,
                                  !.excpIndex   = index,
                                  !.excp        = fault,
                                  !.faulting    = TRUE]]

QueueInterlock(s, fault, data, index) ==
  IF index <= s.fm.ilIndex
  THEN s
  ELSE [s EXCEPT !.fm = [@ EXCEPT !.ilData   = data,
                                  !.ilIndex  = index,
                                  !.il       = fault,
                                  !.faulting = TRUE,
                                  !.stalls   = StallCycles]]

(* Mutant: an interrupt does not look at whether RF holds a delay slot. *)
InterruptIgnoresSlot(s) ==
  IF s.cp0.ip /\ s.cp0.raise
  THEN QueueException(s, "INTR", s.icrf.pc, FALSE, 0, START_RF)
  ELSE s

CheckForPendingInterrupts(s) ==
  IF s.cp0.ip /\ s.cp0.raise
  THEN QueueException(s, "INTR", s.icrf.pc, IsBranch(s.rfex.insn), 0, START_RF)
  ELSE s

(* The IC/RF latch as the interlock found it, to be restored after it. *)
SaveFetch(s) == [s EXCEPT !.saved = s.icrf]

(* FPUCheckUsable, the part that queues the exception. *)
CoprocessorUnusable(s) ==
  QueueException([s EXCEPT !.exdc.insn = Bubble],
                 "CPU", s.rfex.pc, s.exdc.branch, 1, START_DC)

-----------------------------------------------------------------------------
(* The stages. *)

(* The value of RA, with the result that is in DC/WB. *)
RAWith(s) == IF Links(s.dcwb.insn) THEN s.dcwb.link ELSE s.ra

(* WBStage: the instruction in DC/WB writes its register. *)
WB(s) ==
  [s EXCEPT !.arch = Retire(@, s.dcwb.insn, s.dcwb.flow, s.dcwb.to), !.ra = RAWith(s)]

(* DCStage: the memory function runs at most once, result moves to DC/WB. *)
Deliver(s) ==
  [s EXCEPT !.dcwb = [insn |-> s.exdc.insn, flow |-> s.exdc.flow, to |-> s.exdc.to,
                      link |-> s.exdc.link]]

(* Mutant: the memory function is not cleared once it has run. *)
DCRunsAgain(s) == Deliver(s)

DC(s) == [Deliver(s) EXCEPT !.exdc.mem = FALSE]

Complete(s, flow, to) ==
  [s EXCEPT !.exdc = [@ EXCEPT !.insn = s.rfex.insn, !.flow = flow, !.to = to, !.link = 0]]

(* The IC/RF latch holds the PC before the one that IC looks up next, for  *)
(* RF adds one; a mask of 0 turns the word it fetches into a bubble.       *)
Redirect(s, pc) == [s EXCEPT !.icrf.pc = pc - 1]

MaskFetch(s) == [s EXCEPT !.icrf.live = FALSE]

SetCP0(s, cp0) == [s EXCEPT !.cp0 = cp0]

Raise(status) == status.ie /\ ~status.exl /\ ~status.erl

(* The busy-loop test that BEQ and J make before they jump. *)
DetectBusyLoop(s, self) ==
  IF self /\ s.fm.excpIndex = NORMAL
  THEN [s EXCEPT !.fm = [@ EXCEPT !.excpIndex = FASTFORWARD, !.faulting = TRUE]]
  ELSE s

(* A branch that is taken moves the PC the latch holds by an offset that   *)
(* is relative to its delay slot; a jump replaces it.                      *)
BranchBy(s, target) ==
  LET offset == target - (s.rfex.insn + 1)
  IN  Redirect(Complete(s, "taken", target), s.icrf.pc + offset)

JumpTo(s, target) == Redirect(Complete(s, "taken", target), target)

(* Mutant: a likely branch that is not taken does not annul its slot. *)
BranchKeepsSlot(s, target, likely, c) ==
  CASE c.taken ->
         BranchBy(DetectBusyLoop(s, target = s.rfex.insn /\ c.zero /\ ~likely), target)
    [] ~c.taken /\ likely  -> Complete(s, "annul", 0)
    [] ~c.taken /\ ~likely -> Complete(s, "untaken", 0)

(* Branch instructions: c.taken is the comparison of rs and rt, c.zero     *)
(* says that rs holds 0.                                                   *)
Branch(s, target, likely, c) ==
  CASE c.taken ->
         BranchBy(DetectBusyLoop(s, target = s.rfex.insn /\ c.zero /\ ~likely), target)
    [] ~c.taken /\ likely  -> MaskFetch(Complete(s, "annul", 0))
    [] ~c.taken /\ ~likely -> Complete(s, "untaken", 0)

(* Mutant: the link is to the delay slot. *)
LinkToSlot(s, t) == [t EXCEPT !.exdc.link = s.icrf.pc]

(* The result of an instruction that links, as the latch was before it     *)
(* jumped.                                                                 *)
Link(s, t) == [t EXCEPT !.exdc.link = s.icrf.pc + 1]

(* BGEZAL and the like link whether they branch or not, and have no        *)
(* busy-loop test.                                                         *)
BranchAndLink(s, target, likely, c) ==
  Link(s, Branch(s, target, likely, [c EXCEPT !.zero = FALSE]))

JAL(s, target) == Link(s, JumpTo(s, target))

(* RA is read with DC/WB's result forwarded. *)
JRToRA(s) == JumpTo(s, RAWith(s))

BC1(s, target, likely, c) ==
  IF s.cp0.cu1 THEN Branch(s, target, likely, [c EXCEPT !.zero = FALSE])
               ELSE CoprocessorUnusable(s)

J(s, target) == JumpTo(DetectBusyLoop(s, s.icrf.pc - 1 = target), target)

(* Mutant: interrupts are let through by IE alone. *)
MTC0StatusByIE(s, status) ==
  SetCP0(Complete(s, "next", 0),
         [s.cp0 EXCEPT !.ie = status.ie, !.exl = status.exl, !.erl = status.erl,
                       !.bev = status.bev, !.cu1 = status.cu1, !.raise = status.ie])

MTC0Status(s, status) ==
  SetCP0(Complete(s, "next", 0),
         [s.cp0 EXCEPT !.ie = status.ie, !.exl = status.exl, !.erl = status.erl,
                       !.bev = status.bev, !.cu1 = status.cu1, !.raise = Raise(status)])

MTC0Compare(s) == SetCP0(Complete(s, "next", 0), [s.cp0 EXCEPT !.ip = FALSE])

(* Mutant: returning from an exception leaves interruptRaiseMask alone. *)
ERETKeepsMask(s) ==
  LET back == IF s.cp0.erl THEN s.cp0.errorEPC ELSE s.cp0.epc
      cp0  == IF s.cp0.erl THEN [s.cp0 EXCEPT !.erl = FALSE]
                           ELSE [s.cp0 EXCEPT !.exl = FALSE]
  IN  SetCP0(MaskFetch(Redirect(Complete(s, "return", back), back)), cp0)

ERET(s) ==
  LET back == IF s.cp0.erl THEN s.cp0.errorEPC ELSE s.cp0.epc
      cp0  == IF s.cp0.erl THEN [s.cp0 EXCEPT !.erl = FALSE]
                           ELSE [s.cp0 EXCEPT !.exl = FALSE]
  IN  SetCP0(MaskFetch(Redirect(Complete(s, "return", back), back)),
             [cp0 EXCEPT !.raise = Raise(cp0)])

(* CACHE on the instruction cache. *)
CACHE(s, op, addr) ==
  LET t == Complete(s, "next", 0)
  IN  CASE op = "index" -> ICacheSet(t, addr, NoLine)
        [] op = "hit"   -> IF ICacheProbe(t, addr) THEN ICacheSet(t, addr, NoLine) ELSE t
        [] op = "fill"  -> QueueInterlock(SaveFetch(t), "COP", addr, RESUME_RF)

(* VR4300FunctionTable *)
Dispatch(s, insn, c) ==
  CASE insn.op = "alu"     -> Complete(s, "next", 0)
    [] insn.op = "mem"     -> [Complete(s, "next", 0) EXCEPT !.exdc.mem = TRUE]
    [] insn.op = "branch"  -> Branch(s, insn.target, FALSE, c)
    [] insn.op = "likely"  -> Branch(s, insn.target, TRUE, c)
    [] insn.op = "j"       -> J(s, insn.target)
    [] insn.op = "jr"      -> JumpTo(s, insn.target)
    [] insn.op = "jal"     -> JAL(s, insn.target)
    [] insn.op = "ret"     -> JRToRA(s)
    [] insn.op = "bal"     -> BranchAndLink(s, insn.target, FALSE, c)
    [] insn.op = "ball"    -> BranchAndLink(s, insn.target, TRUE, c)
    [] insn.op = "bc1"     -> BC1(s, insn.target, FALSE, c)
    [] insn.op = "bc1l"    -> BC1(s, insn.target, TRUE, c)
    [] insn.op = "cp1"     -> IF s.cp0.cu1 THEN Complete(s, "next", 0)
                                           ELSE CoprocessorUnusable(s)
    [] insn.op = "status"  -> MTC0Status(s, insn.status)
    [] insn.op = "compare" -> MTC0Compare(s)
    [] insn.op = "eret"    -> ERET(s)
    [] insn.op \in {"fill", "index", "hit"} -> CACHE(s, insn.op, insn.target)

(* What EX finds in the registers; the states EXStage may leave behind. *)
Choices == [taken: BOOLEAN, zero: BOOLEAN]

Execute(s, c) ==
  LET insn == s.rfex.insn
      t    == IF insn = Bubble THEN Complete(s, "next", 0)
                               ELSE Dispatch(s, Program[insn], c)
  IN  [t EXCEPT !.exdc.branch = IsBranch(insn)]

(* t is s, so that TLC computes it once. *)
EX(s) == {Execute(t, c) : t \in {s}, c \in Choices}

(* RFStage: fetch the word the IC/RF latch addresses, or interlock. *)
Fetch(s) ==
  [s EXCEPT !.rfex = [pc   |-> s.icrf.pc,
                      insn |-> IF s.icrf.live THEN s.icrf.addr ELSE Bubble]]

RF(s) ==
  IF s.icrf.addr \in CachedAddr /\ ~ICacheProbe(s, s.icrf.addr)
  THEN QueueInterlock(SaveFetch(s), "ICB", s.icrf.addr, RESUME_RF)
  ELSE [Fetch(s) EXCEPT !.icrf = [@ EXCEPT !.pc = s.icrf.pc + 1, !.live = TRUE]]

(* ICStage: address the next word; a PC in no region leaves the latch alone. *)
IC(s) == IF s.icrf.pc \in CodeAddr THEN [s EXCEPT !.icrf.addr = s.icrf.pc] ELSE s

-----------------------------------------------------------------------------
(* Fault handlers. *)

(* Control leaves the program order for an exception vector. *)
Enter(s, vector) == [Redirect(s, vector) EXCEPT !.arch = ArchAt(vector, s.arch.ra)]

(* Mutant: EPC points at the delay slot, not at its branch. *)
HandlerIgnoresSlot(s) ==
  LET vector == IF s.cp0.bev THEN BevVector ELSE Vector
      cp0    == IF s.cp0.exl THEN s.cp0
                ELSE [s.cp0 EXCEPT !.epc = s.fm.pc, !.bd = s.fm.afterBranch]
  IN  Enter(SetCP0(s, [cp0 EXCEPT !.raise = FALSE, !.exl = TRUE]), vector)

CommonExceptionHandler(s) ==
  LET vector == IF s.cp0.bev THEN BevVector ELSE Vector
      epc    == IF s.fm.afterBranch THEN s.fm.pc - 1 ELSE s.fm.pc
      cp0    == IF s.cp0.exl THEN s.cp0
                ELSE [s.cp0 EXCEPT !.epc = epc, !.bd = s.fm.afterBranch]
  IN  Enter(SetCP0(s, [cp0 EXCEPT !.raise = FALSE, !.exl = TRUE]), vector)

FaultRST(s) ==
  LET cp0 == IF s.fm.excpData = 0 THEN [s.cp0 EXCEPT !.erl = TRUE, !.bev = TRUE]
                                  ELSE s.cp0
  IN  Enter(SetCP0(s, cp0), ResetVector)

(* Mutant: the instruction that waits for EX survives the flush. *)
FlushKeepsRFEX(s) ==
  [s EXCEPT !.dcwb = [@ EXCEPT !.insn = Bubble],
            !.exdc = [@ EXCEPT !.insn = Bubble, !.branch = FALSE],
            !.icrf = [@ EXCEPT !.live = FALSE]]

Flush(s) ==
  [s EXCEPT !.dcwb = [@ EXCEPT !.insn = Bubble],
            !.exdc = [@ EXCEPT !.insn = Bubble, !.branch = FALSE],
            !.rfex = [@ EXCEPT !.insn = Bubble],
            !.icrf = [@ EXCEPT !.live = FALSE]]

HandleExceptions(s) ==
  LET handled == IF s.fm.excp = "RST" THEN FaultRST(Flush(s))
                                      ELSE CommonExceptionHandler(Flush(s))
  IN  [handled EXCEPT !.fm = [@ EXCEPT !.excpIndex = NORMAL, !.ilIndex = NORMAL,
                                       !.excp = "INV", !.il = "INV",
                                       !.faulting = FALSE]]

(* Mutants: the refill leaves the latch as IC and EX left it, fills the    *)
(* set of the address IC looked up since, or fills nothing.                *)
RefillWithoutRestore(s) == ICacheFill(s, s.saved.addr, s.fm.ilData)

RefillWrongSet(s) == [ICacheFill(s, s.icrf.addr, s.fm.ilData) EXCEPT !.icrf = s.saved]

RefillNothing(s) == [s EXCEPT !.icrf = s.saved]

FaultICB(s) == [ICacheFill(s, s.saved.addr, s.fm.ilData) EXCEPT !.icrf = s.saved]

FaultCOP(s) == [ICacheFill(s, s.fm.ilData, s.fm.ilData) EXCEPT !.icrf = s.saved]

(* Mutants: the interlock takes a queued exception with it, or stays. *)
InterlockDropsException(s) ==
  LET handled == IF s.fm.il = "ICB" THEN FaultICB(s) ELSE FaultCOP(s)
  IN  [handled EXCEPT !.fm = [@ EXCEPT !.faulting = FALSE,
                                       !.ilIndex = NORMAL, !.il = "INV"]]

InterlockStays(s) ==
  LET handled == IF s.fm.il = "ICB" THEN FaultICB(s) ELSE FaultCOP(s)
  IN  [handled EXCEPT !.fm = [@ EXCEPT !.faulting = s.fm.excpIndex # NORMAL,
                                       !.il = "INV"]]

HandleInterlocks(s) ==
  LET handled == IF s.fm.il = "ICB" THEN FaultICB(s) ELSE FaultCOP(s)
  IN  [handled EXCEPT !.fm = [@ EXCEPT !.faulting = s.fm.excpIndex # NORMAL,
                                       !.ilIndex = NORMAL, !.il = "INV"]]

-----------------------------------------------------------------------------
(***************************************************************************)
(* Cycles.  tick says that Count meets Compare, or a device raises its     *)
(* line, in this cycle.                                                    *)
(***************************************************************************)
IncrementCycleCounters(s, tick) == [s EXCEPT !.cp0.ip = @ \/ tick]

EndCycle(s) ==
  /\ \E tick \in BOOLEAN : cpu' = IncrementCycleCounters(s, tick)
  /\ UNCHANGED resets

NormalCycle ==
  /\ ~cpu.fm.faulting
  /\ \E x \in EX(DC(WB(cpu))) :
       LET s == IC(RF(x))
       IN  EndCycle(IF s.fm.faulting THEN s ELSE CheckForPendingInterrupts(s))

StallCycle ==
  /\ cpu.fm.faulting
  /\ cpu.fm.stalls > 0
  /\ EndCycle([cpu EXCEPT !.fm.stalls = @ - 1])

(* Mutant: exceptions go first. *)
EntryPrefersException(s) == IF s.fm.excpIndex # NORMAL THEN s.fm.excpIndex ELSE s.fm.ilIndex

(* The entry of CycleVR4300Short that a cycle runs once it has stalled. *)
Entry(s) == IF s.fm.ilIndex > s.fm.excpIndex THEN s.fm.ilIndex ELSE s.fm.excpIndex

Runs(index) == cpu.fm.faulting /\ cpu.fm.stalls = 0 /\ Entry(cpu) = index

(* Mutant: a stage of the pipeline is skipped when it drains. *)
AdvanceTwice(s) == [s EXCEPT !.fm.excpIndex = @ + 2]

Advance(s) == [s EXCEPT !.fm.excpIndex = @ + 1]

StartRF ==
  /\ Runs(START_RF)
  /\ \E x \in EX(DC(WB(Advance(cpu)))) : EndCycle(RF(x))

StartEX ==
  /\ Runs(START_EX)
  /\ \E x \in EX(DC(WB(Advance(cpu)))) : EndCycle(x)

StartDC ==
  /\ Runs(START_DC)
  /\ EndCycle(DC(WB(Advance(cpu))))

RunHandler ==
  /\ Runs(HANDLE)
  /\ EndCycle(HandleExceptions(cpu))

ResumeRF ==
  /\ Runs(RESUME_RF)
  /\ EndCycle(IC(RF(HandleInterlocks(cpu))))

FastForward ==
  /\ Runs(FASTFORWARD)
  /\ EndCycle(CheckForPendingInterrupts(cpu))

CycleVR4300 ==
  \/ NormalCycle
  \/ StallCycle
  \/ StartRF
  \/ StartEX
  \/ StartDC
  \/ RunHandler
  \/ ResumeRF
  \/ FastForward

(* A reset requested between two cycles by the machine the CPU sits in. *)
RequestReset(data) ==
  /\ resets < MaxResets
  /\ resets' = resets + 1
  /\ cpu' = QueueException(cpu, "RST", 0, FALSE, data, START_RF)

PerformHardReset == RequestReset(0)

PerformSoftReset == RequestReset(1)

(* InitVR4300: everything is zeroed and a hard reset is queued. *)
PoweredOn ==
  [icrf  |-> [pc |-> 0, addr |-> 0, live |-> FALSE],
   saved |-> [pc |-> 0, addr |-> 0, live |-> FALSE],
   rfex  |-> [pc |-> 0, insn |-> Bubble],
   exdc  |-> [insn |-> Bubble, flow |-> "next", to |-> 0, link |-> 0, branch |-> FALSE,
              mem |-> FALSE],
   dcwb  |-> [insn |-> Bubble, flow |-> "next", to |-> 0, link |-> 0],
   ra    |-> 0,
   fm    |-> [excp |-> "INV", il |-> "INV", excpIndex |-> NORMAL, ilIndex |-> NORMAL,
              faulting |-> FALSE, pc |-> 0, afterBranch |-> FALSE,
              excpData |-> 0, ilData |-> 0, stalls |-> 0],
   icache |-> [i \in 0 .. NumSets - 1 |-> NoLine],
   cp0   |-> [ie |-> FALSE, exl |-> FALSE, erl |-> FALSE, bev |-> FALSE, cu1 |-> FALSE,
              raise |-> FALSE, ip |-> FALSE, epc |-> 0, bd |-> FALSE, errorEPC |-> 0],
   arch  |-> ArchAt(0, 0)]

Init ==
  /\ cpu = QueueException(PoweredOn, "RST", 0, FALSE, 0, START_RF)
  /\ resets = 0

Next ==
  \/ CycleVR4300
  \/ PerformHardReset
  \/ PerformSoftReset

Spec == Init /\ [][Next]_vars

(* The simulation loop of the machine calls CycleVR4300 for ever. *)
FairSpec == Spec /\ WF_vars(CycleVR4300)

-----------------------------------------------------------------------------
(***************************************************************************)
(* Properties.                                                             *)
(***************************************************************************)
Indices == {NORMAL, START_RF, START_EX, START_DC, HANDLE, FASTFORWARD}

ICRF == [pc: Int, addr: CodeAddr, live: BOOLEAN]

Words == CodeAddr \cup {Bubble}

RFEX == [pc: Int, insn: Words]

EXDC == [insn: Words, flow: Flows, to: Int, link: Int, branch: BOOLEAN, mem: BOOLEAN]

DCWB == [insn: Words, flow: Flows, to: Int, link: Int]

FaultManager ==
  [excp: {"INV", "RST", "INTR", "CPU"}, il: {"INV", "ICB", "COP"},
   excpIndex: Indices, ilIndex: {NORMAL, RESUME_RF}, faulting: BOOLEAN,
   pc: Int, afterBranch: BOOLEAN, excpData: {0, 1}, ilData: CodeAddr,
   stalls: 0 .. StallCycles]

CP0 == [ie: BOOLEAN, exl: BOOLEAN, erl: BOOLEAN, bev: BOOLEAN, cu1: BOOLEAN,
        raise: BOOLEAN, ip: BOOLEAN, epc: Int, bd: BOOLEAN, errorEPC: Int]

Arch == [pc: Int, npc: Int, from: Words, slot: BOOLEAN, ra: Int]

Machine ==
  [icrf: ICRF, saved: ICRF, rfex: RFEX, exdc: EXDC, dcwb: DCWB, ra: Int, fm: FaultManager,
   icache: [0 .. NumSets - 1 -> Int], cp0: CP0, arch: Arch]

(* Every latch, index and register holds a value of its type; in           *)
(* particular the fault indices are entries of CycleVR4300Short.           *)
TypeOK == cpu \in Machine /\ resets \in 0 .. MaxResets

(* The flag that diverts a cycle from the pipeline to the fault manager is *)
(* up exactly while a fault is queued, so that no queued fault is skipped  *)
(* and no cycle is spent on none.                                          *)
FaultingIffQueued ==
  cpu.fm.faulting <=> cpu.fm.excpIndex # NORMAL \/ cpu.fm.ilIndex # NORMAL

(* FaultHandlerTable is never entered at INV, whose handler asserts:       *)
(* a queued index always comes with the fault that queued it.              *)
NoInvalidFault ==
  /\ cpu.fm.excpIndex \in START_RF .. HANDLE => cpu.fm.excp # "INV"
  /\ cpu.fm.ilIndex # NORMAL <=> cpu.fm.il # "INV"

(* When the exception handler flushes the pipeline no interlock is still   *)
(* waiting, and the pipeline stalls only on behalf of an interlock:        *)
(* HandleExceptions drops ilIndex, and with it a refill, but never finds   *)
(* one.                                                                    *)
FlushLosesNoInterlock ==
  /\ cpu.fm.excpIndex = HANDLE => cpu.fm.ilIndex = NORMAL
  /\ cpu.fm.stalls > 0 => cpu.fm.ilIndex # NORMAL

(* When the exception handler runs, no memory function is left in EX/DC:   *)
(* HandleExceptions clears the results of the flushed instructions but not *)
(* exdc.memoryData.function, which would run in the first cycle of the     *)
(* exception vector.                                                       *)
NoOrphanAccess == cpu.fm.excpIndex = HANDLE => ~cpu.exdc.mem

(***************************************************************************)
(* What ProgramOrder and PreciseEPC ask of a program.  The first three are *)
(* about its text.  A branch does not stand in the slot of another: EX     *)
(* moves the PC of the IC/RF latch by an offset from its own slot.         *)
(***************************************************************************)
SlotsHoldNoBranch ==
  \A a \in CodeAddr : IsBranch(a) /\ a + 1 \in CodeAddr => ~IsBranch(a + 1)

(* Nor does an instruction that the floating point unit can refuse:        *)
(* FPUCheckUsable reports the PC that RF had, which is the branch's target.*)
SlotsHoldNoFloat ==
  \A a \in CodeAddr : IsBranch(a) /\ a + 1 \in CodeAddr => Program[a + 1].op # "cp1"

(* A loop that is fast-forwarded has its slot in its own line, so that the *)
(* fetch of the slot does not miss in the cycle that detects the loop.     *)
BusyLoopsInLine ==
  \A a \in CodeAddr :
    (Program[a].op \in {"branch", "j"} /\ Program[a].target = a /\ a + 1 \in CachedAddr)
      => (a \in CachedAddr /\ Line(a) = Line(a + 1))

(* The other two are about its runs.  The PC that IC looks up while the    *)
(* pipeline runs is in a region.                                           *)
FetchesInRegions ==
  (/\ cpu.fm.excpIndex \in {NORMAL, START_RF, FASTFORWARD} /\ cpu.fm.ilIndex = NORMAL
   /\ cpu.icrf.live)
    => cpu.icrf.pc \in CodeAddr

IsERET(insn) == insn # Bubble /\ Program[insn].op = "eret"

(* An ERET waits for EX with interrupts masked: an interrupt that met it   *)
(* there would be given the PC behind it, which is not where it returns to.*)
ReturnsMasked ==
  (/\ cpu.fm.excpIndex \in {NORMAL, START_RF} /\ cpu.fm.ilIndex = NORMAL
   /\ IsERET(cpu.rfex.insn))
    => ~cpu.cp0.raise

(* The software of the runs keeps to both, resets at any time included: it *)
(* never leaves its regions, and interruptRaiseMask is down whenever one   *)
(* of its handlers returns, though MTC0 has written Status before.         *)
WellBehaved == FetchesInRegions /\ ReturnsMasked

(* Instructions write back in program order, each once: no instruction is  *)
(* lost or repeated by a refill, a CACHE fill, an annulled slot, an        *)
(* exception, a return from one or a reset; and a subroutine returns       *)
(* behind the delay slot of its call, wherever the call found the PC of    *)
(* the IC/RF latch.                                                        *)
ProgramOrder == cpu.dcwb.insn \in {Bubble, cpu.arch.pc}

(* interruptRaiseMask is a copy of three Status bits, kept by hand at each *)
(* place that writes one: interrupts are let through exactly when Status   *)
(* says so.                                                                *)
RaiseMaskTracksStatus == cpu.cp0.raise <=> Raise(cpu.cp0)

(* Where ERET will resume after an exception taken with EXL clear: at the  *)
(* branch that just wrote back, to redo it and its delay slot, or at the   *)
(* next instruction, when that is no delay slot.                           *)
Resumes(epc, bd) ==
  \/ bd /\ epc = cpu.arch.from
  \/ ~bd /\ ~cpu.arch.slot /\ epc = cpu.arch.pc

(* EPC and the BD bit make the program resume at the first instruction the *)
(* exception aborted.                                                      *)
PreciseEPC ==
  [][RunHandler /\ cpu.fm.excp # "RST" /\ ~cpu.cp0.exl
       => Resumes(cpu'.cp0.epc, cpu'.cp0.bd)]_vars

(* A fetch that missed hits once its line is filled: resuming after ICB    *)
(* never interlocks again, whatever IC and EX did to the latch meanwhile.  *)
RefillSatisfiesFetch ==
  [][ResumeRF /\ cpu.fm.il = "ICB" => cpu'.fm.ilIndex = NORMAL]_vars

(* The pipeline always gets back to running, or idles in a busy loop. *)
PipelineRuns == []<>(~cpu.fm.faulting \/ cpu.fm.excpIndex = FASTFORWARD)

(* A pending interrupt that Status lets through is taken, unless the       *)
(* program withdraws it or masks it first.                                 *)
InterruptTaken ==
  (cpu.cp0.ip /\ cpu.cp0.raise) ~> (~cpu.cp0.ip \/ ~cpu.cp0.raise)
=============================================================================
