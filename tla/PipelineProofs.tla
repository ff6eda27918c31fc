--------------------------- MODULE PipelineProofs ---------------------------
(***************************************************************************)
(* Proofs about the pipeline, for every program, cache, vector and number  *)
(* of resets: the fault manager is consistent, refills resume their        *)
(* fetches, the interrupt mask follows Status, instructions write back in  *)
(* program order and exceptions are precise.  Where a program has to meet  *)
(* a condition, the theorem says so.                                       *)
(*                                                                         *)
(* The operators of Pipeline are compositions of updates of one latch, so  *)
(* there is one lemma for each: it keeps the type of the machine and, when *)
(* it is no fault routine, leaves the fault manager alone.  Sound is what  *)
(* every stage preserves; the invariant IInv is Sound except in the one    *)
(* state in which the exception handler is about to run.  OInv ties the    *)
(* latches of the front end to the program behind the instructions in      *)
(* flight, and PInv what a queued exception points at.                     *)
(***************************************************************************)
EXTENDS Pipeline, TLAPS

-----------------------------------------------------------------------------
(* Types. *)

(* Instruction words, bubbles included, are integers. *)
LEMMA WordsAreIntegers == ASSUME NEW w \in Words PROVE w \in Int
  <1>1. CodeAddr \subseteq Int
    BY AddressAssumption
  <1>2. Bubble \in Int
    BY DEF Bubble
  <1> QED BY <1>1, <1>2 DEF Words

(* A line number is an integer, as LineWords is positive. *)
LEMMA LineType == ASSUME NEW a \in Nat PROVE Line(a) \in Int
  BY CacheAssumption DEF Line

(* Changing a line of the instruction cache. *)
LEMMA ICacheSetType ==
  ASSUME NEW s \in Machine, NEW a, NEW l \in Int
  PROVE  ICacheSet(s, a, l) \in Machine /\ ICacheSet(s, a, l).fm = s.fm
  BY DEF Machine, ICacheSet

(* QueueException stores any fault, PC and index of their types. *)
LEMMA QueueExceptionType ==
  ASSUME NEW s \in Machine, NEW f \in {"INV", "RST", "INTR", "CPU"},
         NEW pc \in Int, NEW b \in BOOLEAN, NEW d \in {0, 1}, NEW i \in Indices
  PROVE  QueueException(s, f, pc, b, d, i) \in Machine
  <1> DEFINE fm == [s.fm EXCEPT !.pc = pc, !.afterBranch = b, !.excpData = d,
                                !.excpIndex = i, !.excp = f, !.faulting = TRUE]
  <1>1. fm \in FaultManager
    BY DEF Machine, FaultManager
  <1>2. [s EXCEPT !.fm = fm] \in Machine
    <2> HIDE DEF fm
    <2> QED BY <1>1 DEF Machine
  <1> QED BY <1>2 DEF QueueException

(* QueueInterlock stores any interlock, address and index of their types. *)
LEMMA QueueInterlockType ==
  ASSUME NEW s \in Machine, NEW f \in {"INV", "ICB", "COP"},
         NEW d \in CodeAddr, NEW i \in {NORMAL, RESUME_RF}
  PROVE  QueueInterlock(s, f, d, i) \in Machine
  <1> DEFINE fm == [s.fm EXCEPT !.ilData = d, !.ilIndex = i, !.il = f,
                                !.faulting = TRUE, !.stalls = StallCycles]
  <1>1. fm \in FaultManager
    <2>1. StallCycles \in 0 .. StallCycles
      BY BoundAssumption
    <2>2. s.fm \in FaultManager
      BY DEF Machine
    <2> QED BY <2>1, <2>2 DEF FaultManager
  <1>2. [s EXCEPT !.fm = fm] \in Machine
    <2> HIDE DEF fm
    <2> QED BY <1>1 DEF Machine
  <1> QED BY <1>2 DEF QueueInterlock

(* The stages and the updates they are built from: one latch changes, the  *)
(* fault manager does not.  WB first: the program order it follows.        *)
LEMMA RetireType ==
  ASSUME NEW a \in Arch, NEW w \in Words, NEW f \in Flows, NEW to \in Int
  PROVE  Retire(a, w, f, to) \in Arch
  <1>1. LinkedBy(a, w) \in Int /\ GoesTo(a, w, to) \in Int
    BY DEF Arch, LinkedBy, GoesTo
  <1>2. Bubble \in Words
    BY DEF Words
  <1>3. a.npc \in Int
    BY DEF Arch
  <1> QED BY <1>1, <1>2, <1>3 DEF Arch, Retire, ArchAt, Flows

(* RA, with what is in DC/WB. *)
LEMMA RAType == ASSUME NEW s \in Machine PROVE RAWith(s) \in Int
  BY DEF Machine, DCWB, RAWith

LEMMA WBType == ASSUME NEW s \in Machine PROVE WB(s) \in Machine /\ WB(s).fm = s.fm
  <1> DEFINE arch == Retire(s.arch, s.dcwb.insn, s.dcwb.flow, s.dcwb.to)
             ra   == RAWith(s)
  <1>1. arch \in Arch
    BY RetireType DEF Machine, DCWB
  <1>2. ra \in Int
    BY RAType
  <1>3. WB(s) = [s EXCEPT !.arch = arch, !.ra = ra]
    BY DEF WB
  <1> HIDE DEF arch, ra
  <1>4. [s EXCEPT !.arch = arch, !.ra = ra] \in Machine
    BY <1>1, <1>2 DEF Machine
  <1>5. [s EXCEPT !.arch = arch, !.ra = ra].fm = s.fm
    BY DEF Machine
  <1> QED BY <1>3, <1>4, <1>5

(* DC, after which no memory function is left in EX/DC. *)
LEMMA DCType == ASSUME NEW s \in Machine
  PROVE DC(s) \in Machine /\ DC(s).fm = s.fm /\ ~DC(s).exdc.mem
  <1>1. Deliver(s) \in Machine /\ Deliver(s).fm = s.fm
    BY DEF Machine, DCWB, EXDC, Deliver
  <1> QED BY <1>1 DEF Machine, EXDC, DC

(* What EX leaves for DC. *)
LEMMA CompleteType ==
  ASSUME NEW s \in Machine, NEW f \in Flows, NEW to \in Int
  PROVE  Complete(s, f, to) \in Machine /\ Complete(s, f, to).fm = s.fm
  <1> DEFINE exdc == [s.exdc EXCEPT !.insn = s.rfex.insn, !.flow = f, !.to = to, !.link = 0]
  <1>1. s.exdc \in EXDC /\ s.rfex.insn \in Words
    BY DEF Machine, RFEX
  <1>2. exdc \in EXDC
    <2> DEFINE e == [s.exdc EXCEPT !.insn = s.rfex.insn, !.flow = f, !.to = to]
    <2>1. e \in EXDC
      BY <1>1 DEF EXDC
    <2>2. exdc = [e EXCEPT !.link = 0]
      BY <1>1 DEF EXDC
    <2> HIDE DEF e, exdc
    <2> QED BY <2>1, <2>2 DEF EXDC
  <1>3. Complete(s, f, to) = [s EXCEPT !.exdc = exdc]
    BY DEF Complete
  <1> HIDE DEF exdc
  <1> QED BY <1>2, <1>3 DEF Machine

(* The PC of the IC/RF latch. *)
LEMMA RedirectType == ASSUME NEW s \in Machine, NEW pc \in Int
  PROVE Redirect(s, pc) \in Machine /\ Redirect(s, pc).fm = s.fm
  BY DEF Machine, ICRF, Redirect

(* Its instruction word mask. *)
LEMMA MaskType == ASSUME NEW s \in Machine
  PROVE MaskFetch(s) \in Machine /\ MaskFetch(s).fm = s.fm
  BY DEF Machine, ICRF, MaskFetch

(* The copy of it that an interlock takes. *)
LEMMA SaveType == ASSUME NEW s \in Machine
  PROVE SaveFetch(s) \in Machine /\ SaveFetch(s).fm = s.fm
  BY DEF Machine, SaveFetch

(* CP0. *)
LEMMA SetCP0Type == ASSUME NEW s \in Machine, NEW c \in CP0
  PROVE SetCP0(s, c) \in Machine /\ SetCP0(s, c).fm = s.fm
  BY DEF Machine, SetCP0

(* The word RF fetches. *)
LEMMA FetchType == ASSUME NEW s \in Machine
  PROVE Fetch(s) \in Machine /\ Fetch(s).fm = s.fm
  BY DEF Machine, ICRF, RFEX, Words, Fetch

(* The address IC looks up. *)
LEMMA ICType == ASSUME NEW s \in Machine
  PROVE IC(s) \in Machine /\ IC(s).fm = s.fm
  BY DEF Machine, ICRF, IC

(* The flush of the four latches. *)
LEMMA FlushType == ASSUME NEW s \in Machine
  PROVE Flush(s) \in Machine /\ Flush(s).fm = s.fm
  BY DEF Machine, ICRF, RFEX, EXDC, DCWB, Words, Flush

(* The jump to a vector. *)
LEMMA EnterType == ASSUME NEW s \in Machine, NEW v \in CodeAddr
  PROVE Enter(s, v) \in Machine /\ Enter(s, v).fm = s.fm
  <1>1. v \in Int /\ ArchAt(v, s.arch.ra) \in Arch
    BY AddressAssumption DEF ArchAt, Arch, Words, Machine
  <1> QED BY <1>1, RedirectType DEF Machine, Enter

-----------------------------------------------------------------------------
(***************************************************************************)
(* What the fault manager satisfies between two stages: its flag, faults   *)
(* and indices agree, and it stalls for an interlock only.                 *)
(***************************************************************************)
Queued(fm) ==
  /\ fm.faulting <=> fm.excpIndex # NORMAL \/ fm.ilIndex # NORMAL
  /\ fm.excpIndex \in START_RF .. HANDLE => fm.excp # "INV"
  /\ fm.ilIndex # NORMAL <=> fm.il # "INV"
  /\ fm.stalls > 0 => fm.ilIndex # NORMAL

Sound(s) == s \in Machine /\ Queued(s.fm) /\ s.fm.excpIndex # HANDLE

(* EX, which interlocks for CACHE, runs when no refill waits. *)
Quiet(s) == Sound(s) /\ s.fm.il # "ICB"

USE DEF NORMAL, START_RF, START_EX, START_DC, HANDLE, RESUME_RF, FASTFORWARD

(* Queueing an exception: it is dropped, or replaces the one queued; the   *)
(* interlock is not touched, and the index is never that of the handler.   *)
LEMMA QueueExceptionSound ==
  ASSUME NEW s, Sound(s), NEW f \in {"RST", "INTR", "CPU"},
         NEW pc \in Int, NEW b \in BOOLEAN, NEW d \in {0, 1}, NEW i \in {START_RF, START_DC}
  PROVE  Sound(QueueException(s, f, pc, b, d, i))
  <1> DEFINE t == QueueException(s, f, pc, b, d, i)
  <1>1. t \in Machine
    BY QueueExceptionType DEF Sound, Indices
  <1>2. \/ t = s
        \/ /\ t.fm.excpIndex = i /\ t.fm.excp = f /\ t.fm.faulting
           /\ t.fm.ilIndex = s.fm.ilIndex /\ t.fm.il = s.fm.il /\ t.fm.stalls = s.fm.stalls
    BY DEF QueueException, Sound, Machine, FaultManager
  <1> QED BY <1>1, <1>2 DEF Sound, Queued

(* A reset, requested or at power on. *)
LEMMA ResetSound ==
  ASSUME NEW s, Sound(s), NEW data \in {0, 1}
  PROVE  Sound(QueueException(s, "RST", 0, FALSE, data, START_RF))
  <1>1. 0 \in Int /\ FALSE \in BOOLEAN /\ "RST" \in {"RST", "INTR", "CPU"}
        /\ START_RF \in {START_RF, START_DC}
    OBVIOUS
  <1> QED BY <1>1, QueueExceptionSound

(* Queueing an interlock: it is dropped, or queued with its stall. *)
LEMMA QueueInterlockSound ==
  ASSUME NEW s, Sound(s), NEW f \in {"ICB", "COP"},
         NEW d \in CodeAddr
  PROVE  Sound(QueueInterlock(s, f, d, RESUME_RF))
  <1> DEFINE t == QueueInterlock(s, f, d, RESUME_RF)
  <1>1. t \in Machine
    BY QueueInterlockType DEF Sound
  <1>2. \/ t = s
        \/ /\ t.fm.ilIndex = RESUME_RF /\ t.fm.il = f /\ t.fm.faulting
           /\ t.fm.excpIndex = s.fm.excpIndex /\ t.fm.excp = s.fm.excp
    BY DEF QueueInterlock, Sound, Machine, FaultManager
  <1> QED BY <1>1, <1>2 DEF Sound, Queued

(* The same without a refill. *)
LEMMA QueueExceptionQuiet ==
  ASSUME NEW s, Quiet(s), NEW f \in {"RST", "INTR", "CPU"},
         NEW pc \in Int, NEW b \in BOOLEAN, NEW d \in {0, 1}, NEW i \in {START_RF, START_DC}
  PROVE  Quiet(QueueException(s, f, pc, b, d, i))
  <1>1. QueueException(s, f, pc, b, d, i).fm.il = s.fm.il
    BY DEF QueueException, Quiet, Sound, Machine, FaultManager
  <1> QED BY <1>1, QueueExceptionSound DEF Quiet

LEMMA QueueInterlockQuiet ==
  ASSUME NEW s, Quiet(s), NEW d \in CodeAddr
  PROVE  Quiet(QueueInterlock(s, "COP", d, RESUME_RF))
  <1>1. QueueInterlock(s, "COP", d, RESUME_RF).fm.il \in {s.fm.il, "COP"}
    BY DEF QueueInterlock, Quiet, Sound, Machine, FaultManager
  <1> QED BY <1>1, QueueInterlockSound DEF Quiet

(* A step that leaves the fault manager alone. *)
LEMMA CalmSound ==
  ASSUME NEW s, Sound(s), NEW t \in Machine, t.fm = s.fm
  PROVE  Sound(t)
  BY DEF Sound

LEMMA CalmQuiet ==
  ASSUME NEW s, Quiet(s), NEW t \in Machine, t.fm = s.fm
  PROVE  Quiet(t)
  BY CalmSound DEF Quiet

(* A busy loop raises the flag together with its index. *)
LEMMA DetectBusyLoopSound ==
  ASSUME NEW s, Quiet(s), NEW self
  PROVE  Quiet(DetectBusyLoop(s, self))
  <1> DEFINE fm == [s.fm EXCEPT !.excpIndex = FASTFORWARD, !.faulting = TRUE]
             t  == [s EXCEPT !.fm = fm]
  <1>1. s \in Machine /\ s.fm \in FaultManager
    BY DEF Quiet, Sound, Machine
  <1>2. fm \in FaultManager
    BY <1>1 DEF FaultManager, Indices
  <1>3. fm.excpIndex = FASTFORWARD /\ fm.faulting /\ fm.ilIndex = s.fm.ilIndex
        /\ fm.il = s.fm.il /\ fm.stalls = s.fm.stalls
    BY <1>1 DEF FaultManager
  <1>4. t \in Machine /\ t.fm = fm
    <2> HIDE DEF fm
    <2> QED BY <1>1, <1>2 DEF Machine
  <1>5. Quiet(t)
    <2> HIDE DEF fm, t
    <2> QED BY <1>3, <1>4 DEF Quiet, Sound, Queued
  <1> QED BY <1>5 DEF DetectBusyLoop

-----------------------------------------------------------------------------
(* The instructions. *)
LEMMA CompleteSound ==
  ASSUME NEW s, Quiet(s), NEW f \in Flows, NEW to \in Int
  PROVE  Quiet(Complete(s, f, to))
  BY CompleteType, CalmQuiet DEF Quiet, Sound

(* Jumps. *)
LEMMA JumpToSound ==
  ASSUME NEW s, Quiet(s), NEW target \in Int
  PROVE  Quiet(JumpTo(s, target))
  <1>1. Quiet(Complete(s, "taken", target))
    BY CompleteSound DEF Flows
  <1> QED BY <1>1, RedirectType, CalmQuiet DEF Quiet, Sound, JumpTo

(* The link of a call. *)
LEMMA LinkSound ==
  ASSUME NEW s, Quiet(s), NEW t, Quiet(t)
  PROVE  Quiet(Link(s, t))
  <1>1. s.icrf.pc + 1 \in Int /\ t \in Machine
    BY DEF Quiet, Sound, Machine, ICRF
  <1>2. Link(s, t) \in Machine /\ Link(s, t).fm = t.fm
    BY <1>1 DEF Machine, EXDC, Link
  <1> QED BY <1>2, CalmQuiet

(* Branches: taken, not taken, and likely. *)
LEMMA BranchSound ==
  ASSUME NEW s, Quiet(s), NEW target \in CodeAddr, NEW likely \in BOOLEAN, NEW c \in Choices
  PROVE  Quiet(Branch(s, target, likely, c))
  <1>1. target \in Int BY AddressAssumption
  <1>2. CASE c.taken
    <2> DEFINE t == DetectBusyLoop(s, target = s.rfex.insn /\ c.zero /\ ~likely)
               u == Complete(t, "taken", target)
    <2>1. Quiet(t)
      <3>1. Quiet(DetectBusyLoop(s, TRUE)) /\ Quiet(DetectBusyLoop(s, FALSE))
        BY DetectBusyLoopSound
      <3> QED BY <3>1 DEF DetectBusyLoop
    <2> HIDE DEF t
    <2>2. Quiet(u)
      BY <1>1, <2>1, CompleteSound DEF Flows
    <2>3. t.icrf.pc + (target - (t.rfex.insn + 1)) \in Int
      <3>1. t.icrf.pc \in Int /\ t.rfex.insn \in Words
        BY <2>1 DEF Quiet, Sound, Machine, ICRF, RFEX
      <3>2. t.rfex.insn \in Int
        BY <3>1, WordsAreIntegers
      <3> QED BY <1>1, <3>1, <3>2
    <2>4. Quiet(BranchBy(t, target))
      BY <2>2, <2>3, RedirectType, CalmQuiet DEF Quiet, Sound, BranchBy
    <2> QED BY <1>2, <2>4 DEF Branch, t
  <1>3. CASE ~c.taken
    <2>1. Quiet(Complete(s, "annul", 0)) /\ Quiet(Complete(s, "untaken", 0))
      BY CompleteSound DEF Flows
    <2>2. Quiet(MaskFetch(Complete(s, "annul", 0)))
      BY <2>1, MaskType, CalmQuiet DEF Quiet, Sound
    <2> QED BY <1>3, <2>1, <2>2 DEF Branch
  <1> QED BY <1>2, <1>3

(* Calls, and the return from them. *)
LEMMA CallsSound ==
  ASSUME NEW s, Quiet(s), NEW target \in CodeAddr, NEW likely \in BOOLEAN, NEW c \in Choices
  PROVE  /\ Quiet(JAL(s, target))
         /\ Quiet(BranchAndLink(s, target, likely, c))
         /\ Quiet(JRToRA(s))
  <1>1. target \in Int BY AddressAssumption
  <1>2. [c EXCEPT !.zero = FALSE] \in Choices
    BY DEF Choices
  <1>3. RAWith(s) \in Int
    BY RAType DEF Quiet, Sound
  <1>4. Quiet(JAL(s, target))
    BY <1>1, JumpToSound, LinkSound DEF JAL
  <1>5. Quiet(BranchAndLink(s, target, likely, c))
    BY <1>2, BranchSound, LinkSound DEF BranchAndLink
  <1>6. Quiet(JRToRA(s))
    BY <1>3, JumpToSound DEF JRToRA
  <1> QED BY <1>4, <1>5, <1>6

(* An unusable coprocessor kills the instruction in EX and queues CPU. *)
LEMMA CoprocessorUnusableSound ==
  ASSUME NEW s, Quiet(s)
  PROVE  Quiet(CoprocessorUnusable(s))
  <1> DEFINE t == [s EXCEPT !.exdc.insn = Bubble]
  <1>1. t \in Machine /\ t.fm = s.fm
    BY DEF Quiet, Sound, Machine, EXDC, Words
  <1>2. Quiet(t)
    BY <1>1, CalmQuiet
  <1>3. s.rfex.pc \in Int /\ s.exdc.branch \in BOOLEAN
    BY DEF Quiet, Sound, Machine, RFEX, EXDC
  <1> HIDE DEF t
  <1>4. Quiet(QueueException(t, "CPU", s.rfex.pc, s.exdc.branch, 1, START_DC))
    BY <1>2, <1>3, QueueExceptionQuiet
  <1> QED BY <1>4 DEF CoprocessorUnusable, t

(* Branches on the floating point condition. *)
LEMMA BC1Sound ==
  ASSUME NEW s, Quiet(s), NEW target \in CodeAddr, NEW likely \in BOOLEAN, NEW c \in Choices
  PROVE  Quiet(BC1(s, target, likely, c))
  <1>1. [c EXCEPT !.zero = FALSE] \in Choices
    BY DEF Choices
  <1> QED BY <1>1, BranchSound, CoprocessorUnusableSound DEF BC1

(* J, with its busy-loop test. *)
LEMMA JSound ==
  ASSUME NEW s, Quiet(s), NEW target \in CodeAddr
  PROVE  Quiet(J(s, target))
  <1>1. target \in Int BY AddressAssumption
  <1> QED BY <1>1, DetectBusyLoopSound, JumpToSound DEF J

(* Writes of Status and Compare. *)
LEMMA MTC0Sound ==
  ASSUME NEW s, Quiet(s), NEW status \in StatusBits
  PROVE  Quiet(MTC0Status(s, status)) /\ Quiet(MTC0Compare(s))
  <1>1. Quiet(Complete(s, "next", 0))
    BY CompleteSound DEF Flows
  <1>2. [s.cp0 EXCEPT !.ie = status.ie, !.exl = status.exl, !.erl = status.erl,
                      !.bev = status.bev, !.cu1 = status.cu1, !.raise = Raise(status)] \in CP0
    <2>1. s.cp0 \in CP0 /\ Raise(status) \in BOOLEAN
      BY DEF Quiet, Sound, Machine, Raise, StatusBits
    <2> QED BY <2>1 DEF CP0, StatusBits
  <1>3. [s.cp0 EXCEPT !.ip = FALSE] \in CP0
    BY DEF Quiet, Sound, Machine, CP0
  <1>4. Quiet(MTC0Status(s, status))
    BY <1>1, <1>2, SetCP0Type, CalmQuiet DEF Quiet, Sound, MTC0Status
  <1>5. Quiet(MTC0Compare(s))
    BY <1>1, <1>3, SetCP0Type, CalmQuiet DEF Quiet, Sound, MTC0Compare
  <1> QED BY <1>4, <1>5

(* Returns from exceptions. *)
LEMMA ERETSound ==
  ASSUME NEW s, Quiet(s)
  PROVE  Quiet(ERET(s))
  <1> DEFINE back == IF s.cp0.erl THEN s.cp0.errorEPC ELSE s.cp0.epc
             cp0  == IF s.cp0.erl THEN [s.cp0 EXCEPT !.erl = FALSE]
                                  ELSE [s.cp0 EXCEPT !.exl = FALSE]
             new  == [cp0 EXCEPT !.raise = Raise(cp0)]
  <1>1. s.cp0 \in CP0
    BY DEF Quiet, Sound, Machine
  <1>2. back \in Int /\ cp0 \in CP0
    BY <1>1 DEF CP0
  <1>3. new \in CP0
    <2> HIDE DEF cp0
    <2>1. Raise(cp0) \in BOOLEAN
      BY <1>2 DEF Raise, CP0
    <2> QED BY <1>2, <2>1 DEF CP0
  <1> HIDE DEF back, cp0, new
  <1>4. Quiet(Complete(s, "return", back))
    BY <1>2, CompleteSound DEF Flows
  <1>5. Quiet(Redirect(Complete(s, "return", back), back))
    BY <1>2, <1>4, RedirectType, CalmQuiet DEF Quiet, Sound
  <1>6. Quiet(MaskFetch(Redirect(Complete(s, "return", back), back)))
    BY <1>5, MaskType, CalmQuiet DEF Quiet, Sound
  <1>7. Quiet(SetCP0(MaskFetch(Redirect(Complete(s, "return", back), back)), new))
    BY <1>3, <1>6, SetCP0Type, CalmQuiet DEF Quiet, Sound
  <1> QED BY <1>7 DEF ERET, back, cp0, new

(* CACHE, whose Fill interlocks. *)
LEMMA CACHESound ==
  ASSUME NEW s, Quiet(s), NEW op \in {"fill", "index", "hit"}, NEW addr \in CodeAddr
  PROVE  Quiet(CACHE(s, op, addr))
  <1> DEFINE t == Complete(s, "next", 0)
  <1>1. Quiet(t)
    BY CompleteSound DEF Flows
  <1> HIDE DEF t
  <1>2. Quiet(ICacheSet(t, addr, NoLine))
    BY <1>1, ICacheSetType, CalmQuiet DEF Quiet, Sound, NoLine
  <1>3. Quiet(SaveFetch(t))
    BY <1>1, SaveType, CalmQuiet DEF Quiet, Sound
  <1>4. Quiet(QueueInterlock(SaveFetch(t), "COP", addr, RESUME_RF))
    BY <1>3, QueueInterlockQuiet
  <1> QED BY <1>1, <1>2, <1>4 DEF CACHE, t

(* Every instruction. *)
LEMMA DispatchSound ==
  ASSUME NEW s, Quiet(s), NEW insn \in Insns, NEW c \in Choices
  PROVE  Quiet(Dispatch(s, insn, c))
  <1>1. /\ insn.op \in Ops
        /\ insn.target \in CodeAddr
        /\ insn.status \in StatusBits
    BY DEF Insns
  <1>2. Quiet(Complete(s, "next", 0))
    BY CompleteSound DEF Flows
  <1>3. CASE insn.op \in {"alu", "cp1"}
    BY <1>2, <1>3, CoprocessorUnusableSound DEF Dispatch
  <1>4. CASE insn.op = "mem"
    <2> DEFINE t == Complete(s, "next", 0)
    <2>1. Quiet(t)
      BY <1>2
    <2> HIDE DEF t
    <2>2. [t EXCEPT !.exdc.mem = TRUE] \in Machine /\ [t EXCEPT !.exdc.mem = TRUE].fm = t.fm
      BY <2>1 DEF Quiet, Sound, Machine, EXDC
    <2>3. Quiet([t EXCEPT !.exdc.mem = TRUE])
      BY <2>1, <2>2, CalmQuiet
    <2> QED BY <1>4, <2>3 DEF Dispatch, t
  <1>5. CASE insn.op \in {"branch", "likely", "bc1", "bc1l"}
    BY <1>1, <1>5, BranchSound, BC1Sound DEF Dispatch
  <1>6. CASE insn.op \in {"j", "jr"}
    <2>1. \A a \in CodeAddr : a \in Int
      BY AddressAssumption
    <2>2. insn.target \in Int
      BY <1>1, <2>1
    <2> QED BY <1>1, <1>6, <2>2, JSound, JumpToSound DEF Dispatch
  <1>9. CASE insn.op \in {"jal", "bal", "ball", "ret"}
    BY <1>1, <1>9, CallsSound DEF Dispatch
  <1>7. CASE insn.op \in {"status", "compare", "eret"}
    BY <1>1, <1>7, MTC0Sound, ERETSound DEF Dispatch
  <1>8. CASE insn.op \in {"fill", "index", "hit"}
    BY <1>1, <1>8, CACHESound DEF Dispatch
  <1> QED BY <1>1, <1>3, <1>4, <1>5, <1>6, <1>7, <1>8, <1>9 DEF Ops

(* EX on whatever RF/EX holds. *)
LEMMA ExecuteSound ==
  ASSUME NEW s, Quiet(s), NEW c \in Choices
  PROVE  Quiet(Execute(s, c))
  <1> DEFINE insn == s.rfex.insn
             t    == IF insn = Bubble THEN Complete(s, "next", 0)
                                      ELSE Dispatch(s, Program[insn], c)
  <1>1. insn \in Words
    BY DEF Quiet, Sound, Machine, RFEX
  <1>2. insn # Bubble => Program[insn] \in Insns
    BY <1>1, ProgramAssumption DEF Words
  <1>3. Quiet(t)
    BY <1>2, CompleteSound, DispatchSound DEF Flows
  <1>4. IsBranch(insn) \in BOOLEAN
    BY DEF IsBranch
  <1> HIDE DEF t
  <1>5. [t EXCEPT !.exdc.branch = IsBranch(insn)] \in Machine
        /\ [t EXCEPT !.exdc.branch = IsBranch(insn)].fm = t.fm
    BY <1>3, <1>4 DEF Quiet, Sound, Machine, EXDC
  <1>6. Quiet([t EXCEPT !.exdc.branch = IsBranch(insn)])
    BY <1>3, <1>5, CalmQuiet
  <1> QED BY <1>6 DEF Execute, t

(* RF: a miss interlocks, a hit fetches. *)
LEMMA RFSound ==
  ASSUME NEW s, Sound(s)
  PROVE  Sound(RF(s))
  <1>1. CASE s.icrf.addr \in CachedAddr /\ ~ICacheProbe(s, s.icrf.addr)
    <2>1. s.icrf.addr \in CodeAddr
      BY DEF Sound, Machine, ICRF
    <2>2. Sound(SaveFetch(s))
      BY SaveType, CalmSound DEF Sound
    <2> QED BY <1>1, <2>1, <2>2, QueueInterlockSound DEF RF
  <1>2. CASE ~(s.icrf.addr \in CachedAddr /\ ~ICacheProbe(s, s.icrf.addr))
    <2> DEFINE t == Fetch(s)
               u == [t EXCEPT !.icrf = [@ EXCEPT !.pc = s.icrf.pc + 1, !.live = TRUE]]
    <2>1. Sound(t)
      BY FetchType, CalmSound DEF Sound
    <2> HIDE DEF t
    <2>2. u \in Machine /\ u.fm = t.fm
      <3>1. s.icrf.pc + 1 \in Int /\ t \in Machine
        BY <2>1 DEF Sound, Machine, ICRF
      <3> QED BY <3>1 DEF Machine, ICRF
    <2>3. Sound(u)
      BY <2>1, <2>2, CalmSound
    <2> QED BY <1>2, <2>3 DEF RF, t
  <1> QED BY <1>1, <1>2

(* A refill is of the line the saved latch addresses. *)
Refilled(s) == s.fm.il = "ICB" => s.fm.ilData = s.saved.addr

LEMMA RFRefilled ==
  ASSUME NEW s, Quiet(s)
  PROVE  Refilled(RF(s))
  <1>1. CASE s.icrf.addr \in CachedAddr /\ ~ICacheProbe(s, s.icrf.addr)
    <2> DEFINE t == SaveFetch(s)
    <2>1. t \in Machine /\ t.fm = s.fm /\ t.saved.addr = s.icrf.addr
      BY SaveType DEF Quiet, Sound, Machine, SaveFetch
    <2> HIDE DEF t
    <2>2. Refilled(QueueInterlock(t, "ICB", s.icrf.addr, RESUME_RF))
      BY <2>1 DEF Refilled, Quiet, QueueInterlock, Machine, FaultManager
    <2> QED BY <1>1, <2>2 DEF RF, t
  <1>2. CASE ~(s.icrf.addr \in CachedAddr /\ ~ICacheProbe(s, s.icrf.addr))
    <2>1. RF(s).fm = s.fm
      BY <1>2 DEF RF, Fetch, Quiet, Sound, Machine
    <2> QED BY <2>1 DEF Refilled, Quiet
  <1> QED BY <1>1, <1>2

(* Nothing after RF changes the refill or the saved latch. *)
LEMMA RefilledKept ==
  ASSUME NEW s, Sound(s), Refilled(s)
  PROVE  Refilled(IC(s)) /\ Refilled(CheckForPendingInterrupts(s))
  <1>1. IC(s).fm = s.fm /\ IC(s).saved = s.saved
    BY DEF Sound, Machine, IC
  <1>2. ASSUME NEW t, t = CheckForPendingInterrupts(s)
        PROVE  t.fm.il = s.fm.il /\ t.fm.ilData = s.fm.ilData /\ t.saved = s.saved
    BY <1>2 DEF Sound, Machine, FaultManager, CheckForPendingInterrupts, QueueException
  <1> QED BY <1>1, <1>2 DEF Refilled

(* The interrupt test at the end of a cycle. *)
LEMMA CheckForPendingInterruptsSound ==
  ASSUME NEW s, Sound(s)
  PROVE  Sound(CheckForPendingInterrupts(s))
  <1>1. s.icrf.pc \in Int /\ IsBranch(s.rfex.insn) \in BOOLEAN
    BY DEF Sound, Machine, ICRF, IsBranch
  <1>2. Sound(QueueException(s, "INTR", s.icrf.pc, IsBranch(s.rfex.insn), 0, START_RF))
    BY <1>1, QueueExceptionSound
  <1> QED BY <1>2 DEF CheckForPendingInterrupts

(* The stages together. *)
LEMMA StageSound ==
  ASSUME NEW s, Sound(s)
  PROVE  /\ Sound(WB(s))
         /\ Sound(DC(s))
         /\ Sound(IC(s))
         /\ Quiet(s) => Quiet(WB(s)) /\ Quiet(DC(s)) /\ \A t \in EX(s) : Quiet(t)
  BY WBType, DCType, ICType, ExecuteSound, CalmSound, CalmQuiet DEF Sound, Quiet, EX

(* The end of every cycle. *)
LEMMA CountersType ==
  ASSUME NEW s \in Machine, NEW tick \in BOOLEAN
  PROVE  /\ IncrementCycleCounters(s, tick) \in Machine
         /\ IncrementCycleCounters(s, tick).fm = s.fm
         /\ IncrementCycleCounters(s, tick).exdc = s.exdc
         /\ IncrementCycleCounters(s, tick).saved = s.saved
         /\ IncrementCycleCounters(s, tick).icrf = s.icrf
  BY DEF Machine, CP0, IncrementCycleCounters

(* The index of a queued exception advances with the pipeline it drains. *)
LEMMA AdvanceFacts ==
  ASSUME NEW s \in Machine, Queued(s.fm),
         s.fm.excpIndex \in {START_RF, START_EX, START_DC}
  PROVE  /\ Advance(s) \in Machine
         /\ Advance(s).fm.excpIndex = s.fm.excpIndex + 1
         /\ Advance(s).fm.ilIndex = s.fm.ilIndex
         /\ Queued(Advance(s).fm)
  <1> DEFINE fm == [s.fm EXCEPT !.excpIndex = @ + 1]
  <1>1. fm \in FaultManager
    BY DEF Machine, FaultManager, Indices
  <1>2. fm.excpIndex = s.fm.excpIndex + 1 /\ fm.ilIndex = s.fm.ilIndex
        /\ fm.excp = s.fm.excp /\ fm.il = s.fm.il /\ fm.stalls = s.fm.stalls
        /\ fm.faulting = s.fm.faulting
    BY DEF Machine, FaultManager
  <1>3. Advance(s) \in Machine /\ Advance(s).fm = fm
    BY <1>1 DEF Machine, Advance
  <1> HIDE DEF fm
  <1> QED BY <1>1, <1>2, <1>3 DEF Queued

-----------------------------------------------------------------------------
(* The fault handlers.  Common exceptions: EPC, mask and vector. *)
LEMMA CommonHandlerType ==
  ASSUME NEW s \in Machine
  PROVE  CommonExceptionHandler(s) \in Machine /\ CommonExceptionHandler(s).fm = s.fm
  <1> DEFINE vector == IF s.cp0.bev THEN BevVector ELSE Vector
             epc    == IF s.fm.afterBranch THEN s.fm.pc - 1 ELSE s.fm.pc
             cp0    == IF s.cp0.exl THEN s.cp0
                       ELSE [s.cp0 EXCEPT !.epc = epc, !.bd = s.fm.afterBranch]
             new    == [cp0 EXCEPT !.raise = FALSE, !.exl = TRUE]
  <1>1. vector \in CodeAddr
    BY AddressAssumption
  <1>2. s.cp0 \in CP0 /\ s.fm \in FaultManager
    BY DEF Machine
  <1>3. epc \in Int /\ s.fm.afterBranch \in BOOLEAN
    BY <1>2 DEF FaultManager
  <1>4. cp0 \in CP0
    <2> HIDE DEF epc
    <2> QED BY <1>2, <1>3 DEF CP0
  <1>5. new \in CP0
    <2> HIDE DEF cp0
    <2> QED BY <1>4 DEF CP0
  <1> HIDE DEF vector, new
  <1> QED BY <1>1, <1>5, SetCP0Type, EnterType DEF CommonExceptionHandler, vector, new

(* Resets. *)
LEMMA FaultRSTType ==
  ASSUME NEW s \in Machine
  PROVE  FaultRST(s) \in Machine /\ FaultRST(s).fm = s.fm
  <1> DEFINE cp0 == IF s.fm.excpData = 0 THEN [s.cp0 EXCEPT !.erl = TRUE, !.bev = TRUE]
                                         ELSE s.cp0
  <1>1. ResetVector \in CodeAddr
    BY AddressAssumption
  <1>2. cp0 \in CP0
    BY DEF Machine, CP0
  <1> HIDE DEF cp0
  <1> QED BY <1>1, <1>2, SetCP0Type, EnterType DEF FaultRST, cp0

(* The exception handler leaves the fault manager empty. *)
LEMMA HandleExceptionsSound ==
  ASSUME NEW s \in Machine, Queued(s.fm), s.fm.stalls = 0
  PROVE  Quiet(HandleExceptions(s))
  <1> DEFINE t  == IF s.fm.excp = "RST" THEN FaultRST(Flush(s))
                                        ELSE CommonExceptionHandler(Flush(s))
             fm == [t.fm EXCEPT !.excpIndex = NORMAL, !.ilIndex = NORMAL,
                                !.excp = "INV", !.il = "INV", !.faulting = FALSE]
  <1>1. t \in Machine /\ t.fm = s.fm
    BY FlushType, FaultRSTType, CommonHandlerType
  <1> HIDE DEF t
  <1>2. fm \in FaultManager
    <2>1. t.fm \in FaultManager
      BY <1>1 DEF Machine
    <2> QED BY <2>1 DEF FaultManager, Indices
  <1>3. fm.excpIndex = NORMAL /\ fm.ilIndex = NORMAL /\ fm.il = "INV"
        /\ ~fm.faulting /\ fm.stalls = 0
    BY <1>1 DEF Machine, FaultManager
  <1>4. [t EXCEPT !.fm = fm] \in Machine /\ [t EXCEPT !.fm = fm].fm = fm
    <2> HIDE DEF fm
    <2> QED BY <1>1, <1>2 DEF Machine
  <1>5. Quiet([t EXCEPT !.fm = fm])
    <2> HIDE DEF fm
    <2> QED BY <1>3, <1>4 DEF Quiet, Sound, Queued
  <1> QED BY <1>5 DEF HandleExceptions, t

(* The interlock handler leaves a queued exception where it was. *)
LEMMA HandleInterlocksSound ==
  ASSUME NEW s, Sound(s), s.fm.stalls = 0
  PROVE  Quiet(HandleInterlocks(s))
  <1> DEFINE t  == IF s.fm.il = "ICB" THEN FaultICB(s) ELSE FaultCOP(s)
             fm == [t.fm EXCEPT !.faulting = s.fm.excpIndex # NORMAL,
                                !.ilIndex = NORMAL, !.il = "INV"]
  <1>1. t \in Machine /\ t.fm = s.fm
    <2>1. s \in Machine /\ s.fm.ilData \in CodeAddr /\ s.saved \in ICRF
      BY DEF Sound, Machine, FaultManager
    <2>2. Line(s.fm.ilData) \in Int
      BY <2>1, AddressAssumption, LineType
    <2>3. \A a : /\ ICacheFill(s, a, s.fm.ilData) \in Machine
                 /\ ICacheFill(s, a, s.fm.ilData).fm = s.fm
      BY <2>1, <2>2, ICacheSetType DEF ICacheFill
    <2>4. FaultICB(s) \in Machine /\ FaultICB(s).fm = s.fm
      BY <2>1, <2>3 DEF Machine, FaultICB
    <2>5. FaultCOP(s) \in Machine /\ FaultCOP(s).fm = s.fm
      BY <2>1, <2>3 DEF Machine, FaultCOP
    <2> QED BY <2>4, <2>5
  <1> HIDE DEF t
  <1>2. fm \in FaultManager
    BY <1>1 DEF Machine, FaultManager
  <1>3. fm.excpIndex = s.fm.excpIndex /\ fm.excp = s.fm.excp /\ fm.stalls = 0
        /\ fm.ilIndex = NORMAL /\ fm.il = "INV"
        /\ (fm.faulting <=> s.fm.excpIndex # NORMAL)
    BY <1>1 DEF Machine, FaultManager
  <1>4. [t EXCEPT !.fm = fm] \in Machine /\ [t EXCEPT !.fm = fm].fm = fm
    <2> HIDE DEF fm
    <2> QED BY <1>1, <1>2 DEF Machine
  <1>5. Quiet([t EXCEPT !.fm = fm])
    <2> HIDE DEF fm
    <2> QED BY <1>3, <1>4 DEF Quiet, Sound, Queued
  <1> QED BY <1>5 DEF HandleInterlocks, t

-----------------------------------------------------------------------------
(***************************************************************************)
(* The inductive invariant.  FaultingIffQueued alone is not inductive: a   *)
(* cycle of the pipeline must not run while the handler's index is queued, *)
(* nor the handler while an interlock waits, and a stall must end in the   *)
(* interlock that caused it.                                               *)
(***************************************************************************)
IInv ==
  /\ TypeOK
  /\ FaultingIffQueued
  /\ NoInvalidFault
  /\ FlushLosesNoInterlock
  /\ NoOrphanAccess
  /\ Refilled(cpu)

(* IInv in terms of the predicates above. *)
LEMMA IInvFacts ==
  ASSUME IInv
  PROVE  /\ cpu \in Machine
         /\ Queued(cpu.fm)
         /\ cpu.fm.excpIndex = HANDLE => cpu.fm.ilIndex = NORMAL /\ ~cpu.exdc.mem
         /\ cpu.fm.excpIndex # HANDLE => Sound(cpu)
         /\ cpu.fm.ilIndex = NORMAL => cpu.fm.il = "INV"
  BY DEF IInv, TypeOK, FaultingIffQueued, NoInvalidFault, FlushLosesNoInterlock,
         NoOrphanAccess, Queued, Sound

(* A cycle that ends in a Sound state establishes the invariant. *)
LEMMA SoundCycle ==
  ASSUME NEW s, Sound(s), Refilled(s), resets \in 0 .. MaxResets, EndCycle(s)
  PROVE  IInv'
  <1>1. PICK tick \in BOOLEAN : cpu' = IncrementCycleCounters(s, tick)
    BY DEF EndCycle
  <1>2. cpu' \in Machine /\ cpu'.fm = s.fm /\ cpu'.saved = s.saved
    BY <1>1, CountersType DEF Sound
  <1>3. resets' \in 0 .. MaxResets
    BY DEF EndCycle
  <1> QED
    BY <1>2, <1>3 DEF Sound, Queued, IInv, TypeOK, FaultingIffQueued, NoInvalidFault,
                      FlushLosesNoInterlock, NoOrphanAccess, Refilled

(* The machine is powered on with a hard reset queued. *)
LEMMA InitIInv == Init => IInv
  <1> SUFFICES ASSUME Init PROVE IInv
    OBVIOUS
  <1>1. Sound(PoweredOn)
    <2>1. PoweredOn \in Machine
      BY AddressAssumption, CacheAssumption, BoundAssumption
      DEF Machine, ICRF, RFEX, EXDC, DCWB, FaultManager, CP0, Arch, ArchAt, Words, Flows,
          Indices, PoweredOn, Bubble, NoLine
    <2>2. Queued(PoweredOn.fm) /\ PoweredOn.fm.excpIndex # HANDLE
      BY DEF PoweredOn, Queued
    <2> QED BY <2>1, <2>2 DEF Sound
  <1>2. Sound(cpu)
    BY <1>1, ResetSound DEF Init
  <1>3. resets \in 0 .. MaxResets
    BY BoundAssumption DEF Init
  <1>4. cpu.fm.il = "INV"
    <2>1. PoweredOn.fm.il = "INV"
      BY DEF PoweredOn
    <2>2. PoweredOn \in Machine
      BY <1>1 DEF Sound
    <2> QED BY <2>1, <2>2 DEF Init, QueueException, Machine, FaultManager
  <1> QED
    BY <1>2, <1>3, <1>4 DEF Sound, Queued, IInv, TypeOK, FaultingIffQueued, NoInvalidFault,
                      FlushLosesNoInterlock, NoOrphanAccess, Refilled

(* Every cycle, and every reset request, preserves the invariant. *)
LEMMA NextIInv == IInv /\ [Next]_vars => IInv'
  <1> SUFFICES ASSUME IInv, [Next]_vars PROVE IInv'
    OBVIOUS
  <1>1. /\ cpu \in Machine
        /\ Queued(cpu.fm)
        /\ cpu.fm.excpIndex = HANDLE => cpu.fm.ilIndex = NORMAL /\ ~cpu.exdc.mem
        /\ cpu.fm.excpIndex # HANDLE => Sound(cpu)
        /\ cpu.fm.ilIndex = NORMAL => cpu.fm.il = "INV"
        /\ Refilled(cpu)
        /\ resets \in 0 .. MaxResets
    BY IInvFacts DEF IInv, TypeOK
  <1>2. cpu.fm \in FaultManager
    BY <1>1 DEF Machine
  <1>3. CASE NormalCycle
    <2>1. Quiet(cpu)
      BY <1>1, <1>3 DEF NormalCycle, Queued, Quiet
    <2>2. PICK x \in EX(DC(WB(cpu))) :
            EndCycle(IF IC(RF(x)).fm.faulting THEN IC(RF(x))
                     ELSE CheckForPendingInterrupts(IC(RF(x))))
      BY <1>3 DEF NormalCycle
    <2>3. Sound(IC(RF(x))) /\ Refilled(IC(RF(x)))
      <3>0. Quiet(WB(cpu))
        BY <2>1, StageSound DEF Quiet
      <3>1. Quiet(x)
        BY <2>2, <3>0, StageSound DEF Quiet
      <3>2. Sound(RF(x)) /\ Refilled(RF(x))
        BY <3>1, RFSound, RFRefilled DEF Quiet
      <3> QED BY <3>2, StageSound, RefilledKept
    <2> DEFINE y == IC(RF(x))
               z == IF y.fm.faulting THEN y ELSE CheckForPendingInterrupts(y)
    <2>4. Sound(z) /\ Refilled(z)
      BY <2>3, CheckForPendingInterruptsSound, RefilledKept
    <2> QED BY <1>1, <2>2, <2>4, SoundCycle
  <1>4. CASE StallCycle
    <2> DEFINE t == [cpu EXCEPT !.fm.stalls = @ - 1]
    <2>1. cpu.fm.stalls \in 0 .. StallCycles /\ cpu.fm.stalls > 0
      BY <1>2, <1>4 DEF FaultManager, StallCycle
    <2>2. Sound(cpu)
      BY <1>1, <2>1 DEF Queued
    <2>3. cpu.fm.stalls - 1 \in 0 .. StallCycles
      BY <2>1, BoundAssumption
    <2>4. [cpu.fm EXCEPT !.stalls = @ - 1] \in FaultManager
      BY <1>2, <2>3 DEF FaultManager
    <2>5. t \in Machine /\ t.fm = [cpu.fm EXCEPT !.stalls = @ - 1] /\ t.saved = cpu.saved
      BY <1>1, <2>4 DEF Machine
    <2>6. Sound(t) /\ Refilled(t)
      <3> HIDE DEF t
      <3> QED BY <1>1, <1>2, <2>1, <2>2, <2>5 DEF Sound, Queued, FaultManager, Refilled
    <2> QED BY <1>1, <1>4, <2>6, SoundCycle DEF StallCycle
  <1>5. CASE StartRF \/ StartEX
    <2>1. /\ Advance(cpu) \in Machine
          /\ Queued(Advance(cpu).fm)
          /\ Advance(cpu).fm.excpIndex # HANDLE
      BY <1>1, <1>2, <1>5, AdvanceFacts DEF StartRF, StartEX, Runs, Entry, FaultManager
    <2>2. Quiet(Advance(cpu))
      <3>1. cpu.fm.ilIndex = NORMAL
        BY <1>2, <1>5 DEF StartRF, StartEX, Runs, Entry, FaultManager, Indices
      <3>2. Advance(cpu).fm.il = cpu.fm.il
        BY <1>1, <1>2 DEF Advance, Machine, FaultManager
      <3> QED BY <1>1, <2>1, <3>1, <3>2 DEF Sound, Quiet
    <2>3. \A x \in EX(DC(WB(Advance(cpu)))) :
            Sound(x) /\ Refilled(x) /\ Sound(RF(x)) /\ Refilled(RF(x))
      BY <2>2, StageSound, RFSound, RFRefilled DEF Quiet, Refilled
    <2> QED BY <1>1, <1>5, <2>3, SoundCycle DEF StartRF, StartEX
  <1>6. CASE StartDC
    <2> DEFINE s == DC(WB(Advance(cpu)))
    <2>1. cpu.fm.excpIndex = START_DC /\ cpu.fm.ilIndex = NORMAL
      BY <1>2, <1>6 DEF StartDC, Runs, Entry, FaultManager, Indices
    <2>2. /\ Advance(cpu) \in Machine
          /\ Queued(Advance(cpu).fm)
          /\ Advance(cpu).fm.ilIndex = NORMAL
      BY <1>1, <2>1, AdvanceFacts
    <2>3. s \in Machine /\ s.fm = Advance(cpu).fm /\ ~s.exdc.mem
      BY <2>2, WBType, DCType
    <2> HIDE DEF s
    <2>4. PICK tick \in BOOLEAN : cpu' = IncrementCycleCounters(s, tick)
      BY <1>6 DEF StartDC, EndCycle, s
    <2>5. cpu' \in Machine /\ cpu'.fm = s.fm /\ cpu'.exdc = s.exdc
      BY <2>3, <2>4, CountersType
    <2>6. resets' \in 0 .. MaxResets
      BY <1>1, <1>6 DEF StartDC, EndCycle
    <2> QED
      BY <2>2, <2>3, <2>5, <2>6 DEF Queued, IInv, TypeOK, FaultingIffQueued,
         NoInvalidFault, FlushLosesNoInterlock, NoOrphanAccess, Refilled
  <1>7. CASE RunHandler
    <2>1. Sound(HandleExceptions(cpu)) /\ Refilled(HandleExceptions(cpu))
      BY <1>1, <1>7, HandleExceptionsSound DEF RunHandler, Runs, Quiet, Refilled
    <2> QED BY <1>1, <1>7, <2>1, SoundCycle DEF RunHandler
  <1>8. CASE ResumeRF
    <2>1. Sound(cpu) /\ cpu.fm.stalls = 0
      BY <1>1, <1>2, <1>8 DEF ResumeRF, Runs, Entry, FaultManager, Indices
    <2>2. Sound(IC(RF(HandleInterlocks(cpu)))) /\ Refilled(IC(RF(HandleInterlocks(cpu))))
      <3>1. Quiet(HandleInterlocks(cpu))
        BY <2>1, HandleInterlocksSound
      <3>2. Sound(RF(HandleInterlocks(cpu))) /\ Refilled(RF(HandleInterlocks(cpu)))
        BY <3>1, RFSound, RFRefilled DEF Quiet
      <3> QED BY <3>2, StageSound, RefilledKept
    <2> QED BY <1>1, <1>8, <2>2, SoundCycle DEF ResumeRF
  <1>9. CASE FastForward
    <2>1. Sound(cpu)
      BY <1>1, <1>2, <1>9 DEF FastForward, Runs, Entry, FaultManager, Indices
    <2> QED BY <1>1, <1>9, <2>1, CheckForPendingInterruptsSound, RefilledKept, SoundCycle
           DEF FastForward
  <1>10. ASSUME NEW data \in {0, 1}, RequestReset(data) PROVE IInv'
    <2>1. resets' \in 0 .. MaxResets
      BY <1>1, <1>10, BoundAssumption DEF RequestReset
    <2>2. CASE cpu.fm.excpIndex = HANDLE
      <3>1. cpu' = cpu
        BY <1>10, <2>2 DEF RequestReset, QueueException
      <3> QED
        BY <2>1, <3>1 DEF IInv, TypeOK, FaultingIffQueued, NoInvalidFault,
                          FlushLosesNoInterlock, NoOrphanAccess, Refilled
    <2>3. CASE cpu.fm.excpIndex # HANDLE
      <3>1. Sound(cpu')
        BY <1>1, <1>10, <2>3, ResetSound DEF RequestReset
      <3>2. Refilled(cpu')
        BY <1>1, <1>10 DEF RequestReset, QueueException, Machine, FaultManager, Refilled
      <3> QED
        BY <2>1, <3>1, <3>2 DEF Sound, Queued, IInv, TypeOK, FaultingIffQueued,
           NoInvalidFault, FlushLosesNoInterlock, NoOrphanAccess, Refilled
    <2> QED BY <2>2, <2>3
  <1>11. CASE UNCHANGED vars
    BY <1>11 DEF vars, IInv, TypeOK, FaultingIffQueued, NoInvalidFault,
                 FlushLosesNoInterlock, NoOrphanAccess, Refilled
  <1> QED
    BY <1>3, <1>4, <1>5, <1>6, <1>7, <1>8, <1>9, <1>10, <1>11
    DEF Next, CycleVR4300, PerformHardReset, PerformSoftReset

(* IInv holds in every reachable state. *)
THEOREM SpecIInv == Spec => []IInv
  BY InitIInv, NextIInv, PTL DEF Spec

(* Every latch and register keeps its type, whatever program runs; the     *)
(* fault manager's indices stay within CycleVR4300Short (Pipeline.c).      *)
THEOREM TypeCorrect == Spec => []TypeOK
  <1>1. IInv => TypeOK
    BY DEF IInv
  <1> QED BY <1>1, SpecIInv, PTL

(* No queued fault is skipped and no invalid one is handled: the flag that *)
(* CycleVR4300 tests and the two indices it compares always agree with the *)
(* faults that QueueException and QueueInterlock stored (Fault.c).         *)
THEOREM FaultsAreHandled == Spec => []FaultingIffQueued
  <1>1. IInv => FaultingIffQueued
    BY DEF IInv
  <1> QED BY <1>1, SpecIInv, PTL

(* FaultHandlerTable is never entered at INV, whose handler asserts         *)
(* (Fault.c).                                                               *)
THEOREM FaultsAreValid == Spec => []NoInvalidFault
  <1>1. IInv => NoInvalidFault
    BY DEF IInv
  <1> QED BY <1>1, SpecIInv, PTL

(* HandleExceptions loses nothing: no interlock waits when it clears       *)
(* ilIndex (Fault.c:439) ...                                               *)
THEOREM FlushIsSafe == Spec => []FlushLosesNoInterlock
  <1>1. IInv => FlushLosesNoInterlock
    BY DEF IInv
  <1> QED BY <1>1, SpecIInv, PTL

(* ... and no memory function is left for the vector's first cycle         *)
(* (DCStage.c:95).                                                         *)
THEOREM AccessesAreOwned == Spec => []NoOrphanAccess
  <1>1. IInv => NoOrphanAccess
    BY DEF IInv
  <1> QED BY <1>1, SpecIInv, PTL

-----------------------------------------------------------------------------
(* The line that FaultICB fills is the one that the restored latch          *)
(* addresses: the fetch hits.                                               *)
LEMMA FilledHits ==
  ASSUME NEW s, Sound(s), s.fm.il = "ICB", Refilled(s)
  PROVE  /\ HandleInterlocks(s).icrf = s.saved
         /\ ICacheProbe(HandleInterlocks(s), s.saved.addr)
         /\ HandleInterlocks(s).fm.ilIndex = NORMAL
  <1> DEFINE a == s.saved.addr
             t == ICacheFill(s, a, a)
  <1>1. s \in Machine /\ a \in Nat /\ s.fm.ilData = a
    BY AddressAssumption DEF Sound, Machine, ICRF, Refilled
  <1>2. SetOf(a) \in 0 .. NumSets - 1
    <2>1. Line(a) \in Int
      BY <1>1, LineType
    <2> QED BY <2>1, CacheAssumption DEF SetOf
  <1>3. t.icache[SetOf(a)] = Line(a) /\ t \in Machine /\ t.fm = s.fm
    <2>1. Line(a) \in Int
      BY <1>1, LineType
    <2>2. t \in Machine /\ t.fm = s.fm
      BY <1>1, <2>1, ICacheSetType DEF ICacheFill
    <2>3. t.icache = [s.icache EXCEPT ![SetOf(a)] = Line(a)]
      BY <1>1 DEF ICacheFill, ICacheSet, Machine
    <2> QED BY <1>1, <1>2, <2>2, <2>3 DEF Machine
  <1> HIDE DEF t, a
  <1>4. HandleInterlocks(s) =
          [[t EXCEPT !.icrf = s.saved] EXCEPT
             !.fm = [@ EXCEPT !.faulting = s.fm.excpIndex # NORMAL,
                              !.ilIndex = NORMAL, !.il = "INV"]]
    BY <1>1 DEF HandleInterlocks, FaultICB, t, a
  <1> DEFINE u == [t EXCEPT !.icrf = s.saved]
  <1>5. u \in Machine /\ u.icrf = s.saved /\ u.icache = t.icache /\ u.fm = s.fm
    BY <1>1, <1>3 DEF Machine
  <1> HIDE DEF u
  <1>6. HandleInterlocks(s) =
          [u EXCEPT !.fm = [@ EXCEPT !.faulting = s.fm.excpIndex # NORMAL,
                                     !.ilIndex = NORMAL, !.il = "INV"]]
    BY <1>4 DEF u
  <1> DEFINE fm == [u.fm EXCEPT !.faulting = s.fm.excpIndex # NORMAL,
                                !.ilIndex = NORMAL, !.il = "INV"]
  <1>7. fm.ilIndex = NORMAL
    BY <1>5 DEF Machine, FaultManager
  <1>8. HandleInterlocks(s) = [u EXCEPT !.fm = fm]
    BY <1>6
  <1> HIDE DEF fm
  <1>9. /\ HandleInterlocks(s).icrf = u.icrf
        /\ HandleInterlocks(s).icache = u.icache
        /\ HandleInterlocks(s).fm = fm
    BY <1>5, <1>8 DEF Machine
  <1> QED BY <1>3, <1>5, <1>7, <1>9 DEF ICacheProbe, a

(* Whatever EX and IC did to the latches in the cycles of the miss, with    *)
(* exceptions queued meanwhile or not, the fetch that missed hits when it   *)
(* is resumed (RFStage.c, FaultICB).                                        *)
THEOREM RefillsResume == Spec => RefillSatisfiesFetch
  <1>1. ASSUME IInv, ResumeRF, cpu.fm.il = "ICB"
        PROVE  cpu'.fm.ilIndex = NORMAL
    <2> DEFINE h == HandleInterlocks(cpu)
    <2>1. cpu.fm \in FaultManager
      BY <1>1, IInvFacts DEF Machine
    <2>2. Sound(cpu) /\ Refilled(cpu) /\ cpu.fm.stalls = 0
      BY <1>1, <2>1, IInvFacts DEF IInv, ResumeRF, Runs, Entry, FaultManager, Indices
    <2>3. Sound(h) /\ h.icrf.addr = cpu.saved.addr /\ h.fm.ilIndex = NORMAL
          /\ ICacheProbe(h, h.icrf.addr)
      BY <1>1, <2>2, FilledHits, HandleInterlocksSound DEF Quiet
    <2> HIDE DEF h
    <2>4. RF(h).fm = h.fm /\ Sound(RF(h))
      BY <2>3, RFSound DEF RF, Fetch, Sound, Machine
    <2>5. IC(RF(h)).fm = h.fm /\ IC(RF(h)) \in Machine
      BY <2>4, ICType DEF Sound
    <2>6. PICK tick \in BOOLEAN : cpu' = IncrementCycleCounters(IC(RF(h)), tick)
      BY <1>1 DEF ResumeRF, EndCycle, h
    <2> QED BY <2>3, <2>5, <2>6, CountersType
  <1>2. IInv /\ [Next]_vars =>
          [ResumeRF /\ cpu.fm.il = "ICB" => cpu'.fm.ilIndex = NORMAL]_vars
    BY <1>1
  <1> QED BY <1>2, SpecIInv, PTL DEF Spec, RefillSatisfiesFetch
-----------------------------------------------------------------------------
(***************************************************************************)
(* The interrupt mask.  FaultRST sets Status and not the mask, so that the *)
(* two agree only as long as no reset is requested at run time, and after  *)
(* the reset of power-on because no instruction runs before it is handled. *)
(***************************************************************************)
Tracks(cp0) == cp0.raise <=> Raise(cp0)

(* While the reset of power-on is queued, RF fetches nothing that EX could *)
(* execute, nor does a refill bring back a latch that would.               *)
PowerOn(s) ==
  s.fm.excp = "RST" =>
    /\ s.fm.excpIndex \in START_RF .. HANDLE
    /\ ~s.cp0.ie
    /\ s.rfex.insn = Bubble
    /\ s.fm.excpIndex = START_RF => ~s.icrf.live /\ s.fm.ilIndex = NORMAL
    /\ s.fm.ilIndex # NORMAL => ~s.saved.live

(* What every stage does to both in normal operation. *)
Tame(s, t) ==
  /\ Tracks(s.cp0) => Tracks(t.cp0)
  /\ s.fm.excp # "RST" => t.fm.excp # "RST"

(* A step that changes neither CP0 nor the queued exception. *)
Same(s, t) == t.cp0 = s.cp0 /\ t.fm.excp \in {s.fm.excp, "CPU", "INTR"}

LEMMA SameTame ==
  ASSUME NEW s, NEW t, Same(s, t)
  PROVE  Tame(s, t)
  BY DEF Same, Tame

LEMMA CompleteSame ==
  ASSUME NEW s \in Machine, NEW f, NEW to PROVE Same(s, Complete(s, f, to))
  BY DEF Machine, Complete, Same

LEMMA DetectBusyLoopSame ==
  ASSUME NEW s \in Machine, NEW self PROVE Same(s, DetectBusyLoop(s, self))
  BY DEF Machine, FaultManager, DetectBusyLoop, Same

LEMMA JumpToSame ==
  ASSUME NEW s \in Machine, NEW target PROVE Same(s, JumpTo(s, target))
  BY DEF Machine, JumpTo, Redirect, Complete, Same

LEMMA BranchSame ==
  ASSUME NEW s, Quiet(s), NEW target, NEW likely, NEW c \in Choices
  PROVE  Same(s, Branch(s, target, likely, c))
  <1>1. s \in Machine
    BY DEF Quiet, Sound
  <1>2. CASE c.taken
    <2> DEFINE t == DetectBusyLoop(s, target = s.rfex.insn /\ c.zero /\ ~likely)
    <2>1. Same(s, t) /\ t \in Machine
      <3>1. \A self \in BOOLEAN :
              Same(s, DetectBusyLoop(s, self)) /\ DetectBusyLoop(s, self) \in Machine
        BY <1>1, DetectBusyLoopSame, DetectBusyLoopSound DEF Quiet, Sound
      <3> QED BY <3>1 DEF DetectBusyLoop
    <2> HIDE DEF t
    <2>2. Same(t, BranchBy(t, target))
      BY <2>1 DEF Machine, BranchBy, Redirect, Complete, Same
    <2> QED BY <1>2, <2>1, <2>2 DEF Branch, t, Same
  <1>3. CASE ~c.taken
    BY <1>1, <1>3 DEF Machine, Branch, MaskFetch, Complete, Same
  <1> QED BY <1>2, <1>3

LEMMA CallsSame ==
  ASSUME NEW s, Quiet(s), NEW target \in CodeAddr, NEW likely \in BOOLEAN, NEW c \in Choices
  PROVE  /\ Same(s, JAL(s, target))
         /\ Same(s, BranchAndLink(s, target, likely, c))
         /\ Same(s, JRToRA(s))
  <1>1. s \in Machine
    BY DEF Quiet, Sound
  <1>2. ASSUME NEW t \in Machine, Same(s, t) PROVE Same(s, Link(s, t))
    BY <1>2 DEF Machine, Link, Same
  <1>3. Same(s, JAL(s, target))
    <2>1. target \in Int
      BY AddressAssumption
    <2> QED BY <1>1, <1>2, <2>1, JumpToSame, JumpToSound DEF JAL, Quiet, Sound
  <1>4. Same(s, BranchAndLink(s, target, likely, c))
    <2>1. [c EXCEPT !.zero = FALSE] \in Choices
      BY DEF Choices
    <2> QED BY <1>2, <2>1, BranchSame, BranchSound DEF BranchAndLink, Quiet, Sound
  <1>5. Same(s, JRToRA(s))
    BY <1>1, JumpToSame DEF JRToRA
  <1> QED BY <1>3, <1>4, <1>5

LEMMA CoprocessorUnusableSame ==
  ASSUME NEW s \in Machine PROVE Same(s, CoprocessorUnusable(s))
  <1> DEFINE t == [s EXCEPT !.exdc.insn = Bubble]
  <1>1. t \in Machine /\ t.fm = s.fm /\ t.cp0 = s.cp0
    BY DEF Machine, EXDC, Words
  <1> HIDE DEF t
  <1>2. Same(t, QueueException(t, "CPU", s.rfex.pc, s.exdc.branch, 1, START_DC))
    BY <1>1 DEF Machine, FaultManager, QueueException, Same
  <1> QED BY <1>1, <1>2 DEF CoprocessorUnusable, t, Same

LEMMA BC1Same ==
  ASSUME NEW s, Quiet(s), NEW target, NEW likely, NEW c \in Choices
  PROVE  Same(s, BC1(s, target, likely, c))
  <1>1. [c EXCEPT !.zero = FALSE] \in Choices
    BY DEF Choices
  <1> QED BY <1>1, BranchSame, CoprocessorUnusableSame DEF BC1, Quiet, Sound

LEMMA JSame ==
  ASSUME NEW s, Quiet(s), NEW target
  PROVE  Same(s, J(s, target))
  <1> DEFINE t == DetectBusyLoop(s, s.icrf.pc - 1 = target)
  <1>1. Same(s, t) /\ t \in Machine
    BY DetectBusyLoopSame, DetectBusyLoopSound DEF Quiet, Sound
  <1> HIDE DEF t
  <1>2. Same(t, JumpTo(t, target))
    BY <1>1, JumpToSame
  <1> QED BY <1>1, <1>2 DEF J, t, Same

LEMMA CACHESame ==
  ASSUME NEW s \in Machine, NEW op \in {"fill", "index", "hit"}, NEW addr
  PROVE  Same(s, CACHE(s, op, addr))
  <1> DEFINE t == Complete(s, "next", 0)
  <1>1. t \in Machine /\ Same(s, t)
    BY CompleteType, CompleteSame DEF Flows
  <1> HIDE DEF t
  <1>2. Same(t, ICacheSet(t, addr, NoLine))
    BY <1>1 DEF Machine, ICacheSet, Same
  <1>3. Same(t, QueueInterlock(SaveFetch(t), "COP", addr, RESUME_RF))
    BY <1>1 DEF Machine, FaultManager, SaveFetch, QueueInterlock, Same
  <1> QED BY <1>1, <1>2, <1>3 DEF CACHE, t, Same

(* The instructions that write Status write the mask with it. *)
LEMMA StatusTracks ==
  ASSUME NEW s \in Machine, NEW status \in StatusBits
  PROVE  Tame(s, MTC0Status(s, status)) /\ Tame(s, MTC0Compare(s))
  <1> DEFINE t == Complete(s, "next", 0)
  <1>1. t \in Machine /\ Same(s, t)
    BY CompleteType, CompleteSame DEF Flows
  <1> DEFINE new == [s.cp0 EXCEPT !.ie = status.ie, !.exl = status.exl, !.erl = status.erl,
                             !.bev = status.bev, !.cu1 = status.cu1, !.raise = Raise(status)]
             timer == [s.cp0 EXCEPT !.ip = FALSE]
  <1>2. s.cp0 \in CP0
    BY DEF Machine
  <1>3. Tracks(new)
    <2>1. Raise(status) \in BOOLEAN
      BY DEF Raise, StatusBits
    <2> QED BY <1>2, <2>1 DEF CP0, StatusBits, Tracks, Raise
  <1>4. Tracks(s.cp0) => Tracks(timer)
    BY <1>2 DEF CP0, Tracks, Raise
  <1> HIDE DEF t, new, timer
  <1>5. \A cp0 : SetCP0(t, cp0).cp0 = cp0 /\ SetCP0(t, cp0).fm = t.fm
    BY <1>1 DEF SetCP0, Machine
  <1>6. Tame(s, MTC0Status(s, status))
    BY <1>1, <1>3, <1>5 DEF MTC0Status, Tame, Same, t, new
  <1>7. Tame(s, MTC0Compare(s))
    BY <1>1, <1>4, <1>5 DEF MTC0Compare, Tame, Same, t, timer
  <1> QED BY <1>6, <1>7

LEMMA ERETTracks ==
  ASSUME NEW s \in Machine
  PROVE  Tame(s, ERET(s))
  <1> DEFINE back == IF s.cp0.erl THEN s.cp0.errorEPC ELSE s.cp0.epc
             cp0  == IF s.cp0.erl THEN [s.cp0 EXCEPT !.erl = FALSE]
                                  ELSE [s.cp0 EXCEPT !.exl = FALSE]
             new  == [cp0 EXCEPT !.raise = Raise(cp0)]
             t    == MaskFetch(Redirect(Complete(s, "return", back), back))
  <1>1. cp0 \in CP0
    BY DEF Machine, CP0
  <1>2. Tracks(new)
    <2> HIDE DEF cp0
    <2>1. Raise(cp0) \in BOOLEAN
      BY <1>1 DEF Raise, CP0
    <2> QED BY <1>1, <2>1 DEF CP0, Tracks, Raise
  <1> HIDE DEF back, new
  <1>3. SetCP0(t, new).cp0 = new /\ SetCP0(t, new).fm = s.fm
    BY DEF Machine, SetCP0, MaskFetch, Redirect, Complete
  <1> HIDE DEF t
  <1>4. Tame(s, SetCP0(t, new))
    BY <1>2, <1>3 DEF Tame
  <1> QED BY <1>4 DEF ERET, back, cp0, new, t

LEMMA DispatchTame ==
  ASSUME NEW s, Quiet(s), NEW insn \in Insns, NEW c \in Choices
  PROVE  Tame(s, Dispatch(s, insn, c))
  <1>1. /\ insn.op \in Ops
        /\ insn.target \in CodeAddr
        /\ insn.status \in StatusBits
        /\ s \in Machine
    BY DEF Insns, Quiet, Sound
  <1>3. CASE insn.op \in {"alu", "mem", "cp1"}
    <2>1. Same(s, Complete(s, "next", 0)) /\ Same(s, CoprocessorUnusable(s))
      BY <1>1, CompleteSame, CoprocessorUnusableSame
    <2>2. Same(s, [Complete(s, "next", 0) EXCEPT !.exdc.mem = TRUE])
      BY <1>1 DEF Machine, Complete, Same
    <2> QED BY SameTame, <1>3, <2>1, <2>2 DEF Dispatch
  <1>4. CASE insn.op \in {"branch", "likely", "bc1", "bc1l"}
    BY <1>1, SameTame, <1>4, BranchSame, BC1Same DEF Dispatch
  <1>5. CASE insn.op \in {"j", "jr"}
    BY <1>1, SameTame, <1>5, JSame, JumpToSame DEF Dispatch
  <1>6. CASE insn.op \in {"jal", "bal", "ball", "ret"}
    BY <1>1, SameTame, <1>6, CallsSame DEF Dispatch
  <1>7. CASE insn.op \in {"status", "compare", "eret"}
    BY <1>1, <1>7, StatusTracks, ERETTracks DEF Dispatch
  <1>8. CASE insn.op \in {"fill", "index", "hit"}
    BY <1>1, SameTame, <1>8, CACHESame DEF Dispatch
  <1> QED BY <1>1, <1>3, <1>4, <1>5, <1>6, <1>7, <1>8 DEF Ops

LEMMA ExecuteTame ==
  ASSUME NEW s, Quiet(s), NEW c \in Choices
  PROVE  Tame(s, Execute(s, c))
  <1> DEFINE insn == s.rfex.insn
             t    == IF insn = Bubble THEN Complete(s, "next", 0)
                                      ELSE Dispatch(s, Program[insn], c)
  <1>1. insn \in Words /\ s \in Machine
    BY DEF Quiet, Sound, Machine, RFEX
  <1>2. insn # Bubble => Program[insn] \in Insns
    BY <1>1, ProgramAssumption DEF Words
  <1>3. Quiet(t)
    BY <1>2, CompleteSound, DispatchSound DEF Flows
  <1>4. Tame(s, t)
    BY <1>1, <1>2, CompleteSame, SameTame, DispatchTame
  <1> HIDE DEF t
  <1>5. /\ [t EXCEPT !.exdc.branch = IsBranch(insn)].cp0 = t.cp0
        /\ [t EXCEPT !.exdc.branch = IsBranch(insn)].fm = t.fm
    BY <1>3 DEF Quiet, Sound, Machine
  <1> QED BY <1>4, <1>5 DEF Execute, t, Tame

(* RF, IC and the interrupt test. *)
LEMMA FetchSame ==
  ASSUME NEW s \in Machine
  PROVE  Same(s, RF(s)) /\ Same(s, IC(s)) /\ Same(s, CheckForPendingInterrupts(s))
  <1>1. Same(s, RF(s))
    <2>1. Same(s, QueueInterlock(SaveFetch(s), "ICB", s.icrf.addr, RESUME_RF))
      BY DEF Machine, FaultManager, SaveFetch, QueueInterlock, Same
    <2>2. Same(s, [Fetch(s) EXCEPT !.icrf = [@ EXCEPT !.pc = s.icrf.pc + 1, !.live = TRUE]])
      BY DEF Machine, Fetch, Same
    <2> QED BY <2>1, <2>2 DEF RF
  <1>2. Same(s, IC(s))
    BY DEF Machine, IC, Same
  <1>3. Same(s, CheckForPendingInterrupts(s))
    BY DEF Machine, FaultManager, CheckForPendingInterrupts, QueueException, Same
  <1> QED BY <1>1, <1>2, <1>3

-----------------------------------------------------------------------------
(* While the reset waits, only bubbles move. *)
Blank(s) == s.rfex.insn = Bubble /\ ~s.icrf.live

(* WB, DC and EX change nothing before EX/DC. *)
Front(s, t) ==
  /\ t.fm = s.fm /\ t.cp0 = s.cp0
  /\ t.rfex = s.rfex /\ t.icrf = s.icrf /\ t.saved = s.saved

LEMMA BackKept ==
  ASSUME NEW s \in Machine
  PROVE  /\ Front(s, WB(s)) /\ Front(s, DC(s))
         /\ s.rfex.insn = Bubble => \A t \in EX(s) : Front(s, t)
  <1>1. Front(s, WB(s))
    BY DEF Machine, WB, Front
  <1>2. Front(s, DC(s))
    BY DEF Machine, DC, Deliver, Front
  <1>3. ASSUME s.rfex.insn = Bubble, NEW c \in Choices
        PROVE  Front(s, Execute(s, c))
    BY <1>3 DEF Machine, Execute, Complete, Front
  <1> QED BY <1>1, <1>2, <1>3 DEF EX

LEMMA RFBlank ==
  ASSUME NEW s \in Machine, Blank(s), s.fm.ilIndex = NORMAL
  PROVE  /\ RF(s).cp0 = s.cp0
         /\ RF(s).fm.excp = s.fm.excp /\ RF(s).fm.excpIndex = s.fm.excpIndex
         /\ RF(s).rfex.insn = Bubble
         /\ RF(s).fm.ilIndex # NORMAL => ~RF(s).saved.live
  <1>1. CASE s.icrf.addr \in CachedAddr /\ ~ICacheProbe(s, s.icrf.addr)
    <2> DEFINE t == SaveFetch(s)
    <2>1. t \in Machine /\ t.fm = s.fm /\ t.cp0 = s.cp0 /\ t.rfex = s.rfex /\ ~t.saved.live
      BY SaveType DEF Blank, Machine, SaveFetch
    <2> HIDE DEF t
    <2> DEFINE fm == [t.fm EXCEPT !.ilData = s.icrf.addr, !.ilIndex = RESUME_RF,
                                  !.il = "ICB", !.faulting = TRUE, !.stalls = StallCycles]
    <2>2. RF(s) = [t EXCEPT !.fm = fm]
      BY <1>1, <2>1 DEF RF, t, QueueInterlock
    <2>3. fm.excp = t.fm.excp /\ fm.excpIndex = t.fm.excpIndex
      BY <2>1 DEF Machine, FaultManager
    <2> HIDE DEF fm
    <2>4. /\ RF(s).cp0 = t.cp0 /\ RF(s).rfex = t.rfex /\ RF(s).saved = t.saved
          /\ RF(s).fm = fm
      BY <2>1, <2>2 DEF Machine
    <2> QED BY <2>1, <2>3, <2>4 DEF Blank
  <1>2. CASE ~(s.icrf.addr \in CachedAddr /\ ~ICacheProbe(s, s.icrf.addr))
    BY <1>2 DEF Blank, Machine, RF, Fetch
  <1> QED BY <1>1, <1>2

-----------------------------------------------------------------------------
MInv == Tracks(cpu.cp0) /\ PowerOn(cpu)

LEMMA InitMInv == Init => MInv
  <1> SUFFICES ASSUME Init PROVE MInv
    OBVIOUS
  <1>1. /\ cpu.cp0 = PoweredOn.cp0 /\ cpu.rfex = PoweredOn.rfex /\ cpu.icrf = PoweredOn.icrf
        /\ cpu.fm.ilIndex = NORMAL /\ cpu.fm.excpIndex = START_RF
    BY DEF Init, PoweredOn, QueueException
  <1> QED BY <1>1 DEF MInv, Tracks, Raise, PowerOn, PoweredOn

LEMMA MaskCycle ==
  ASSUME NEW s \in Machine, Tracks(s.cp0), PowerOn(s), EndCycle(s)
  PROVE  MInv'
  <1>1. PICK tick \in BOOLEAN : cpu' = IncrementCycleCounters(s, tick)
    BY DEF EndCycle
  <1>2. /\ cpu'.cp0 = [s.cp0 EXCEPT !.ip = @ \/ tick]
        /\ cpu'.fm = s.fm /\ cpu'.rfex = s.rfex /\ cpu'.icrf = s.icrf /\ cpu'.saved = s.saved
    BY <1>1 DEF IncrementCycleCounters, Machine
  <1>3. Tracks(cpu'.cp0) /\ cpu'.cp0.ie = s.cp0.ie
    BY <1>2 DEF Machine, CP0, Tracks, Raise
  <1> QED BY <1>2, <1>3 DEF MInv, PowerOn

(* A cycle of tame stages, when no reset is queued. *)
LEMMA TameCycle ==
  ASSUME NEW s \in Machine, MInv, cpu.fm.excp # "RST", Tame(cpu, s), EndCycle(s)
  PROVE  MInv'
  <1>1. Tracks(s.cp0) /\ PowerOn(s)
    BY DEF MInv, Tame, PowerOn
  <1> QED BY <1>1, MaskCycle

LEMMA NextMInv ==
  ASSUME MaxResets = 0, IInv, MInv, [Next]_vars
  PROVE  MInv'
  <1>1. /\ cpu \in Machine
        /\ Queued(cpu.fm)
        /\ cpu.fm.excpIndex # HANDLE => Sound(cpu)
        /\ cpu.fm.excpIndex = HANDLE => cpu.fm.ilIndex = NORMAL
        /\ cpu.fm.ilIndex = NORMAL => cpu.fm.il = "INV"
        /\ Tracks(cpu.cp0) /\ PowerOn(cpu)
    BY IInvFacts DEF MInv
  <1>2. cpu.fm \in FaultManager
    BY <1>1 DEF Machine
  <1>3. CASE NormalCycle
    <2>1. Quiet(cpu) /\ cpu.fm.excp # "RST"
      BY <1>1, <1>3 DEF NormalCycle, Queued, Quiet, PowerOn
    <2> DEFINE u == DC(WB(cpu))
    <2>2. PICK x \in EX(u) :
            EndCycle(IF IC(RF(x)).fm.faulting THEN IC(RF(x))
                     ELSE CheckForPendingInterrupts(IC(RF(x))))
      BY <1>3 DEF NormalCycle
    <2>3. Quiet(WB(cpu)) /\ Quiet(u)
      BY <2>1, StageSound DEF Quiet
    <2>4. Front(cpu, u)
      BY <1>1, <2>3, BackKept DEF Front, Quiet, Sound
    <2> HIDE DEF u
    <2>5. Quiet(x) /\ Tame(u, x)
      BY <2>2, <2>3, StageSound, ExecuteTame DEF EX, Quiet
    <2>6. Sound(RF(x)) /\ Same(x, RF(x))
      BY <2>5, RFSound, FetchSame DEF Quiet, Sound
    <2> DEFINE y == IC(RF(x))
               z == IF y.fm.faulting THEN y ELSE CheckForPendingInterrupts(y)
    <2>7. Sound(y) /\ Same(RF(x), y)
      BY <2>6, StageSound, FetchSame DEF Sound
    <2>8. z \in Machine /\ Same(y, z)
      <3> HIDE DEF y
      <3> QED BY <2>7, FetchSame, CheckForPendingInterruptsSound DEF Sound, Same
    <2>9. EndCycle(z)
      BY <2>2
    <2> HIDE DEF y, z
    <2>10. Tame(cpu, z)
      BY <2>4, <2>5, <2>6, <2>7, <2>8 DEF Front, Same, Tame
    <2> QED BY <2>1, <2>8, <2>9, <2>10, TameCycle
  <1>4. CASE StallCycle
    <2> DEFINE t == [cpu EXCEPT !.fm.stalls = @ - 1]
    <2>1. /\ t.cp0 = cpu.cp0 /\ t.rfex = cpu.rfex /\ t.icrf = cpu.icrf /\ t.saved = cpu.saved
          /\ t.fm = [cpu.fm EXCEPT !.stalls = @ - 1]
      BY <1>1 DEF Machine
    <2>2. /\ t.fm.excp = cpu.fm.excp /\ t.fm.excpIndex = cpu.fm.excpIndex
          /\ t.fm.ilIndex = cpu.fm.ilIndex
      BY <1>2, <2>1 DEF FaultManager
    <2>3. t \in Machine
      <3>1. cpu.fm.stalls \in 0 .. StallCycles /\ cpu.fm.stalls > 0
        BY <1>2, <1>4 DEF FaultManager, StallCycle
      <3>2. cpu.fm.stalls - 1 \in 0 .. StallCycles
        BY <3>1, BoundAssumption
      <3>3. [cpu.fm EXCEPT !.stalls = @ - 1] \in FaultManager
        BY <1>2, <3>2 DEF FaultManager
      <3> QED BY <1>1, <3>3 DEF Machine
    <2>4. EndCycle(t)
      BY <1>4 DEF StallCycle
    <2> HIDE DEF t
    <2>5. PowerOn(t)
      BY <1>1, <2>1, <2>2 DEF PowerOn
    <2> QED BY <1>1, <2>1, <2>3, <2>4, <2>5, MaskCycle
  <1>5. CASE StartRF \/ StartEX
    <2> DEFINE a == Advance(cpu)
               u == DC(WB(a))
    <2>1. /\ cpu.fm.ilIndex = NORMAL
          /\ StartRF => cpu.fm.excpIndex = START_RF
          /\ StartEX => cpu.fm.excpIndex = START_EX
      BY <1>2, <1>5 DEF StartRF, StartEX, Runs, Entry, FaultManager, Indices
    <2>2. /\ a \in Machine /\ Queued(a.fm) /\ a.fm.ilIndex = NORMAL
          /\ a.fm.excpIndex = cpu.fm.excpIndex + 1
      BY <1>1, <1>5, <2>1, AdvanceFacts
    <2>3. /\ a.fm.excp = cpu.fm.excp /\ a.fm.il = cpu.fm.il
          /\ a.cp0 = cpu.cp0 /\ a.rfex = cpu.rfex /\ a.icrf = cpu.icrf
      BY <1>1, <1>2 DEF Advance, Machine, FaultManager
    <2> HIDE DEF a
    <2>4. Quiet(a)
      BY <1>1, <1>5, <2>1, <2>2, <2>3 DEF Sound, Quiet
    <2>5. Quiet(WB(a)) /\ Quiet(u)
      BY <2>4, StageSound DEF Quiet
    <2>6. Front(a, u)
      BY <2>4, <2>5, BackKept DEF Front, Quiet, Sound
    <2> HIDE DEF u
    <2>7. PICK x \in EX(u) :
            \/ EndCycle(RF(x)) /\ cpu.fm.excpIndex = START_RF
            \/ EndCycle(x) /\ cpu.fm.excpIndex = START_EX
      BY <1>5, <2>1 DEF StartRF, StartEX, u, a
    <2>8. Quiet(x) /\ Tame(u, x)
      <3>1. PICK c \in Choices : x = Execute(u, c)
        BY <2>7 DEF EX
      <3> QED BY <2>5, <3>1, ExecuteSound, ExecuteTame
    <2>9. x \in Machine /\ RF(x) \in Machine /\ Same(x, RF(x))
      BY <2>8, RFSound, FetchSame DEF Quiet, Sound
    <2>10. CASE cpu.fm.excp # "RST"
      <3>1. Tame(cpu, x) /\ Tame(cpu, RF(x))
        BY <2>3, <2>6, <2>8, <2>9 DEF Front, Same, Tame
      <3> QED BY <2>7, <2>9, <2>10, <3>1, TameCycle
    <2>11. CASE cpu.fm.excp = "RST"
      <3>1. Front(u, x)
        <4>1. u \in Machine /\ u.rfex.insn = Bubble
          BY <1>1, <2>3, <2>5, <2>6, <2>11 DEF PowerOn, Front, Quiet, Sound
        <4> QED BY <2>7, <4>1, BackKept
      <3>2. /\ x.cp0 = cpu.cp0 /\ x.rfex.insn = Bubble /\ ~cpu.cp0.ie
            /\ x.fm.excpIndex = cpu.fm.excpIndex + 1 /\ x.fm.ilIndex = NORMAL
        BY <1>1, <2>2, <2>3, <2>6, <2>11, <3>1 DEF PowerOn, Front
      <3>3. CASE EndCycle(x) /\ cpu.fm.excpIndex = START_EX
        <4>1. PowerOn(x)
          BY <2>1, <3>2, <3>3 DEF PowerOn
        <4> QED BY <1>1, <2>9, <3>2, <3>3, <4>1, MaskCycle
      <3>4. CASE EndCycle(RF(x)) /\ cpu.fm.excpIndex = START_RF
        <4>1. Blank(x)
          BY <1>1, <2>1, <2>3, <2>6, <2>11, <3>1, <3>2, <3>4 DEF PowerOn, Front, Blank
        <4>2. PowerOn(RF(x)) /\ RF(x).cp0 = cpu.cp0
          BY <2>1, <2>9, <3>2, <3>4, <4>1, RFBlank DEF PowerOn
        <4> QED BY <1>1, <2>9, <3>4, <4>2, MaskCycle
      <3> QED BY <2>7, <3>3, <3>4
    <2> QED BY <2>10, <2>11
  <1>6. CASE StartDC
    <2> DEFINE a == Advance(cpu)
               u == DC(WB(a))
    <2>1. cpu.fm.excpIndex = START_DC /\ cpu.fm.ilIndex = NORMAL
      BY <1>2, <1>6 DEF StartDC, Runs, Entry, FaultManager, Indices
    <2>2. /\ a \in Machine /\ a.fm.ilIndex = NORMAL
          /\ a.fm.excpIndex = HANDLE
      BY <1>1, <2>1, AdvanceFacts
    <2>3. a.fm.excp = cpu.fm.excp /\ a.cp0 = cpu.cp0 /\ a.rfex = cpu.rfex
      BY <1>1, <1>2 DEF Advance, Machine, FaultManager
    <2> HIDE DEF a
    <2>4. u \in Machine /\ Front(a, u)
      BY <2>2, WBType, DCType, BackKept DEF Front
    <2> HIDE DEF u
    <2>5. PowerOn(u) /\ Tracks(u.cp0)
      BY <1>1, <2>2, <2>3, <2>4 DEF PowerOn, Front
    <2> QED BY <1>6, <2>4, <2>5, MaskCycle DEF StartDC, u, a
  <1>7. CASE RunHandler
    <2> DEFINE f == Flush(cpu)
               t == IF cpu.fm.excp = "RST" THEN FaultRST(f) ELSE CommonExceptionHandler(f)
    <2>1. f \in Machine /\ f.fm = cpu.fm /\ f.cp0 = cpu.cp0
      <3>1. f.cp0 = cpu.cp0
        BY <1>1 DEF Flush, Machine
      <3> QED BY <1>1, <3>1, FlushType
    <2> HIDE DEF f
    <2>2. t \in Machine /\ t.fm = cpu.fm
      BY <2>1, FaultRSTType, CommonHandlerType
    <2>3. ASSUME NEW cp0 \in CP0, NEW v
          PROVE  Enter(SetCP0(f, cp0), v).cp0 = cp0
      BY <2>1, <2>3 DEF Enter, SetCP0, Redirect, Machine
    <2>4. Tracks(t.cp0)
      <3>1. CASE cpu.fm.excp = "RST"
        <4> DEFINE new == IF f.fm.excpData = 0
                          THEN [f.cp0 EXCEPT !.erl = TRUE, !.bev = TRUE] ELSE f.cp0
        <4>1. f.cp0 \in CP0 /\ ~f.cp0.ie /\ Tracks(f.cp0)
          BY <1>1, <2>1, <3>1 DEF PowerOn, Machine
        <4>2. new \in CP0 /\ Tracks(new)
          BY <4>1 DEF CP0, Tracks, Raise
        <4>3. FaultRST(f) = Enter(SetCP0(f, new), ResetVector)
          BY DEF FaultRST
        <4> HIDE DEF new
        <4> QED BY <2>3, <3>1, <4>2, <4>3
      <3>2. CASE cpu.fm.excp # "RST"
        <4> DEFINE epc == IF f.fm.afterBranch THEN f.fm.pc - 1 ELSE f.fm.pc
                   old == IF f.cp0.exl THEN f.cp0
                          ELSE [f.cp0 EXCEPT !.epc = epc, !.bd = f.fm.afterBranch]
                   new == [old EXCEPT !.raise = FALSE, !.exl = TRUE]
                   v   == IF f.cp0.bev THEN BevVector ELSE Vector
        <4>1. old \in CP0
          <5>1. epc \in Int /\ f.fm.afterBranch \in BOOLEAN /\ f.cp0 \in CP0
            BY <2>1 DEF Machine, FaultManager
          <5> HIDE DEF epc
          <5> QED BY <5>1 DEF CP0
        <4>2. new \in CP0 /\ Tracks(new)
          <5> HIDE DEF old
          <5> QED BY <4>1 DEF CP0, Tracks, Raise
        <4>3. CommonExceptionHandler(f) = Enter(SetCP0(f, new), v)
          BY DEF CommonExceptionHandler
        <4> HIDE DEF new, v
        <4> QED BY <2>3, <3>2, <4>2, <4>3
      <3> QED BY <3>1, <3>2
    <2>5. HandleExceptions(cpu) \in Machine
      BY <1>1, <1>7, HandleExceptionsSound DEF RunHandler, Runs, Quiet, Sound
    <2> HIDE DEF t
    <2>6. HandleExceptions(cpu).cp0 = t.cp0 /\ HandleExceptions(cpu).fm.excp = "INV"
      BY <2>2 DEF HandleExceptions, t, f, Machine, FaultManager
    <2>7. Tracks(HandleExceptions(cpu).cp0) /\ PowerOn(HandleExceptions(cpu))
      BY <2>4, <2>6 DEF PowerOn
    <2> QED BY <1>7, <2>5, <2>7, MaskCycle DEF RunHandler
  <1>8. CASE ResumeRF
    <2> DEFINE h == HandleInterlocks(cpu)
               x == IC(RF(h))
    <2>1. Sound(cpu) /\ cpu.fm.stalls = 0 /\ cpu.fm.ilIndex # NORMAL
      <3>1. cpu.fm.excpIndex # HANDLE /\ cpu.fm.stalls = 0 /\ cpu.fm.ilIndex # NORMAL
        BY <1>1, <1>2, <1>8 DEF ResumeRF, Runs, Entry, FaultManager, Indices
      <3> QED BY <1>1, <3>1
    <2>2. Quiet(h)
      BY <2>1, HandleInterlocksSound
    <2>3. /\ h.cp0 = cpu.cp0 /\ h.rfex = cpu.rfex /\ h.icrf = cpu.saved
          /\ h.fm.excp = cpu.fm.excp /\ h.fm.excpIndex = cpu.fm.excpIndex
          /\ h.fm.ilIndex = NORMAL
      <3> DEFINE t == IF cpu.fm.il = "ICB" THEN FaultICB(cpu) ELSE FaultCOP(cpu)
      <3>1. /\ t.cp0 = cpu.cp0 /\ t.rfex = cpu.rfex /\ t.icrf = cpu.saved /\ t.fm = cpu.fm
            /\ h.cp0 = t.cp0 /\ h.rfex = t.rfex /\ h.icrf = t.icrf
            /\ h.fm = [t.fm EXCEPT !.faulting = cpu.fm.excpIndex # NORMAL,
                                   !.ilIndex = NORMAL, !.il = "INV"]
        BY <1>1 DEF HandleInterlocks, FaultICB, FaultCOP, ICacheFill, ICacheSet, Machine
      <3> QED BY <1>2, <3>1 DEF FaultManager
    <2> HIDE DEF h
    <2>4. Sound(RF(h)) /\ Same(h, RF(h))
      BY <2>2, RFSound, FetchSame DEF Quiet, Sound
    <2>5. x \in Machine /\ Same(RF(h), x) /\ x.fm = RF(h).fm
          /\ x.rfex = RF(h).rfex /\ x.saved = RF(h).saved /\ x.cp0 = RF(h).cp0
      BY <2>4, ICType, FetchSame DEF Sound, IC, Machine
    <2>6. EndCycle(x)
      BY <1>8 DEF ResumeRF, h
    <2> HIDE DEF x
    <2>7. CASE cpu.fm.excp # "RST"
      <3>1. Tame(cpu, x)
        BY <2>3, <2>4, <2>5 DEF Same, Tame
      <3> QED BY <2>5, <2>6, <2>7, <3>1, TameCycle
    <2>8. CASE cpu.fm.excp = "RST"
      <3>1. /\ cpu.fm.excpIndex \in START_RF .. HANDLE /\ cpu.fm.excpIndex # START_RF
            /\ cpu.rfex.insn = Bubble /\ ~cpu.saved.live /\ ~cpu.cp0.ie
        BY <1>1, <2>1, <2>8 DEF PowerOn
      <3>2. Blank(h) /\ h \in Machine
        BY <2>2, <2>3, <3>1 DEF Blank, Quiet, Sound
      <3>3. PowerOn(x) /\ x.cp0 = cpu.cp0
        BY <2>3, <2>5, <3>1, <3>2, RFBlank DEF PowerOn
      <3> QED BY <1>1, <2>5, <2>6, <3>3, MaskCycle
    <2> QED BY <2>7, <2>8
  <1>9. CASE FastForward
    <2>1. Sound(cpu) /\ cpu.fm.excp # "RST"
      BY <1>1, <1>2, <1>9 DEF FastForward, Runs, Entry, FaultManager, Indices, PowerOn
    <2>2. CheckForPendingInterrupts(cpu) \in Machine
          /\ Tame(cpu, CheckForPendingInterrupts(cpu))
      BY <2>1, CheckForPendingInterruptsSound, FetchSame, SameTame DEF Sound
    <2> QED BY <1>9, <2>1, <2>2, TameCycle DEF FastForward
  <1>10. ASSUME NEW data, RequestReset(data) PROVE FALSE
    BY <1>10 DEF RequestReset, IInv, TypeOK
  <1>11. CASE UNCHANGED vars
    BY <1>11 DEF vars, MInv
  <1> QED
    BY <1>3, <1>4, <1>5, <1>6, <1>7, <1>8, <1>9, <1>10, <1>11
    DEF Next, CycleVR4300, PerformHardReset, PerformSoftReset

(* interruptRaiseMask follows Status through MTC0, ERET and exceptions, in *)
(* any program and whatever interlocks (CP0.c:99, CP0.c:302, Fault.c:74).  *)
(* After the reset of power-on this holds because no instruction executes  *)
(* before it; a later one sets ERL and leaves the mask (Fault.c:378).      *)
THEOREM MaskTracksStatus ==
  ASSUME MaxResets = 0
  PROVE  Spec => []RaiseMaskTracksStatus
  <1>1. MInv => RaiseMaskTracksStatus
    BY DEF MInv, Tracks, RaiseMaskTracksStatus
  <1>2. IInv /\ MInv /\ [Next]_vars => MInv'
    BY NextMInv
  <1> QED BY <1>1, <1>2, InitMInv, SpecIInv, PTL DEF Spec

-----------------------------------------------------------------------------
(***************************************************************************)
(* Program order.  arch follows the instructions that write back; what the *)
(* instructions in DC/WB and EX/DC will make of it is already decided.     *)
(***************************************************************************)
AfterWB(s) == Retire(s.arch, s.dcwb.insn, s.dcwb.flow, s.dcwb.to)

AfterDC(s) == Retire(AfterWB(s), s.exdc.insn, s.exdc.flow, s.exdc.to)

(* Two instructions follow each other, or the first one is in the slot of  *)
(* a branch.                                                               *)
Straight(e) ==
  IF e.slot THEN IsBranch(e.from) /\ e.pc = e.from + 1 ELSE e.npc = e.pc + 1

InOrder(e, insn, link) ==
  /\ Straight(e)
  /\ insn \in {Bubble, e.pc}
  /\ Links(insn) => link = e.pc + 2

(* DC/WB holds the next instruction of the program, EX/DC the one behind   *)
(* it; the handler flushes EX/DC.                                          *)
Back(s) ==
  /\ s.ra = s.arch.ra
  /\ InOrder(s.arch, s.dcwb.insn, s.dcwb.link)
  /\ s.fm.excpIndex # HANDLE =>
       InOrder(AfterWB(s), s.exdc.insn, s.exdc.link) /\ Straight(AfterDC(s))

(* RF/EX holds the instruction at e, or a bubble, and the PC that IC looks *)
(* up is that of the next one.                                             *)
Fetched(s, e) ==
  IF s.rfex.insn = Bubble
  THEN ~e.slot /\ s.icrf.pc = e.pc
  ELSE /\ s.rfex.insn = e.pc
       /\ s.icrf.pc = e.npc
       /\ s.exdc.branch => e.slot
       /\ ~e.slot => s.rfex.pc = e.pc

Addressed(s, e) == Fetched(s, e) /\ s.icrf.live /\ s.icrf.addr = s.icrf.pc

(* Behind a flush there is nothing in RF/EX and nothing to fetch. *)
Cleared(s, e) ==
  /\ s.rfex.insn = Bubble
  /\ ~s.icrf.live
  /\ s.fm.excpIndex = START_RF \/ (s.icrf.pc + 1 = e.pc /\ ~e.slot)

(* The latch l is about to be fetched from, for the first time or again. *)
Waiting(s, l, e) ==
  IF l.live
  THEN l.addr = e.pc /\ l.pc + 1 = e.npc /\ (s.exdc.branch => e.slot)
  ELSE l.pc + 1 = e.pc /\ ~e.slot

Open(s) == s.fm.excpIndex \in {NORMAL, START_RF, FASTFORWARD}

(* What EX gets next.  Once an exception has reached START_DC, nothing. *)
Coming(s, e) ==
  /\ (Open(s) /\ s.fm.ilIndex = NORMAL) => (Addressed(s, e) \/ Cleared(s, e))
  /\ (Open(s) /\ s.fm.ilIndex # NORMAL) => Waiting(s, s.saved, e)
  /\ (s.fm.excpIndex = START_EX /\ s.fm.ilIndex = NORMAL) =>
       (s.rfex.insn = Bubble \/ Fetched(s, e))
  /\ (s.fm.excpIndex = START_EX /\ s.fm.ilIndex # NORMAL /\ s.saved.live) =>
       Waiting(s, s.saved, e)

OInv == Back(cpu) /\ Coming(cpu, AfterDC(cpu))

(* RF/EX holds no instruction whose line the cache has lost before it is   *)
(* executed.                                                               *)
Held(s) ==
  (Open(s) /\ s.fm.ilIndex = NORMAL /\ s.rfex.insn \in CachedAddr)
    => ICacheProbe(s, s.rfex.insn)

(* The PC and flag of a fault make ERET resume at e. *)
Points(fm, e) ==
  IF fm.afterBranch THEN fm.pc - 1 = e.from ELSE ~e.slot /\ fm.pc = e.pc

(* A queued exception points at the first instruction that will not write  *)
(* back: as the pipeline drains, what it points at reaches WB.             *)
Precise(s) ==
  /\ s.fm.excpIndex = FASTFORWARD => s.fm.ilIndex = NORMAL /\ s.icrf.live
  /\ s.fm.excp # "RST" =>
       /\ s.fm.excpIndex = START_RF =>
            /\ s.fm.ilIndex = NORMAL
            /\ s.icrf.live
            /\ s.fm.pc = s.icrf.pc
            /\ s.fm.afterBranch = IsBranch(s.rfex.insn)
            /\ ~IsERET(s.rfex.insn)
       /\ s.fm.excpIndex = START_EX => Points(s.fm, AfterDC(s))
       /\ s.fm.excpIndex = START_DC => Points(s.fm, AfterWB(s))
       /\ s.fm.excpIndex = HANDLE   => Points(s.fm, s.arch)

PInv == Held(cpu) /\ Precise(cpu)

-----------------------------------------------------------------------------
(***************************************************************************)
(* What EX may do to the latches, whatever the order of instructions is:   *)
(* one predicate for each way an instruction can leave.                    *)
(***************************************************************************)
Kept(s, t) ==
  /\ t.arch = s.arch /\ t.ra = s.ra /\ t.dcwb = s.dcwb /\ t.rfex = s.rfex
  /\ t.icrf.addr = s.icrf.addr

(* The instruction in RF/EX moves to EX/DC. *)
Issues(s, t, flow) ==
  /\ s.rfex.insn # Bubble
  /\ t.exdc.insn = s.rfex.insn
  /\ t.exdc.flow = flow

Linked(s, t) == Links(s.rfex.insn) => t.exdc.link = s.icrf.pc + 1

(* A bubble. *)
Passes(s, t) ==
  /\ s.rfex.insn = Bubble
  /\ t.exdc.insn = Bubble
  /\ t.icrf = s.icrf /\ t.fm = s.fm

(* An instruction that is no branch, among them CACHE with its interlock. *)
Interlocks(s, t) ==
  /\ t.saved = s.icrf
  /\ t.fm.pc = s.fm.pc /\ t.fm.afterBranch = s.fm.afterBranch
  /\ t.fm.excp = s.fm.excp /\ t.fm.excpIndex = s.fm.excpIndex

Proceeds(s, t) ==
  /\ Issues(s, t, "next")
  /\ ~IsBranch(s.rfex.insn)
  /\ t.icrf = s.icrf
  /\ t.fm = s.fm \/ Interlocks(s, t)

(* A branch to itself, if the latch holds the PC of its slot. *)
Loops(s, t) ==
  /\ s.fm.excpIndex = NORMAL
  /\ t.fm.excpIndex = FASTFORWARD /\ t.fm.ilIndex = s.fm.ilIndex /\ t.fm.excp = s.fm.excp
  /\ t.icache = s.icache
  /\ s.icrf.pc = s.rfex.insn + 1 =>
       /\ Program[s.rfex.insn].op \in {"branch", "j"}
       /\ Program[s.rfex.insn].target = s.rfex.insn

Jumps(s, t) ==
  /\ Issues(s, t, "taken")
  /\ IsBranch(s.rfex.insn)
  /\ t.icrf.live = s.icrf.live
  /\ s.icrf.pc = s.rfex.insn + 1 => t.icrf.pc + 1 = t.exdc.to
  /\ Program[s.rfex.insn].op = "ret" => t.exdc.to = RAWith(s)
  /\ t.fm = s.fm \/ Loops(s, t)
  /\ Linked(s, t)

FallsThrough(s, t) ==
  /\ Issues(s, t, "untaken")
  /\ IsBranch(s.rfex.insn)
  /\ t.icrf = s.icrf /\ t.fm = s.fm
  /\ Linked(s, t)

Annuls(s, t) ==
  /\ Issues(s, t, "annul")
  /\ IsBranch(s.rfex.insn)
  /\ ~t.icrf.live /\ t.icrf.pc = s.icrf.pc /\ t.fm = s.fm
  /\ Linked(s, t)

Returns(s, t) ==
  /\ Issues(s, t, "return")
  /\ IsERET(s.rfex.insn)
  /\ ~t.icrf.live /\ t.icrf.pc + 1 = t.exdc.to /\ t.fm = s.fm

(* The coprocessor is unusable. *)
Refused(s, t) ==
  /\ s.rfex.insn # Bubble
  /\ Program[s.rfex.insn].op \in {"cp1", "bc1", "bc1l"}
  /\ t.exdc.insn = Bubble
  /\ IF s.fm.excpIndex = START_DC
     THEN t.fm = s.fm
     ELSE /\ t.fm.excpIndex = START_DC /\ t.fm.excp = "CPU"
          /\ t.fm.pc = s.rfex.pc /\ t.fm.afterBranch = s.exdc.branch

Outcome(s, t) ==
  /\ Kept(s, t)
  /\ \/ Passes(s, t)
     \/ Proceeds(s, t)
     \/ Jumps(s, t)
     \/ FallsThrough(s, t)
     \/ Annuls(s, t)
     \/ Returns(s, t)
     \/ Refused(s, t)

(* The states in which EX runs. *)
Runnable(s) == Quiet(s) /\ s.fm.excpIndex \in {NORMAL, START_EX, START_DC}

LEMMA CompleteEffect ==
  ASSUME NEW s \in Machine, NEW flow, NEW to, NEW t, t = Complete(s, flow, to)
  PROVE  /\ Kept(s, t) /\ t.icrf = s.icrf /\ t.fm = s.fm
         /\ t.saved = s.saved /\ t.icache = s.icache
         /\ t.exdc.insn = s.rfex.insn /\ t.exdc.flow = flow /\ t.exdc.to = to
  BY DEF Machine, EXDC, Complete, Kept

LEMMA RedirectEffect ==
  ASSUME NEW s \in Machine, NEW pc \in Int, NEW t, t = Redirect(s, pc)
  PROVE  /\ Kept(s, t) /\ t.exdc = s.exdc /\ t.fm = s.fm
         /\ t.saved = s.saved /\ t.icache = s.icache
         /\ t.icrf.live = s.icrf.live /\ t.icrf.pc + 1 = pc
  <1>1. t.icrf.pc = pc - 1
    BY DEF Machine, ICRF, Redirect
  <1>2. t.icrf.pc + 1 = pc
    BY <1>1
  <1> QED BY <1>2 DEF Machine, ICRF, Redirect, Kept

LEMMA MaskEffect ==
  ASSUME NEW s \in Machine, NEW t, t = MaskFetch(s)
  PROVE  /\ Kept(s, t) /\ t.exdc = s.exdc /\ t.fm = s.fm
         /\ t.saved = s.saved /\ t.icache = s.icache
         /\ ~t.icrf.live /\ t.icrf.pc = s.icrf.pc
  BY DEF Machine, ICRF, MaskFetch, Kept

LEMMA JumpToEffect ==
  ASSUME NEW s \in Machine, NEW target \in Int, s.rfex.insn # Bubble,
         NEW t, t = JumpTo(s, target)
  PROVE  /\ Kept(s, t) /\ Issues(s, t, "taken") /\ t.exdc.to = target
         /\ t.icrf.live = s.icrf.live /\ t.icrf.pc + 1 = target
         /\ t.fm = s.fm /\ t.icache = s.icache /\ t \in Machine
  <1> DEFINE u == Complete(s, "taken", target)
  <1>1. u \in Machine
    BY CompleteType DEF Flows
  <1>2. /\ Kept(s, u) /\ u.icrf = s.icrf /\ u.fm = s.fm /\ u.icache = s.icache
        /\ u.exdc.insn = s.rfex.insn /\ u.exdc.flow = "taken" /\ u.exdc.to = target
    BY CompleteEffect
  <1>3. t = Redirect(u, target)
    BY DEF JumpTo
  <1> HIDE DEF u
  <1> QED BY <1>1, <1>2, <1>3, RedirectEffect, RedirectType DEF Kept, Issues

LEMMA DetectBusyLoopEffect ==
  ASSUME NEW s \in Machine, NEW self, NEW t, t = DetectBusyLoop(s, self)
  PROVE  /\ Kept(s, t) /\ t.icrf = s.icrf /\ t.icache = s.icache /\ t.exdc = s.exdc
         /\ \/ t.fm = s.fm
            \/ /\ self /\ s.fm.excpIndex = NORMAL
               /\ t.fm.excpIndex = FASTFORWARD /\ t.fm.ilIndex = s.fm.ilIndex
               /\ t.fm.excp = s.fm.excp
  BY DEF Machine, FaultManager, DetectBusyLoop, Kept

LEMMA LinkEffect ==
  ASSUME NEW s, NEW u \in Machine, NEW t, t = Link(s, u)
  PROVE  /\ t.arch = u.arch /\ t.ra = u.ra /\ t.dcwb = u.dcwb /\ t.rfex = u.rfex
         /\ t.icrf = u.icrf /\ t.fm = u.fm /\ t.icache = u.icache
         /\ t.exdc.insn = u.exdc.insn /\ t.exdc.flow = u.exdc.flow /\ t.exdc.to = u.exdc.to
         /\ t.exdc.link = s.icrf.pc + 1
  BY DEF Machine, EXDC, Link

(* Branches, before they link. *)
Branches(s, t) ==
  /\ Kept(s, t)
  /\ \/ /\ Issues(s, t, "taken")
        /\ t.icrf.live = s.icrf.live
        /\ s.icrf.pc = s.rfex.insn + 1 => t.icrf.pc + 1 = t.exdc.to
     \/ Issues(s, t, "untaken") /\ t.icrf = s.icrf /\ t.fm = s.fm
     \/ Issues(s, t, "annul") /\ ~t.icrf.live /\ t.icrf.pc = s.icrf.pc /\ t.fm = s.fm

LEMMA BranchEffect ==
  ASSUME NEW s, Quiet(s), s.rfex.insn # Bubble,
         NEW target \in CodeAddr, NEW likely \in BOOLEAN, NEW c \in Choices,
         NEW t, t = Branch(s, target, likely, c)
  PROVE  /\ Branches(s, t)
         /\ \/ t.fm = s.fm
            \/ /\ target = s.rfex.insn /\ c.zero /\ ~likely /\ s.fm.excpIndex = NORMAL
               /\ t.fm.excpIndex = FASTFORWARD /\ t.fm.ilIndex = s.fm.ilIndex
               /\ t.fm.excp = s.fm.excp /\ t.icache = s.icache
  <1>1. s \in Machine /\ s.icrf.pc \in Int /\ target \in Int /\ s.rfex.insn \in Int
    BY AddressAssumption, WordsAreIntegers DEF Quiet, Sound, Machine, ICRF, RFEX
  <1>2. CASE c.taken
    <2> DEFINE self == target = s.rfex.insn /\ c.zero /\ ~likely
               d == DetectBusyLoop(s, self)
               u == Complete(d, "taken", target)
               pc == d.icrf.pc + (target - (d.rfex.insn + 1))
    <2>1. d \in Machine
      <3>1. self \in BOOLEAN
        BY DEF Choices
      <3> HIDE DEF self
      <3> QED BY <3>1, DetectBusyLoopSound DEF Quiet, Sound
    <2>2. /\ Kept(s, d) /\ d.icrf = s.icrf /\ d.icache = s.icache
          /\ \/ d.fm = s.fm
             \/ /\ self /\ s.fm.excpIndex = NORMAL
                /\ d.fm.excpIndex = FASTFORWARD /\ d.fm.ilIndex = s.fm.ilIndex
                /\ d.fm.excp = s.fm.excp
      <3> HIDE DEF self
      <3> QED BY <1>1, DetectBusyLoopEffect
    <2>3. t = Redirect(u, pc)
      BY <1>2 DEF Branch, BranchBy
    <2> HIDE DEF d
    <2>4. u \in Machine
      BY <1>1, <2>1, CompleteType DEF Flows
    <2>5. /\ Kept(d, u) /\ u.icrf = d.icrf /\ u.fm = d.fm /\ u.icache = d.icache
          /\ u.exdc.insn = d.rfex.insn /\ u.exdc.flow = "taken" /\ u.exdc.to = target
      BY <2>1, CompleteEffect
    <2>6. pc = s.icrf.pc + (target - (s.rfex.insn + 1)) /\ pc \in Int
      BY <1>1, <2>2 DEF Kept
    <2> HIDE DEF u, pc
    <2>7. /\ Kept(u, t) /\ t.exdc = u.exdc /\ t.fm = u.fm /\ t.icache = u.icache
          /\ t.icrf.live = u.icrf.live /\ t.icrf.pc + 1 = pc
      BY <2>3, <2>4, <2>6, RedirectEffect
    <2>8. s.icrf.pc = s.rfex.insn + 1 => pc = target
      BY <1>1, <2>6
    <2>9. Kept(s, t)
      BY <2>2, <2>5, <2>7 DEF Kept
    <2>10. /\ Issues(s, t, "taken") /\ t.icrf.live = s.icrf.live
           /\ s.icrf.pc = s.rfex.insn + 1 => t.icrf.pc + 1 = t.exdc.to
      BY <2>2, <2>5, <2>7, <2>8 DEF Kept, Issues
    <2> QED BY <2>2, <2>5, <2>7, <2>9, <2>10 DEF Branches
  <1>3. CASE ~c.taken
    <2>1. CASE likely
      <3> DEFINE u == Complete(s, "annul", 0)
      <3>1. u \in Machine
        BY <1>1, CompleteType DEF Flows
      <3>2. /\ Kept(s, u) /\ u.icrf = s.icrf /\ u.fm = s.fm
            /\ u.exdc.insn = s.rfex.insn /\ u.exdc.flow = "annul"
        BY <1>1, CompleteEffect
      <3>3. t = MaskFetch(u)
        BY <1>3, <2>1 DEF Branch
      <3> HIDE DEF u
      <3> QED BY <3>1, <3>2, <3>3, MaskEffect DEF Branches, Kept, Issues
    <2>2. CASE ~likely
      <3>1. t = Complete(s, "untaken", 0)
        BY <1>3, <2>2 DEF Branch
      <3> QED BY <1>1, <3>1, CompleteEffect DEF Branches, Issues
    <2> QED BY <2>1, <2>2
  <1> QED BY <1>2, <1>3


(* Branches, in the terms of Outcome. *)
LEMMA BranchOutcome ==
  ASSUME NEW s, Runnable(s), s.rfex.insn # Bubble, IsBranch(s.rfex.insn),
         Program[s.rfex.insn].op # "ret", NEW t, Branches(s, t), Linked(s, t),
         t.fm = s.fm \/ Loops(s, t)
  PROVE  Outcome(s, t)
  <1>1. CASE Issues(s, t, "taken")
    BY <1>1 DEF Branches, Jumps, Outcome, Issues
  <1>2. CASE ~Issues(s, t, "taken")
    BY <1>2 DEF Branches, FallsThrough, Annuls, Outcome
  <1> QED BY <1>1, <1>2

LEMMA RefusedOutcome ==
  ASSUME NEW s, Runnable(s), s.rfex.insn # Bubble,
         Program[s.rfex.insn].op \in {"cp1", "bc1", "bc1l"},
         NEW t, t = CoprocessorUnusable(s)
  PROVE  Outcome(s, t)
  <1> DEFINE u == [s EXCEPT !.exdc.insn = Bubble]
  <1>1. s \in Machine
    BY DEF Runnable, Quiet, Sound
  <1>2. Kept(s, u) /\ u.fm = s.fm /\ u.exdc.insn = Bubble /\ u \in Machine
    BY <1>1 DEF Machine, EXDC, Words, Kept
  <1>3. t = QueueException(u, "CPU", s.rfex.pc, s.exdc.branch, 1, START_DC)
    BY DEF CoprocessorUnusable
  <1> HIDE DEF u
  <1>4. CASE s.fm.excpIndex = START_DC
    <2>1. t = u
      BY <1>2, <1>3, <1>4 DEF QueueException
    <2> QED BY <1>2, <1>4, <2>1 DEF Outcome, Refused
  <1>5. CASE s.fm.excpIndex # START_DC
    <2> DEFINE fm == [u.fm EXCEPT !.pc = s.rfex.pc, !.afterBranch = s.exdc.branch,
                                  !.excpData = 1, !.excpIndex = START_DC,
                                  !.excp = "CPU", !.faulting = TRUE]
    <2>1. s.fm.excpIndex \in {NORMAL, START_EX}
      BY <1>5 DEF Runnable
    <2>2. t = [u EXCEPT !.fm = fm]
      BY <1>2, <1>3, <2>1 DEF QueueException
    <2>3. /\ fm.excpIndex = START_DC /\ fm.excp = "CPU"
          /\ fm.pc = s.rfex.pc /\ fm.afterBranch = s.exdc.branch
      BY <1>2 DEF Machine, FaultManager
    <2> HIDE DEF fm
    <2>4. t.fm = fm /\ t.exdc = u.exdc /\ Kept(u, t)
      BY <1>2, <2>2 DEF Machine, Kept
    <2> QED BY <1>2, <1>5, <2>3, <2>4 DEF Outcome, Refused, Kept
  <1> QED BY <1>4, <1>5

LEMMA BranchOpsOutcome ==
  ASSUME NEW s, Runnable(s), s.rfex.insn # Bubble,
         NEW insn \in Insns, insn = Program[s.rfex.insn],
         insn.op \in {"branch", "likely", "bc1", "bc1l"}, NEW c \in Choices,
         NEW t, t = Dispatch(s, insn, c)
  PROVE  Outcome(s, t)
  <1>1. insn.target \in CodeAddr /\ Quiet(s)
    BY DEF Insns, Runnable
  <1>2. IsBranch(s.rfex.insn) /\ ~Links(s.rfex.insn)
    BY DEF IsBranch, Links
  <1>3. [c EXCEPT !.zero = FALSE] \in Choices /\ ~[c EXCEPT !.zero = FALSE].zero
    BY DEF Choices
  <1>4. ASSUME NEW u, NEW likely \in BOOLEAN, NEW d \in Choices,
               u = Branch(s, insn.target, likely, d),
               d.zero /\ ~likely => insn.op = "branch"
        PROVE  Outcome(s, u)
    <2>1. /\ Branches(s, u)
          /\ \/ u.fm = s.fm
             \/ /\ insn.target = s.rfex.insn /\ d.zero /\ ~likely
                /\ s.fm.excpIndex = NORMAL
                /\ u.fm.excpIndex = FASTFORWARD /\ u.fm.ilIndex = s.fm.ilIndex
                /\ u.fm.excp = s.fm.excp /\ u.icache = s.icache
      BY <1>1, <1>4, BranchEffect
    <2>2. u.fm = s.fm \/ Loops(s, u)
      BY <1>4, <2>1 DEF Loops
    <2> QED BY <1>2, <2>1, <2>2, BranchOutcome DEF Linked
  <1>5. CASE insn.op = "branch"
    BY <1>4, <1>5 DEF Dispatch
  <1>6. CASE insn.op = "likely"
    BY <1>4, <1>6 DEF Dispatch
  <1>7. CASE insn.op \in {"bc1", "bc1l"}
    <2>1. CASE s.cp0.cu1
      <3>1. PICK likely \in BOOLEAN :
              t = Branch(s, insn.target, likely, [c EXCEPT !.zero = FALSE])
        BY <1>7, <2>1 DEF Dispatch, BC1
      <3> QED BY <1>3, <1>4, <3>1
    <2>2. CASE ~s.cp0.cu1
      <3>1. t = CoprocessorUnusable(s)
        BY <1>7, <2>2 DEF Dispatch, BC1
      <3> QED BY <1>7, <3>1, RefusedOutcome
    <2> QED BY <2>1, <2>2
  <1> QED BY <1>5, <1>6, <1>7

LEMMA TargetType ==
  ASSUME NEW insn \in Insns PROVE insn.target \in CodeAddr /\ insn.target \in Int
  <1>1. insn.target \in CodeAddr
    BY DEF Insns
  <1>2. \A a \in CodeAddr : a \in Int
    BY AddressAssumption
  <1> QED BY <1>1, <1>2

LEMMA JumpOpsOutcome ==
  ASSUME NEW s, Runnable(s), s.rfex.insn # Bubble,
         NEW insn \in Insns, insn = Program[s.rfex.insn],
         insn.op \in {"j", "jr", "ret"}, NEW c \in Choices,
         NEW t, t = Dispatch(s, insn, c)
  PROVE  Outcome(s, t)
  <1>1. insn.target \in Int /\ s \in Machine /\ Quiet(s) /\ s.rfex.insn \in Int
        /\ s.icrf.pc \in Int
    <2>1. s \in Machine /\ Quiet(s) /\ s.rfex.insn \in Words /\ s.icrf.pc \in Int
      BY DEF Runnable, Quiet, Sound, Machine, RFEX, ICRF
    <2> QED BY <2>1, WordsAreIntegers, TargetType
  <1>2. IsBranch(s.rfex.insn) /\ ~Links(s.rfex.insn)
    BY DEF IsBranch, Links
  <1>3. ASSUME NEW to \in Int, t = JumpTo(s, to), insn.op = "ret" => to = RAWith(s)
        PROVE  Outcome(s, t)
    BY <1>1, <1>2, <1>3, JumpToEffect DEF Outcome, Jumps, Linked
  <1>4. CASE insn.op = "jr"
    BY <1>1, <1>3, <1>4 DEF Dispatch
  <1>5. CASE insn.op = "ret"
    <2>1. RAWith(s) \in Int
      BY <1>1, RAType
    <2> QED BY <1>3, <1>5, <2>1 DEF Dispatch, JRToRA
  <1>6. CASE insn.op = "j"
    <2> DEFINE self == s.icrf.pc - 1 = insn.target
               d    == DetectBusyLoop(s, self)
    <2>1. d \in Machine
      BY <1>1, DetectBusyLoopSound DEF Quiet, Sound
    <2>2. /\ Kept(s, d) /\ d.icrf = s.icrf /\ d.icache = s.icache
          /\ \/ d.fm = s.fm
             \/ /\ self /\ s.fm.excpIndex = NORMAL
                /\ d.fm.excpIndex = FASTFORWARD /\ d.fm.ilIndex = s.fm.ilIndex
                /\ d.fm.excp = s.fm.excp
      <3> HIDE DEF self
      <3> QED BY <1>1, DetectBusyLoopEffect
    <2>3. t = JumpTo(d, insn.target)
      BY <1>6 DEF Dispatch, J
    <2> HIDE DEF d
    <2>4. /\ Kept(d, t) /\ Issues(d, t, "taken") /\ t.exdc.to = insn.target
          /\ t.icrf.live = d.icrf.live /\ t.icrf.pc + 1 = insn.target
          /\ t.fm = d.fm /\ t.icache = d.icache
      BY <1>1, <2>1, <2>2, <2>3, JumpToEffect DEF Kept
    <2>5. s.icrf.pc = s.rfex.insn + 1 => s.icrf.pc - 1 = s.rfex.insn
      BY <1>1
    <2>6. t.fm = s.fm \/ Loops(s, t)
      BY <1>6, <2>2, <2>4, <2>5 DEF Loops
    <2>7. Kept(s, t) /\ Issues(s, t, "taken")
      BY <2>2, <2>4 DEF Kept, Issues
    <2> QED BY <1>2, <1>6, <2>2, <2>4, <2>6, <2>7 DEF Outcome, Jumps, Linked
  <1> QED BY <1>4, <1>5, <1>6

LEMMA CallsOutcome ==
  ASSUME NEW s, Runnable(s), s.rfex.insn # Bubble,
         NEW insn \in Insns, insn = Program[s.rfex.insn],
         insn.op \in {"jal", "bal", "ball"}, NEW c \in Choices,
         NEW t, t = Dispatch(s, insn, c)
  PROVE  Outcome(s, t)
  <1>1. insn.target \in CodeAddr /\ insn.target \in Int /\ s \in Machine /\ Quiet(s)
    BY TargetType DEF Runnable, Quiet, Sound
  <1>2. IsBranch(s.rfex.insn)
    BY DEF IsBranch
  <1>3. [c EXCEPT !.zero = FALSE] \in Choices /\ ~[c EXCEPT !.zero = FALSE].zero
    BY DEF Choices
  <1>4. CASE insn.op = "jal"
    <2> DEFINE u == JumpTo(s, insn.target)
    <2>1. /\ Kept(s, u) /\ Issues(s, u, "taken") /\ u.exdc.to = insn.target
          /\ u.icrf.live = s.icrf.live /\ u.icrf.pc + 1 = insn.target
          /\ u.fm = s.fm /\ u \in Machine
      BY <1>1, JumpToEffect
    <2>2. t = Link(s, u)
      BY <1>4 DEF Dispatch, JAL
    <2> HIDE DEF u
    <2>3. /\ t.arch = u.arch /\ t.ra = u.ra /\ t.dcwb = u.dcwb /\ t.rfex = u.rfex
          /\ t.icrf = u.icrf /\ t.fm = u.fm
          /\ t.exdc.insn = u.exdc.insn /\ t.exdc.flow = u.exdc.flow
          /\ t.exdc.to = u.exdc.to /\ t.exdc.link = s.icrf.pc + 1
      BY <2>1, <2>2, LinkEffect
    <2>4. Kept(s, t) /\ Issues(s, t, "taken")
      BY <2>1, <2>3 DEF Kept, Issues
    <2> QED BY <1>2, <1>4, <2>1, <2>3, <2>4 DEF Outcome, Jumps, Linked
  <1>5. CASE insn.op \in {"bal", "ball"}
    <2> DEFINE d == [c EXCEPT !.zero = FALSE]
    <2>1. PICK likely \in BOOLEAN : t = Link(s, Branch(s, insn.target, likely, d))
      BY <1>5 DEF Dispatch, BranchAndLink
    <2> DEFINE u == Branch(s, insn.target, likely, d)
    <2> HIDE DEF d
    <2>2. u \in Machine
      BY <1>1, <1>3, BranchSound DEF Quiet, Sound, d
    <2>3. Branches(s, u) /\ u.fm = s.fm
      <3>1. d \in Choices /\ ~d.zero
        BY <1>3 DEF d
      <3> QED BY <1>1, <3>1, BranchEffect
    <2> HIDE DEF u
    <2>4. /\ t.arch = u.arch /\ t.ra = u.ra /\ t.dcwb = u.dcwb /\ t.rfex = u.rfex
          /\ t.icrf = u.icrf /\ t.fm = u.fm
          /\ t.exdc.insn = u.exdc.insn /\ t.exdc.flow = u.exdc.flow
          /\ t.exdc.to = u.exdc.to /\ t.exdc.link = s.icrf.pc + 1
      BY <2>1, <2>2, LinkEffect DEF u
    <2>5. Branches(s, t) /\ t.fm = s.fm /\ Linked(s, t)
      BY <2>3, <2>4 DEF Branches, Kept, Issues, Linked
    <2> QED BY <1>2, <1>5, <2>5, BranchOutcome
  <1> QED BY <1>4, <1>5

LEMMA PlainOutcome ==
  ASSUME NEW s, Runnable(s), s.rfex.insn # Bubble,
         NEW insn \in Insns, insn = Program[s.rfex.insn],
         insn.op \in {"alu", "mem", "cp1", "status", "compare"}, NEW c \in Choices,
         NEW t, t = Dispatch(s, insn, c)
  PROVE  Outcome(s, t)
  <1>1. s \in Machine /\ ~IsBranch(s.rfex.insn)
    BY DEF Runnable, Quiet, Sound, IsBranch
  <1> DEFINE u == Complete(s, "next", 0)
  <1>2. /\ u \in Machine /\ Kept(s, u) /\ u.icrf = s.icrf /\ u.fm = s.fm
        /\ u.exdc.insn = s.rfex.insn /\ u.exdc.flow = "next"
    <2>1. u \in Machine
      BY <1>1, CompleteType DEF Flows
    <2> QED BY <1>1, <2>1, CompleteEffect
  <1> HIDE DEF u
  <1>3. ASSUME Kept(u, t), t.icrf = u.icrf, t.fm = u.fm,
               t.exdc.insn = u.exdc.insn, t.exdc.flow = u.exdc.flow
        PROVE  Outcome(s, t)
    BY <1>1, <1>2, <1>3 DEF Outcome, Proceeds, Kept, Issues
  <1>4. CASE insn.op = "alu"
    <2>1. t = u
      BY <1>4 DEF Dispatch, u
    <2> QED BY <1>3, <2>1 DEF Kept
  <1>5. CASE insn.op = "mem"
    <2>1. t = [u EXCEPT !.exdc.mem = TRUE]
      BY <1>5 DEF Dispatch, u
    <2> QED BY <1>2, <1>3, <2>1 DEF Kept, Machine, EXDC
  <1>6. CASE insn.op = "cp1"
    <2>1. CASE s.cp0.cu1
      <3>1. t = u
        BY <1>6, <2>1 DEF Dispatch, u
      <3> QED BY <1>3, <3>1 DEF Kept
    <2>2. CASE ~s.cp0.cu1
      <3>1. t = CoprocessorUnusable(s)
        BY <1>6, <2>2 DEF Dispatch
      <3> QED BY <1>6, <3>1, RefusedOutcome
    <2> QED BY <2>1, <2>2
  <1>7. CASE insn.op \in {"status", "compare"}
    <2>1. PICK cp0 : t = SetCP0(u, cp0)
      <3>1. insn.op = "status" => t = MTC0Status(s, insn.status)
        BY DEF Dispatch
      <3>2. insn.op = "compare" => t = MTC0Compare(s)
        BY DEF Dispatch
      <3> QED BY <1>7, <3>1, <3>2 DEF MTC0Status, MTC0Compare, u
    <2> QED BY <1>2, <1>3, <2>1 DEF Kept, Machine, SetCP0
  <1> QED BY <1>4, <1>5, <1>6, <1>7

LEMMA ERETOutcome ==
  ASSUME NEW s, Runnable(s), s.rfex.insn # Bubble, IsERET(s.rfex.insn),
         NEW t, t = ERET(s)
  PROVE  Outcome(s, t)
  <1> DEFINE back == IF s.cp0.erl THEN s.cp0.errorEPC ELSE s.cp0.epc
             u == Complete(s, "return", back)
             v == Redirect(u, back)
             w == MaskFetch(v)
  <1>1. s \in Machine
    BY DEF Runnable, Quiet, Sound
  <1>2. back \in Int
    BY <1>1 DEF Machine, CP0
  <1>3. PICK cp0 : t = SetCP0(w, cp0)
    BY DEF ERET
  <1> HIDE DEF back
  <1>4. u \in Machine
    BY <1>1, <1>2, CompleteType DEF Flows
  <1>5. /\ Kept(s, u) /\ u.icrf = s.icrf /\ u.fm = s.fm
        /\ u.exdc.insn = s.rfex.insn /\ u.exdc.flow = "return" /\ u.exdc.to = back
    BY <1>1, CompleteEffect
  <1> HIDE DEF u
  <1>6. v \in Machine /\ Kept(u, v) /\ v.exdc = u.exdc /\ v.fm = u.fm
        /\ v.icrf.pc + 1 = back
    BY <1>2, <1>4, RedirectEffect, RedirectType
  <1> HIDE DEF v
  <1>7. /\ w \in Machine /\ Kept(v, w) /\ w.exdc = v.exdc /\ w.fm = v.fm
        /\ ~w.icrf.live /\ w.icrf.pc = v.icrf.pc
    BY <1>6, MaskEffect, MaskType
  <1> HIDE DEF w
  <1>8. Kept(w, t) /\ t.exdc = w.exdc /\ t.fm = w.fm /\ t.icrf = w.icrf
    BY <1>3, <1>7 DEF Kept, Machine, SetCP0
  <1>9. Kept(s, t) /\ Returns(s, t)
    BY <1>5, <1>6, <1>7, <1>8 DEF Kept, Returns, Issues
  <1> QED BY <1>9 DEF Outcome

LEMMA CACHEOutcome ==
  ASSUME NEW s, Runnable(s), s.rfex.insn # Bubble, ~IsBranch(s.rfex.insn),
         NEW op \in {"fill", "index", "hit"}, NEW addr, NEW t, t = CACHE(s, op, addr)
  PROVE  Outcome(s, t)
  <1> DEFINE u == Complete(s, "next", 0)
  <1>1. /\ u \in Machine /\ Kept(s, u) /\ u.icrf = s.icrf /\ u.fm = s.fm
        /\ u.exdc.insn = s.rfex.insn /\ u.exdc.flow = "next"
    <2>1. s \in Machine
      BY DEF Runnable, Quiet, Sound
    <2>2. u \in Machine
      BY <2>1, CompleteType DEF Flows
    <2> QED BY <2>1, <2>2, CompleteEffect
  <1>2. \/ t = u
        \/ t = ICacheSet(u, addr, NoLine)
        \/ t = QueueInterlock(SaveFetch(u), "COP", addr, RESUME_RF)
    BY DEF CACHE
  <1> HIDE DEF u
  <1>3. CASE t = u
    BY <1>1, <1>3 DEF Outcome, Proceeds, Issues
  <1>4. CASE t = ICacheSet(u, addr, NoLine)
    BY <1>1, <1>4 DEF Outcome, Proceeds, Issues, Kept, Machine, ICacheSet
  <1>5. CASE t = QueueInterlock(SaveFetch(u), "COP", addr, RESUME_RF)
    <2> DEFINE v == SaveFetch(u)
    <2>1. v \in Machine /\ Kept(u, v) /\ v.icrf = u.icrf /\ v.fm = u.fm
          /\ v.exdc = u.exdc /\ v.saved = u.icrf
      BY <1>1, SaveType DEF Machine, SaveFetch, Kept
    <2> HIDE DEF v
    <2>2. t = v \/ t = [v EXCEPT !.fm = [v.fm EXCEPT !.ilData = addr, !.ilIndex = RESUME_RF,
                                           !.il = "COP", !.faulting = TRUE,
                                           !.stalls = StallCycles]]
      BY <1>5 DEF QueueInterlock, v
    <2>3. CASE t = v
      BY <1>1, <2>1, <2>3 DEF Outcome, Proceeds, Issues, Kept
    <2>4. CASE t # v
      <3> DEFINE fm == [v.fm EXCEPT !.ilData = addr, !.ilIndex = RESUME_RF,
                                    !.il = "COP", !.faulting = TRUE,
                                    !.stalls = StallCycles]
      <3>1. /\ fm.pc = v.fm.pc /\ fm.afterBranch = v.fm.afterBranch
            /\ fm.excp = v.fm.excp /\ fm.excpIndex = v.fm.excpIndex
        BY <2>1 DEF Machine, FaultManager
      <3>2. t = [v EXCEPT !.fm = fm]
        BY <2>2, <2>4
      <3> HIDE DEF fm
      <3>3. /\ t.fm = fm /\ Kept(v, t) /\ t.icrf = v.icrf /\ t.exdc = v.exdc
            /\ t.saved = v.saved
        BY <2>1, <3>2 DEF Machine, Kept
      <3> QED BY <1>1, <2>1, <3>1, <3>3 DEF Outcome, Proceeds, Interlocks, Issues, Kept
    <2> QED BY <2>3, <2>4
  <1> QED BY <1>2, <1>3, <1>4, <1>5

LEMMA DispatchOutcome ==
  ASSUME NEW s, Runnable(s), s.rfex.insn # Bubble,
         NEW insn \in Insns, insn = Program[s.rfex.insn], NEW c \in Choices
  PROVE  Outcome(s, Dispatch(s, insn, c))
  <1>1. insn.op \in Ops
    BY DEF Insns
  <1>2. CASE insn.op \in {"alu", "mem", "cp1", "status", "compare"}
    BY <1>2, PlainOutcome
  <1>3. CASE insn.op \in {"branch", "likely", "bc1", "bc1l"}
    BY <1>3, BranchOpsOutcome
  <1>4. CASE insn.op \in {"j", "jr", "ret"}
    BY <1>4, JumpOpsOutcome
  <1>5. CASE insn.op \in {"jal", "bal", "ball"}
    BY <1>5, CallsOutcome
  <1>6. CASE insn.op = "eret"
    BY <1>6, ERETOutcome DEF Dispatch, IsERET
  <1>7. CASE insn.op \in {"fill", "index", "hit"}
    <2>1. ~IsBranch(s.rfex.insn)
      BY <1>7 DEF IsBranch
    <2>2. Dispatch(s, insn, c) = CACHE(s, insn.op, insn.target)
      BY <1>7 DEF Dispatch
    <2> QED BY <1>7, <2>1, <2>2, CACHEOutcome
  <1> QED BY <1>1, <1>2, <1>3, <1>4, <1>5, <1>6, <1>7 DEF Ops

(* EX, on whatever RF/EX holds; it ends by setting the flag that the next  *)
(* instruction is in a slot.                                               *)
LEMMA ExecuteOutcome ==
  ASSUME NEW s, Runnable(s), NEW c \in Choices, NEW t, t = Execute(s, c)
  PROVE  Outcome(s, t) /\ t.exdc.branch = IsBranch(s.rfex.insn)
  <1> DEFINE insn == s.rfex.insn
             u    == IF insn = Bubble THEN Complete(s, "next", 0)
                                      ELSE Dispatch(s, Program[insn], c)
  <1>1. insn \in Words /\ Quiet(s) /\ s \in Machine
    BY DEF Runnable, Quiet, Sound, Machine, RFEX
  <1>2. insn # Bubble => Program[insn] \in Insns
    BY <1>1, ProgramAssumption DEF Words
  <1>3. u \in Machine
    BY <1>1, <1>2, CompleteSound, DispatchSound DEF Flows, Quiet, Sound
  <1>4. Outcome(s, u)
    <2>1. CASE insn = Bubble
      BY <1>1, <2>1, CompleteEffect DEF Outcome, Passes
    <2>2. CASE insn # Bubble
      BY <1>2, <2>2, DispatchOutcome
    <2> QED BY <2>1, <2>2
  <1>5. t = [u EXCEPT !.exdc.branch = IsBranch(insn)]
    BY DEF Execute
  <1> HIDE DEF u
  <1>6. /\ Kept(u, t) /\ t.icrf = u.icrf /\ t.fm = u.fm /\ t.saved = u.saved
        /\ t.icache = u.icache /\ t.exdc.branch = IsBranch(insn)
        /\ t.exdc.insn = u.exdc.insn /\ t.exdc.flow = u.exdc.flow
        /\ t.exdc.to = u.exdc.to /\ t.exdc.link = u.exdc.link
    BY <1>3, <1>5 DEF Machine, EXDC, Kept
  <1>7. Kept(s, t)
    BY <1>4, <1>6 DEF Outcome, Kept
  <1> QED
    BY <1>4, <1>6, <1>7 DEF Outcome, Passes, Proceeds, Interlocks, Jumps, Loops, FallsThrough,
                            Annuls, Returns, Refused, Issues, Linked

-----------------------------------------------------------------------------
(* What becomes of the program order when an instruction is retired. *)
RetireSays(e, w, flow, to, f) ==
  /\ w = Bubble => f = e
  /\ w # Bubble /\ flow = "next" => f = ArchAt(e.npc, LinkedBy(e, w))
  /\ w # Bubble /\ flow = "taken" =>
       f = [pc |-> e.npc, npc |-> GoesTo(e, w, to), from |-> w, slot |-> TRUE,
            ra |-> LinkedBy(e, w)]
  /\ w # Bubble /\ flow = "untaken" =>
       f = [pc |-> e.npc, npc |-> e.npc + 1, from |-> w, slot |-> TRUE,
            ra |-> LinkedBy(e, w)]
  /\ w # Bubble /\ flow = "annul" =>
       f = [pc |-> e.npc + 1, npc |-> e.npc + 2, from |-> w, slot |-> FALSE,
            ra |-> LinkedBy(e, w)]
  /\ w # Bubble /\ flow = "return" => f = ArchAt(to, LinkedBy(e, w))

LEMMA RetireFacts ==
  ASSUME NEW e, NEW w, NEW flow, NEW to
  PROVE  RetireSays(e, w, flow, to, Retire(e, w, flow, to))
  <1>1. CASE w = Bubble
    BY <1>1 DEF Retire, RetireSays
  <1>2. CASE w # Bubble /\ flow = "next"
    BY <1>2 DEF Retire, RetireSays
  <1>3. CASE w # Bubble /\ flow = "taken"
    BY <1>3 DEF Retire, RetireSays
  <1>4. CASE w # Bubble /\ flow = "untaken"
    BY <1>4 DEF Retire, RetireSays
  <1>5. CASE w # Bubble /\ flow = "annul"
    BY <1>5 DEF Retire, RetireSays
  <1>6. CASE w # Bubble /\ flow = "return"
    BY <1>6 DEF Retire, RetireSays
  <1>7. CASE w # Bubble /\ flow \notin {"next", "taken", "untaken", "annul", "return"}
    BY <1>7 DEF RetireSays
  <1> QED BY <1>1, <1>2, <1>3, <1>4, <1>5, <1>6, <1>7

(* The register RA that an instruction leaves is the one it links. *)
LEMMA RetireRA ==
  ASSUME NEW e \in Arch, NEW w \in Words, NEW flow \in Flows, NEW to \in Int
  PROVE  Retire(e, w, flow, to).ra = LinkedBy(e, w)
  <1>1. CASE w = Bubble
    BY <1>1, RetireFacts DEF RetireSays, LinkedBy, Links
  <1>2. CASE w # Bubble
    BY <1>2, RetireFacts DEF RetireSays, Flows, ArchAt
  <1> QED BY <1>1, <1>2

(* What is in the pipeline is typed. *)
LEMMA AfterType ==
  ASSUME NEW s \in Machine
  PROVE  AfterWB(s) \in Arch /\ AfterDC(s) \in Arch
  <1>1. /\ s.arch \in Arch
        /\ s.dcwb.insn \in Words /\ s.dcwb.flow \in Flows /\ s.dcwb.to \in Int
        /\ s.exdc.insn \in Words /\ s.exdc.flow \in Flows /\ s.exdc.to \in Int
    BY DEF Machine, DCWB, EXDC
  <1> QED BY <1>1, RetireType DEF AfterWB, AfterDC

(* One cycle of WB and DC moves the two instructions of the back end on,   *)
(* and leaves the front end alone.                                         *)
LEMMA Drained ==
  ASSUME NEW s \in Machine, Back(s), s.fm.excpIndex # HANDLE, NEW u, u = DC(WB(s))
  PROVE  /\ u \in Machine
         /\ u.fm = s.fm /\ u.rfex = s.rfex /\ u.icrf = s.icrf /\ u.saved = s.saved
         /\ u.cp0 = s.cp0 /\ u.icache = s.icache /\ u.exdc.branch = s.exdc.branch
         /\ u.arch = AfterWB(s) /\ AfterWB(u) = AfterDC(s)
         /\ u.ra = u.arch.ra
         /\ InOrder(u.arch, u.dcwb.insn, u.dcwb.link)
         /\ RAWith(u) = AfterDC(s).ra
  <1> DEFINE w == WB(s)
  <1>1. w \in Machine
    BY WBType
  <1>2. /\ w.arch = AfterWB(s) /\ w.ra = RAWith(s)
        /\ w.fm = s.fm /\ w.rfex = s.rfex /\ w.icrf = s.icrf /\ w.saved = s.saved
        /\ w.cp0 = s.cp0 /\ w.icache = s.icache /\ w.exdc = s.exdc
    BY DEF Machine, WB, AfterWB
  <1>3. u = DC(w)
    OBVIOUS
  <1> HIDE DEF w
  <1>4. u \in Machine
    BY <1>1, <1>3, DCType
  <1>5. /\ u.arch = w.arch /\ u.ra = w.ra /\ u.fm = w.fm /\ u.rfex = w.rfex
        /\ u.icrf = w.icrf /\ u.saved = w.saved /\ u.cp0 = w.cp0 /\ u.icache = w.icache
        /\ u.exdc.branch = w.exdc.branch
        /\ u.dcwb.insn = w.exdc.insn /\ u.dcwb.flow = w.exdc.flow
        /\ u.dcwb.to = w.exdc.to /\ u.dcwb.link = w.exdc.link
    <2> DEFINE dcwb == [insn |-> w.exdc.insn, flow |-> w.exdc.flow, to |-> w.exdc.to,
                        link |-> w.exdc.link]
               exdc == [w.exdc EXCEPT !.mem = FALSE]
    <2>1. u = [w EXCEPT !.dcwb = dcwb, !.exdc = exdc]
      BY <1>1, <1>3 DEF Machine, DC, Deliver
    <2>2. exdc.branch = w.exdc.branch
      BY <1>1 DEF Machine, EXDC
    <2> HIDE DEF exdc
    <2>3. /\ u.arch = w.arch /\ u.ra = w.ra /\ u.fm = w.fm /\ u.rfex = w.rfex
          /\ u.icrf = w.icrf /\ u.saved = w.saved /\ u.cp0 = w.cp0 /\ u.icache = w.icache
          /\ u.exdc = exdc /\ u.dcwb = dcwb
      <3> HIDE DEF dcwb
      <3> QED BY <1>1, <2>1 DEF Machine
    <2> QED BY <2>2, <2>3
  <1>6. AfterWB(u) = AfterDC(s)
    BY <1>2, <1>5 DEF AfterWB, AfterDC
  <1>7. /\ s.arch \in Arch /\ AfterWB(s) \in Arch
        /\ s.dcwb.insn \in Words /\ s.dcwb.flow \in Flows /\ s.dcwb.to \in Int
        /\ s.exdc.insn \in Words /\ s.exdc.flow \in Flows /\ s.exdc.to \in Int
    BY AfterType DEF Machine, DCWB, EXDC
  <1>8. AfterWB(s).ra = LinkedBy(s.arch, s.dcwb.insn)
    BY <1>7, RetireRA DEF AfterWB
  <1>9. AfterDC(s).ra = LinkedBy(AfterWB(s), s.exdc.insn)
    BY <1>7, RetireRA DEF AfterDC
  <1>10. RAWith(s) = AfterWB(s).ra
    BY <1>8 DEF RAWith, LinkedBy, Back, InOrder
  <1>11. RAWith(u) = AfterDC(s).ra
    BY <1>2, <1>5, <1>9, <1>10 DEF RAWith, LinkedBy, Back, InOrder
  <1> QED BY <1>2, <1>4, <1>5, <1>6, <1>10, <1>11 DEF Back

-----------------------------------------------------------------------------
(* A branch that is next is in no slot. *)
LEMMA BranchOutOfSlot ==
  ASSUME SlotsHoldNoBranch, NEW e \in Arch, Straight(e), e.pc \in CodeAddr, IsBranch(e.pc)
  PROVE  ~e.slot /\ e.npc = e.pc + 1
  <1>1. SUFFICES ASSUME e.slot PROVE FALSE
    BY DEF Straight, Arch
  <1>2. IsBranch(e.from) /\ e.pc = e.from + 1 /\ e.from \in Words
    BY <1>1 DEF Straight, Arch
  <1>3. e.from \in CodeAddr
    BY <1>2 DEF IsBranch, Words
  <1> QED BY <1>2, <1>3 DEF SlotsHoldNoBranch

(* The instruction that EX may find, and what it finds of the program      *)
(* order in front of it.                                                   *)
Ready(u) ==
  LET e == AfterWB(u)
  IN  /\ Straight(e)
      /\ RAWith(u) = e.ra
      /\ u.rfex.insn = Bubble \/ Fetched(u, e)


(* EX keeps the program order: what it issues is next, and the latch leads *)
(* to the one after it.                                                    *)
LEMMA ExecuteInOrder ==
  ASSUME SlotsHoldNoBranch,
         NEW u, Runnable(u), Ready(u), NEW x \in Machine, Outcome(u, x),
         x.exdc.branch = IsBranch(u.rfex.insn)
  PROVE  /\ AfterWB(x) = AfterWB(u)
         /\ InOrder(AfterWB(x), x.exdc.insn, x.exdc.link)
         /\ Straight(AfterDC(x))
         /\ x.fm.excpIndex # START_DC =>
              /\ Addressed(u, AfterWB(u)) => Waiting(x, x.icrf, AfterDC(x))
              /\ u.rfex.insn = Bubble => x.icrf = u.icrf /\ AfterDC(x) = AfterWB(u)
  <1> DEFINE e == AfterWB(u)
             f == AfterDC(x)
             i == u.rfex.insn
  <1>1. u \in Machine
    BY DEF Runnable, Quiet, Sound
  <1>2. /\ e \in Arch /\ i \in Words /\ u.icrf.pc \in Int /\ u.icrf.live \in BOOLEAN
        /\ x.exdc.to \in Int /\ x.icrf.pc \in Int /\ x.icrf.live \in BOOLEAN
    BY <1>1, AfterType DEF Machine, RFEX, ICRF, EXDC
  <1>3. /\ e.pc \in Int /\ e.npc \in Int /\ e.slot \in BOOLEAN /\ e.from \in Words
        /\ e.ra \in Int
    BY <1>2 DEF Arch
  <1>4. AfterWB(x) = e
    BY DEF Outcome, Kept, AfterWB
  <1>5. f = Retire(e, x.exdc.insn, x.exdc.flow, x.exdc.to)
    BY <1>4 DEF AfterDC
  <1>20. RetireSays(e, x.exdc.insn, x.exdc.flow, x.exdc.to, f)
    BY <1>5, RetireFacts
  <1>6. Straight(e) /\ RAWith(u) = e.ra
    BY DEF Ready
  <1>7. i # Bubble => /\ i = e.pc /\ i \in CodeAddr /\ u.icrf.pc = e.npc
                      /\ Fetched(u, e)
    BY <1>2 DEF Ready, Fetched, Words
  <1>8. IsBranch(i) => i # Bubble /\ ~e.slot /\ e.npc = e.pc + 1 /\ u.icrf.pc = i + 1
    BY <1>2, <1>6, <1>7, BranchOutOfSlot DEF IsBranch
  <1>9. Links(i) => IsBranch(i)
    BY DEF Links, IsBranch
  <1>10. x.icrf.addr = u.icrf.addr
    BY DEF Outcome, Kept
  <1> HIDE DEF e, f, i
  <1> DEFINE Goal ==
        /\ InOrder(e, x.exdc.insn, x.exdc.link)
        /\ Straight(f)
        /\ x.fm.excpIndex # START_DC =>
             /\ Addressed(u, e) => Waiting(x, x.icrf, f)
             /\ i = Bubble => x.icrf = u.icrf /\ f = e
  <1>11. ASSUME Passes(u, x) PROVE Goal
    <2>1. i = Bubble /\ x.exdc.insn = Bubble /\ x.icrf = u.icrf /\ f = e
      BY <1>20, <1>11 DEF RetireSays, Passes, i
    <2>2. ~x.exdc.branch
      BY <2>1 DEF IsBranch, i
    <2>3. Addressed(u, e) => Waiting(x, x.icrf, f)
      BY <1>3, <1>6, <2>1, <2>2 DEF Addressed, Fetched, Waiting, Straight, i
    <2> QED BY <1>6, <2>1, <2>3 DEF InOrder, Links
  <1>12. ASSUME Proceeds(u, x) PROVE Goal
    <2>1. i # Bubble /\ x.exdc.insn = i /\ x.exdc.flow = "next" /\ ~IsBranch(i)
          /\ x.icrf = u.icrf
      BY <1>12 DEF Proceeds, Issues, i
    <2>2. f = ArchAt(e.npc, LinkedBy(e, i))
      BY <1>20, <2>1 DEF RetireSays
    <2>3. f.pc = e.npc /\ f.npc = e.npc + 1 /\ ~f.slot
      BY <2>2 DEF ArchAt
    <2>4. ~x.exdc.branch /\ ~Links(i)
      BY <1>9, <2>1 DEF i
    <2>5. Addressed(u, e) => Waiting(x, x.icrf, f)
      BY <1>7, <2>1, <2>3, <2>4 DEF Addressed, Waiting
    <2> QED BY <1>6, <1>7, <2>1, <2>3, <2>4, <2>5 DEF InOrder, Straight
  <1>13. ASSUME x.exdc.insn = i, IsBranch(i), Linked(u, x)
         PROVE  InOrder(e, x.exdc.insn, x.exdc.link)
    BY <1>3, <1>6, <1>7, <1>8, <1>13 DEF InOrder, Linked, i
  <1>14. ASSUME Jumps(u, x) PROVE Goal
    <2>1. /\ i # Bubble /\ x.exdc.insn = i /\ x.exdc.flow = "taken" /\ IsBranch(i)
          /\ x.icrf.live = u.icrf.live /\ x.icrf.pc + 1 = x.exdc.to /\ Linked(u, x)
          /\ Program[i].op = "ret" => x.exdc.to = RAWith(u)
      BY <1>8, <1>14 DEF Jumps, Issues, i
    <2>2. GoesTo(e, i, x.exdc.to) = x.exdc.to
      BY <1>6, <2>1 DEF GoesTo
    <2>3. f.pc = e.npc /\ f.npc = x.exdc.to /\ f.from = i /\ f.slot
      BY <1>20, <2>1, <2>2 DEF RetireSays
    <2>4. Addressed(u, e) => Waiting(x, x.icrf, f)
      BY <1>7, <1>10, <2>1, <2>3 DEF Addressed, Waiting
    <2> QED BY <1>7, <1>8, <1>13, <2>1, <2>3, <2>4 DEF Straight
  <1>15. ASSUME FallsThrough(u, x) PROVE Goal
    <2>1. /\ i # Bubble /\ x.exdc.insn = i /\ x.exdc.flow = "untaken" /\ IsBranch(i)
          /\ x.icrf = u.icrf /\ Linked(u, x)
      BY <1>15 DEF FallsThrough, Issues, i
    <2>2. f.pc = e.npc /\ f.npc = e.npc + 1 /\ f.from = i /\ f.slot
      BY <1>20, <2>1 DEF RetireSays
    <2>3. Addressed(u, e) => Waiting(x, x.icrf, f)
      BY <1>7, <2>1, <2>2 DEF Addressed, Waiting
    <2> QED BY <1>7, <1>8, <1>13, <2>1, <2>2, <2>3 DEF Straight
  <1>16. ASSUME Annuls(u, x) PROVE Goal
    <2>1. /\ i # Bubble /\ x.exdc.insn = i /\ x.exdc.flow = "annul" /\ IsBranch(i)
          /\ ~x.icrf.live /\ x.icrf.pc = u.icrf.pc /\ Linked(u, x)
      BY <1>16 DEF Annuls, Issues, i
    <2>2. f.pc = e.npc + 1 /\ f.npc = e.npc + 2 /\ ~f.slot
      BY <1>20, <2>1 DEF RetireSays
    <2>3. Waiting(x, x.icrf, f)
      BY <1>7, <2>1, <2>2 DEF Waiting
    <2> QED BY <1>3, <1>13, <2>1, <2>2, <2>3 DEF Straight
  <1>17. ASSUME Returns(u, x) PROVE Goal
    <2>1. /\ i # Bubble /\ x.exdc.insn = i /\ x.exdc.flow = "return" /\ IsERET(i)
          /\ ~x.icrf.live /\ x.icrf.pc + 1 = x.exdc.to
      BY <1>17 DEF Returns, Issues, i
    <2>2. f.pc = x.exdc.to /\ f.npc = x.exdc.to + 1 /\ ~f.slot
      BY <1>20, <2>1 DEF RetireSays, ArchAt
    <2>3. Waiting(x, x.icrf, f)
      BY <2>1, <2>2 DEF Waiting
    <2>4. ~Links(i)
      BY <2>1 DEF IsERET, Links
    <2> QED BY <1>6, <1>7, <2>1, <2>2, <2>3, <2>4 DEF Straight, InOrder
  <1>18. ASSUME Refused(u, x) PROVE Goal
    <2>1. i # Bubble /\ x.exdc.insn = Bubble /\ x.fm.excpIndex = START_DC
      BY <1>18 DEF Refused, i
    <2>2. f = e
      BY <1>20, <2>1 DEF RetireSays
    <2> QED BY <1>6, <2>1, <2>2 DEF InOrder, Links
  <1>19. Goal
    BY <1>11, <1>12, <1>14, <1>15, <1>16, <1>17, <1>18 DEF Outcome
  <1> QED BY <1>4, <1>19 DEF e, f, i

-----------------------------------------------------------------------------
(* A cycle of WB, DC and EX on a back end in order. *)
LEMMA IssuesInOrder ==
  ASSUME SlotsHoldNoBranch,
         NEW s, Runnable(s), Back(s),
         s.rfex.insn = Bubble \/ Fetched(s, AfterDC(s)),
         NEW x \in EX(DC(WB(s)))
  PROVE  /\ Quiet(x) /\ Back(x) /\ AfterWB(x) = AfterDC(s)
         /\ Outcome(DC(WB(s)), x)
         /\ x.exdc.branch = IsBranch(s.rfex.insn)
         /\ x.fm.excpIndex # START_DC =>
              /\ Addressed(s, AfterDC(s)) => Waiting(x, x.icrf, AfterDC(x))
              /\ s.rfex.insn = Bubble => x.icrf = s.icrf /\ AfterDC(x) = AfterDC(s)
  <1> DEFINE u == DC(WB(s))
  <1>1. s \in Machine /\ s.fm.excpIndex # HANDLE
    BY DEF Runnable, Quiet, Sound
  <1>2. /\ u \in Machine
        /\ u.fm = s.fm /\ u.rfex = s.rfex /\ u.icrf = s.icrf
        /\ u.exdc.branch = s.exdc.branch
        /\ AfterWB(u) = AfterDC(s)
        /\ u.ra = u.arch.ra
        /\ InOrder(u.arch, u.dcwb.insn, u.dcwb.link)
        /\ RAWith(u) = AfterDC(s).ra
    BY <1>1, Drained
  <1>3. PICK c \in Choices : x = Execute(u, c)
    BY DEF EX
  <1> HIDE DEF u
  <1>4. Runnable(u) /\ u.fm.excpIndex # HANDLE
    BY <1>2 DEF Runnable, Quiet, Sound
  <1>5. Ready(u)
    BY <1>1, <1>2 DEF Ready, Fetched, Back
  <1>6. Quiet(x) /\ x \in Machine
    BY <1>3, <1>4, ExecuteSound DEF Runnable, Quiet, Sound
  <1>7. Outcome(u, x) /\ x.exdc.branch = IsBranch(u.rfex.insn)
    BY <1>3, <1>4, ExecuteOutcome
  <1>8. /\ AfterWB(x) = AfterWB(u)
        /\ InOrder(AfterWB(x), x.exdc.insn, x.exdc.link)
        /\ Straight(AfterDC(x))
        /\ x.fm.excpIndex # START_DC =>
             /\ Addressed(u, AfterWB(u)) => Waiting(x, x.icrf, AfterDC(x))
             /\ u.rfex.insn = Bubble => x.icrf = u.icrf /\ AfterDC(x) = AfterWB(u)
    BY <1>4, <1>5, <1>6, <1>7, ExecuteInOrder
  <1>9. Back(x)
    BY <1>2, <1>7, <1>8 DEF Back, Outcome, Kept
  <1>10. Addressed(u, AfterWB(u)) <=> Addressed(s, AfterDC(s))
    BY <1>2 DEF Addressed, Fetched
  <1> QED BY <1>2, <1>6, <1>7, <1>8, <1>9, <1>10 DEF u

(* When it interlocks, the saved latch is the one that EX left. *)
LEMMA InterlockSaves ==
  ASSUME NEW u, NEW x, Outcome(u, x), u.fm.ilIndex = NORMAL, x.fm.ilIndex # NORMAL,
         x.fm.excpIndex # START_DC
  PROVE  x.saved = x.icrf
  BY DEF Outcome, Passes, Proceeds, Interlocks, Jumps, Loops, FallsThrough, Annuls, Returns,
         Refused

-----------------------------------------------------------------------------
(* What RF does: it misses, or it fetches. *)
Behind(s, t) ==
  /\ t.arch = s.arch /\ t.ra = s.ra /\ t.dcwb = s.dcwb /\ t.exdc = s.exdc
  /\ t.cp0 = s.cp0 /\ t.icache = s.icache

SameException(s, t) ==
  /\ t.fm.excpIndex = s.fm.excpIndex /\ t.fm.excp = s.fm.excp
  /\ t.fm.pc = s.fm.pc /\ t.fm.afterBranch = s.fm.afterBranch

Misses(s, t) ==
  /\ SameException(s, t)
  /\ t.fm.ilIndex # NORMAL
  /\ t.saved = s.icrf /\ t.icrf = s.icrf /\ t.rfex = s.rfex

Hits(s, t) ==
  /\ t.fm = s.fm /\ t.saved = s.saved
  /\ t.rfex.pc = s.icrf.pc
  /\ t.rfex.insn = IF s.icrf.live THEN s.icrf.addr ELSE Bubble
  /\ t.icrf.pc = s.icrf.pc + 1 /\ t.icrf.live /\ t.icrf.addr = s.icrf.addr

LEMMA RFEffect ==
  ASSUME NEW s \in Machine, NEW t, t = RF(s)
  PROVE  /\ Behind(s, t)
         /\ IF s.icrf.addr \in CachedAddr /\ ~ICacheProbe(s, s.icrf.addr)
            THEN Misses(s, t) ELSE Hits(s, t)
  <1>1. CASE s.icrf.addr \in CachedAddr /\ ~ICacheProbe(s, s.icrf.addr)
    <2> DEFINE v == SaveFetch(s)
    <2>1. /\ v \in Machine /\ Behind(s, v) /\ v.fm = s.fm /\ v.icrf = s.icrf
          /\ v.rfex = s.rfex /\ v.saved = s.icrf
      BY SaveType DEF Machine, SaveFetch, Behind
    <2>2. t = QueueInterlock(v, "ICB", s.icrf.addr, RESUME_RF)
      BY <1>1 DEF RF
    <2> HIDE DEF v
    <2> DEFINE fm == [v.fm EXCEPT !.ilData = s.icrf.addr, !.ilIndex = RESUME_RF,
                                  !.il = "ICB", !.faulting = TRUE, !.stalls = StallCycles]
    <2>3. CASE v.fm.ilIndex = NORMAL
      <3>1. t = [v EXCEPT !.fm = fm]
        BY <2>2, <2>3 DEF QueueInterlock
      <3>2. /\ fm.pc = v.fm.pc /\ fm.afterBranch = v.fm.afterBranch
            /\ fm.excp = v.fm.excp /\ fm.excpIndex = v.fm.excpIndex
            /\ fm.ilIndex = RESUME_RF
        BY <2>1 DEF Machine, FaultManager
      <3> HIDE DEF fm
      <3>3. /\ t.fm = fm /\ Behind(v, t) /\ t.icrf = v.icrf /\ t.rfex = v.rfex
            /\ t.saved = v.saved
        BY <2>1, <3>1 DEF Machine, Behind
      <3>4. Behind(s, t)
        BY <2>1, <3>3 DEF Behind
      <3> QED BY <1>1, <2>1, <3>2, <3>3, <3>4 DEF Misses, SameException
    <2>4. CASE v.fm.ilIndex # NORMAL
      <3>1. v.fm.ilIndex = RESUME_RF
        BY <2>1, <2>4 DEF Machine, FaultManager
      <3>2. t = v
        BY <2>2, <3>1 DEF QueueInterlock
      <3> QED BY <1>1, <2>1, <2>4, <3>2 DEF Misses, SameException
    <2> QED BY <2>3, <2>4
  <1>2. CASE ~(s.icrf.addr \in CachedAddr /\ ~ICacheProbe(s, s.icrf.addr))
    <2> DEFINE v == Fetch(s)
    <2>1. /\ v \in Machine /\ Behind(s, v) /\ v.fm = s.fm /\ v.icrf = s.icrf
          /\ v.saved = s.saved
          /\ v.rfex.pc = s.icrf.pc
          /\ v.rfex.insn = IF s.icrf.live THEN s.icrf.addr ELSE Bubble
      BY FetchType DEF Machine, Fetch, Behind
    <2>2. t = [v EXCEPT !.icrf = [@ EXCEPT !.pc = s.icrf.pc + 1, !.live = TRUE]]
      BY <1>2 DEF RF
    <2> HIDE DEF v
    <2> DEFINE l == [v.icrf EXCEPT !.pc = s.icrf.pc + 1, !.live = TRUE]
    <2>3. l.pc = s.icrf.pc + 1 /\ l.live /\ l.addr = s.icrf.addr
      BY <2>1 DEF Machine, ICRF
    <2>4. t = [v EXCEPT !.icrf = l]
      BY <2>1, <2>2 DEF Machine
    <2> HIDE DEF l
    <2>5. t.icrf = l /\ Behind(v, t) /\ t.fm = v.fm /\ t.rfex = v.rfex /\ t.saved = v.saved
      BY <2>1, <2>4 DEF Machine, Behind
    <2>6. Behind(s, t)
      BY <2>1, <2>5 DEF Behind
    <2> QED BY <1>2, <2>1, <2>3, <2>5, <2>6 DEF Hits
  <1> QED BY <1>1, <1>2

(* The instructions behind it stay where they are. *)
LEMMA BehindAfter ==
  ASSUME NEW s, NEW t, Behind(s, t)
  PROVE  /\ AfterWB(t) = AfterWB(s) /\ AfterDC(t) = AfterDC(s)
         /\ Back(s) /\ t.fm.excpIndex = s.fm.excpIndex => Back(t)
  BY DEF Behind, AfterWB, AfterDC, Back

(* A latch that leads to the next instruction brings it to RF/EX. *)
LEMMA FetchesInOrder ==
  ASSUME NEW s \in Machine, NEW f \in Arch, Straight(f), Waiting(s, s.icrf, f),
         s.fm.ilIndex # NORMAL => s.saved = s.icrf, NEW t, t = RF(s)
  PROVE  IF t.fm.ilIndex # NORMAL THEN Waiting(t, t.saved, f)
                                  ELSE Fetched(t, f) /\ t.icrf.live
  <1>1. Behind(s, t) /\ (Misses(s, t) \/ Hits(s, t))
    BY RFEffect
  <1>2. /\ f.pc \in Int /\ f.npc \in Int /\ f.slot \in BOOLEAN
        /\ s.icrf.pc \in Int /\ s.icrf.addr \in CodeAddr /\ s.icrf.live \in BOOLEAN
    BY DEF Arch, Machine, ICRF
  <1>3. s.icrf.addr # Bubble
    BY <1>2, AddressAssumption DEF Bubble
  <1>4. CASE Misses(s, t)
    BY <1>1, <1>4 DEF Misses, Waiting, Behind
  <1>5. CASE Hits(s, t) /\ s.fm.ilIndex # NORMAL
    BY <1>1, <1>5 DEF Hits, Waiting, Behind
  <1>6. CASE Hits(s, t) /\ s.fm.ilIndex = NORMAL
    <2>1. t.fm.ilIndex = NORMAL /\ t.icrf.live
      BY <1>6 DEF Hits
    <2>2. CASE s.icrf.live
      <3>1. t.rfex.insn = f.pc /\ t.rfex.insn # Bubble /\ t.icrf.pc = f.npc
        BY <1>3, <1>6, <2>2 DEF Hits, Waiting
      <3>2. t.exdc.branch => f.slot
        BY <1>1, <2>2 DEF Behind, Waiting
      <3>3. ~f.slot => s.icrf.pc = f.pc
        BY <1>2, <2>2 DEF Waiting, Straight
      <3> QED BY <1>6, <2>1, <3>1, <3>2, <3>3 DEF Hits, Fetched
    <2>3. CASE ~s.icrf.live
      <3>1. t.rfex.insn = Bubble /\ ~f.slot /\ t.icrf.pc = f.pc
        BY <1>6, <2>3 DEF Hits, Waiting
      <3> QED BY <2>1, <3>1 DEF Fetched
    <2> QED BY <2>2, <2>3
  <1> QED BY <1>1, <1>4, <1>5, <1>6

(* A bubble stays one. *)
LEMMA FetchesNothing ==
  ASSUME NEW s \in Machine, ~s.icrf.live, s.fm.ilIndex # NORMAL => s.saved = s.icrf,
         NEW t, t = RF(s)
  PROVE  IF t.fm.ilIndex # NORMAL THEN ~t.saved.live ELSE t.rfex.insn = Bubble
  <1>1. Misses(s, t) \/ Hits(s, t)
    BY RFEffect
  <1> QED BY <1>1 DEF Misses, Hits

(* IC looks up the PC, if it is in a region. *)
LEMMA ICEffect ==
  ASSUME NEW s \in Machine, NEW t, t = IC(s)
  PROVE  /\ Behind(s, t) /\ t.fm = s.fm /\ t.saved = s.saved /\ t.rfex = s.rfex
         /\ t.icrf.pc = s.icrf.pc /\ t.icrf.live = s.icrf.live
         /\ s.icrf.pc \in CodeAddr => t.icrf.addr = t.icrf.pc
  <1>1. CASE s.icrf.pc \in CodeAddr
    BY <1>1 DEF Machine, ICRF, IC, Behind
  <1>2. CASE s.icrf.pc \notin CodeAddr
    BY <1>2 DEF IC, Behind
  <1> QED BY <1>1, <1>2

(* An exception that is queued for START_RF, and the latches it leaves. *)
FaultOnly(s, t) ==
  Behind(s, t) /\ t.rfex = s.rfex /\ t.icrf = s.icrf /\ t.saved = s.saved

LEMMA QueueEffect ==
  ASSUME NEW s \in Machine, NEW fault, NEW pc, NEW b, NEW data,
         NEW t, t = QueueException(s, fault, pc, b, data, START_RF)
  PROVE  /\ FaultOnly(s, t)
         /\ IF s.fm.excpIndex \in {NORMAL, FASTFORWARD}
            THEN /\ t.fm.excpIndex = START_RF /\ t.fm.ilIndex = s.fm.ilIndex
                 /\ t.fm.excp = fault /\ t.fm.pc = pc /\ t.fm.afterBranch = b
            ELSE t.fm = s.fm
  <1>1. s.fm.excpIndex \in {NORMAL, START_RF, START_EX, START_DC, HANDLE, FASTFORWARD}
    BY DEF Machine, FaultManager, Indices
  <1>2. CASE s.fm.excpIndex \in {NORMAL, FASTFORWARD}
    <2> DEFINE fm == [s.fm EXCEPT !.pc = pc, !.afterBranch = b, !.excpData = data,
                                  !.excpIndex = START_RF, !.excp = fault, !.faulting = TRUE]
    <2>1. t = [s EXCEPT !.fm = fm]
      BY <1>2 DEF QueueException
    <2>2. /\ fm.excpIndex = START_RF /\ fm.ilIndex = s.fm.ilIndex
          /\ fm.excp = fault /\ fm.pc = pc /\ fm.afterBranch = b
      BY DEF Machine, FaultManager
    <2> HIDE DEF fm
    <2>3. t.fm = fm /\ FaultOnly(s, t)
      BY <2>1 DEF Machine, FaultOnly, Behind
    <2> QED BY <1>2, <2>2, <2>3
  <1>3. CASE s.fm.excpIndex \notin {NORMAL, FASTFORWARD}
    <2>1. t = s
      BY <1>1, <1>3 DEF QueueException
    <2> QED BY <1>3, <2>1 DEF FaultOnly, Behind
  <1> QED BY <1>2, <1>3

-----------------------------------------------------------------------------
(***************************************************************************)
(* The inductive invariant of ProgramOrder.  What waits to write back says *)
(* nothing of what was fetched: the invariant ties the latches of the      *)
(* front end, or the copy of one that an interlock saved, to the state of  *)
(* the program behind the instructions in flight.                          *)
(***************************************************************************)
Flowing(s) == Back(s) /\ Coming(s, AfterDC(s))

Regional(s) ==
  (Open(s) /\ s.fm.ilIndex = NORMAL /\ s.icrf.live) => s.icrf.pc \in CodeAddr

(* Two states that differ in what no stage reads. *)
Alike(s, t) ==
  /\ t.arch = s.arch /\ t.ra = s.ra /\ t.dcwb = s.dcwb /\ t.exdc = s.exdc
  /\ t.rfex = s.rfex /\ t.icrf = s.icrf /\ t.saved = s.saved /\ t.icache = s.icache
  /\ t.cp0.raise = s.cp0.raise
  /\ SameException(s, t) /\ t.fm.ilIndex = s.fm.ilIndex

LEMMA AlikeFlows ==
  ASSUME NEW s, NEW t, Alike(s, t)
  PROVE  /\ AfterWB(t) = AfterWB(s) /\ AfterDC(t) = AfterDC(s)
         /\ Flowing(s) => Flowing(t)
         /\ Regional(t) => Regional(s)
  <1>1. /\ AfterWB(t) = AfterWB(s) /\ AfterDC(t) = AfterDC(s)
        /\ t.fm.excpIndex = s.fm.excpIndex
    BY DEF Alike, AfterWB, AfterDC, SameException
  <1>2. Back(s) => Back(t)
    BY <1>1 DEF Alike, Back
  <1>3. Coming(s, AfterDC(s)) => Coming(t, AfterDC(s))
    BY <1>1 DEF Alike, Coming, Open, Addressed, Fetched, Cleared, Waiting
  <1>4. Regional(t) => Regional(s)
    BY <1>1 DEF Alike, Regional, Open
  <1> QED BY <1>1, <1>2, <1>3, <1>4 DEF Flowing

LEMMA CycleEnds ==
  ASSUME NEW s \in Machine, EndCycle(s)
  PROVE  Alike(s, cpu')
  <1>1. PICK tick \in BOOLEAN : cpu' = IncrementCycleCounters(s, tick)
    BY DEF EndCycle
  <1> QED BY <1>1 DEF IncrementCycleCounters, Machine, CP0, Alike, SameException

LEMMA FlowingCycle ==
  ASSUME NEW s \in Machine, Flowing(s), EndCycle(s)
  PROVE  OInv'
  <1>1. Flowing(cpu')
    BY CycleEnds, AlikeFlows
  <1> QED BY <1>1 DEF Flowing, OInv

(* An exception that is queued for START_RF touches no latch. *)
LEMMA QueueFlows ==
  ASSUME NEW s \in Machine, Flowing(s), NEW fault, NEW pc, NEW b, NEW data,
         NEW t, t = QueueException(s, fault, pc, b, data, START_RF)
  PROVE  Flowing(t) /\ (Regional(t) => Regional(s))
  <1>1. /\ FaultOnly(s, t)
        /\ IF s.fm.excpIndex \in {NORMAL, FASTFORWARD}
           THEN t.fm.excpIndex = START_RF /\ t.fm.ilIndex = s.fm.ilIndex
           ELSE t.fm = s.fm
    BY QueueEffect
  <1>2. AfterWB(t) = AfterWB(s) /\ AfterDC(t) = AfterDC(s)
    BY <1>1, BehindAfter DEF FaultOnly
  <1>3. Back(t)
    BY <1>1, <1>2 DEF Flowing, Back, FaultOnly, Behind
  <1>4. Coming(t, AfterDC(t))
    BY <1>1, <1>2
    DEF Flowing, Coming, Open, Addressed, Fetched, Cleared, Waiting, FaultOnly, Behind
  <1>5. Regional(t) => Regional(s)
    BY <1>1 DEF Regional, Open, FaultOnly
  <1> QED BY <1>3, <1>4, <1>5 DEF Flowing

LEMMA InterruptFlows ==
  ASSUME NEW s \in Machine, Flowing(s)
  PROVE  Flowing(CheckForPendingInterrupts(s))
  BY QueueFlows DEF CheckForPendingInterrupts

LEMMA InterruptRegional ==
  ASSUME NEW s \in Machine, Regional(CheckForPendingInterrupts(s))
  PROVE  Regional(s)
  <1>1. ASSUME NEW t, NEW b, t = QueueException(s, "INTR", s.icrf.pc, b, 0, START_RF),
               Regional(t)
        PROVE  Regional(s)
    BY <1>1, QueueEffect DEF Regional, Open, FaultOnly
  <1> QED BY <1>1 DEF CheckForPendingInterrupts

(* IC completes the fetch. *)
LEMMA ICFlows ==
  ASSUME NEW s \in Machine, Back(s), Open(s),
         IF s.fm.ilIndex # NORMAL THEN Waiting(s, s.saved, AfterDC(s))
                                  ELSE Fetched(s, AfterDC(s)) /\ s.icrf.live,
         NEW t, t = IC(s), Regional(t)
  PROVE  Flowing(t)
  <1>1. /\ Behind(s, t) /\ t.fm = s.fm /\ t.saved = s.saved /\ t.rfex = s.rfex
        /\ t.icrf.pc = s.icrf.pc /\ t.icrf.live = s.icrf.live
        /\ s.icrf.pc \in CodeAddr => t.icrf.addr = t.icrf.pc
    BY ICEffect
  <1>2. Back(t) /\ AfterDC(t) = AfterDC(s)
    BY <1>1, BehindAfter
  <1>3. Coming(t, AfterDC(s))
    BY <1>1 DEF Coming, Open, Addressed, Fetched, Waiting, Behind, Regional
  <1> QED BY <1>2, <1>3 DEF Flowing

(* Advancing a queued exception. *)
LEMMA AdvanceEffect ==
  ASSUME NEW s \in Machine, NEW t, t = Advance(s)
  PROVE  /\ FaultOnly(s, t)
         /\ t.fm.excpIndex = s.fm.excpIndex + 1 /\ t.fm.ilIndex = s.fm.ilIndex
         /\ t.fm.excp = s.fm.excp /\ t.fm.pc = s.fm.pc
         /\ t.fm.afterBranch = s.fm.afterBranch
  <1> DEFINE fm == [s.fm EXCEPT !.excpIndex = s.fm.excpIndex + 1]
  <1>1. t = [s EXCEPT !.fm = fm]
    BY DEF Advance, Machine
  <1>2. /\ fm.excpIndex = s.fm.excpIndex + 1 /\ fm.ilIndex = s.fm.ilIndex
        /\ fm.excp = s.fm.excp /\ fm.pc = s.fm.pc
        /\ fm.afterBranch = s.fm.afterBranch
    BY DEF Machine, FaultManager
  <1> HIDE DEF fm
  <1>3. t.fm = fm /\ FaultOnly(s, t)
    BY <1>1 DEF Machine, FaultOnly, Behind
  <1> QED BY <1>2, <1>3

(* The state in which a queued exception lets EX run once more. *)
LEMMA AdvanceRuns ==
  ASSUME IInv, NEW index \in {START_RF, START_EX}, Runs(index), NEW a, a = Advance(cpu)
  PROVE  /\ Runnable(a)
         /\ FaultOnly(cpu, a)
         /\ cpu.fm.ilIndex = NORMAL /\ a.fm.ilIndex = NORMAL
         /\ cpu.fm.excpIndex = index /\ a.fm.excpIndex = index + 1
         /\ a.fm.excp = cpu.fm.excp /\ a.fm.pc = cpu.fm.pc
         /\ a.fm.afterBranch = cpu.fm.afterBranch
  <1>1. /\ cpu \in Machine /\ cpu.fm \in FaultManager /\ Queued(cpu.fm)
        /\ cpu.fm.ilIndex = NORMAL => cpu.fm.il = "INV"
    BY IInvFacts DEF Machine
  <1>2. cpu.fm.ilIndex = NORMAL /\ cpu.fm.excpIndex = index
    BY <1>1 DEF Runs, Entry, FaultManager, Indices
  <1>3. /\ FaultOnly(cpu, a)
        /\ a.fm.excpIndex = index + 1 /\ a.fm.ilIndex = NORMAL
        /\ a.fm.excp = cpu.fm.excp /\ a.fm.pc = cpu.fm.pc
        /\ a.fm.afterBranch = cpu.fm.afterBranch
    BY <1>1, <1>2, AdvanceEffect
  <1>4. a \in Machine /\ Queued(a.fm)
    BY <1>1, <1>2, AdvanceFacts
  <1>5. a.fm.il = "INV"
    BY <1>3, <1>4 DEF Queued
  <1> QED BY <1>2, <1>3, <1>4, <1>5 DEF Runnable, Quiet, Sound

(* The latches after an interlock has been handled. *)
LEMMA HandleInterlocksEffect ==
  ASSUME NEW s \in Machine, NEW t, t = HandleInterlocks(s)
  PROVE  /\ t.arch = s.arch /\ t.ra = s.ra /\ t.dcwb = s.dcwb /\ t.exdc = s.exdc
         /\ t.rfex = s.rfex /\ t.icrf = s.saved /\ t.saved = s.saved /\ t.cp0 = s.cp0
         /\ SameException(s, t) /\ t.fm.ilIndex = NORMAL
  <1> DEFINE u == IF s.fm.il = "ICB" THEN FaultICB(s) ELSE FaultCOP(s)
  <1>2. /\ u.arch = s.arch /\ u.ra = s.ra /\ u.dcwb = s.dcwb /\ u.exdc = s.exdc
        /\ u.rfex = s.rfex /\ u.icrf = s.saved /\ u.saved = s.saved /\ u.cp0 = s.cp0
        /\ u.fm = s.fm
    BY DEF FaultICB, FaultCOP, ICacheFill, ICacheSet, Machine
  <1> DEFINE fm == [u.fm EXCEPT !.faulting = s.fm.excpIndex # NORMAL,
                                !.ilIndex = NORMAL, !.il = "INV"]
  <1>3. /\ t.arch = u.arch /\ t.ra = u.ra /\ t.dcwb = u.dcwb /\ t.exdc = u.exdc
        /\ t.rfex = u.rfex /\ t.icrf = u.icrf /\ t.saved = u.saved /\ t.cp0 = u.cp0
        /\ t.fm = fm
    BY DEF HandleInterlocks, FaultICB, FaultCOP, ICacheFill, ICacheSet, Machine
  <1>4. /\ fm.pc = s.fm.pc /\ fm.afterBranch = s.fm.afterBranch
        /\ fm.excp = s.fm.excp /\ fm.excpIndex = s.fm.excpIndex
        /\ fm.ilIndex = NORMAL
    BY <1>2 DEF Machine, FaultManager
  <1> HIDE DEF fm, u
  <1> QED BY <1>2, <1>3, <1>4 DEF SameException

-----------------------------------------------------------------------------
(* The cycles, one lemma each. *)
LEMMA OutcomeIndex ==
  ASSUME NEW u, NEW x, Outcome(u, x)
  PROVE  \/ x.fm.excpIndex \in {u.fm.excpIndex, START_DC}
         \/ /\ u.fm.excpIndex = NORMAL /\ x.fm.excpIndex = FASTFORWARD
            /\ Jumps(u, x) /\ Loops(u, x)
  BY DEF Outcome, Passes, Proceeds, Interlocks, Jumps, Loops, FallsThrough, Annuls, Returns,
         Refused

(* A cycle of the whole pipeline, from x, which EX leaves, to z, which IC  *)
(* leaves, and w, its last state.                                          *)
Cycles(x, z, w) ==
  /\ x \in EX(DC(WB(cpu)))
  /\ z = IC(RF(x))
  /\ w = IF z.fm.faulting THEN z ELSE CheckForPendingInterrupts(z)
  /\ EndCycle(w)

LEMMA NormalCycles ==
  ASSUME IInv, NormalCycle
  PROVE  /\ Runnable(cpu) /\ cpu.fm.excpIndex = NORMAL /\ cpu.fm.ilIndex = NORMAL
         /\ \E x, z, w : Cycles(x, z, w)
  <1>1. /\ Queued(cpu.fm)
        /\ cpu.fm.excpIndex # HANDLE => Sound(cpu)
        /\ cpu.fm.ilIndex = NORMAL => cpu.fm.il = "INV"
    BY IInvFacts
  <1>2. cpu.fm.excpIndex = NORMAL /\ cpu.fm.ilIndex = NORMAL
    BY <1>1 DEF NormalCycle, Queued
  <1>3. PICK x \in EX(DC(WB(cpu))) :
          EndCycle(IF IC(RF(x)).fm.faulting THEN IC(RF(x))
                   ELSE CheckForPendingInterrupts(IC(RF(x))))
    BY DEF NormalCycle
  <1>4. Cycles(x, IC(RF(x)), IF IC(RF(x)).fm.faulting THEN IC(RF(x))
                             ELSE CheckForPendingInterrupts(IC(RF(x))))
    BY <1>3 DEF Cycles
  <1>5. \E z, w : Cycles(x, z, w)
    BY <1>4
  <1> QED BY <1>1, <1>2, <1>5 DEF Runnable, Quiet

(* The front end in such a cycle, unless an exception cuts it off. *)
LEMMA CyclesInOrder ==
  ASSUME SlotsHoldNoBranch, IInv, OInv, NormalCycle, FetchesInRegions',
         NEW x, NEW z, NEW w, Cycles(x, z, w)
  PROVE  /\ Quiet(x) /\ Sound(RF(x)) /\ Sound(z) /\ w \in Machine
         /\ Flowing(z) /\ Flowing(w)
  <1> DEFINE u == DC(WB(cpu))
             y == RF(x)
             f == AfterDC(x)
  <1>1. Runnable(cpu) /\ cpu.fm.excpIndex = NORMAL /\ cpu.fm.ilIndex = NORMAL
    BY NormalCycles
  <1>2. cpu \in Machine /\ cpu.fm.excpIndex # HANDLE /\ Back(cpu)
    BY <1>1 DEF Runnable, Quiet, Sound, OInv
  <1>3. Addressed(cpu, AfterDC(cpu)) \/ Cleared(cpu, AfterDC(cpu))
    BY <1>1 DEF OInv, Coming, Open
  <1>4. cpu.rfex.insn = Bubble \/ Fetched(cpu, AfterDC(cpu))
    BY <1>3 DEF Addressed, Cleared
  <1>5. /\ Quiet(x) /\ Back(x) /\ Outcome(u, x)
        /\ x.fm.excpIndex # START_DC =>
             /\ Addressed(cpu, AfterDC(cpu)) => Waiting(x, x.icrf, f)
             /\ cpu.rfex.insn = Bubble => x.icrf = cpu.icrf /\ f = AfterDC(cpu)
    BY <1>1, <1>2, <1>4, IssuesInOrder DEF Cycles
  <1>6. u.fm = cpu.fm
    BY <1>2, Drained
  <1>7. x \in Machine /\ f \in Arch
    BY <1>5, AfterType DEF Quiet, Sound
  <1>8. Sound(y) /\ y \in Machine /\ Sound(z) /\ z \in Machine
    <2>1. Sound(y) /\ y \in Machine
      BY <1>5, RFSound DEF Quiet, Sound
    <2> QED BY <2>1, StageSound DEF Cycles, Sound
  <1>9. w \in Machine
    BY <1>8, CheckForPendingInterruptsSound DEF Cycles, Sound
  <1>10. Regional(z)
    <2>1. Regional(cpu')
      BY DEF FetchesInRegions, Regional, Open
    <2>2. Regional(w)
      BY <1>9, <2>1, CycleEnds, AlikeFlows DEF Cycles
    <2> QED BY <1>8, <2>2, InterruptRegional DEF Cycles
  <1>11. Behind(x, y) /\ (Misses(x, y) \/ Hits(x, y))
    BY <1>7, RFEffect
  <1>12. y.fm.excpIndex = x.fm.excpIndex
    BY <1>11 DEF Misses, Hits, SameException
  <1>13. Back(y) /\ AfterDC(y) = f
    BY <1>5, <1>11, <1>12, BehindAfter
  <1>14. z = IC(y)
    BY DEF Cycles
  <1> HIDE DEF u, y, f
  <1>15. ASSUME x.fm.excpIndex = START_DC PROVE Flowing(z)
    <2>1. Behind(y, z) /\ z.fm = y.fm
      BY <1>8, <1>14, ICEffect
    <2>2. Back(z)
      BY <1>13, <2>1, BehindAfter
    <2> QED BY <1>12, <1>15, <2>1, <2>2 DEF Flowing, Coming, Open
  <1>16. ASSUME x.fm.excpIndex # START_DC PROVE Flowing(z)
    <2>1. Open(x)
      BY <1>1, <1>5, <1>6, <1>16, OutcomeIndex DEF Open
    <2>2. Waiting(x, x.icrf, f)
      BY <1>1, <1>3, <1>5, <1>16 DEF Cleared, Waiting
    <2>3. Straight(f)
      BY <1>5, <2>1 DEF Back, Open, f
    <2>4. x.fm.ilIndex # NORMAL => x.saved = x.icrf
      BY <1>1, <1>5, <1>6, <1>16, InterlockSaves
    <2>5. IF y.fm.ilIndex # NORMAL THEN Waiting(y, y.saved, f)
                                   ELSE Fetched(y, f) /\ y.icrf.live
      BY <1>7, <2>2, <2>3, <2>4, FetchesInOrder DEF y
    <2>6. Open(y)
      BY <1>12, <2>1 DEF Open
    <2> QED BY <1>8, <1>10, <1>13, <1>14, <2>5, <2>6, ICFlows
  <1>17. Flowing(z)
    BY <1>15, <1>16
  <1>18. Flowing(w)
    BY <1>8, <1>17, InterruptFlows DEF Cycles
  <1> QED BY <1>5, <1>8, <1>9, <1>17, <1>18 DEF y

LEMMA NormalOrder ==
  ASSUME SlotsHoldNoBranch, IInv, OInv, NormalCycle, FetchesInRegions'
  PROVE  OInv'
  <1>1. PICK x, z, w : Cycles(x, z, w)
    BY NormalCycles
  <1> QED BY <1>1, CyclesInOrder, FlowingCycle DEF Cycles

(* A stall counts down and touches no latch. *)
LEMMA StallAlike ==
  ASSUME IInv, StallCycle
  PROVE  Alike(cpu, cpu')
  <1> DEFINE t == [cpu EXCEPT !.fm.stalls = @ - 1]
  <1>1. cpu \in Machine /\ cpu.fm \in FaultManager
    BY IInvFacts DEF Machine
  <1>2. t \in Machine
    <2>1. cpu.fm.stalls \in 0 .. StallCycles /\ cpu.fm.stalls > 0
      BY <1>1 DEF FaultManager, StallCycle
    <2>2. cpu.fm.stalls - 1 \in 0 .. StallCycles
      BY <2>1, BoundAssumption
    <2>3. [cpu.fm EXCEPT !.stalls = @ - 1] \in FaultManager
      BY <1>1, <2>2 DEF FaultManager
    <2> QED BY <1>1, <2>3 DEF Machine
  <1>3. Alike(cpu, t)
    <2> DEFINE fm == [cpu.fm EXCEPT !.stalls = cpu.fm.stalls - 1]
    <2>1. t = [cpu EXCEPT !.fm = fm]
      BY <1>1 DEF Machine
    <2>2. /\ fm.pc = cpu.fm.pc /\ fm.afterBranch = cpu.fm.afterBranch
          /\ fm.excp = cpu.fm.excp /\ fm.excpIndex = cpu.fm.excpIndex
          /\ fm.ilIndex = cpu.fm.ilIndex
      BY <1>1 DEF FaultManager
    <2> HIDE DEF fm
    <2> QED BY <1>1, <2>1, <2>2 DEF Machine, Alike, SameException
  <1>4. EndCycle(t)
    BY DEF StallCycle
  <1> HIDE DEF t
  <1>5. Alike(t, cpu')
    BY <1>2, <1>4, CycleEnds
  <1> QED BY <1>3, <1>5 DEF Alike, SameException

(* START_RF: the last instruction that EX was going to get moves to RF/EX. *)
LEMMA StartRFOrder ==
  ASSUME SlotsHoldNoBranch, IInv, OInv, StartRF
  PROVE  OInv'
  <1> DEFINE a == Advance(cpu)
             e == AfterDC(cpu)
  <1>1. /\ Runnable(a) /\ FaultOnly(cpu, a)
        /\ cpu.fm.ilIndex = NORMAL /\ a.fm.ilIndex = NORMAL
        /\ cpu.fm.excpIndex = START_RF /\ a.fm.excpIndex = START_EX
    <2>1. START_RF \in {START_RF, START_EX} /\ START_RF + 1 = START_EX
      OBVIOUS
    <2> QED BY <2>1, AdvanceRuns DEF StartRF
  <1>2. PICK x \in EX(DC(WB(a))) : EndCycle(RF(x))
    BY DEF StartRF
  <1> HIDE DEF a
  <1>3. a \in Machine
    BY <1>1 DEF Runnable, Quiet, Sound
  <1>4. AfterDC(a) = e /\ Back(a)
    <2>1. AfterDC(a) = AfterDC(cpu) /\ AfterWB(a) = AfterWB(cpu)
      BY <1>1, BehindAfter DEF FaultOnly
    <2> QED BY <1>1, <2>1 DEF OInv, Back, FaultOnly, Behind
  <1> HIDE DEF e
  <1>5. Addressed(a, e) \/ (a.rfex.insn = Bubble /\ ~a.icrf.live)
    BY <1>1 DEF OInv, Coming, Open, Addressed, Fetched, Cleared, FaultOnly, Behind, e
  <1>6. a.rfex.insn = Bubble \/ Fetched(a, e)
    BY <1>5 DEF Addressed
  <1> DEFINE u == DC(WB(a))
             f == AfterDC(x)
             y == RF(x)
  <1>7. /\ Quiet(x) /\ Back(x) /\ Outcome(u, x)
        /\ x.fm.excpIndex # START_DC =>
             /\ Addressed(a, e) => Waiting(x, x.icrf, f)
             /\ a.rfex.insn = Bubble => x.icrf = a.icrf
    BY <1>1, <1>2, <1>4, <1>6, IssuesInOrder
  <1>8. u.fm = a.fm
    BY <1>1, <1>3, <1>4, Drained
  <1>9. x \in Machine /\ f \in Arch /\ y \in Machine
    BY <1>7, AfterType, RFSound DEF Quiet, Sound
  <1>10. Behind(x, y) /\ (Misses(x, y) \/ Hits(x, y))
    BY <1>9, RFEffect
  <1>11. y.fm.excpIndex = x.fm.excpIndex
    BY <1>10 DEF Misses, Hits, SameException
  <1>12. Back(y) /\ AfterDC(y) = f
    BY <1>7, <1>10, <1>11, BehindAfter
  <1>13. y = RF(x) /\ EndCycle(y)
    BY <1>2
  <1> HIDE DEF u, f, y
  <1>14. x.fm.excpIndex \in {START_EX, START_DC}
    BY <1>1, <1>7, <1>8, OutcomeIndex
  <1>15. Coming(y, f)
    <2>1. CASE x.fm.excpIndex = START_DC
      BY <1>11, <2>1 DEF Coming, Open
    <2>2. CASE x.fm.excpIndex = START_EX
      <3>1. x.fm.ilIndex # NORMAL => x.saved = x.icrf
        BY <1>1, <1>7, <1>8, <2>2, InterlockSaves
      <3>2. CASE Addressed(a, e)
        <4>1. Straight(f)
          BY <1>7, <2>2 DEF Back, f
        <4>2. Waiting(x, x.icrf, f)
          BY <1>7, <2>2, <3>2
        <4>3. IF y.fm.ilIndex # NORMAL THEN Waiting(y, y.saved, f)
                                       ELSE Fetched(y, f) /\ y.icrf.live
          BY <1>9, <1>13, <3>1, <4>1, <4>2, FetchesInOrder
        <4> QED BY <1>11, <2>2, <4>3 DEF Coming, Open
      <3>3. CASE a.rfex.insn = Bubble /\ ~a.icrf.live
        <4>1. ~x.icrf.live
          BY <1>7, <2>2, <3>3
        <4>2. IF y.fm.ilIndex # NORMAL THEN ~y.saved.live ELSE y.rfex.insn = Bubble
          BY <1>9, <1>13, <3>1, <4>1, FetchesNothing
        <4> QED BY <1>11, <2>2, <4>2 DEF Coming, Open
      <3> QED BY <1>5, <3>2, <3>3
    <2> QED BY <1>14, <2>1, <2>2
  <1> QED BY <1>9, <1>12, <1>13, <1>15, FlowingCycle DEF Flowing

(* START_EX: it is executed. *)
LEMMA StartEXOrder ==
  ASSUME SlotsHoldNoBranch, IInv, OInv, StartEX
  PROVE  OInv'
  <1> DEFINE a == Advance(cpu)
             e == AfterDC(cpu)
  <1>1. /\ Runnable(a) /\ FaultOnly(cpu, a)
        /\ cpu.fm.ilIndex = NORMAL /\ cpu.fm.excpIndex = START_EX
        /\ a.fm.excpIndex = START_DC
    <2>1. START_EX \in {START_RF, START_EX} /\ START_EX + 1 = START_DC
      OBVIOUS
    <2> QED BY <2>1, AdvanceRuns DEF StartEX
  <1>2. PICK x \in EX(DC(WB(a))) : EndCycle(x)
    BY DEF StartEX
  <1> HIDE DEF a
  <1>3. a \in Machine
    BY <1>1 DEF Runnable, Quiet, Sound
  <1>4. AfterDC(a) = e /\ Back(a)
    <2>1. AfterDC(a) = AfterDC(cpu) /\ AfterWB(a) = AfterWB(cpu)
      BY <1>1, BehindAfter DEF FaultOnly
    <2> QED BY <1>1, <2>1 DEF OInv, Back, FaultOnly, Behind
  <1> HIDE DEF e
  <1>5. a.rfex.insn = Bubble \/ Fetched(a, e)
    BY <1>1 DEF OInv, Coming, Open, Fetched, FaultOnly, Behind, e
  <1>6. Quiet(x) /\ Back(x) /\ Outcome(DC(WB(a)), x)
    BY <1>1, <1>2, <1>4, <1>5, IssuesInOrder
  <1>7. DC(WB(a)).fm = a.fm
    BY <1>1, <1>3, <1>4, Drained
  <1>8. x.fm.excpIndex = START_DC
    BY <1>1, <1>6, <1>7, OutcomeIndex
  <1>9. Flowing(x) /\ x \in Machine
    BY <1>6, <1>8 DEF Flowing, Coming, Open, Quiet, Sound
  <1> QED BY <1>2, <1>9, FlowingCycle

(* START_DC: the instruction in EX/DC is the last to move. *)
LEMMA StartDCSteps ==
  ASSUME IInv, OInv, StartDC, NEW u, u = DC(WB(Advance(cpu)))
  PROVE  /\ cpu.fm.excpIndex = START_DC /\ EndCycle(u) /\ u \in Machine
         /\ u.fm.excpIndex = HANDLE /\ u.fm.excp = cpu.fm.excp
         /\ u.fm.pc = cpu.fm.pc /\ u.fm.afterBranch = cpu.fm.afterBranch
         /\ u.arch = AfterWB(cpu)
         /\ Flowing(u)
  <1> DEFINE a == Advance(cpu)
  <1>1. cpu \in Machine /\ cpu.fm \in FaultManager /\ Queued(cpu.fm)
    BY IInvFacts DEF Machine
  <1>2. cpu.fm.excpIndex = START_DC /\ cpu.fm.ilIndex = NORMAL
    BY <1>1 DEF StartDC, Runs, Entry, FaultManager, Indices
  <1>3. /\ FaultOnly(cpu, a) /\ a \in Machine
        /\ a.fm.excpIndex = HANDLE /\ a.fm.ilIndex = NORMAL
        /\ a.fm.excp = cpu.fm.excp /\ a.fm.pc = cpu.fm.pc
        /\ a.fm.afterBranch = cpu.fm.afterBranch
    BY <1>1, <1>2, AdvanceEffect, AdvanceFacts
  <1>4. EndCycle(u)
    BY DEF StartDC
  <1>5. AfterWB(a) = AfterWB(cpu) /\ AfterDC(a) = AfterDC(cpu)
    BY <1>3, BehindAfter DEF FaultOnly
  <1>6. /\ u \in Machine /\ u.fm = a.fm
        /\ u.arch = AfterWB(a) /\ u.ra = RAWith(a)
        /\ u.dcwb.insn = a.exdc.insn /\ u.dcwb.link = a.exdc.link
    <2> HIDE DEF a
    <2>1. WB(a) \in Machine /\ WB(a).fm = a.fm /\ WB(a).exdc = a.exdc
          /\ WB(a).arch = AfterWB(a) /\ WB(a).ra = RAWith(a)
      BY <1>3, WBType DEF Machine, WB, AfterWB
    <2>2. ASSUME NEW v \in Machine
          PROVE  /\ DC(v) \in Machine /\ DC(v).fm = v.fm /\ DC(v).arch = v.arch
                 /\ DC(v).ra = v.ra
                 /\ DC(v).dcwb.insn = v.exdc.insn /\ DC(v).dcwb.link = v.exdc.link
      BY <2>2, DCType DEF Machine, DC, Deliver
    <2> QED BY <2>1, <2>2 DEF a
  <1>7. AfterWB(cpu).ra = LinkedBy(cpu.arch, cpu.dcwb.insn)
    <2>1. /\ cpu.arch \in Arch /\ cpu.dcwb.insn \in Words /\ cpu.dcwb.flow \in Flows
          /\ cpu.dcwb.to \in Int
      BY <1>1 DEF Machine, DCWB
    <2> QED BY <2>1, RetireRA DEF AfterWB
  <1> HIDE DEF a
  <1>8. u.ra = u.arch.ra
    BY <1>3, <1>5, <1>6, <1>7
    DEF RAWith, LinkedBy, OInv, Back, InOrder, FaultOnly, Behind
  <1>9. InOrder(u.arch, u.dcwb.insn, u.dcwb.link)
    BY <1>2, <1>3, <1>5, <1>6 DEF OInv, Back, FaultOnly, Behind, InOrder
  <1>10. Flowing(u)
    BY <1>3, <1>6, <1>8, <1>9 DEF Flowing, Back, Coming, Open
  <1> QED BY <1>2, <1>3, <1>4, <1>5, <1>6, <1>10

(* The handler enters the vector with an empty pipeline. *)
LEMMA FlushedFlows ==
  ASSUME NEW s \in Machine, s.ra = s.arch.ra, NEW t, t = HandleExceptions(s)
  PROVE  /\ Flowing(t)
         /\ t.fm.excpIndex = NORMAL /\ t.fm.ilIndex = NORMAL /\ t.rfex.insn = Bubble
  <1> DEFINE f == Flush(s)
  <1>1. f \in Machine /\ f.arch = s.arch /\ f.ra = s.ra /\ f.dcwb.insn = Bubble
        /\ f.exdc.insn = Bubble /\ f.rfex.insn = Bubble /\ ~f.icrf.live
    BY FlushType DEF Machine, ICRF, RFEX, EXDC, DCWB, Flush
  <1> HIDE DEF f
  <1>2. PICK v \in CodeAddr : \E cp0 :
          (IF s.fm.excp = "RST" THEN FaultRST(f) ELSE CommonExceptionHandler(f))
            = Enter(SetCP0(f, cp0), v)
    <2>1. CASE s.fm.excp = "RST"
      <3>1. \E cp0 : FaultRST(f) = Enter(SetCP0(f, cp0), ResetVector)
        BY DEF FaultRST
      <3>2. ResetVector \in CodeAddr
        BY AddressAssumption
      <3> QED BY <2>1, <3>1, <3>2
    <2>2. CASE s.fm.excp # "RST"
      <3> DEFINE w == IF f.cp0.bev THEN BevVector ELSE Vector
                 epc == IF f.fm.afterBranch THEN f.fm.pc - 1 ELSE f.fm.pc
                 c == IF f.cp0.exl THEN f.cp0
                      ELSE [f.cp0 EXCEPT !.epc = epc, !.bd = f.fm.afterBranch]
                 d == [c EXCEPT !.raise = FALSE, !.exl = TRUE]
      <3>1. CommonExceptionHandler(f) = Enter(SetCP0(f, d), w)
        BY DEF CommonExceptionHandler
      <3> HIDE DEF d
      <3>2. w \in CodeAddr
        BY AddressAssumption
      <3> HIDE DEF w
      <3> QED BY <2>2, <3>1, <3>2
    <2> QED BY <2>1, <2>2
  <1>3. PICK cp0 :
           (IF s.fm.excp = "RST" THEN FaultRST(f) ELSE CommonExceptionHandler(f))
             = Enter(SetCP0(f, cp0), v)
    BY <1>2
  <1> DEFINE h == Enter(SetCP0(f, cp0), v)
  <1>4. v \in Int
    <2>1. \A a \in CodeAddr : a \in Int
      BY AddressAssumption
    <2> QED BY <2>1
  <1>5. /\ h.arch = ArchAt(v, s.ra) /\ h.ra = s.ra /\ h.dcwb = f.dcwb /\ h.exdc = f.exdc
        /\ h.rfex = f.rfex /\ h.icrf.pc = v - 1 /\ h.icrf.live = f.icrf.live
        /\ h.fm = f.fm /\ f.fm \in FaultManager
    BY <1>1 DEF Machine, ICRF, Enter, SetCP0, Redirect
  <1> DEFINE fm == [h.fm EXCEPT !.excpIndex = NORMAL, !.ilIndex = NORMAL,
                                !.excp = "INV", !.il = "INV", !.faulting = FALSE]
  <1>6. t = [h EXCEPT !.fm = fm]
    BY <1>3 DEF HandleExceptions, f
  <1>7. fm.excpIndex = NORMAL /\ fm.ilIndex = NORMAL
    BY <1>5 DEF FaultManager
  <1> HIDE DEF fm
  <1>8. /\ t.arch = h.arch /\ t.ra = h.ra /\ t.dcwb = h.dcwb /\ t.exdc = h.exdc
        /\ t.rfex = h.rfex /\ t.icrf = h.icrf
        /\ t.fm.excpIndex = NORMAL /\ t.fm.ilIndex = NORMAL
    BY <1>1, <1>6, <1>7 DEF Machine, Enter, SetCP0, Redirect
  <1> HIDE DEF h
  <1> DEFINE e == ArchAt(v, s.ra)
  <1>9. e.pc = v /\ e.npc = v + 1 /\ ~e.slot /\ e.ra = s.ra
    BY DEF ArchAt
  <1>10. t.arch = e /\ t.dcwb.insn = Bubble /\ t.exdc.insn = Bubble
    BY <1>1, <1>5, <1>8
  <1> HIDE DEF e
  <1>11. AfterWB(t) = e /\ AfterDC(t) = e
    <2>1. AfterWB(t) = t.arch
      <3>1. RetireSays(t.arch, t.dcwb.insn, t.dcwb.flow, t.dcwb.to, AfterWB(t))
        BY RetireFacts DEF AfterWB
      <3> QED BY <1>10, <3>1 DEF RetireSays
    <2>2. AfterDC(t) = AfterWB(t)
      <3>1. RetireSays(AfterWB(t), t.exdc.insn, t.exdc.flow, t.exdc.to, AfterDC(t))
        BY RetireFacts DEF AfterDC
      <3> QED BY <1>10, <3>1 DEF RetireSays
    <2> QED BY <1>10, <2>1, <2>2
  <1>12. Back(t)
    BY <1>5, <1>8, <1>9, <1>10, <1>11 DEF Back, InOrder, Straight, Links
  <1>13. Cleared(t, e)
    BY <1>1, <1>4, <1>5, <1>8, <1>9 DEF Cleared
  <1> QED BY <1>1, <1>5, <1>8, <1>11, <1>12, <1>13 DEF Flowing, Coming, Open

(* The refill resumes with the latch it saved. *)
LEMMA ResumeSteps ==
  ASSUME IInv, ResumeRF, NEW h, NEW y, NEW z, h = HandleInterlocks(cpu), y = RF(h), z = IC(y)
  PROVE  /\ cpu.fm.ilIndex # NORMAL /\ EndCycle(z)
         /\ h \in Machine /\ y \in Machine /\ z \in Machine
  <1>1. /\ cpu \in Machine /\ cpu.fm \in FaultManager /\ Queued(cpu.fm)
        /\ cpu.fm.excpIndex # HANDLE => Sound(cpu)
        /\ cpu.fm.excpIndex = HANDLE => cpu.fm.ilIndex = NORMAL
    BY IInvFacts DEF Machine
  <1>2. cpu.fm.ilIndex # NORMAL /\ cpu.fm.excpIndex # HANDLE /\ cpu.fm.stalls = 0
    BY <1>1 DEF ResumeRF, Runs, Entry, FaultManager, Indices
  <1>3. Sound(cpu)
    BY <1>1, <1>2
  <1>4. Quiet(h)
    BY <1>2, <1>3, HandleInterlocksSound
  <1>5. Sound(y)
    BY <1>4, RFSound DEF Quiet
  <1>6. Sound(z)
    BY <1>5, StageSound
  <1> QED BY <1>2, <1>4, <1>5, <1>6 DEF ResumeRF, Quiet, Sound

LEMMA ResumeRFOrder ==
  ASSUME IInv, OInv, ResumeRF, FetchesInRegions'
  PROVE  OInv'
  <1> DEFINE h == HandleInterlocks(cpu)
             y == RF(h)
             z == IC(y)
             f == AfterDC(cpu)
  <1>1. /\ cpu.fm.ilIndex # NORMAL /\ EndCycle(z)
        /\ h \in Machine /\ y \in Machine /\ z \in Machine /\ cpu \in Machine
    BY ResumeSteps, IInvFacts
  <1>2. /\ h.arch = cpu.arch /\ h.ra = cpu.ra /\ h.dcwb = cpu.dcwb /\ h.exdc = cpu.exdc
        /\ h.rfex = cpu.rfex /\ h.icrf = cpu.saved
        /\ SameException(cpu, h) /\ h.fm.ilIndex = NORMAL
    BY <1>1, HandleInterlocksEffect
  <1>3. f \in Arch
    BY <1>1, AfterType
  <1>4. Regional(z)
    <2>1. Regional(cpu')
      BY DEF FetchesInRegions, Regional, Open
    <2> HIDE DEF z
    <2> QED BY <1>1, <2>1, CycleEnds, AlikeFlows
  <1> HIDE DEF h
  <1>5. AfterWB(h) = AfterWB(cpu) /\ AfterDC(h) = f /\ h.fm.excpIndex = cpu.fm.excpIndex
    BY <1>2 DEF AfterWB, AfterDC, SameException
  <1>6. Back(h)
    BY <1>2, <1>5 DEF OInv, Back
  <1>7. Behind(h, y) /\ (Misses(h, y) \/ Hits(h, y))
    BY <1>1, RFEffect
  <1>8. y.fm.excpIndex = cpu.fm.excpIndex
    BY <1>5, <1>7 DEF Misses, Hits, SameException
  <1>9. Back(y) /\ AfterDC(y) = f
    BY <1>5, <1>6, <1>7, <1>8, BehindAfter
  <1>10. y = RF(h) /\ z = IC(y)
    OBVIOUS
  <1> HIDE DEF y, z
  <1>11. Behind(y, z) /\ z.fm = y.fm /\ z.saved = y.saved /\ z.rfex = y.rfex
         /\ z.icrf.pc = y.icrf.pc
    BY <1>1, <1>10, ICEffect
  <1>12. Back(z) /\ AfterDC(z) = f
    BY <1>9, <1>11, BehindAfter
  <1>13. ASSUME Waiting(cpu, cpu.saved, f), cpu.fm.excpIndex # HANDLE
         PROVE  IF y.fm.ilIndex # NORMAL THEN Waiting(y, y.saved, f)
                                         ELSE Fetched(y, f) /\ y.icrf.live
    <2>1. Waiting(h, h.icrf, f)
      BY <1>2, <1>13 DEF Waiting
    <2>2. Straight(f)
      BY <1>13 DEF OInv, Back, f
    <2> HIDE DEF f
    <2> QED BY <1>1, <1>2, <1>3, <1>10, <2>1, <2>2, FetchesInOrder
  <1> HIDE DEF f
  <1>14. Flowing(z)
    <2>1. CASE Open(cpu)
      <3>1. Waiting(cpu, cpu.saved, f) /\ cpu.fm.excpIndex # HANDLE
        BY <1>1, <2>1 DEF OInv, Coming, Open, f
      <3>2. Open(y)
        BY <1>8, <2>1 DEF Open
      <3> QED BY <1>1, <1>4, <1>9, <1>10, <1>13, <3>1, <3>2, ICFlows
    <2>2. CASE cpu.fm.excpIndex = START_EX
      <3>1. CASE cpu.saved.live
        <4>1. Waiting(cpu, cpu.saved, f)
          BY <1>1, <2>2, <3>1 DEF OInv, Coming, f
        <4>2. IF y.fm.ilIndex # NORMAL THEN Waiting(y, y.saved, f) ELSE Fetched(y, f)
          BY <1>13, <2>2, <4>1
        <4>3. IF z.fm.ilIndex # NORMAL THEN Waiting(z, z.saved, f) ELSE Fetched(z, f)
          BY <1>11, <4>2 DEF Waiting, Fetched, Behind
        <4> QED BY <1>8, <1>11, <1>12, <2>2, <4>3 DEF Flowing, Coming, Open
      <3>2. CASE ~cpu.saved.live
        <4>1. IF y.fm.ilIndex # NORMAL THEN ~y.saved.live ELSE y.rfex.insn = Bubble
          BY <1>1, <1>2, <1>10, <3>2, FetchesNothing
        <4> QED BY <1>8, <1>11, <1>12, <2>2, <4>1 DEF Flowing, Coming, Open
      <3> QED BY <3>1, <3>2
    <2>3. CASE ~Open(cpu) /\ cpu.fm.excpIndex # START_EX
      BY <1>8, <1>11, <1>12, <2>3 DEF Flowing, Coming, Open
    <2> QED BY <2>1, <2>2, <2>3
  <1> QED BY <1>1, <1>14, FlowingCycle

(* Power on: a reset is queued and nothing has been fetched. *)
LEMMA InitOInv == Init => OInv
  <1> SUFFICES ASSUME Init PROVE OInv
    OBVIOUS
  <1>1. /\ cpu.arch = ArchAt(0, 0) /\ cpu.ra = 0 /\ cpu.dcwb.insn = Bubble
        /\ cpu.exdc.insn = Bubble /\ cpu.rfex.insn = Bubble /\ ~cpu.icrf.live
        /\ cpu.fm.excpIndex = START_RF /\ cpu.fm.ilIndex = NORMAL
    BY DEF Init, PoweredOn, QueueException
  <1>2. AfterWB(cpu) = cpu.arch
    <2>1. RetireSays(cpu.arch, cpu.dcwb.insn, cpu.dcwb.flow, cpu.dcwb.to, AfterWB(cpu))
      BY RetireFacts DEF AfterWB
    <2> QED BY <1>1, <2>1 DEF RetireSays
  <1>3. AfterDC(cpu) = cpu.arch
    <2>1. RetireSays(AfterWB(cpu), cpu.exdc.insn, cpu.exdc.flow, cpu.exdc.to, AfterDC(cpu))
      BY RetireFacts DEF AfterDC
    <2> QED BY <1>1, <1>2, <2>1 DEF RetireSays
  <1>4. Back(cpu)
    BY <1>1, <1>2, <1>3 DEF Back, InOrder, Straight, Links, ArchAt
  <1>5. Coming(cpu, AfterDC(cpu))
    BY <1>1 DEF Coming, Open, Cleared
  <1> QED BY <1>4, <1>5 DEF OInv

LEMMA NextOInv ==
  ASSUME SlotsHoldNoBranch, IInv, OInv, [Next]_vars, FetchesInRegions'
  PROVE  OInv'
  <1>1. cpu \in Machine /\ Flowing(cpu)
    BY IInvFacts DEF OInv, Flowing
  <1>2. CASE NormalCycle
    BY <1>2, NormalOrder
  <1>3. CASE StallCycle
    <2>1. Flowing(cpu')
      BY <1>1, <1>3, StallAlike, AlikeFlows
    <2> QED BY <2>1 DEF OInv, Flowing
  <1>4. CASE StartRF
    BY <1>4, StartRFOrder
  <1>5. CASE StartEX
    BY <1>5, StartEXOrder
  <1>6. CASE StartDC
    BY <1>6, StartDCSteps, FlowingCycle
  <1>7. CASE RunHandler
    <2>1. cpu.ra = cpu.arch.ra
      BY DEF OInv, Back
    <2>2. Flowing(HandleExceptions(cpu))
      BY <1>1, <2>1, FlushedFlows
    <2>3. HandleExceptions(cpu) \in Machine
      BY <1>1, <1>7, IInvFacts, HandleExceptionsSound DEF RunHandler, Runs, Quiet, Sound
    <2> QED BY <1>7, <2>2, <2>3, FlowingCycle DEF RunHandler
  <1>8. CASE ResumeRF
    BY <1>8, ResumeRFOrder
  <1>9. CASE FastForward
    <2>1. Sound(cpu)
      <3>1. cpu.fm \in FaultManager
        BY <1>1 DEF Machine
      <3> QED BY <1>9, <3>1, IInvFacts DEF FastForward, Runs, Entry, FaultManager, Indices
    <2>2. CheckForPendingInterrupts(cpu) \in Machine
      BY <2>1, CheckForPendingInterruptsSound DEF Sound
    <2> QED BY <1>1, <1>9, <2>2, InterruptFlows, FlowingCycle DEF FastForward
  <1>10. ASSUME NEW data, RequestReset(data) PROVE OInv'
    <2>1. Flowing(cpu')
      BY <1>1, <1>10, QueueFlows DEF RequestReset
    <2> QED BY <2>1 DEF OInv, Flowing
  <1>11. CASE UNCHANGED vars
    BY <1>11 DEF vars, OInv, Back, Coming, AfterWB, AfterDC, InOrder, Straight, Open,
                 Addressed, Fetched, Cleared, Waiting
  <1> QED
    BY <1>2, <1>3, <1>4, <1>5, <1>6, <1>7, <1>8, <1>9, <1>10, <1>11
    DEF Next, CycleVR4300, PerformHardReset, PerformSoftReset

(* Instructions write back in program order, each once, whatever           *)
(* interlocks, exceptions and resets come between (Pipeline.c, Fault.c,    *)
(* EXStage.c), in every program that branches only outside of slots and    *)
(* stays in its regions.                                                   *)
THEOREM WritesInOrder ==
  ASSUME SlotsHoldNoBranch
  PROVE  Spec /\ []FetchesInRegions => []ProgramOrder
  <1>1. OInv => ProgramOrder
    BY DEF OInv, Back, InOrder, ProgramOrder
  <1>2. IInv /\ OInv /\ [Next]_vars /\ FetchesInRegions' => OInv'
    BY NextOInv
  <1> QED BY <1>1, <1>2, InitOInv, SpecIInv, PTL DEF Spec
-----------------------------------------------------------------------------
(***************************************************************************)
(* PreciseEPC.  The PC of a fault and its flag are read off the front end  *)
(* in one cycle and used three cycles later: the invariant says what they  *)
(* point at in each cycle in between.                                      *)
(***************************************************************************)
Masked(s) ==
  (s.fm.excpIndex \in {NORMAL, START_RF} /\ s.fm.ilIndex = NORMAL /\ IsERET(s.rfex.insn))
    => ~s.cp0.raise

LEMMA AlikePrecise ==
  ASSUME NEW s, NEW t, Alike(s, t)
  PROVE  /\ Held(s) => Held(t)
         /\ Precise(s) => Precise(t)
         /\ Masked(t) => Masked(s)
  <1>1. AfterWB(t) = AfterWB(s) /\ AfterDC(t) = AfterDC(s)
    BY AlikeFlows
  <1>2. t.fm.excpIndex = s.fm.excpIndex /\ t.fm.ilIndex = s.fm.ilIndex
    BY DEF Alike, SameException
  <1>3. Held(s) => Held(t)
    BY <1>2 DEF Alike, Held, Open, ICacheProbe
  <1>4. Precise(s) => Precise(t)
    BY <1>1, <1>2 DEF Alike, SameException, Precise, Points
  <1>5. Masked(t) => Masked(s)
    BY <1>2 DEF Alike, Masked
  <1> QED BY <1>3, <1>4, <1>5

LEMMA PreciseCycle ==
  ASSUME NEW s \in Machine, Held(s), Precise(s), EndCycle(s)
  PROVE  PInv'
  <1>1. Held(cpu') /\ Precise(cpu')
    BY CycleEnds, AlikePrecise
  <1> QED BY <1>1 DEF PInv

LEMMA HeldBubble ==
  ASSUME NEW s, s.rfex.insn = Bubble
  PROVE  Held(s)
  <1>1. Bubble \notin CachedAddr
    BY AddressAssumption DEF Bubble
  <1> QED BY <1>1 DEF Held

(* RF interlocks, or fetches what the cache holds. *)
LEMMA FetchHeld ==
  ASSUME NEW x \in Machine, NEW y \in Machine, NEW z, y = RF(x), z = IC(y)
  PROVE  Held(z) /\ (z.fm.ilIndex = NORMAL => z.icrf.live)
  <1>1. /\ Behind(x, y)
        /\ IF x.icrf.addr \in CachedAddr /\ ~ICacheProbe(x, x.icrf.addr)
           THEN Misses(x, y) ELSE Hits(x, y)
    BY RFEffect
  <1>2. /\ Behind(y, z) /\ z.fm = y.fm /\ z.rfex = y.rfex /\ z.icrf.live = y.icrf.live
    BY ICEffect
  <1>3. CASE Misses(x, y)
    BY <1>2, <1>3 DEF Misses, Held
  <1>4. CASE Hits(x, y) /\ (x.icrf.addr \in CachedAddr => ICacheProbe(x, x.icrf.addr))
    <2>1. CASE x.icrf.live
      <3>1. z.rfex.insn = x.icrf.addr /\ z.icache = x.icache
        BY <1>1, <1>2, <1>4, <2>1 DEF Hits, Behind
      <3>2. Held(z)
        BY <1>4, <3>1 DEF Held, ICacheProbe
      <3> QED BY <1>2, <1>4, <3>2 DEF Hits
    <2>2. CASE ~x.icrf.live
      <3>1. z.rfex.insn = Bubble
        BY <1>2, <1>4, <2>2 DEF Hits
      <3> QED BY <1>2, <1>4, <3>1, HeldBubble DEF Hits
    <2> QED BY <2>1, <2>2
  <1> QED BY <1>1, <1>3, <1>4

LEMMA QueueHeld ==
  ASSUME NEW s \in Machine, Held(s), NEW fault, NEW pc, NEW b, NEW data,
         NEW t, t = QueueException(s, fault, pc, b, data, START_RF)
  PROVE  Held(t)
  BY QueueEffect DEF Held, Open, ICacheProbe, FaultOnly, Behind

(* An interrupt is queued with the PC that IC looks up. *)
LEMMA InterruptPrecise ==
  ASSUME NEW s \in Machine, Precise(s), s.fm.excpIndex \in {NORMAL, FASTFORWARD},
         s.fm.ilIndex = NORMAL, s.icrf.live,
         NEW t, t = CheckForPendingInterrupts(s), Masked(t)
  PROVE  Precise(t)
  <1>1. CASE ~(s.cp0.ip /\ s.cp0.raise)
    BY <1>1 DEF CheckForPendingInterrupts
  <1>2. CASE s.cp0.ip /\ s.cp0.raise
    <2>1. t = QueueException(s, "INTR", s.icrf.pc, IsBranch(s.rfex.insn), 0, START_RF)
      BY <1>2 DEF CheckForPendingInterrupts
    <2>2. /\ FaultOnly(s, t)
          /\ t.fm.excpIndex = START_RF /\ t.fm.ilIndex = NORMAL
          /\ t.fm.pc = s.icrf.pc /\ t.fm.afterBranch = IsBranch(s.rfex.insn)
      BY <2>1, QueueEffect
    <2>3. ~IsERET(t.rfex.insn)
      BY <1>2, <2>2 DEF Masked, FaultOnly, Behind
    <2> QED BY <2>2, <2>3 DEF Precise, FaultOnly
  <1> QED BY <1>1, <1>2

(* The instruction that the floating point unit refuses is in no slot. *)
LEMMA RefusedPoints ==
  ASSUME SlotsHoldNoBranch, SlotsHoldNoFloat,
         NEW u \in Machine, NEW x, Refused(u, x), u.fm.excpIndex # START_DC,
         NEW e \in Arch, Straight(e), Fetched(u, e)
  PROVE  x.fm.excp = "CPU" /\ Points(x.fm, e)
  <1>1. /\ u.rfex.insn = e.pc /\ (u.exdc.branch => e.slot) /\ (~e.slot => u.rfex.pc = e.pc)
        /\ Program[e.pc].op \in {"cp1", "bc1", "bc1l"}
        /\ x.fm.excp = "CPU" /\ x.fm.pc = u.rfex.pc /\ x.fm.afterBranch = u.exdc.branch
        /\ e.pc # Bubble
    BY DEF Refused, Fetched
  <1>2. e.pc \in CodeAddr /\ e.from \in Words
    BY <1>1 DEF Machine, RFEX, Words, Arch
  <1>3. ~e.slot
    <2> SUFFICES ASSUME e.slot PROVE FALSE
      OBVIOUS
    <2>1. IsBranch(e.from) /\ e.pc = e.from + 1
      BY DEF Straight
    <2>2. e.from \in CodeAddr
      BY <1>2, <2>1 DEF IsBranch, Words
    <2>3. CASE Program[e.pc].op = "cp1"
      BY <1>2, <2>1, <2>2, <2>3 DEF SlotsHoldNoFloat
    <2>4. CASE Program[e.pc].op \in {"bc1", "bc1l"}
      <3>1. IsBranch(e.pc)
        BY <1>1, <2>4 DEF IsBranch
      <3> QED BY <1>2, <2>1, <2>2, <3>1 DEF SlotsHoldNoBranch
    <2> QED BY <1>1, <2>3, <2>4
  <1> QED BY <1>1, <1>3 DEF Points

(* EX leaves the exception alone, unless it raises one of its own. *)
LEMMA OutcomeException ==
  ASSUME NEW u, NEW x, Outcome(u, x)
  PROVE  \/ SameException(u, x)
         \/ u.fm.excpIndex = NORMAL /\ x.fm.excpIndex = FASTFORWARD
         \/ u.fm.excpIndex # START_DC /\ x.fm.excpIndex = START_DC /\ Refused(u, x)
  BY DEF Outcome, Passes, Proceeds, Interlocks, Jumps, Loops, FallsThrough, Annuls, Returns,
         Refused, SameException

(* What an interrupt points at once the instruction in RF/EX is executed. *)
LEMMA IssuedPoints ==
  ASSUME SlotsHoldNoBranch,
         NEW u \in Machine, NEW x, Outcome(u, x), x.fm.excpIndex # START_DC,
         NEW e \in Arch, Straight(e), Fetched(u, e), AfterWB(x) = e,
         u.fm.pc = u.icrf.pc, u.fm.afterBranch = IsBranch(u.rfex.insn),
         ~IsERET(u.rfex.insn)
  PROVE  Points(u.fm, AfterDC(x))
  <1> DEFINE f == AfterDC(x)
  <1>1. RetireSays(e, x.exdc.insn, x.exdc.flow, x.exdc.to, f)
    BY RetireFacts DEF AfterDC
  <1>2. ~Refused(u, x)
    BY DEF Refused
  <1>3. ~Returns(u, x)
    BY DEF Returns
  <1> HIDE DEF f
  <1>4. CASE Passes(u, x)
    <2>1. f = e /\ u.rfex.insn = Bubble
      BY <1>1, <1>4 DEF Passes, RetireSays
    <2>2. ~IsBranch(u.rfex.insn)
      BY <2>1 DEF IsBranch
    <2> QED BY <2>1, <2>2 DEF Points, Fetched, f
  <1>5. CASE Proceeds(u, x)
    <2>1. f = ArchAt(e.npc, LinkedBy(e, u.rfex.insn)) /\ u.rfex.insn # Bubble
          /\ ~IsBranch(u.rfex.insn)
      BY <1>1, <1>5 DEF Proceeds, Issues, RetireSays
    <2>2. ~f.slot /\ f.pc = e.npc
      BY <2>1 DEF ArchAt
    <2> QED BY <2>1, <2>2 DEF Points, Fetched, f
  <1>6. CASE Jumps(u, x) \/ FallsThrough(u, x) \/ Annuls(u, x)
    <2>1. u.rfex.insn # Bubble /\ IsBranch(u.rfex.insn) /\ f.from = u.rfex.insn
      BY <1>1, <1>6 DEF Jumps, FallsThrough, Annuls, Issues, RetireSays
    <2>2. u.rfex.insn = e.pc /\ u.icrf.pc = e.npc /\ e.pc \in CodeAddr
      BY <2>1 DEF Fetched, Machine, RFEX, Words
    <2>3. e.npc = e.pc + 1
      BY <2>1, <2>2, BranchOutOfSlot
    <2>4. u.fm.pc - 1 = f.from
      BY <2>1, <2>2, <2>3 DEF Arch
    <2> QED BY <2>1, <2>4 DEF Points, f
  <1> QED BY <1>2, <1>3, <1>4, <1>5, <1>6 DEF Outcome, f

(* The loop that is fast-forwarded has its slot in the cache. *)
LEMMA LoopFetches ==
  ASSUME SlotsHoldNoBranch, BusyLoopsInLine,
         NEW s \in Machine, Held(s), s.fm.excpIndex = NORMAL, s.fm.ilIndex = NORMAL,
         NEW e \in Arch, Straight(e), Addressed(s, e),
         NEW u \in Machine, u.rfex = s.rfex, u.icrf = s.icrf, u.fm = s.fm,
         u.icache = s.icache,
         NEW x \in Machine, Kept(u, x), Jumps(u, x), Loops(u, x),
         NEW y, y = RF(x)
  PROVE  Hits(x, y) /\ x.fm.ilIndex = NORMAL
  <1>1. /\ u.rfex.insn = e.pc /\ e.pc # Bubble /\ IsBranch(e.pc)
        /\ u.icrf.pc = e.npc /\ u.icrf.addr = e.npc
    BY DEF Addressed, Fetched, Jumps, Issues
  <1>2. e.pc \in CodeAddr
    BY <1>1 DEF Machine, RFEX, Words
  <1>3. e.npc = e.pc + 1
    BY <1>1, <1>2, BranchOutOfSlot
  <1>4. Program[e.pc].op \in {"branch", "j"} /\ Program[e.pc].target = e.pc
    BY <1>1, <1>3 DEF Loops
  <1>5. x.icrf.addr = e.pc + 1 /\ x.icache = s.icache /\ x.fm.ilIndex = NORMAL
    BY <1>1, <1>3 DEF Kept, Loops
  <1>6. x.icrf.addr \in CachedAddr => ICacheProbe(x, x.icrf.addr)
    <2> SUFFICES ASSUME e.pc + 1 \in CachedAddr PROVE ICacheProbe(x, e.pc + 1)
      BY <1>5
    <2>1. e.pc \in CachedAddr /\ Line(e.pc) = Line(e.pc + 1)
      BY <1>2, <1>4 DEF BusyLoopsInLine
    <2>2. ICacheProbe(s, e.pc)
      BY <1>1, <2>1 DEF Held, Open
    <2> QED BY <1>5, <2>1, <2>2 DEF ICacheProbe, SetOf
  <1> QED BY <1>5, <1>6, RFEffect

LEMMA NormalPrecise ==
  ASSUME SlotsHoldNoBranch, SlotsHoldNoFloat, BusyLoopsInLine,
         IInv, OInv, PInv, NormalCycle, FetchesInRegions', ReturnsMasked'
  PROVE  PInv'
  <1>1. /\ Runnable(cpu) /\ cpu.fm.excpIndex = NORMAL /\ cpu.fm.ilIndex = NORMAL
        /\ \E x, z, w : Cycles(x, z, w)
    BY NormalCycles
  <1>2. PICK x, z, w : Cycles(x, z, w)
    BY <1>1
  <1> DEFINE u == DC(WB(cpu))
             y == RF(x)
             e == AfterDC(cpu)
  <1>3. /\ Quiet(x) /\ x \in Machine /\ Sound(y) /\ y \in Machine /\ Sound(z) /\ z \in Machine
        /\ w \in Machine
    <2>1. Quiet(x) /\ Sound(RF(x)) /\ Sound(z) /\ w \in Machine
      BY <1>2, CyclesInOrder
    <2> QED BY <2>1 DEF Quiet, Sound
  <1>4. cpu \in Machine /\ cpu.fm.excpIndex # HANDLE /\ Back(cpu) /\ Held(cpu)
    BY <1>1 DEF Runnable, Quiet, Sound, OInv, PInv
  <1>5. Addressed(cpu, e) \/ Cleared(cpu, e)
    BY <1>1 DEF OInv, Coming, Open
  <1>6. cpu.rfex.insn = Bubble \/ Fetched(cpu, e)
    BY <1>5 DEF Addressed, Cleared
  <1>7. AfterWB(x) = e /\ Outcome(u, x)
    BY <1>1, <1>2, <1>4, <1>6, IssuesInOrder DEF Cycles
  <1>8. /\ u \in Machine /\ u.fm = cpu.fm /\ u.rfex = cpu.rfex /\ u.icrf = cpu.icrf
        /\ u.icache = cpu.icache /\ u.exdc.branch = cpu.exdc.branch
    BY <1>4, Drained
  <1>9. e \in Arch /\ Straight(e)
    BY <1>4, AfterType DEF Back
  <1>10. y = RF(x) /\ z = IC(y)
    BY <1>2 DEF Cycles
  <1> HIDE DEF u, y, e
  <1>11. Behind(x, y) /\ (Misses(x, y) \/ Hits(x, y))
    BY <1>3, <1>10, RFEffect
  <1>12. /\ Behind(y, z) /\ z.fm = y.fm /\ z.icrf.live = y.icrf.live
    BY <1>3, <1>10, ICEffect
  <1>13. SameException(x, z) /\ AfterWB(z) = e
    <2>1. AfterWB(y) = AfterWB(x) /\ AfterWB(z) = AfterWB(y)
      BY <1>11, <1>12, BehindAfter
    <2> QED BY <1>7, <1>11, <1>12, <2>1 DEF Misses, Hits, SameException
  <1>14. Held(z) /\ (z.fm.ilIndex = NORMAL => z.icrf.live)
    BY <1>3, <1>10, FetchHeld
  <1>15. Precise(z)
    <2>1. CASE SameException(u, x)
      BY <1>1, <1>8, <1>13, <2>1 DEF SameException, Precise
    <2>2. CASE u.fm.excpIndex = NORMAL /\ x.fm.excpIndex = FASTFORWARD
      <3>1. Kept(u, x) /\ Jumps(u, x) /\ Loops(u, x)
        BY <1>7, <2>2, OutcomeIndex DEF Outcome
      <3>2. Addressed(cpu, e)
        BY <1>5, <1>8, <3>1 DEF Jumps, Issues, Cleared
      <3>3. Hits(x, y) /\ x.fm.ilIndex = NORMAL
        BY <1>1, <1>3, <1>4, <1>8, <1>9, <1>10, <3>1, <3>2, LoopFetches
      <3>4. z.fm.ilIndex = NORMAL
        BY <1>12, <3>3 DEF Hits
      <3> QED BY <1>13, <1>14, <2>2, <3>4 DEF SameException, Precise
    <2>3. CASE x.fm.excpIndex = START_DC /\ Refused(u, x)
      <3>1. Fetched(u, e)
        BY <1>6, <1>8, <2>3 DEF Refused, Fetched
      <3>2. Points(x.fm, e)
        BY <1>1, <1>8, <1>9, <2>3, <3>1, RefusedPoints
      <3> QED BY <1>13, <2>3, <3>2 DEF SameException, Precise, Points
    <2> QED BY <1>7, <2>1, <2>2, <2>3, OutcomeException
  <1>16. EndCycle(w) /\ w = IF z.fm.faulting THEN z ELSE CheckForPendingInterrupts(z)
    BY <1>2 DEF Cycles
  <1>17. Masked(w)
    <2>1. Masked(cpu')
      BY DEF ReturnsMasked, Masked
    <2> QED BY <1>3, <1>16, <2>1, CycleEnds, AlikePrecise
  <1>18. Held(w)
    BY <1>3, <1>14, <1>16, QueueHeld DEF CheckForPendingInterrupts
  <1>19. Precise(w)
    <2>1. CASE z.fm.faulting
      BY <1>15, <1>16, <2>1
    <2>2. CASE ~z.fm.faulting
      <3>1. z.fm.excpIndex = NORMAL /\ z.fm.ilIndex = NORMAL
        BY <1>3, <2>2 DEF Sound, Queued
      <3> QED BY <1>3, <1>14, <1>15, <1>16, <1>17, <2>2, <3>1, InterruptPrecise
    <2> QED BY <2>1, <2>2
  <1> QED BY <1>3, <1>16, <1>18, <1>19, PreciseCycle

LEMMA StartRFPrecise ==
  ASSUME SlotsHoldNoBranch, SlotsHoldNoFloat, IInv, OInv, PInv, StartRF
  PROVE  PInv'
  <1> DEFINE a == Advance(cpu)
             e == AfterDC(cpu)
  <1>1. /\ Runnable(a) /\ FaultOnly(cpu, a)
        /\ cpu.fm.ilIndex = NORMAL /\ cpu.fm.excpIndex = START_RF
        /\ a.fm.excpIndex = START_EX /\ a.fm.excp = cpu.fm.excp /\ a.fm.pc = cpu.fm.pc
        /\ a.fm.afterBranch = cpu.fm.afterBranch
    <2>1. START_RF \in {START_RF, START_EX} /\ START_RF + 1 = START_EX
      OBVIOUS
    <2> QED BY <2>1, AdvanceRuns DEF StartRF
  <1>2. PICK x \in EX(DC(WB(a))) : EndCycle(RF(x))
    BY DEF StartRF
  <1> HIDE DEF a
  <1>3. a \in Machine /\ cpu.fm.excpIndex # HANDLE
    BY <1>1 DEF Runnable, Quiet, Sound
  <1>4. AfterDC(a) = e /\ Back(a)
    <2>1. AfterDC(a) = AfterDC(cpu) /\ AfterWB(a) = AfterWB(cpu)
      BY <1>1, BehindAfter DEF FaultOnly
    <2> QED BY <1>1, <2>1 DEF OInv, Back, FaultOnly, Behind
  <1>5. e \in Arch /\ Straight(e)
    BY <1>3, IInvFacts, AfterType DEF OInv, Back
  <1> HIDE DEF e
  <1>6. Addressed(a, e) \/ (a.rfex.insn = Bubble /\ ~a.icrf.live)
    BY <1>1 DEF OInv, Coming, Open, Addressed, Fetched, Cleared, FaultOnly, Behind, e
  <1>7. a.rfex.insn = Bubble \/ Fetched(a, e)
    BY <1>6 DEF Addressed
  <1> DEFINE u == DC(WB(a))
             y == RF(x)
  <1>8. Quiet(x) /\ AfterWB(x) = e /\ Outcome(u, x)
    BY <1>1, <1>2, <1>4, <1>7, IssuesInOrder
  <1>9. /\ u \in Machine /\ u.fm = a.fm /\ u.rfex = a.rfex /\ u.icrf = a.icrf
        /\ u.exdc.branch = a.exdc.branch
    BY <1>1, <1>3, <1>4, Drained
  <1>10. x \in Machine /\ y \in Machine
    BY <1>8, RFSound DEF Quiet, Sound
  <1>11. Behind(x, y) /\ (Misses(x, y) \/ Hits(x, y))
    BY <1>10, RFEffect
  <1>12. EndCycle(y)
    BY <1>2
  <1> HIDE DEF u, y
  <1>13. SameException(x, y) /\ AfterWB(y) = e /\ AfterDC(y) = AfterDC(x)
    BY <1>8, <1>11, BehindAfter DEF Misses, Hits, SameException
  <1>14. CASE SameException(u, x)
    <2>1. y.fm.excpIndex = START_EX /\ y.fm.excp = cpu.fm.excp
      BY <1>1, <1>9, <1>13, <1>14 DEF SameException
    <2>2. ASSUME cpu.fm.excp # "RST" PROVE Points(y.fm, AfterDC(y))
      <3>1. /\ cpu.icrf.live /\ cpu.fm.pc = cpu.icrf.pc
            /\ cpu.fm.afterBranch = IsBranch(cpu.rfex.insn)
            /\ ~IsERET(cpu.rfex.insn)
        BY <1>1, <2>2 DEF PInv, Precise
      <3>2. /\ u.fm.pc = u.icrf.pc /\ u.fm.afterBranch = IsBranch(u.rfex.insn)
            /\ ~IsERET(u.rfex.insn) /\ a.icrf.live
        BY <1>1, <1>9, <3>1 DEF FaultOnly
      <3>3. Fetched(u, e)
        BY <1>6, <1>9, <3>2 DEF Addressed, Fetched
      <3>4. x.fm.excpIndex # START_DC
        BY <1>1, <1>9, <1>14 DEF SameException
      <3>5. Points(u.fm, AfterDC(x))
        BY <1>5, <1>8, <1>9, <3>2, <3>3, <3>4, IssuedPoints
      <3> QED BY <1>13, <1>14, <3>5 DEF Points, SameException
    <2> QED BY <1>10, <1>12, <2>1, <2>2, PreciseCycle DEF Precise, Held, Open
  <1>15. CASE x.fm.excpIndex = START_DC /\ Refused(u, x)
    <2>1. Fetched(u, e)
      BY <1>7, <1>9, <1>15 DEF Refused, Fetched
    <2>2. Points(x.fm, e)
      BY <1>1, <1>5, <1>9, <1>15, <2>1, RefusedPoints
    <2>3. y.fm.excpIndex = START_DC /\ Points(y.fm, AfterWB(y))
      BY <1>13, <1>15, <2>2 DEF SameException, Points
    <2> QED BY <1>10, <1>12, <2>3, PreciseCycle DEF Precise, Held, Open
  <1>16. u.fm.excpIndex = START_EX
    BY <1>1, <1>9
  <1> QED BY <1>8, <1>14, <1>15, <1>16, OutcomeException

LEMMA StartEXPrecise ==
  ASSUME SlotsHoldNoBranch, IInv, OInv, PInv, StartEX
  PROVE  PInv'
  <1> DEFINE a == Advance(cpu)
             e == AfterDC(cpu)
  <1>1. /\ Runnable(a) /\ FaultOnly(cpu, a)
        /\ cpu.fm.ilIndex = NORMAL /\ cpu.fm.excpIndex = START_EX
        /\ a.fm.excpIndex = START_DC /\ a.fm.excp = cpu.fm.excp /\ a.fm.pc = cpu.fm.pc
        /\ a.fm.afterBranch = cpu.fm.afterBranch
    <2>1. START_EX \in {START_RF, START_EX} /\ START_EX + 1 = START_DC
      OBVIOUS
    <2> QED BY <2>1, AdvanceRuns DEF StartEX
  <1>2. PICK x \in EX(DC(WB(a))) : EndCycle(x)
    BY DEF StartEX
  <1> HIDE DEF a
  <1>3. a \in Machine
    BY <1>1 DEF Runnable, Quiet, Sound
  <1>4. AfterDC(a) = e /\ Back(a)
    <2>1. AfterDC(a) = AfterDC(cpu) /\ AfterWB(a) = AfterWB(cpu)
      BY <1>1, BehindAfter DEF FaultOnly
    <2> QED BY <1>1, <2>1 DEF OInv, Back, FaultOnly, Behind
  <1>5. cpu.fm.excp # "RST" => Points(cpu.fm, e)
    BY <1>1 DEF PInv, Precise
  <1> HIDE DEF e
  <1>6. a.rfex.insn = Bubble \/ Fetched(a, e)
    BY <1>1 DEF OInv, Coming, Open, Fetched, FaultOnly, Behind, e
  <1>7. Quiet(x) /\ AfterWB(x) = e /\ Outcome(DC(WB(a)), x)
    BY <1>1, <1>2, <1>4, <1>6, IssuesInOrder
  <1>8. DC(WB(a)).fm = a.fm
    BY <1>1, <1>3, <1>4, Drained
  <1>9. SameException(DC(WB(a)), x)
    BY <1>1, <1>7, <1>8, OutcomeException
  <1>10. /\ x.fm.excpIndex = START_DC /\ x.fm.excp = cpu.fm.excp
         /\ cpu.fm.excp # "RST" => Points(x.fm, AfterWB(x))
    BY <1>1, <1>5, <1>7, <1>8, <1>9 DEF SameException, Points
  <1>11. Held(x) /\ Precise(x)
    BY <1>10 DEF Precise, Held, Open
  <1> QED BY <1>2, <1>7, <1>11, PreciseCycle DEF Quiet, Sound

LEMMA StartDCPrecise ==
  ASSUME IInv, OInv, PInv, StartDC
  PROVE  PInv'
  <1> DEFINE u == DC(WB(Advance(cpu)))
  <1>1. /\ cpu.fm.excpIndex = START_DC /\ EndCycle(u) /\ u \in Machine
        /\ u.fm.excpIndex = HANDLE /\ u.fm.excp = cpu.fm.excp
        /\ u.fm.pc = cpu.fm.pc /\ u.fm.afterBranch = cpu.fm.afterBranch
        /\ u.arch = AfterWB(cpu)
    BY StartDCSteps
  <1> HIDE DEF u
  <1>2. Held(u) /\ Precise(u)
    BY <1>1 DEF PInv, Precise, Points, Held, Open
  <1> QED BY <1>1, <1>2, PreciseCycle

LEMMA ResumeRFPrecise ==
  ASSUME IInv, PInv, ResumeRF
  PROVE  PInv'
  <1> DEFINE h == HandleInterlocks(cpu)
             y == RF(h)
             z == IC(y)
  <1>1. /\ cpu.fm.ilIndex # NORMAL /\ EndCycle(z)
        /\ h \in Machine /\ y \in Machine /\ z \in Machine /\ cpu \in Machine
    BY ResumeSteps, IInvFacts
  <1>2. /\ h.arch = cpu.arch /\ h.dcwb = cpu.dcwb /\ h.exdc = cpu.exdc
        /\ SameException(cpu, h)
    BY <1>1, HandleInterlocksEffect
  <1>3. Behind(h, y) /\ (Misses(h, y) \/ Hits(h, y))
    BY <1>1, RFEffect
  <1>4. Behind(y, z) /\ z.fm = y.fm
    BY <1>1, ICEffect
  <1>5. Held(z)
    BY <1>1, FetchHeld
  <1>6. cpu.fm.excpIndex # HANDLE
    BY <1>1, IInvFacts
  <1> HIDE DEF h, y, z
  <1>7. SameException(cpu, z)
    BY <1>2, <1>3, <1>4 DEF Misses, Hits, SameException
  <1>8. AfterWB(z) = AfterWB(cpu) /\ AfterDC(z) = AfterDC(cpu)
    BY <1>2, <1>3, <1>4 DEF Behind, AfterWB, AfterDC
  <1>9. Precise(z)
    BY <1>1, <1>6, <1>7, <1>8 DEF PInv, Precise, SameException, Points
  <1> QED BY <1>1, <1>5, <1>9, PreciseCycle

LEMMA FastForwardPrecise ==
  ASSUME IInv, PInv, FastForward, ReturnsMasked'
  PROVE  PInv'
  <1> DEFINE t == CheckForPendingInterrupts(cpu)
  <1>1. cpu \in Machine /\ cpu.fm \in FaultManager /\ Held(cpu) /\ Precise(cpu)
    BY IInvFacts DEF PInv, Machine
  <1>2. cpu.fm.excpIndex = FASTFORWARD
    BY <1>1 DEF FastForward, Runs, Entry, FaultManager, Indices
  <1>3. cpu.fm.ilIndex = NORMAL /\ cpu.icrf.live
    BY <1>1, <1>2 DEF Precise
  <1>4. t \in Machine
    BY <1>2, IInvFacts, CheckForPendingInterruptsSound DEF Sound
  <1>5. EndCycle(t)
    BY DEF FastForward
  <1>6. Held(t)
    BY <1>1, QueueHeld DEF CheckForPendingInterrupts
  <1>7. t = CheckForPendingInterrupts(cpu)
    OBVIOUS
  <1> HIDE DEF t
  <1>8. Masked(t)
    <2>1. Masked(cpu')
      BY DEF ReturnsMasked, Masked
    <2> QED BY <1>4, <1>5, <2>1, CycleEnds, AlikePrecise
  <1>9. Precise(t)
    BY <1>1, <1>2, <1>3, <1>7, <1>8, InterruptPrecise
  <1> QED BY <1>4, <1>5, <1>6, <1>9, PreciseCycle

(* A reset replaces no exception but that of a busy loop. *)
LEMMA QueueResetPrecise ==
  ASSUME NEW s \in Machine, Precise(s), NEW pc, NEW b, NEW data,
         NEW t, t = QueueException(s, "RST", pc, b, data, START_RF)
  PROVE  Precise(t)
  <1>1. /\ FaultOnly(s, t)
        /\ IF s.fm.excpIndex \in {NORMAL, FASTFORWARD}
           THEN t.fm.excpIndex = START_RF /\ t.fm.excp = "RST"
           ELSE t.fm = s.fm
    BY QueueEffect
  <1>2. AfterWB(t) = AfterWB(s) /\ AfterDC(t) = AfterDC(s)
    BY <1>1, BehindAfter DEF FaultOnly
  <1> QED BY <1>1, <1>2 DEF Precise, Points, FaultOnly, Behind

LEMMA ResetPrecise ==
  ASSUME IInv, PInv, NEW data, RequestReset(data)
  PROVE  PInv'
  <1> DEFINE t == QueueException(cpu, "RST", 0, FALSE, data, START_RF)
  <1>1. cpu \in Machine /\ Held(cpu) /\ Precise(cpu)
    BY IInvFacts DEF PInv
  <1>2. cpu' = t
    BY DEF RequestReset
  <1>3. Held(t)
    BY <1>1, QueueHeld
  <1>4. Precise(t)
    BY <1>1, QueueResetPrecise
  <1> HIDE DEF t
  <1> QED BY <1>2, <1>3, <1>4 DEF PInv

LEMMA InitPInv == Init => PInv
  <1> SUFFICES ASSUME Init PROVE PInv
    OBVIOUS
  <1>1. /\ cpu.rfex.insn = Bubble
        /\ cpu.fm.excpIndex = START_RF /\ cpu.fm.excp = "RST"
    BY DEF Init, PoweredOn, QueueException
  <1>2. Held(cpu)
    BY <1>1, HeldBubble
  <1>3. Precise(cpu)
    BY <1>1 DEF Precise
  <1> QED BY <1>2, <1>3 DEF PInv

LEMMA NextPInv ==
  ASSUME SlotsHoldNoBranch, SlotsHoldNoFloat, BusyLoopsInLine,
         IInv, OInv, PInv, [Next]_vars, FetchesInRegions', ReturnsMasked'
  PROVE  PInv'
  <1>1. cpu \in Machine /\ Held(cpu) /\ Precise(cpu)
    BY IInvFacts DEF PInv
  <1>2. CASE NormalCycle
    BY <1>2, NormalPrecise
  <1>3. CASE StallCycle
    <2>1. Held(cpu') /\ Precise(cpu')
      BY <1>1, <1>3, StallAlike, AlikePrecise
    <2> QED BY <2>1 DEF PInv
  <1>4. CASE StartRF
    BY <1>4, StartRFPrecise
  <1>5. CASE StartEX
    BY <1>5, StartEXPrecise
  <1>6. CASE StartDC
    BY <1>6, StartDCPrecise
  <1>7. CASE RunHandler
    <2> DEFINE t == HandleExceptions(cpu)
    <2>1. cpu.ra = cpu.arch.ra
      BY DEF OInv, Back
    <2>2. t.fm.excpIndex = NORMAL /\ t.rfex.insn = Bubble
      BY <1>1, <2>1, FlushedFlows
    <2>3. t \in Machine
      BY <1>1, <1>7, IInvFacts, HandleExceptionsSound DEF RunHandler, Runs, Quiet, Sound
    <2>4. EndCycle(t)
      BY <1>7 DEF RunHandler
    <2> HIDE DEF t
    <2>5. Precise(t)
      BY <2>2 DEF Precise
    <2> QED BY <2>2, <2>3, <2>4, <2>5, HeldBubble, PreciseCycle
  <1>8. CASE ResumeRF
    BY <1>8, ResumeRFPrecise
  <1>9. CASE FastForward
    BY <1>9, FastForwardPrecise
  <1>10. ASSUME NEW data, RequestReset(data) PROVE PInv'
    BY <1>10, ResetPrecise
  <1>11. CASE UNCHANGED vars
    <2>1. Alike(cpu, cpu')
      BY <1>11 DEF vars, Alike, SameException
    <2>2. Held(cpu') /\ Precise(cpu')
      BY <1>1, <2>1, AlikePrecise
    <2> QED BY <2>2 DEF PInv
  <1> QED
    BY <1>2, <1>3, <1>4, <1>5, <1>6, <1>7, <1>8, <1>9, <1>10, <1>11
    DEF Next, CycleVR4300, PerformHardReset, PerformSoftReset

(* What the common handler writes into EPC and the BD bit. *)
LEMMA HandlerEPC ==
  ASSUME NEW s \in Machine, s.fm.excp # "RST", ~s.cp0.exl, NEW t, t = HandleExceptions(s)
  PROVE  /\ t.cp0.epc = IF s.fm.afterBranch THEN s.fm.pc - 1 ELSE s.fm.pc
         /\ t.cp0.bd = s.fm.afterBranch
  <1> DEFINE f == Flush(s)
             w == IF f.cp0.bev THEN BevVector ELSE Vector
             epc == IF f.fm.afterBranch THEN f.fm.pc - 1 ELSE f.fm.pc
             c == [f.cp0 EXCEPT !.epc = epc, !.bd = f.fm.afterBranch]
             d == [c EXCEPT !.raise = FALSE, !.exl = TRUE]
             h == Enter(SetCP0(f, d), w)
  <1>1. f \in Machine /\ f.cp0 = s.cp0 /\ f.fm = s.fm
    BY FlushType DEF Flush, Machine
  <1> HIDE DEF f
  <1>2. d.epc = epc /\ d.bd = f.fm.afterBranch
    BY <1>1 DEF Machine, CP0
  <1> HIDE DEF d, epc, w
  <1>3. h.cp0 = d
    BY <1>1 DEF Enter, SetCP0, Redirect, Machine
  <1>4. CommonExceptionHandler(f) = h
    BY <1>1 DEF CommonExceptionHandler, d, epc, w
  <1>5. t = [h EXCEPT !.fm = [@ EXCEPT !.excpIndex = NORMAL, !.ilIndex = NORMAL,
                                       !.excp = "INV", !.il = "INV", !.faulting = FALSE]]
    BY <1>4 DEF HandleExceptions, f
  <1>6. t.cp0 = h.cp0
    <2> DEFINE fm == [h.fm EXCEPT !.excpIndex = NORMAL, !.ilIndex = NORMAL,
                                  !.excp = "INV", !.il = "INV", !.faulting = FALSE]
    <2>1. t = [h EXCEPT !.fm = fm]
      BY <1>5
    <2> HIDE DEF fm
    <2> QED BY <1>1, <2>1 DEF Enter, SetCP0, Redirect, Machine
  <1> HIDE DEF h
  <1> QED BY <1>1, <1>2, <1>3, <1>6 DEF epc

(* After an exception the program resumes at the first instruction that it *)
(* aborted, or at the branch in front of it: EPC and the BD bit are        *)
(* precise (CheckForPendingInterrupts, FPUCheckUsable, CommonException-    *)
(* Handler), in every program that meets the three conditions on its text, *)
(* stays in its regions and returns with interrupts masked.                *)
THEOREM ExceptionsArePrecise ==
  ASSUME SlotsHoldNoBranch, SlotsHoldNoFloat, BusyLoopsInLine
  PROVE  Spec /\ []FetchesInRegions /\ []ReturnsMasked => PreciseEPC
  <1>1. IInv /\ OInv /\ [Next]_vars /\ FetchesInRegions' => OInv'
    BY NextOInv
  <1>2. (/\ IInv /\ OInv /\ PInv /\ [Next]_vars
         /\ FetchesInRegions' /\ ReturnsMasked') => PInv'
    BY NextPInv
  <1>3. ASSUME IInv, PInv, RunHandler, cpu.fm.excp # "RST", ~cpu.cp0.exl
        PROVE  Resumes(cpu'.cp0.epc, cpu'.cp0.bd)
    <2> DEFINE t == HandleExceptions(cpu)
    <2>1. /\ cpu \in Machine /\ cpu.fm \in FaultManager
          /\ cpu.fm.excpIndex # HANDLE => Sound(cpu)
      BY <1>3, IInvFacts DEF Machine
    <2>2. cpu.fm.excpIndex = HANDLE
      BY <1>3, <2>1 DEF RunHandler, Runs, Entry, FaultManager, Indices
    <2>3. Points(cpu.fm, cpu.arch)
      BY <1>3, <2>2 DEF PInv, Precise
    <2>4. /\ t.cp0.epc = IF cpu.fm.afterBranch THEN cpu.fm.pc - 1 ELSE cpu.fm.pc
          /\ t.cp0.bd = cpu.fm.afterBranch
      BY <1>3, <2>1, HandlerEPC
    <2>5. t \in Machine /\ EndCycle(t)
      BY <1>3, <2>1, <2>2, IInvFacts, HandleExceptionsSound
      DEF RunHandler, Runs, Quiet, Sound
    <2> HIDE DEF t
    <2>6. cpu'.cp0.epc = t.cp0.epc /\ cpu'.cp0.bd = t.cp0.bd
      BY <2>5 DEF EndCycle, IncrementCycleCounters, Machine, CP0
    <2>7. cpu.fm.afterBranch \in BOOLEAN /\ cpu.arch.slot \in BOOLEAN
      BY <2>1 DEF Machine, FaultManager, Arch
    <2> QED BY <2>3, <2>4, <2>6, <2>7 DEF Resumes, Points
  <1>4. IInv /\ PInv /\ [Next]_vars
          => [RunHandler /\ cpu.fm.excp # "RST" /\ ~cpu.cp0.exl
                => Resumes(cpu'.cp0.epc, cpu'.cp0.bd)]_vars
    BY <1>3
  <1> QED BY <1>1, <1>2, <1>4, InitOInv, InitPInv, SpecIInv, PTL DEF Spec, PreciseEPC
=============================================================================
