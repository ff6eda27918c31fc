----------------------------- MODULE Interrupts -----------------------------
(***************************************************************************)
(* Where the pending bits of Cause come from: the MIPS interface (CPU.c),  *)
(* whose lines the devices of the machine raise and clear and whose mask   *)
(* the program writes, and the timer (Pipeline.c), which the program sets  *)
(* through Count and Compare (CP0.c).                                      *)
(*                                                                         *)
(* The devices act between two cycles.  In a cycle, DC may perform a store *)
(* to an MI register, then EX may move a value to CP0, then Count advances *)
(* in every other cycle and is compared.                                   *)
(***************************************************************************)
EXTENDS Integers

CONSTANTS
  Devices,      \* the lines of MI_INTR_REG: SP, SI, AI, VI, PI and DP
  DP,           \* the one that MI_INIT_MODE_REG acknowledges
  Modes,        \* the mode bits of MI_INIT_MODE_REG: init, ebus and rdram
  Period,       \* values of Count and Compare (2^32 in the code)
  MaxWrites     \* bound on the writes of Count and Compare

ASSUME DeviceAssumption == DP \in Devices /\ "ebus" \in Modes

ASSUME TimerAssumption == Period \in Nat \ {0} /\ MaxWrites \in Nat

Counts == 0 .. Period - 1

VARIABLES
  cpu,          \* miregs and the registers of cp0, as far as they matter here
  writes        \* writes of Count and Compare so far

vars == <<cpu, writes>>

-----------------------------------------------------------------------------
(* The bit of Cause that stands for all the lines of the MI. *)
CheckForRCPInterrupts(s) ==
  [s EXCEPT !.ip = IF s.intr \cap s.mask # {} THEN @ \cup {"rcp"} ELSE @ \ {"rcp"}]

(* Mutant: a device that is done takes the line from the others. *)
ClearAlways(s, lines) == [s EXCEPT !.intr = @ \ lines, !.ip = @ \ {"rcp"}]

(* Mutant: Cause is cleared as a whole. *)
ClearAllPending(s, lines) ==
  [s EXCEPT !.intr = @ \ lines,
            !.ip   = IF (s.intr \ lines) \cap s.mask = {} THEN {} ELSE @]

VR4300ClearRCPInterrupt(s, lines) ==
  [s EXCEPT !.intr = @ \ lines,
            !.ip   = IF (s.intr \ lines) \cap s.mask = {} THEN @ \ {"rcp"} ELSE @]

VR4300RaiseRCPInterrupt(s, lines) ==
  [s EXCEPT !.intr = @ \cup lines,
            !.ip   = IF (s.intr \cup lines) \cap s.mask # {} THEN @ \cup {"rcp"} ELSE @]

(* MIRegWrite: a value names bits to clear and bits to set, and clearing   *)
(* wins.  The mode register keeps nothing that the value does not set.     *)
WriteMode(s, clear, set, ack) ==
  LET acknowledged == CheckForRCPInterrupts([s EXCEPT !.intr = @ \ {DP}])
  IN  [(IF ack THEN acknowledged ELSE s) EXCEPT !.mode = set \ clear]

WriteMask(s, clear, set) == CheckForRCPInterrupts([s EXCEPT !.mask = (@ \cup set) \ clear])

(* MTC0.  A move to Cause can only write the two software interrupts: the  *)
(* module CP0 has it.                                                      *)
MTC0Compare(s, x) == [s EXCEPT !.ip = @ \ {"timer"}, !.compare = x]

MTC0Count(s, x) == [s EXCEPT !.count = x]

(* Mutants: Count does not wrap, or advances by the second bit of the      *)
(* cycle counter.                                                          *)
CountUnwrapped(s) ==
  LET count == IF s.odd THEN s.count ELSE s.count + 1
  IN  [s EXCEPT !.odd = ~@, !.count = count,
                !.ip = IF count = s.compare THEN @ \cup {"timer"} ELSE @]

CountByTwo(s) ==
  LET count == IF s.odd THEN s.count ELSE (s.count + 2) % Period
  IN  [s EXCEPT !.odd = ~@, !.count = count,
                !.ip = IF count = s.compare THEN @ \cup {"timer"} ELSE @]

IncrementCycleCounters(s) ==
  LET count == IF s.odd THEN s.count ELSE (s.count + 1) % Period
  IN  [s EXCEPT !.odd = ~@, !.count = count,
                !.ip = IF count = s.compare THEN @ \cup {"timer"} ELSE @]

-----------------------------------------------------------------------------
(* VR4300InitCP0 and InitVR4300. *)
Init ==
  /\ cpu = [intr |-> {}, mask |-> {}, mode |-> {"ebus"}, ip |-> {},
            count |-> 0, compare |-> 0, odd |-> FALSE]
  /\ writes = 0

Raise ==
  /\ \E lines \in SUBSET Devices : cpu' = VR4300RaiseRCPInterrupt(cpu, lines)
  /\ UNCHANGED writes

Clear ==
  /\ \E lines \in SUBSET Devices : cpu' = VR4300ClearRCPInterrupt(cpu, lines)
  /\ UNCHANGED writes

(* What DC leaves of the machine in a cycle. *)
Stored ==
  {cpu} \cup {WriteMode(cpu, c, s, ack) : c, s \in SUBSET Modes, ack \in BOOLEAN}
        \cup {WriteMask(cpu, c, s) : c, s \in SUBSET Devices}

Cycle ==
  /\ \E s \in Stored : cpu' = IncrementCycleCounters(s)
  /\ UNCHANGED writes

SetCompare ==
  /\ writes < MaxWrites
  /\ writes' = writes + 1
  /\ \E s \in Stored, x \in Counts : cpu' = IncrementCycleCounters(MTC0Compare(s, x))

SetCount ==
  /\ writes < MaxWrites
  /\ writes' = writes + 1
  /\ \E s \in Stored, x \in Counts : cpu' = IncrementCycleCounters(MTC0Count(s, x))

CycleVR4300 == Cycle \/ SetCompare \/ SetCount

Next == Raise \/ Clear \/ CycleVR4300

Spec == Init /\ [][Next]_vars

(* The simulation loop of the machine calls CycleVR4300 for ever. *)
FairSpec == Spec /\ WF_vars(CycleVR4300)

-----------------------------------------------------------------------------
(* The bits of Cause.IP: two that only a move to Cause writes, that of the *)
(* MI and that of the timer.                                               *)
Sources == {"software0", "software1", "rcp", "timer"}

State ==
  [intr: SUBSET Devices, mask: SUBSET Devices, mode: SUBSET Modes,
   ip: SUBSET Sources,
   count: Counts, compare: Counts, odd: BOOLEAN]

(* Registers hold values of their types. *)
TypeOK == cpu \in State /\ writes \in 0 .. MaxWrites

(* The Cause bit of the MI, kept by hand in three places, is up exactly    *)
(* while some line that is up is enabled.                                  *)
CauseFollowsMI == "rcp" \in cpu.ip <=> cpu.intr \cap cpu.mask # {}

(* A timer interrupt waits until the program writes Compare: nothing that  *)
(* devices or the MI do to Cause withdraws it.                             *)
TimerWaits ==
  [][ "timer" \in cpu.ip /\ "timer" \notin cpu'.ip => SetCompare ]_vars

(* Once the program leaves Count and Compare alone a timer interrupt comes *)
(* or is pending, wherever they stand: Count skips no value.               *)
TimerExpires == (writes = MaxWrites) ~> ("timer" \in cpu.ip)
=============================================================================
