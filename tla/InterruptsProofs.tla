-------------------------- MODULE InterruptsProofs --------------------------
(***************************************************************************)
(* Proofs about the sources of interrupts, for any set of devices and any  *)
(* period of the timer.                                                    *)
(***************************************************************************)
EXTENDS Interrupts, TLAPS

IInv == TypeOK /\ CauseFollowsMI

(* CauseFollowsMI for a state that a cycle passes through. *)
Follows(s) == "rcp" \in s.ip <=> s.intr \cap s.mask # {}

-----------------------------------------------------------------------------
(* Recomputing the bit makes it right, whatever it was. *)
LEMMA CheckFollows ==
  ASSUME NEW s \in State
  PROVE  /\ CheckForRCPInterrupts(s) \in State
         /\ Follows(CheckForRCPInterrupts(s))
         /\ "timer" \in s.ip => "timer" \in CheckForRCPInterrupts(s).ip
  BY DEF State, Sources, CheckForRCPInterrupts, Follows

(* A write to an MI register keeps it right and leaves the timer alone. *)
LEMMA StoredFollows ==
  ASSUME cpu \in State, Follows(cpu), NEW s \in Stored
  PROVE  /\ s \in State
         /\ Follows(s)
         /\ "timer" \in cpu.ip => "timer" \in s.ip
  <1>1. CASE s = cpu
    BY <1>1
  <1>2. ASSUME NEW c \in SUBSET Modes, NEW m \in SUBSET Modes, NEW ack \in BOOLEAN,
               s = WriteMode(cpu, c, m, ack)
        PROVE  /\ s \in State
               /\ Follows(s)
               /\ "timer" \in cpu.ip => "timer" \in s.ip
    <2> DEFINE a == CheckForRCPInterrupts([cpu EXCEPT !.intr = @ \ {DP}])
               t == IF ack THEN a ELSE cpu
    <2>1. [cpu EXCEPT !.intr = @ \ {DP}] \in State
      BY DEF State
    <2>2. a \in State /\ Follows(a) /\ ("timer" \in cpu.ip => "timer" \in a.ip)
      BY <2>1, CheckFollows DEF State
    <2>3. t \in State /\ Follows(t) /\ ("timer" \in cpu.ip => "timer" \in t.ip)
      BY <2>2
    <2>4. s = [t EXCEPT !.mode = m \ c]
      BY <1>2 DEF WriteMode
    <2> HIDE DEF t
    <2> QED BY <2>3, <2>4 DEF State, Follows
  <1>3. ASSUME NEW c \in SUBSET Devices, NEW m \in SUBSET Devices, s = WriteMask(cpu, c, m)
        PROVE  /\ s \in State
               /\ Follows(s)
               /\ "timer" \in cpu.ip => "timer" \in s.ip
    <2>1. [cpu EXCEPT !.mask = (@ \cup m) \ c] \in State
      BY DEF State
    <2> QED BY <1>3, <2>1, CheckFollows DEF State, WriteMask
  <1> QED BY <1>1, <1>2, <1>3 DEF Stored

(* Count stays below its period. *)
LEMMA CountType ==
  ASSUME NEW s \in State
  PROVE  (s.count + 1) % Period \in Counts
  BY TimerAssumption DEF State, Counts

(* The end of a cycle only ever adds a timer interrupt. *)
LEMMA IncrementFollows ==
  ASSUME NEW s \in State, Follows(s)
  PROVE  /\ IncrementCycleCounters(s) \in State
         /\ Follows(IncrementCycleCounters(s))
         /\ "timer" \in s.ip => "timer" \in IncrementCycleCounters(s).ip
  <1> DEFINE count == IF s.odd THEN s.count ELSE (s.count + 1) % Period
             ip == IF count = s.compare THEN s.ip \cup {"timer"} ELSE s.ip
  <1>1. count \in Counts
    BY CountType DEF State
  <1>2. IncrementCycleCounters(s) =
          [[[s EXCEPT !.odd = ~s.odd] EXCEPT !.count = count] EXCEPT !.ip = ip]
    BY DEF IncrementCycleCounters
  <1>3. /\ ip \in SUBSET Sources
        /\ "rcp" \in ip <=> "rcp" \in s.ip
        /\ "timer" \in s.ip => "timer" \in ip
    BY DEF State, Sources
  <1> HIDE DEF count, ip
  <1> DEFINE t == [[[s EXCEPT !.odd = ~s.odd] EXCEPT !.count = count] EXCEPT !.ip = ip]
  <1>4. t \in State /\ t.ip = ip /\ t.intr = s.intr /\ t.mask = s.mask
    BY <1>1, <1>3 DEF State
  <1> HIDE DEF t
  <1> QED BY <1>2, <1>3, <1>4 DEF Follows, t

-----------------------------------------------------------------------------
(* Nothing is pending at first. *)
LEMMA InitIInv == Init => IInv
  BY DeviceAssumption, TimerAssumption
  DEF Init, IInv, TypeOK, CauseFollowsMI, State, Sources, Counts

(* Every operation preserves IInv, and only a write to Compare withdraws a *)
(* timer interrupt.                                                        *)
LEMMA NextIInv ==
  ASSUME IInv, [Next]_vars
  PROVE  /\ IInv'
         /\ "timer" \in cpu.ip /\ "timer" \notin cpu'.ip => SetCompare
  <1>0. cpu \in State /\ Follows(cpu) /\ writes \in 0 .. MaxWrites
    BY DEF IInv, TypeOK, CauseFollowsMI, Follows
  <1> SUFFICES /\ cpu' \in State /\ Follows(cpu') /\ writes' \in 0 .. MaxWrites
               /\ "timer" \in cpu.ip /\ "timer" \notin cpu'.ip => SetCompare
    BY DEF IInv, TypeOK, CauseFollowsMI, Follows
  <1>1. CASE Raise
    BY <1>0, <1>1 DEF Raise, VR4300RaiseRCPInterrupt, State, Sources, Follows
  <1>2. CASE Clear
    BY <1>0, <1>2 DEF Clear, VR4300ClearRCPInterrupt, State, Sources, Follows
  <1>3. CASE Cycle
    <2>1. PICK s \in Stored : cpu' = IncrementCycleCounters(s)
      BY <1>3 DEF Cycle
    <2> QED BY <1>0, <1>3, <2>1, StoredFollows, IncrementFollows DEF Cycle
  <1>4. CASE SetCompare
    <2>1. PICK s \in Stored, x \in Counts : cpu' = IncrementCycleCounters(MTC0Compare(s, x))
      BY <1>4 DEF SetCompare
    <2>2. s \in State /\ Follows(s)
      BY <1>0, StoredFollows
    <2>3. MTC0Compare(s, x) \in State /\ Follows(MTC0Compare(s, x))
      BY <2>2 DEF MTC0Compare, State, Sources, Follows
    <2> QED BY <1>0, <1>4, <2>1, <2>3, IncrementFollows, TimerAssumption DEF SetCompare
  <1>5. CASE SetCount
    <2>1. PICK s \in Stored, x \in Counts : cpu' = IncrementCycleCounters(MTC0Count(s, x))
      BY <1>5 DEF SetCount
    <2>2. s \in State /\ Follows(s) /\ ("timer" \in cpu.ip => "timer" \in s.ip)
      BY <1>0, StoredFollows
    <2>3. /\ MTC0Count(s, x) \in State /\ Follows(MTC0Count(s, x))
          /\ "timer" \in cpu.ip => "timer" \in MTC0Count(s, x).ip
      BY <2>2 DEF MTC0Count, State, Follows
    <2> QED BY <1>0, <1>5, <2>1, <2>3, IncrementFollows, TimerAssumption DEF SetCount
  <1>6. CASE UNCHANGED vars
    BY <1>0, <1>6 DEF vars
  <1> QED BY <1>1, <1>2, <1>3, <1>4, <1>5, <1>6 DEF Next, CycleVR4300

(* The Cause bit of the MI is the disjunction of its enabled lines after   *)
(* any sequence of device requests, acknowledgements and register writes.  *)
THEOREM CauseIsRight == Spec => []CauseFollowsMI
  <1>1. IInv /\ [Next]_vars => IInv'
    BY NextIInv
  <1>2. IInv => CauseFollowsMI
    BY DEF IInv
  <1> QED BY <1>1, <1>2, InitIInv, PTL DEF Spec

(* Count stays within its period and Cause within its bits (CP0.c, CPU.c).  *)
THEOREM TypeCorrect == Spec => []TypeOK
  <1>1. IInv /\ [Next]_vars => IInv'
    BY NextIInv
  <1>2. IInv => TypeOK
    BY DEF IInv
  <1> QED BY <1>1, <1>2, InitIInv, PTL DEF Spec

(* A timer interrupt is withdrawn by a write to Compare and by nothing     *)
(* else: not by VR4300ClearRCPInterrupt or MIRegWrite, which share the     *)
(* byte it is in, nor by the end of a cycle.                               *)
THEOREM TimerIsKept == Spec => TimerWaits
  <1>1. IInv /\ [Next]_vars => IInv'
    BY NextIInv
  <1>2. IInv /\ [Next]_vars =>
          ["timer" \in cpu.ip /\ "timer" \notin cpu'.ip => SetCompare]_vars
    BY NextIInv
  <1> QED BY <1>1, <1>2, InitIInv, PTL DEF Spec, TimerWaits
=============================================================================
