----------------------------- MODULE CP0Proofs -----------------------------
(***************************************************************************)
(* Proofs about coprocessor 0, for any software and any devices.  IInv is  *)
(* about Cause and the latches, RegistersOK about the fields of registers, *)
(* and NInv ties the fault manager to EXL and the interrupt mask.          *)
(***************************************************************************)
EXTENDS CP0, TLAPS

Facts == INSTANCE InterruptsProofs

LEMMA SameState == MI!State = Facts!State
  BY DEF MI!State, Facts!State, MI!Sources, Facts!Sources, MI!Counts, Facts!Counts

LEMMA SameStored == MI!Stored = Facts!Stored
  BY DEF MI!Stored, Facts!Stored, MI!WriteMode, Facts!WriteMode, MI!WriteMask, Facts!WriteMask,
         MI!CheckForRCPInterrupts, Facts!CheckForRCPInterrupts

LEMMA SameIncrement ==
  ASSUME NEW s
  PROVE  MI!IncrementCycleCounters(s) = Facts!IncrementCycleCounters(s)
  BY DEF MI!IncrementCycleCounters, Facts!IncrementCycleCounters

(* The part of the state that is the MI's has its types and the right bit. *)
MIRight(s) == s \in MI!State /\ ("rcp" \in s.ip <=> s.intr \cap s.mask # {})

LEMMA DCRight ==
  ASSUME MIRight(cpu), NEW s \in AfterDC
  PROVE  MIRight(s) /\ ("timer" \in cpu.ip => "timer" \in s.ip)
  <1>1. CASE ~storing
    BY <1>1 DEF AfterDC
  <1>2. CASE storing
    <2>1. s \in Facts!Stored /\ cpu \in Facts!State /\ Facts!Follows(cpu)
      BY <1>2, SameStored, SameState DEF AfterDC, MIRight, Facts!Follows
    <2>2. s \in Facts!State /\ Facts!Follows(s) /\ ("timer" \in cpu.ip => "timer" \in s.ip)
      BY <2>1, Facts!StoredFollows, InterruptsAssumption
    <2> QED BY <2>2, SameState DEF MIRight, Facts!Follows
  <1> QED BY <1>1, <1>2

LEMMA IncrementRight ==
  ASSUME NEW s, MIRight(s)
  PROVE  /\ MIRight(MI!IncrementCycleCounters(s))
         /\ "timer" \in s.ip => "timer" \in MI!IncrementCycleCounters(s).ip
  <1>1. s \in Facts!State /\ Facts!Follows(s)
    BY SameState DEF MIRight, Facts!Follows
  <1>2. /\ Facts!IncrementCycleCounters(s) \in Facts!State
        /\ Facts!Follows(Facts!IncrementCycleCounters(s))
        /\ "timer" \in s.ip => "timer" \in Facts!IncrementCycleCounters(s).ip
    BY <1>1, Facts!IncrementFollows, InterruptsAssumption
  <1> QED BY <1>2, SameState, SameIncrement DEF MIRight, Facts!Follows

-----------------------------------------------------------------------------
(* The latches hold instructions of the program. *)
LatchesOK ==
  /\ icrf = [pc |-> icrf.pc, addr |-> icrf.addr, live |-> icrf.live]
  /\ icrf.addr \in DOMAIN Program
  /\ rfex \in DOMAIN Program \cup {Bubble}

IInv == MIRight(cpu) /\ LatchesOK

(* EX withdraws the timer by a move to Compare only, and what it does to    *)
(* Cause otherwise are the software interrupts.                             *)
LEMMA EXRight ==
  ASSUME LatchesOK, NEW s, MIRight(s), NEW word
  PROVE  /\ MIRight(MIAfter(s, word))
         /\ "timer" \in s.ip /\ Insn.op # "compare" => "timer" \in MIAfter(s, word).ip
  <1>1. CASE Insn.op = "compare"
    <2>1. rfex # Bubble /\ Insn = Program[rfex]
      BY <1>1 DEF Insn
    <2>2. Insn.count \in MI!Counts
      BY <1>1, <2>1, CompareAssumption DEF LatchesOK, MI!Counts
    <2>3. MIAfter(s, word) = MI!MTC0Compare(s, Insn.count)
      BY <1>1 DEF MIAfter, IsMove
    <2> DEFINE ip == s.ip \ {"timer"}
    <2>4. MI!MTC0Compare(s, Insn.count) = [s EXCEPT !.ip = ip, !.compare = Insn.count]
      BY DEF MI!MTC0Compare
    <2>5. ip \in SUBSET MI!Sources /\ ("rcp" \in ip <=> "rcp" \in s.ip)
      BY DEF MIRight, MI!State
    <2> HIDE DEF ip
    <2>6. MIRight([s EXCEPT !.ip = ip, !.compare = Insn.count])
      BY <2>2, <2>5 DEF MIRight, MI!State
    <2> QED BY <1>1, <2>3, <2>4, <2>6
  <1>2. CASE Insn.op # "compare" /\ IsMove /\ Insn.reg = "CAUSE"
    <2>1. MIAfter(s, word) = MTC0Cause(s, word)
      BY <1>2 DEF MIAfter
    <2> DEFINE ip == (s.ip \ SoftwareInterrupts)
                       \cup {i \in SoftwareInterrupts : Pending[i] + 8 \in word}
    <2>2. ip \in SUBSET MI!Sources
      BY DEF MIRight, MI!State, MI!Sources, SoftwareInterrupts
    <2>3. ("rcp" \in ip <=> "rcp" \in s.ip) /\ ("timer" \in ip <=> "timer" \in s.ip)
      BY DEF SoftwareInterrupts
    <2>4. MTC0Cause(s, word) = [s EXCEPT !.ip = ip]
      BY DEF MTC0Cause
    <2> HIDE DEF ip
    <2> QED BY <2>1, <2>2, <2>3, <2>4 DEF MIRight, MI!State
  <1>3. CASE Insn.op # "compare" /\ ~(IsMove /\ Insn.reg = "CAUSE")
    BY <1>3 DEF MIAfter
  <1> QED BY <1>1, <1>2, <1>3

LEMMA FetchingOK ==
  ASSUME LatchesOK
  PROVE  /\ Fetching = [pc |-> Fetching.pc, addr |-> icrf.addr, live |-> Fetching.live]
         /\ Moved = [pc |-> Moved.pc, addr |-> icrf.addr, live |-> TRUE]
  <1>1. Fetching = [pc |-> Fetching.pc, addr |-> icrf.addr, live |-> Fetching.live]
    <2>1. CASE Insn.op = "j"
      <3>1. Fetching = [icrf EXCEPT !.pc = Insn.target - 1]
        BY <2>1 DEF Fetching
      <3> QED BY <3>1 DEF LatchesOK
    <2>2. CASE Insn.op = "eret"
      <3>1. Fetching = [icrf EXCEPT !.pc = AddressOf(Return) - 1, !.live = FALSE]
        BY <2>2 DEF Fetching
      <3> QED BY <3>1 DEF LatchesOK
    <2>3. CASE Insn.op \notin {"j", "eret"}
      <3>1. Fetching = icrf
        BY <2>3 DEF Fetching
      <3> QED BY <3>1 DEF LatchesOK
    <2> QED BY <2>1, <2>2, <2>3
  <1>2. Fetching.addr = icrf.addr
    BY <1>1
  <1>3. Moved = [pc |-> Moved.pc, addr |-> icrf.addr, live |-> TRUE]
    BY <1>2 DEF Moved
  <1> QED BY <1>1, <1>3

LEMMA InitIInv == Init => IInv
  BY ProgramAssumption, InterruptsAssumption
  DEF Init, IInv, MIRight, LatchesOK, MI!Init, MI!State, MI!Sources, MI!Counts

(* What a step may do to the timer's bit. *)
KeepsTimer == "timer" \in cpu.ip /\ "timer" \notin cpu'.ip => Insn.op = "compare"

(* A cycle in which DC and EX run. *)
LEMMA CycleRight ==
  ASSUME IInv, NEW s \in AfterDC, NEW word, EndCycle(MIAfter(s, word))
  PROVE  MIRight(cpu') /\ KeepsTimer
  <1>1. MIRight(s) /\ ("timer" \in cpu.ip => "timer" \in s.ip)
    BY DCRight DEF IInv
  <1> DEFINE t == MIAfter(s, word)
  <1>2. MIRight(t) /\ ("timer" \in s.ip /\ Insn.op # "compare" => "timer" \in t.ip)
    BY <1>1, EXRight DEF IInv
  <1> HIDE DEF t
  <1>3. /\ MIRight(MI!IncrementCycleCounters(t))
        /\ "timer" \in t.ip => "timer" \in MI!IncrementCycleCounters(t).ip
    BY <1>2, IncrementRight
  <1>4. cpu' = MI!IncrementCycleCounters(t)
    BY DEF EndCycle, t
  <1> QED BY <1>1, <1>2, <1>3, <1>4 DEF KeepsTimer

LEMMA NextIInv ==
  ASSUME IInv, [Next]_vars
  PROVE  IInv' /\ (KeepsTimer \/ UNCHANGED vars)
  <1>1. CASE NormalCycle
    <2>1. MIRight(cpu') /\ KeepsTimer
      BY <1>1, CycleRight DEF NormalCycle
    <2>2. LatchesOK'
      BY <1>1, FetchingOK DEF NormalCycle, RFAndIC, RF, IInv, LatchesOK
    <2> QED BY <2>1, <2>2 DEF IInv
  <1>2. CASE StartRF
    <2>1. MIRight(cpu') /\ KeepsTimer
      BY <1>2, CycleRight DEF StartRF
    <2>2. LatchesOK'
      BY <1>2, FetchingOK DEF StartRF, RF, IInv, LatchesOK
    <2> QED BY <2>1, <2>2 DEF IInv
  <1>3. CASE StartEX
    <2>1. MIRight(cpu') /\ KeepsTimer
      BY <1>3, CycleRight DEF StartEX
    <2>2. LatchesOK'
      BY <1>3, FetchingOK DEF StartEX, IInv, LatchesOK
    <2> QED BY <2>1, <2>2 DEF IInv
  <1>4. CASE StartDC
    <2>1. PICK s \in AfterDC : EndCycle(s)
      BY <1>4 DEF StartDC
    <2>2. MIRight(cpu') /\ KeepsTimer
      BY <2>1, DCRight, IncrementRight DEF EndCycle, KeepsTimer, IInv
    <2> QED BY <1>4, <2>2 DEF StartDC, IInv, LatchesOK
  <1>5. CASE HandleExceptions
    <2>1. MIRight(cpu') /\ KeepsTimer
      BY <1>5, IncrementRight DEF HandleExceptions, EndCycle, KeepsTimer, IInv
    <2>2. LatchesOK'
      BY <1>5 DEF HandleExceptions, FaultRST, FaultINTR, IInv, LatchesOK
    <2> QED BY <2>1, <2>2 DEF IInv
  <1>6. CASE Device
    <2>1. ASSUME NEW lines \in SUBSET Devices, cpu' = MI!VR4300RaiseRCPInterrupt(cpu, lines)
          PROVE  MIRight(cpu') /\ KeepsTimer
      <3> DEFINE ip == IF (cpu.intr \cup lines) \cap cpu.mask # {} THEN cpu.ip \cup {"rcp"}
                                                                  ELSE cpu.ip
      <3>1. /\ cpu' = [cpu EXCEPT !.intr = cpu.intr \cup lines, !.ip = ip]
            /\ ip \in SUBSET MI!Sources /\ ("timer" \in cpu.ip => "timer" \in ip)
            /\ "rcp" \in ip <=> (cpu.intr \cup lines) \cap cpu.mask # {}
        BY <2>1 DEF IInv, MIRight, MI!State, MI!Sources, MI!VR4300RaiseRCPInterrupt
      <3> HIDE DEF ip
      <3> QED BY <3>1 DEF IInv, MIRight, MI!State, KeepsTimer
    <2>2. ASSUME NEW lines \in SUBSET Devices, cpu' = MI!VR4300ClearRCPInterrupt(cpu, lines)
          PROVE  MIRight(cpu') /\ KeepsTimer
      <3> DEFINE ip == IF (cpu.intr \ lines) \cap cpu.mask = {} THEN cpu.ip \ {"rcp"}
                                                               ELSE cpu.ip
      <3>1. /\ cpu' = [cpu EXCEPT !.intr = cpu.intr \ lines, !.ip = ip]
            /\ ip \in SUBSET MI!Sources /\ ("timer" \in cpu.ip => "timer" \in ip)
            /\ "rcp" \in ip <=> (cpu.intr \ lines) \cap cpu.mask # {}
        BY <2>2 DEF IInv, MIRight, MI!State, MI!Sources, MI!VR4300ClearRCPInterrupt
      <3> HIDE DEF ip
      <3> QED BY <3>1 DEF IInv, MIRight, MI!State, KeepsTimer
    <2>3. MIRight(cpu') /\ KeepsTimer
      BY <1>6, <2>1, <2>2 DEF Device, MI!Raise, MI!Clear
    <2> QED BY <1>6, <2>3 DEF Device, IInv, LatchesOK
  <1>7. CASE UNCHANGED vars
    BY <1>7 DEF vars, IInv, LatchesOK
  <1> QED BY <1>1, <1>2, <1>3, <1>4, <1>5, <1>6, <1>7 DEF Next, CycleVR4300

-----------------------------------------------------------------------------
(* The registers, whatever is moved to them.  A row of fields is right when *)
(* each holds bits of its own width, and those that only the hardware       *)
(* writes are flags.                                                        *)
Rows == DOMAIN MTC0Fields \cup {"CAUSE"}

RowOK(r, row) ==
  /\ r \in DOMAIN MTC0Fields =>
       \A f \in DOMAIN MTC0Fields[r] :
         f \in DOMAIN row /\ row[f] \subseteq 0 .. MTC0Fields[r][f].width - 1
  /\ r = "INDEX"  => "probe" \in DOMAIN row /\ row["probe"] \in Flag
  /\ r = "STATUS" => "ts" \in DOMAIN row /\ row["ts"] \in Flag
  /\ r = "CAUSE"  => "bd" \in DOMAIN row /\ row["bd"] \in Flag

RegistersOK(c) ==
  /\ \A r \in Rows : r \in DOMAIN c /\ RowOK(r, c[r])
  /\ "raise" \in DOMAIN c /\ c["raise"] \in BOOLEAN

LEMMA RowNames ==
  DOMAIN MTC0Fields = {"INDEX", "ENTRYLO0", "ENTRYLO1", "PAGEMASK", "ENTRYHI", "STATUS", "EPC",
                       "CONFIG", "TAGLO"}
  BY DEF MTC0Fields

LEMMA Widths ==
  ASSUME NEW r \in DOMAIN MTC0Fields, NEW f \in DOMAIN MTC0Fields[r]
  PROVE  MTC0Fields[r][f].width \in Nat \ {0}
  <1>1. CASE r = "STATUS"
    <2>1. DOMAIN MTC0Fields["STATUS"] =
            {"ie", "exl", "erl", "ksu", "ux", "sx", "kx", "im", "de", "ce", "ch", "sr", "bev",
             "its", "re", "fr", "rp", "cu"}
      BY DEF MTC0Fields
    <2>2. CASE f \in {"ie", "exl", "erl", "ksu", "ux", "sx", "kx", "im", "de"}
      BY <1>1, <2>2 DEF MTC0Fields, At
    <2>3. CASE f \in {"ce", "ch", "sr", "bev", "its", "re", "fr", "rp", "cu"}
      BY <1>1, <2>3 DEF MTC0Fields, At
    <2> QED BY <1>1, <2>1, <2>2, <2>3
  <1>2. CASE r \in {"ENTRYLO0", "ENTRYLO1"}
    <2>1. MTC0Fields[r] = EntryLoFields
      BY <1>2 DEF MTC0Fields
    <2>2. DOMAIN EntryLoFields = {"global", "valid", "dirty", "attribute", "pfn"}
      BY DEF EntryLoFields
    <2>3. f \in {"global", "valid", "dirty", "attribute", "pfn"}
      BY <2>1, <2>2
    <2>4. EntryLoFields[f].width \in Nat \ {0}
      BY <2>3 DEF EntryLoFields, At
    <2> QED BY <2>1, <2>4
  <1>3. CASE r \in {"INDEX", "PAGEMASK", "EPC"}
    BY <1>3 DEF MTC0Fields, At
  <1>4. CASE r = "ENTRYHI"
    BY <1>4 DEF MTC0Fields, At
  <1>5. CASE r = "CONFIG"
    BY <1>5 DEF MTC0Fields, At
  <1>6. CASE r = "TAGLO"
    BY <1>6 DEF MTC0Fields, At
  <1> QED BY <1>1, <1>2, <1>3, <1>4, <1>5, <1>6, RowNames

(* Setting and clearing flags of a row. *)
LEMMA FlagsKeepRow ==
  ASSUME NEW r \in Rows, NEW x, RowOK(r, x), NEW y, DOMAIN y = DOMAIN x,
         \A f \in DOMAIN x : y[f] = x[f] \/ y[f] \in Flag
  PROVE  RowOK(r, y)
  <1>1. ASSUME r \in DOMAIN MTC0Fields, NEW f \in DOMAIN MTC0Fields[r]
        PROVE  f \in DOMAIN y /\ y[f] \subseteq 0 .. MTC0Fields[r][f].width - 1
    <2>1. MTC0Fields[r][f].width \in Nat \ {0}
      BY <1>1, Widths
    <2>2. f \in DOMAIN x /\ x[f] \subseteq 0 .. MTC0Fields[r][f].width - 1
      BY <1>1 DEF RowOK
    <2>3. CASE y[f] \in Flag
      BY <2>1, <2>2, <2>3 DEF Flag, Up, Down
    <2> QED BY <2>2, <2>3
  <1> QED BY <1>1 DEF RowOK

(* Changing rows. *)
LEMMA RowsKeepRegisters ==
  ASSUME NEW c, RegistersOK(c), NEW d, DOMAIN d = DOMAIN c,
         \A r \in Rows : d[r] = c[r] \/ RowOK(r, d[r]), d["raise"] \in BOOLEAN
  PROVE  RegistersOK(d)
  BY DEF RegistersOK

(* MTC0 cuts every field to its width, and leaves the others alone. *)
LEMMA MTC0Fits ==
  ASSUME RegistersOK(cp0), NEW r, NEW word
  PROVE  RegistersOK(MTC0(r, word))
  <1>1. CASE r \notin DOMAIN MTC0Fields
    BY <1>1 DEF MTC0
  <1>2. CASE r \in DOMAIN MTC0Fields
    <2> DEFINE row == FieldsFrom(r, word)
    <2>1. r \in Rows /\ r \in DOMAIN cp0 /\ RowOK(r, cp0[r])
      BY <1>2 DEF RegistersOK, Rows
    <2>2. RowOK(r, row)
      <3>1. DOMAIN row = DOMAIN cp0[r]
        BY DEF FieldsFrom
      <3>2. ASSUME NEW f \in DOMAIN MTC0Fields[r]
            PROVE  f \in DOMAIN row /\ row[f] \subseteq 0 .. MTC0Fields[r][f].width - 1
        <4>1. f \in DOMAIN cp0[r]
          BY <1>2, <2>1 DEF RowOK
        <4> QED BY <4>1 DEF FieldsFrom
      <3>3. ASSUME NEW f \in DOMAIN cp0[r] \ DOMAIN MTC0Fields[r]
            PROVE  row[f] = cp0[r][f]
        BY DEF FieldsFrom
      <3>4. r = "INDEX" => "probe" \notin DOMAIN MTC0Fields[r]
        BY DEF MTC0Fields
      <3>5. r = "STATUS" => "ts" \notin DOMAIN MTC0Fields[r]
        BY DEF MTC0Fields
      <3>6. r # "CAUSE"
        BY <1>2, RowNames
      <3> HIDE DEF row
      <3> QED BY <1>2, <2>1, <3>1, <3>2, <3>3, <3>4, <3>5, <3>6 DEF RowOK
    <2> DEFINE written == [cp0 EXCEPT ![r] = row]
    <2> HIDE DEF row
    <2>3. r # "raise"
      BY <1>2, RowNames
    <2>4. DOMAIN written = DOMAIN cp0 /\ "raise" \in DOMAIN cp0
      BY DEF RegistersOK
    <2>5. \A q \in Rows : q \in DOMAIN cp0 /\ q # "raise"
      BY RowNames DEF RegistersOK, Rows
    <2>6. ASSUME NEW q \in Rows PROVE written[q] = cp0[q] \/ RowOK(q, written[q])
      BY <2>1, <2>2, <2>5
    <2>7. written["raise"] \in BOOLEAN
      BY <2>3, <2>4 DEF RegistersOK
    <2> HIDE DEF written
    <2>8. RegistersOK(written)
      BY <2>4, <2>6, <2>7, RowsKeepRegisters
    <2>9. CASE r = "STATUS"
      <3> DEFINE d == [written EXCEPT !.raise = Raise(written.STATUS)]
      <3>1. DOMAIN d = DOMAIN written /\ \A q \in Rows : d[q] = written[q]
        BY <2>4, <2>5
      <3>2. Raise(written.STATUS) \in BOOLEAN
        BY DEF Raise
      <3>3. d["raise"] \in BOOLEAN
        BY <2>4, <3>2
      <3>4. RegistersOK(d)
        <4> HIDE DEF d
        <4> QED BY <2>8, <3>1, <3>3, RowsKeepRegisters
      <3> QED BY <1>2, <2>9, <3>4 DEF MTC0, written, row
    <2> QED BY <1>2, <2>8, <2>9 DEF MTC0, written, row
  <1> QED BY <1>1, <1>2

(* A row whose flags change, in registers that are right. *)
LEMMA FlagsKeepRegisters ==
  ASSUME NEW c, RegistersOK(c), NEW d, DOMAIN d = DOMAIN c, d["raise"] \in BOOLEAN,
         \A r \in Rows :
           /\ DOMAIN d[r] = DOMAIN c[r]
           /\ \A f \in DOMAIN c[r] : d[r][f] = c[r][f] \/ d[r][f] \in Flag
  PROVE  RegistersOK(d)
  <1>1. ASSUME NEW r \in Rows PROVE RowOK(r, d[r])
    <2>1. RowOK(r, c[r])
      BY DEF RegistersOK
    <2>2. /\ DOMAIN d[r] = DOMAIN c[r]
          /\ \A f \in DOMAIN c[r] : d[r][f] = c[r][f] \/ d[r][f] \in Flag
      OBVIOUS
    <2> QED BY <2>1, <2>2, FlagsKeepRow
  <1> QED BY <1>1, RowsKeepRegisters

(* What is known of the registers' names. *)
LEMMA Names ==
  ASSUME RegistersOK(cp0)
  PROVE  /\ {"STATUS", "CAUSE", "EPC", "CONFIG", "raise"} \subseteq DOMAIN cp0
         /\ {"STATUS", "CAUSE", "EPC", "CONFIG"} \subseteq Rows
         /\ Rows \subseteq DOMAIN cp0 /\ "raise" \notin Rows
  BY RowNames DEF RegistersOK, Rows

LEMMA ERETFits == ASSUME RegistersOK(cp0) PROVE RegistersOK(ERET)
  <1> DEFINE status == IF cp0.STATUS.erl = Up THEN [cp0.STATUS EXCEPT !.erl = Down]
                                              ELSE [cp0.STATUS EXCEPT !.exl = Down]
             raise == Raise(status)
             d == [cp0 EXCEPT !.STATUS = status, !.raise = raise]
  <1>1. raise \in BOOLEAN
    BY DEF Raise
  <1>2. /\ DOMAIN status = DOMAIN cp0["STATUS"]
        /\ \A f \in DOMAIN status : status[f] = cp0["STATUS"][f] \/ status[f] \in Flag
    <2>1. CASE cp0.STATUS.erl = Up
      BY <2>1 DEF Flag
    <2>2. CASE cp0.STATUS.erl # Up
      BY <2>2 DEF Flag
    <2> QED BY <2>1, <2>2
  <1>3. d = ERET
    BY DEF ERET
  <1> HIDE DEF status, raise
  <1>4. /\ DOMAIN d = DOMAIN cp0 /\ d["raise"] = raise /\ d["STATUS"] = status
        /\ \A r \in Rows \ {"STATUS"} : d[r] = cp0[r]
    BY Names
  <1> HIDE DEF d
  <1> QED BY <1>1, <1>2, <1>3, <1>4, FlagsKeepRegisters

LEMMA RSTFits == ASSUME RegistersOK(cp0), FaultRST PROVE RegistersOK(cp0')
  <1> DEFINE status == [cp0.STATUS EXCEPT !.ts = Down, !.sr = Down, !.rp = Down, !.erl = Up,
                                          !.bev = Up]
             config == [cp0.CONFIG EXCEPT !.ep = {}, !.be = Up, !.ec = {}]
  <1>1. cp0' = [cp0 EXCEPT !.STATUS = status, !.CONFIG = config]
    BY DEF FaultRST
  <1>2. /\ DOMAIN status = DOMAIN cp0["STATUS"]
        /\ \A f \in DOMAIN status : status[f] = cp0["STATUS"][f] \/ status[f] \in Flag
    <2>1. Up \in Flag /\ Down \in Flag
      BY DEF Flag
    <2> QED BY <2>1
  <1>3. /\ DOMAIN config = DOMAIN cp0["CONFIG"]
        /\ \A f \in DOMAIN config : config[f] = cp0["CONFIG"][f] \/ config[f] \in Flag
    BY DEF Flag, Down
  <1> HIDE DEF status, config
  <1>4. /\ DOMAIN cp0' = DOMAIN cp0 /\ cp0'["raise"] = cp0["raise"]
        /\ cp0'["STATUS"] = status /\ cp0'["CONFIG"] = config
        /\ \A r \in Rows \ {"STATUS", "CONFIG"} : cp0'[r] = cp0[r]
    BY <1>1, Names
  <1>5. cp0["raise"] \in BOOLEAN
    BY DEF RegistersOK
  <1> QED BY <1>2, <1>3, <1>4, <1>5, FlagsKeepRegisters

(* EPC holds any address. *)
LEMMA AddressFits == ASSUME NEW a PROVE WordOf(a) \subseteq 0 .. 63
  BY DEF WordOf

LEMMA HandlerFits == ASSUME RegistersOK(cp0) PROVE RegistersOK(CommonExceptionHandler)
  <1> DEFINE cause == [cp0.CAUSE EXCEPT !.excCode = {}, !.ce = {}]
             status == [cp0.STATUS EXCEPT !.exl = Up]
             entered == [cp0 EXCEPT !.CAUSE = cause, !.STATUS = status, !.raise = FALSE]
  <1>1. [cp0 EXCEPT !.CAUSE.excCode = {}, !.CAUSE.ce = {}, !.STATUS.exl = Up, !.raise = FALSE]
          = entered
    BY Names
  <1>2. /\ DOMAIN cause = DOMAIN cp0["CAUSE"]
        /\ \A f \in DOMAIN cause : cause[f] = cp0["CAUSE"][f] \/ cause[f] \in Flag
    BY DEF Flag, Down
  <1>3. /\ DOMAIN status = DOMAIN cp0["STATUS"]
        /\ \A f \in DOMAIN status : status[f] = cp0["STATUS"][f] \/ status[f] \in Flag
    BY DEF Flag
  <1> HIDE DEF cause, status
  <1>4. /\ DOMAIN entered = DOMAIN cp0 /\ entered["raise"] = FALSE
        /\ entered["CAUSE"] = cause /\ entered["STATUS"] = status
        /\ \A r \in Rows \ {"CAUSE", "STATUS"} : entered[r] = cp0[r]
    BY Names
  <1> HIDE DEF entered
  <1>5. RegistersOK(entered)
    BY <1>2, <1>3, <1>4, FlagsKeepRegisters
  <1> DEFINE bd == IF fm.afterBranch THEN Up ELSE Down
             slot == [entered.CAUSE EXCEPT !.bd = bd]
             epc == [entered.EPC EXCEPT !.epc = WordOf(FaultingInstruction)]
             saved == [entered EXCEPT !.CAUSE = slot, !.EPC = epc]
  <1>6. [entered EXCEPT !.CAUSE.bd = bd, !.EPC.epc = WordOf(FaultingInstruction)] = saved
    BY <1>4, Names
  <1>7. RowOK("CAUSE", slot)
    <2>1. RowOK("CAUSE", entered["CAUSE"])
      BY <1>5 DEF RegistersOK, Rows
    <2>2. bd \in Flag
      BY DEF Flag
    <2> HIDE DEF bd
    <2> QED BY <2>1, <2>2, RowNames DEF RowOK
  <1>8. RowOK("EPC", epc)
    <2>1. RowOK("EPC", entered["EPC"])
      BY <1>5, RowNames DEF RegistersOK, Rows
    <2>2. DOMAIN MTC0Fields["EPC"] = {"epc"} /\ MTC0Fields["EPC"]["epc"].width = 64
      BY DEF MTC0Fields, At
    <2>3. WordOf(FaultingInstruction) \subseteq 0 .. 64 - 1
      BY AddressFits
    <2> DEFINE word == WordOf(FaultingInstruction)
    <2> HIDE DEF word
    <2>4. "epc" \in DOMAIN entered["EPC"]
      BY <2>1, <2>2, RowNames DEF RowOK
    <2>5. epc["epc"] \subseteq 0 .. 64 - 1 /\ "epc" \in DOMAIN epc
      BY <2>3, <2>4
    <2> HIDE DEF epc
    <2> QED BY <2>2, <2>5, RowNames DEF RowOK
  <1> HIDE DEF slot, epc
  <1>9. /\ DOMAIN saved = DOMAIN entered /\ saved["raise"] = FALSE
        /\ saved["CAUSE"] = slot /\ saved["EPC"] = epc
        /\ \A r \in Rows \ {"CAUSE", "EPC"} : saved[r] = entered[r]
    BY <1>4, Names
  <1>10. RegistersOK(saved)
    <2> HIDE DEF saved
    <2> QED BY <1>5, <1>7, <1>8, <1>9, RowsKeepRegisters
  <1>11. CommonExceptionHandler = IF cp0.STATUS.exl = Up THEN entered ELSE saved
    BY <1>1, <1>6 DEF CommonExceptionHandler, entered
  <1> QED BY <1>5, <1>10, <1>11

LEMMA HandlerMasks == ASSUME RegistersOK(cp0) PROVE CommonExceptionHandler["raise"] = FALSE
  <1> DEFINE entered == [cp0 EXCEPT !.CAUSE.excCode = {}, !.CAUSE.ce = {}, !.STATUS.exl = Up,
                                    !.raise = FALSE]
             word == WordOf(FaultingInstruction)
             bd == IF fm.afterBranch THEN Up ELSE Down
             saved == [entered EXCEPT !.CAUSE.bd = bd, !.EPC.epc = word]
  <1>1. CommonExceptionHandler = IF cp0.STATUS.exl = Up THEN entered ELSE saved
    BY DEF CommonExceptionHandler
  <1> HIDE DEF word, bd
  <1>2. entered["raise"] = FALSE /\ DOMAIN entered = DOMAIN cp0
    BY Names
  <1> HIDE DEF entered
  <1>3. saved["raise"] = FALSE
    BY <1>2, Names
  <1> QED BY <1>1, <1>2, <1>3

LEMMA EXFits == ASSUME RegistersOK(cp0), NEW word PROVE RegistersOK(CP0After(word))
  BY ERETFits, MTC0Fits DEF CP0After

(* A row of zeros that has all the fields. *)
LEMMA ZeroRow ==
  ASSUME NEW r \in Rows, NEW fields,
         r \in DOMAIN MTC0Fields => DOMAIN MTC0Fields[r] \subseteq fields,
         r = "INDEX" => "probe" \in fields, r = "STATUS" => "ts" \in fields,
         r = "CAUSE" => "bd" \in fields
  PROVE  RowOK(r, Zero(fields))
  BY DEF RowOK, Zero, Flag, Down

LEMMA InitFits == Init => RegistersOK(cp0)
  <1> SUFFICES ASSUME Init PROVE RegistersOK(cp0)
    OBVIOUS
  <1>1. cp0["raise"] = FALSE /\ "raise" \in DOMAIN cp0
    BY DEF Init
  <1>2. /\ Rows \subseteq DOMAIN cp0
        /\ cp0["INDEX"] = Zero({"index", "probe"})
        /\ cp0["ENTRYLO0"] = Zero(DOMAIN EntryLoFields)
        /\ cp0["ENTRYLO1"] = Zero(DOMAIN EntryLoFields)
        /\ cp0["PAGEMASK"] = Zero({"pageMask"})
        /\ cp0["ENTRYHI"] = Zero({"asid", "vpn2", "region"})
        /\ cp0["STATUS"] = Zero(DOMAIN MFC0Fields["STATUS"])
        /\ cp0["CAUSE"] = Zero({"excCode", "ce", "bd"})
        /\ cp0["EPC"] = Zero({"epc"})
        /\ cp0["CONFIG"] = Zero({"k0", "cu", "be", "ep", "ec"})
        /\ cp0["TAGLO"] = Zero({"pState", "pTagLo"})
    BY RowNames DEF Init, Rows
  <1>3. ASSUME NEW r \in Rows PROVE RowOK(r, cp0[r])
    <2>1. CASE r = "STATUS"
      <3>1. DOMAIN MTC0Fields["STATUS"] \subseteq DOMAIN MFC0Fields["STATUS"]
        BY DEF MTC0Fields, MFC0Fields
      <3>2. "ts" \in DOMAIN MFC0Fields["STATUS"]
        BY DEF MFC0Fields
      <3> QED BY <1>2, <2>1, <3>1, <3>2, ZeroRow
    <2>2. CASE r \in {"ENTRYLO0", "ENTRYLO1"}
      <3>1. MTC0Fields[r] = EntryLoFields
        BY <2>2 DEF MTC0Fields
      <3> QED BY <1>2, <2>2, <3>1, ZeroRow
    <2>3. CASE r = "INDEX"
      <3>1. DOMAIN MTC0Fields["INDEX"] = {"index"}
        BY DEF MTC0Fields
      <3> QED BY <1>2, <2>3, <3>1, ZeroRow
    <2>4. CASE r = "PAGEMASK"
      <3>1. DOMAIN MTC0Fields["PAGEMASK"] = {"pageMask"}
        BY DEF MTC0Fields
      <3> QED BY <1>2, <2>4, <3>1, ZeroRow
    <2>5. CASE r = "ENTRYHI"
      <3>1. DOMAIN MTC0Fields["ENTRYHI"] = {"asid", "vpn2", "region"}
        BY DEF MTC0Fields
      <3> QED BY <1>2, <2>5, <3>1, ZeroRow
    <2>6. CASE r = "EPC"
      <3>1. DOMAIN MTC0Fields["EPC"] = {"epc"}
        BY DEF MTC0Fields
      <3> QED BY <1>2, <2>6, <3>1, ZeroRow
    <2>7. CASE r = "CONFIG"
      <3>1. DOMAIN MTC0Fields["CONFIG"] = {"k0", "cu", "be", "ep"}
        BY DEF MTC0Fields
      <3> QED BY <1>2, <2>7, <3>1, ZeroRow
    <2>8. CASE r = "TAGLO"
      <3>1. DOMAIN MTC0Fields["TAGLO"] = {"pState", "pTagLo"}
        BY DEF MTC0Fields
      <3> QED BY <1>2, <2>8, <3>1, ZeroRow
    <2>9. CASE r = "CAUSE"
      BY <1>2, <2>9, RowNames, ZeroRow
    <2> QED BY <2>1, <2>2, <2>3, <2>4, <2>5, <2>6, <2>7, <2>8, <2>9, RowNames DEF Rows
  <1> QED BY <1>1, <1>2, <1>3 DEF RegistersOK

LEMMA NextFits == ASSUME RegistersOK(cp0), [Next]_vars PROVE RegistersOK(cp0')
  <1>1. CASE NormalCycle \/ StartRF \/ StartEX
    BY <1>1, EXFits DEF NormalCycle, StartRF, StartEX, EX
  <1>2. CASE StartDC \/ Device \/ UNCHANGED vars
    BY <1>2 DEF StartDC, Device, vars
  <1>3. CASE HandleExceptions
    BY <1>3, RSTFits, HandlerFits DEF HandleExceptions, FaultINTR
  <1> QED BY <1>1, <1>2, <1>3 DEF Next, CycleVR4300

-----------------------------------------------------------------------------
(* The layouts of MFC0 and MTC0, which are written out twice.  The word     *)
(* that the fields of a register make, and how wide each of them is.        *)
Word(r) == UNION {Shifted(FieldOf(r, f), MFC0Fields[r][f]) : f \in DOMAIN MFC0Fields[r]}

Size(r, f) == IF f \in DOMAIN MTC0Fields[r] THEN MTC0Fields[r][f].width ELSE 1

(* The registers that can be saved and restored, and those of them that     *)
(* have more bits than MFC0 moves.                                          *)
Saved == DOMAIN MFC0Fields \cap DOMAIN MTC0Fields

Long == {"ENTRYHI", "EPC"}

(* A field is read where it is written, and apart from the others.          *)
Apart(r, f) ==
  /\ f \in DOMAIN MFC0Fields[r]
  /\ MTC0Fields[r][f].low = MFC0Fields[r][f] /\ MFC0Fields[r][f] \in Nat
  /\ MFC0Fields[r][f] + MTC0Fields[r][f].width <= IF r \in Long THEN 64 ELSE 32
  /\ \A g \in DOMAIN MFC0Fields[r] \ {f} :
       /\ MFC0Fields[r][g] \in Nat /\ Size(r, g) \in Nat
       /\ \/ MFC0Fields[r][g] + Size(r, g) <= MFC0Fields[r][f]
          \/ MFC0Fields[r][f] + MTC0Fields[r][f].width <= MFC0Fields[r][g]

LEMMA SavedNames ==
  Saved = {"INDEX", "ENTRYLO0", "ENTRYLO1", "PAGEMASK", "ENTRYHI", "STATUS", "EPC"}
  BY RowNames DEF Saved, MFC0Fields

LEMMA LayoutsAgree == ASSUME NEW r \in Saved, NEW f \in DOMAIN MTC0Fields[r] PROVE Apart(r, f)
  <1>1. CASE r = "STATUS"
    <2>1. DOMAIN MTC0Fields["STATUS"] =
            {"ie", "exl", "erl", "ksu", "ux", "sx", "kx", "im", "de", "ce", "ch", "sr", "bev",
             "its", "re", "fr", "rp", "cu"}
      BY DEF MTC0Fields
    <2>2. DOMAIN MFC0Fields["STATUS"] = DOMAIN MTC0Fields["STATUS"] \cup {"ts"}
      BY DEF MTC0Fields, MFC0Fields
    <2>3. ASSUME NEW g \in {"ie", "exl", "erl", "ksu", "ux", "sx"} PROVE Apart("STATUS", g)
      BY <2>1, <2>2, SMTT(30) DEF Apart, Size, Long, MTC0Fields, MFC0Fields, At
    <2>4. ASSUME NEW g \in {"kx", "im", "de", "ce", "ch", "sr"} PROVE Apart("STATUS", g)
      BY <2>1, <2>2, SMTT(30) DEF Apart, Size, Long, MTC0Fields, MFC0Fields, At
    <2>5. ASSUME NEW g \in {"bev", "its", "re", "fr", "rp", "cu"} PROVE Apart("STATUS", g)
      BY <2>1, <2>2, SMTT(30) DEF Apart, Size, Long, MTC0Fields, MFC0Fields, At
    <2>6. f \in {"ie", "exl", "erl", "ksu", "ux", "sx"} \cup {"kx", "im", "de", "ce", "ch", "sr"}
                  \cup {"bev", "its", "re", "fr", "rp", "cu"}
      BY <1>1, <2>1
    <2> QED BY <1>1, <2>3, <2>4, <2>5, <2>6
  <1>2. CASE r \in {"ENTRYLO0", "ENTRYLO1"}
    <2>1. MTC0Fields[r] = EntryLoFields
      BY <1>2 DEF MTC0Fields
    <2>2. MFC0Fields[r] = [global |-> 0, valid |-> 1, dirty |-> 2, attribute |-> 3, pfn |-> 6]
      BY <1>2 DEF MFC0Fields
    <2>3. DOMAIN EntryLoFields = {"global", "valid", "dirty", "attribute", "pfn"}
      BY DEF EntryLoFields
    <2> QED BY <2>1, <2>2, <2>3, SMTT(30) DEF Apart, Size, Long, EntryLoFields, At
  <1>3. CASE r = "INDEX"
    BY <1>3 DEF Apart, Size, Long, MTC0Fields, MFC0Fields, At
  <1>4. CASE r = "PAGEMASK"
    BY <1>4 DEF Apart, Size, Long, MTC0Fields, MFC0Fields, At
  <1>5. CASE r = "ENTRYHI"
    BY <1>5 DEF Apart, Size, Long, MTC0Fields, MFC0Fields, At
  <1>6. CASE r = "EPC"
    BY <1>6 DEF Apart, Size, Long, MTC0Fields, MFC0Fields, At
  <1> QED BY <1>1, <1>2, <1>3, <1>4, <1>5, <1>6, SavedNames

(* A field of a register holds no more bits than its width. *)
LEMMA FieldSize ==
  ASSUME RegistersOK(cp0), NEW r \in Saved, NEW f \in DOMAIN MFC0Fields[r]
  PROVE  /\ FieldOf(r, f) = cp0[r][f]
         /\ cp0[r][f] \subseteq 0 .. Size(r, f) - 1
  <1>1. r \in Rows /\ r \in DOMAIN MTC0Fields /\ RowOK(r, cp0[r])
    BY DEF RegistersOK, Saved, Rows
  <1>2. f # "ip"
    BY SavedNames DEF MFC0Fields
  <1>3. ASSUME f \in DOMAIN MTC0Fields[r] PROVE cp0[r][f] \subseteq 0 .. Size(r, f) - 1
    BY <1>1, <1>3 DEF RowOK, Size
  <1>4. ASSUME f \notin DOMAIN MTC0Fields[r] PROVE cp0[r][f] \subseteq 0 .. Size(r, f) - 1
    <2>1. (r = "INDEX" /\ f = "probe") \/ (r = "STATUS" /\ f = "ts")
      <3>1. CASE r = "STATUS"
        BY <1>4, <3>1 DEF MTC0Fields, MFC0Fields
      <3>2. CASE r \in {"ENTRYLO0", "ENTRYLO1"}
        BY <1>4, <3>2 DEF MTC0Fields, MFC0Fields, EntryLoFields
      <3>3. CASE r \in {"INDEX", "PAGEMASK", "ENTRYHI", "EPC"}
        BY <1>4, <3>3 DEF MTC0Fields, MFC0Fields
      <3> QED BY <3>1, <3>2, <3>3, SavedNames
    <2>2. cp0[r][f] \in Flag
      BY <1>1, <2>1 DEF RowOK
    <2> QED BY <1>4, <2>2 DEF Size, Flag, Up, Down
  <1> QED BY <1>2, <1>3, <1>4 DEF FieldOf

(* The bits of a field are those of the word at its place. *)
LEMMA BitsOfField ==
  ASSUME RegistersOK(cp0), NEW r \in Saved, NEW f \in DOMAIN MTC0Fields[r],
         NEW b \in 0 .. MTC0Fields[r][f].width - 1
  PROVE  b + MTC0Fields[r][f].low \in Word(r) <=> b \in cp0[r][f]
  <1> DEFINE low == MTC0Fields[r][f].low
  <1>1. Apart(r, f)
    BY LayoutsAgree
  <1>2. MTC0Fields[r][f].width \in Nat \ {0}
    BY Widths DEF Saved
  <1>3. ASSUME b \in cp0[r][f] PROVE b + low \in Word(r)
    <2>1. b + low \in Shifted(FieldOf(r, f), MFC0Fields[r][f])
      BY <1>1, <1>3, FieldSize DEF Apart, Shifted
    <2> QED BY <1>1, <2>1 DEF Apart, Word
  <1>4. ASSUME b + low \in Word(r) PROVE b \in cp0[r][f]
    <2>1. PICK g \in DOMAIN MFC0Fields[r] :
            b + low \in Shifted(FieldOf(r, g), MFC0Fields[r][g])
      BY <1>4 DEF Word
    <2>2. FieldOf(r, g) = cp0[r][g] /\ cp0[r][g] \subseteq 0 .. Size(r, g) - 1
      BY FieldSize
    <2>3. PICK c \in cp0[r][g] : b + low = c + MFC0Fields[r][g]
      <3>1. b + low \in {c + MFC0Fields[r][g] : c \in cp0[r][g]}
        BY <2>1, <2>2 DEF Shifted
      <3> HIDE DEF low
      <3> QED BY <3>1
    <2>4. c \in 0 .. Size(r, g) - 1
      BY <2>2
    <2>5. CASE g = f
      BY <1>1, <2>3, <2>4, <2>5, <1>2 DEF Apart, Size
    <2>6. CASE g # f
      BY <1>1, <1>2, <2>3, <2>4, <2>6 DEF Apart
    <2> QED BY <2>5, <2>6
  <1> QED BY <1>3, <1>4

(* The registers from which MFC0 cannot tell bits 32 to 63 hold what MTC0   *)
(* made of a word that is extended by its sign, as all words of 32 bits are. *)
SignExtended(r) ==
  \E word \in SUBSET (0 .. 63) :
    /\ word = Extended(word)
    /\ \A f \in DOMAIN MTC0Fields[r] : cp0[r][f] = FieldsFrom(r, word)[f]

(* What MFC0 reads, MTC0 puts back: for every value of every register that  *)
(* both of them have, each field gets what it had.  The layouts are written *)
(* out by hand in two functions (CP0.c:138, CP0.c:238).                     *)
RestoresSaved ==
  \A r \in Saved :
    (r \in Long => SignExtended(r))
      => \A f \in DOMAIN cp0[r] : FieldsFrom(r, MFC0(r))[f] = cp0[r][f]

(* Bits 32 to 63 of what MFC0 reads are the sign's, and so are the fields'. *)
LEMMA UpperBits ==
  ASSUME RegistersOK(cp0), NEW r \in Saved \cap Long, SignExtended(r),
         NEW f \in DOMAIN MTC0Fields[r], NEW b \in 0 .. MTC0Fields[r][f].width - 1,
         b + MTC0Fields[r][f].low \in 32 .. 63
  PROVE  b + MTC0Fields[r][f].low \in MFC0(r) <=> b \in cp0[r][f]
  <1> DEFINE low == MTC0Fields[r][f].low
             sign == IF r = "EPC" THEN "epc" ELSE "vpn2"
  <1>1. /\ sign \in DOMAIN MTC0Fields[r]
        /\ 31 - MTC0Fields[r][sign].low \in 0 .. MTC0Fields[r][sign].width - 1
        /\ MTC0Fields[r][sign].low \in Nat
    BY DEF Long, MTC0Fields, At
  <1>2. PICK word \in SUBSET (0 .. 63) :
          /\ word = Extended(word)
          /\ \A g \in DOMAIN MTC0Fields[r] : cp0[r][g] = FieldsFrom(r, word)[g]
    BY DEF SignExtended
  <1>3. ASSUME NEW g \in DOMAIN MTC0Fields[r], NEW c \in 0 .. MTC0Fields[r][g].width - 1
        PROVE  c \in cp0[r][g] <=> c + MTC0Fields[r][g].low \in word
    <2>1. g \in DOMAIN cp0[r]
      BY DEF RegistersOK, RowOK, Saved, Rows
    <2>2. cp0[r][g] = FieldsFrom(r, word)[g]
      BY <1>2
    <2> QED BY <2>1, <2>2 DEF FieldsFrom
  <1> HIDE DEF sign
  <1> DEFINE c == 31 - MTC0Fields[r][sign].low
  <1>4. c + MTC0Fields[r][sign].low = 31
    BY <1>1
  <1>5. c \in cp0[r][sign] <=> 31 \in word
    BY <1>1, <1>3, <1>4
  <1>6. 31 \in Word(r) <=> c \in cp0[r][sign]
    <2>1. c + MTC0Fields[r][sign].low \in Word(r) <=> c \in cp0[r][sign]
      BY <1>1, BitsOfField
    <2> QED BY <1>4, <2>1
  <1>7. b \in cp0[r][f] <=> b + low \in word
    BY <1>3
  <1> HIDE DEF low, c
  <1>8. b + low \in word <=> 31 \in word
    <2>1. b + low \in Extended(word) <=> 31 \in word
      BY DEF Extended, low
    <2> QED BY <1>2, <2>1
  <1>9. b + low \in MFC0(r) <=> 31 \in Word(r)
    <2>1. MFC0(r) = Extended(Word(r))
      BY DEF MFC0, Word
    <2>2. b + low \in Extended(Word(r)) <=> 31 \in Word(r)
      BY DEF Extended, low
    <2> QED BY <2>1, <2>2
  <1> QED BY <1>5, <1>6, <1>7, <1>8, <1>9 DEF low

LEMMA RestoredFields == RegistersOK(cp0) => RestoresSaved
  <1> SUFFICES ASSUME RegistersOK(cp0), NEW r \in Saved, r \in Long => SignExtended(r),
                      NEW f \in DOMAIN cp0[r]
               PROVE  FieldsFrom(r, MFC0(r))[f] = cp0[r][f]
    BY DEF RestoresSaved
  <1>1. MFC0(r) = Extended(Word(r))
    BY DEF MFC0, Word
  <1>2. CASE f \notin DOMAIN MTC0Fields[r]
    BY <1>2 DEF FieldsFrom
  <1>3. CASE f \in DOMAIN MTC0Fields[r]
    <2> DEFINE low == MTC0Fields[r][f].low
               width == MTC0Fields[r][f].width
    <2>1. /\ width \in Nat \ {0} /\ low \in Nat
          /\ low + width <= IF r \in Long THEN 64 ELSE 32
      BY <1>3, Widths, LayoutsAgree DEF Saved, Apart
    <2>2. cp0[r][f] \subseteq 0 .. width - 1
      BY <1>3 DEF RegistersOK, RowOK, Saved, Rows
    <2>3. ASSUME NEW b \in 0 .. width - 1 PROVE b + low \in MFC0(r) <=> b \in cp0[r][f]
      <3>1. CASE b + low \in 32 .. 63
        <4>1. r \in Long
          BY <2>1, <3>1
        <4> QED BY <1>3, <3>1, <4>1, UpperBits
      <3>2. CASE b + low \in 0 .. 31
        <4>1. b + low \in Word(r) <=> b \in cp0[r][f]
          BY <1>3, BitsOfField
        <4> HIDE DEF low, width
        <4>2. b + low \in Extended(Word(r)) <=> b + low \in Word(r)
          BY <3>2 DEF Extended
        <4> QED BY <1>1, <4>1, <4>2
      <3> HIDE DEF low, width
      <3>3. b + low \in 0 .. 63
        BY <2>1
      <3> QED BY <3>1, <3>2, <3>3
    <2>4. FieldsFrom(r, MFC0(r))[f] = {b \in 0 .. width - 1 : b + low \in MFC0(r)}
      BY <1>3 DEF FieldsFrom
    <2> HIDE DEF low, width
    <2> QED BY <2>2, <2>3, <2>4
  <1> QED BY <1>2, <1>3

-----------------------------------------------------------------------------
(* Interrupts and EXL.  interruptRaiseMask is up only while EXL and ERL are *)
(* down.  The reset of power-on sets ERL and leaves the mask, but nothing   *)
(* can execute before its handler: bubbles are in the latches.              *)
Outside(c) == c["STATUS"].exl = Down /\ c["STATUS"].erl = Down

PowerOn ==
  fm.excp = "RST" =>
    /\ ~cp0["raise"] /\ fm.excpIndex # "NORMAL"
    /\ fm.excpIndex \in {"START_RF", "START_EX"} => rfex = Bubble
    /\ fm.excpIndex = "START_RF" => ~icrf.live

NInv ==
  /\ RegistersOK(cp0) /\ LatchesOK
  /\ cp0["raise"] => Outside(cp0)
  /\ fm = [excp |-> fm.excp, excpIndex |-> fm.excpIndex, pc |-> fm.pc,
           afterBranch |-> fm.afterBranch]
  /\ fm.excp \in {"RST", "INTR", "INV"}
  /\ fm.excpIndex # "NORMAL" /\ fm.excp = "INTR" => Outside(cp0)
  /\ PowerOn

(* Where the rows and the flag of what MTC0 leaves behind come from. *)
LEMMA MTC0Status ==
  ASSUME RegistersOK(cp0), NEW r, NEW word
  PROVE  /\ r = "STATUS" => /\ MTC0(r, word)["STATUS"] = FieldsFrom(r, word)
                            /\ MTC0(r, word)["raise"] = Raise(FieldsFrom(r, word))
         /\ r # "STATUS" => /\ MTC0(r, word)["STATUS"] = cp0["STATUS"]
                            /\ MTC0(r, word)["raise"] = cp0["raise"]
  <1>1. CASE r \notin DOMAIN MTC0Fields
    BY <1>1, RowNames DEF MTC0
  <1>2. CASE r \in DOMAIN MTC0Fields
    <2> DEFINE row == FieldsFrom(r, word)
               written == [cp0 EXCEPT ![r] = row]
    <2>1. MTC0(r, word) = IF r = "STATUS" THEN [written EXCEPT !.raise = Raise(written.STATUS)]
                                          ELSE written
      BY <1>2 DEF MTC0
    <2>2. r \in DOMAIN cp0 /\ r # "raise"
      BY <1>2, RowNames DEF RegistersOK, Rows
    <2>3. "STATUS" \in DOMAIN cp0 /\ "raise" \in DOMAIN cp0
      BY Names
    <2> HIDE DEF row
    <2>4. CASE r = "STATUS"
      <3>1. written["STATUS"] = row /\ DOMAIN written = DOMAIN cp0
        BY <2>2, <2>4
      <3> HIDE DEF written
      <3> DEFINE d == [written EXCEPT !.raise = Raise(written.STATUS)]
      <3>2. d["STATUS"] = row /\ d["raise"] = Raise(row)
        BY <2>3, <3>1
      <3> QED BY <2>1, <2>4, <3>2 DEF row
    <2>5. CASE r # "STATUS"
      BY <2>1, <2>2, <2>3, <2>5
    <2> QED BY <2>4, <2>5
  <1> QED BY <1>1, <1>2

(* EX keeps the mask and EXL in step. *)
LEMMA EXRaises ==
  ASSUME NInv, NEW word \in Operands
  PROVE  /\ RegistersOK(CP0After(word))
         /\ CP0After(word)["raise"] => Outside(CP0After(word))
         /\ Outside(cp0) /\ (IsMove /\ Insn.reg = "STATUS"
                               => /\ FieldsFrom("STATUS", word).exl = Down
                                  /\ FieldsFrom("STATUS", word).erl = Down)
              => Outside(CP0After(word))
         /\ rfex = Bubble => CP0After(word) = cp0
  <1>1. RegistersOK(CP0After(word))
    BY EXFits DEF NInv
  <1>2. CASE Insn.op = "eret"
    <2> DEFINE status == IF cp0.STATUS.erl = Up THEN [cp0.STATUS EXCEPT !.erl = Down]
                                                ELSE [cp0.STATUS EXCEPT !.exl = Down]
               raise == Raise(status)
               d == [cp0 EXCEPT !.STATUS = status, !.raise = raise]
    <2>1. CP0After(word) = d
      BY <1>2 DEF CP0After, ERET
    <2>2. Outside(cp0) => status.exl = Down /\ status.erl = Down
      <3>1. "exl" \in DOMAIN cp0["STATUS"] /\ "erl" \in DOMAIN cp0["STATUS"]
        <4>1. "STATUS" \in DOMAIN MTC0Fields
          BY RowNames
        <4>2. "exl" \in DOMAIN MTC0Fields["STATUS"] /\ "erl" \in DOMAIN MTC0Fields["STATUS"]
          BY DEF MTC0Fields
        <4> QED BY <4>1, <4>2 DEF NInv, RegistersOK, RowOK, Rows
      <3> QED BY <3>1 DEF Outside, Up, Down
    <2>3. raise => status.exl = Down /\ status.erl = Down
      BY DEF Raise
    <2>4. rfex # Bubble
      BY <1>2 DEF Insn
    <2>5. "STATUS" \in DOMAIN cp0 /\ "raise" \in DOMAIN cp0
      BY Names DEF NInv
    <2> HIDE DEF status, raise
    <2>6. d["STATUS"] = status /\ d["raise"] = raise
      BY <2>5
    <2> HIDE DEF d
    <2> QED BY <1>1, <2>1, <2>2, <2>3, <2>4, <2>6 DEF Outside
  <1>3. CASE Insn.op # "eret" /\ IsMove
    <2>1. CP0After(word) = MTC0(Insn.reg, word)
      BY <1>3 DEF CP0After
    <2>2. rfex # Bubble
      BY <1>3 DEF Insn, IsMove
    <2>3. CASE Insn.reg = "STATUS"
      <3> DEFINE row == FieldsFrom("STATUS", word)
      <3>1. CP0After(word)["STATUS"] = row /\ CP0After(word)["raise"] = Raise(row)
        BY <2>1, <2>3, MTC0Status DEF NInv
      <3>2. Raise(row) => row.exl = Down /\ row.erl = Down
        BY DEF Raise
      <3> HIDE DEF row
      <3>3. CP0After(word)["raise"] => Outside(CP0After(word))
        BY <3>1, <3>2 DEF Outside
      <3>4. row.exl = Down /\ row.erl = Down => Outside(CP0After(word))
        BY <3>1 DEF Outside
      <3> QED BY <1>1, <1>3, <2>2, <2>3, <3>3, <3>4 DEF row
    <2>4. CASE Insn.reg # "STATUS"
      <3>1. /\ CP0After(word)["STATUS"] = cp0["STATUS"]
            /\ CP0After(word)["raise"] = cp0["raise"]
        BY <2>1, <2>4, MTC0Status DEF NInv
      <3> QED BY <1>1, <2>2, <2>4, <3>1 DEF Outside, NInv
    <2> QED BY <2>3, <2>4
  <1>4. CASE Insn.op # "eret" /\ ~IsMove
    <2>1. CP0After(word) = cp0
      BY <1>4 DEF CP0After
    <2> QED BY <1>1, <1>4, <2>1 DEF NInv
  <1> QED BY <1>2, <1>3, <1>4

LEMMA InitNInv == Init => NInv
  <1> SUFFICES ASSUME Init PROVE NInv
    OBVIOUS
  <1>1. RegistersOK(cp0) /\ LatchesOK
    BY InitFits, InitIInv DEF IInv
  <1>2. /\ cp0["raise"] = FALSE /\ icrf.live = FALSE /\ rfex = Bubble
        /\ fm = [excp |-> "RST", excpIndex |-> "START_RF", pc |-> 0, afterBranch |-> FALSE]
    BY DEF Init
  <1> QED BY <1>1, <1>2 DEF NInv, PowerOn

(* What the stages before the handler leave of its premises. *)
LEMMA NormalNInv == ASSUME NInv, NormalCycle PROVE NInv'
  <1>1. PICK s \in AfterDC, word \in Operands :
          cp0' = CP0After(word) /\ CheckForPendingInterrupts(MIAfter(s, word))
    BY DEF NormalCycle, EX
  <1>2. RegistersOK(cp0') /\ (cp0'["raise"] => Outside(cp0'))
    BY <1>1, EXRaises
  <1>3. LatchesOK'
    BY FetchingOK DEF NormalCycle, RFAndIC, RF, NInv, LatchesOK
  <1>4. CASE InterruptPending(MIAfter(s, word))
    <2>1. fm' = [excp |-> "INTR", excpIndex |-> "START_RF", pc |-> icrf'.pc,
                 afterBranch |-> IsBranch(rfex')]
      BY <1>1, <1>4 DEF CheckForPendingInterrupts
    <2>2. cp0'["raise"]
      BY <1>4 DEF InterruptPending
    <2> QED BY <1>2, <1>3, <2>1, <2>2 DEF NInv, PowerOn
  <1>5. CASE ~InterruptPending(MIAfter(s, word))
    <2>1. fm' = fm
      BY <1>1, <1>5 DEF CheckForPendingInterrupts
    <2>2. fm.excpIndex = "NORMAL" /\ fm.excp # "RST"
      BY DEF NormalCycle, NInv, PowerOn
    <2> QED BY <1>2, <1>3, <2>1, <2>2 DEF NInv, PowerOn
  <1> QED BY <1>4, <1>5

LEMMA DrainNInv == ASSUME NInv, ClosesInTime, StartRF \/ StartEX PROVE NInv'
  <1>1. PICK word \in Operands : cp0' = CP0After(word)
    BY DEF StartRF, StartEX, EX
  <1>2. /\ RegistersOK(cp0') /\ (cp0'["raise"] => Outside(cp0'))
        /\ rfex = Bubble => cp0' = cp0
    BY <1>1, EXRaises
  <1>3. fm.excpIndex \in {"START_RF", "START_EX"}
    BY DEF StartRF, StartEX
  <1>4. fm.excp = "INTR" => Outside(cp0')
    <2> SUFFICES ASSUME fm.excp = "INTR" PROVE Outside(cp0')
      OBVIOUS
    <2>1. Outside(cp0)
      BY <1>3 DEF NInv
    <2>2. IsMove /\ Insn.reg = "STATUS" => /\ FieldsFrom("STATUS", word).exl = Down
                                           /\ FieldsFrom("STATUS", word).erl = Down
      BY <1>3 DEF ClosesInTime
    <2> QED BY <1>1, <2>1, <2>2, EXRaises
  <1>5. LatchesOK'
    BY FetchingOK DEF StartRF, StartEX, RF, NInv, LatchesOK
  <1>6. fm.excp = "RST" => ~cp0'["raise"]
    BY <1>2, <1>3 DEF NInv, PowerOn
  <1>7. fm' = [excp |-> fm.excp, excpIndex |-> fm'.excpIndex, pc |-> fm.pc,
               afterBranch |-> fm.afterBranch]
    <2>1. CASE StartRF
      <3>1. fm' = [fm EXCEPT !.excpIndex = "START_EX"]
        BY <2>1 DEF StartRF
      <3> QED BY <3>1 DEF NInv
    <2>2. CASE StartEX
      <3>1. fm' = [fm EXCEPT !.excpIndex = "START_DC"]
        BY <2>2 DEF StartEX
      <3> QED BY <3>1 DEF NInv
    <2> QED BY <2>1, <2>2
  <1>8. PowerOn'
    <2>1. CASE StartRF
      <3>1. fm'.excpIndex = "START_EX"
        BY <2>1 DEF StartRF, NInv
      <3>2. fm.excp = "RST" => rfex' = Bubble
        <4>1. fm.excp = "RST" => rfex = Bubble /\ ~icrf.live
          BY <2>1 DEF StartRF, NInv, PowerOn
        <4>2. rfex = Bubble => Fetching = icrf
          BY DEF Fetching, Insn
        <4>3. rfex' = IF Fetching.live THEN Fetching.addr ELSE Bubble
          BY <2>1 DEF StartRF, RF
        <4> QED BY <4>1, <4>2, <4>3
      <3> QED BY <1>6, <1>7, <3>1, <3>2 DEF PowerOn
    <2>2. CASE StartEX
      <3>1. fm'.excpIndex = "START_DC"
        BY <2>2 DEF StartEX, NInv
      <3> QED BY <1>6, <1>7, <3>1 DEF PowerOn
    <2> QED BY <2>1, <2>2
  <1>9. fm'.excp = fm.excp
    BY <1>7
  <1> QED BY <1>2, <1>4, <1>5, <1>7, <1>8, <1>9 DEF NInv

LEMMA HandleNInv == ASSUME NInv, HandleExceptions PROVE NInv'
  <1>1. RegistersOK(cp0')
    BY RSTFits, HandlerFits DEF HandleExceptions, FaultINTR, NInv
  <1>2. LatchesOK'
    BY DEF HandleExceptions, FaultRST, FaultINTR, NInv, LatchesOK
  <1>3. fm' = [excp |-> "INV", excpIndex |-> "NORMAL", pc |-> fm.pc,
               afterBranch |-> fm.afterBranch]
    <2>1. fm' = [fm EXCEPT !.excp = "INV", !.excpIndex = "NORMAL"]
      BY DEF HandleExceptions
    <2> QED BY <2>1 DEF NInv
  <1>4. ~cp0'["raise"]
    <2>1. CASE fm.excp = "RST"
      <3> DEFINE status == [cp0.STATUS EXCEPT !.ts = Down, !.sr = Down, !.rp = Down, !.erl = Up,
                                              !.bev = Up]
                 config == [cp0.CONFIG EXCEPT !.ep = {}, !.be = Up, !.ec = {}]
      <3>1. cp0' = [cp0 EXCEPT !.STATUS = status, !.CONFIG = config]
        BY <2>1 DEF HandleExceptions, FaultRST
      <3> HIDE DEF status, config
      <3>2. cp0'["raise"] = cp0["raise"]
        BY <3>1, Names DEF NInv
      <3> QED BY <2>1, <3>2 DEF NInv, PowerOn
    <2>2. CASE fm.excp # "RST"
      <3>1. cp0' = CommonExceptionHandler
        BY <2>2 DEF HandleExceptions, FaultINTR
      <3> QED BY <3>1, HandlerMasks DEF NInv
    <2> QED BY <2>1, <2>2
  <1> QED BY <1>1, <1>2, <1>3, <1>4 DEF NInv, PowerOn

LEMMA NextNInv == ASSUME NInv, ClosesInTime, [Next]_vars PROVE NInv'
  <1>1. CASE NormalCycle
    BY <1>1, NormalNInv
  <1>2. CASE StartRF \/ StartEX
    BY <1>2, DrainNInv
  <1>3. CASE StartDC
    <2>1. /\ UNCHANGED <<cp0, icrf, rfex>> /\ fm.excpIndex = "START_DC"
          /\ fm' = [fm EXCEPT !.excpIndex = "HANDLE"]
      BY <1>3 DEF StartDC
    <2>2. fm' = [excp |-> fm.excp, excpIndex |-> "HANDLE", pc |-> fm.pc,
                 afterBranch |-> fm.afterBranch]
      BY <2>1 DEF NInv
    <2> QED BY <2>1, <2>2 DEF NInv, PowerOn, LatchesOK, Outside, RegistersOK
  <1>4. CASE HandleExceptions
    BY <1>4, HandleNInv
  <1>5. CASE Device \/ UNCHANGED vars
    BY <1>5 DEF Device, vars, NInv, PowerOn, LatchesOK, Outside, RegistersOK
  <1> QED BY <1>1, <1>2, <1>3, <1>4, <1>5 DEF Next, CycleVR4300

(* Whatever software writes to Cause, old values included, the MI's bit of  *)
(* Cause is up exactly while an enabled line is (CP0.c:310, CPU.c).         *)
THEOREM CauseIsRight == Spec => []CauseFollowsMI
  <1>1. IInv => CauseFollowsMI
    BY DEF IInv, MIRight, CauseFollowsMI, MI!CauseFollowsMI
  <1>2. IInv /\ [Next]_vars => IInv'
    BY NextIInv
  <1> QED BY <1>1, <1>2, InitIInv, PTL DEF Spec

(* Whatever software does, only a move to Compare withdraws a timer         *)
(* interrupt, an aborted one included (CP0.c:273, Pipeline.c:190).          *)
THEOREM TimerIsKept == Spec => TimerWaits
  <1>1. IInv /\ [Next]_vars => IInv'
    BY NextIInv
  <1>2. IInv /\ [Next]_vars =>
          ["timer" \in cpu.ip /\ "timer" \notin cpu'.ip => Insn.op = "compare"]_vars
    BY NextIInv DEF KeepsTimer
  <1> QED BY <1>1, <1>2, InitIInv, PTL DEF Spec, TimerWaits

(* Whatever software moves to CP0, nested handlers that restore old values  *)
(* included, every field keeps to its width (CP0.c:278), and what only the  *)
(* hardware writes stays a flag; the latches hold words of the program.     *)
THEOREM TypeCorrect == Spec => []TypeOK
  <1>1. IInv /\ RegistersOK(cp0) => TypeOK
    BY RowNames DEF IInv, LatchesOK, RegistersOK, RowOK, Rows, TypeOK
  <1>2. IInv /\ RegistersOK(cp0) /\ [Next]_vars => IInv' /\ RegistersOK(cp0)'
    BY NextIInv, NextFits
  <1>3. Init => IInv /\ RegistersOK(cp0)
    BY InitIInv, InitFits
  <1> QED BY <1>1, <1>2, <1>3, PTL DEF Spec

(* Whatever software has moved to CP0, what MFC0 reads of a register, MTC0  *)
(* puts back, so that a handler which saves and restores changes no field   *)
(* (CP0.c:129, CP0.c:232).                                                  *)
THEOREM SavedIsRestored == Spec => []RestoresSaved
  <1>1. RegistersOK(cp0) /\ [Next]_vars => RegistersOK(cp0)'
    BY NextFits
  <1> QED BY <1>1, InitFits, RestoredFields, PTL DEF Spec

(* Under any software that closes interrupts two instructions before it     *)
(* sets EXL or ERL, no interrupt arrives where EPC would not be saved, for  *)
(* the mask that queued it is up outside of handlers only (CP0.c:302,       *)
(* Fault.c:80).                                                             *)
THEOREM InterruptsAreSaved == Spec /\ []ClosesInTime => NotInHandler
  <1>1. NInv /\ ClosesInTime /\ [Next]_vars => NInv'
    BY NextNInv
  <1>2. NInv /\ [Next]_vars
          => [HandleExceptions /\ fm.excp = "INTR"
                => cp0.STATUS.exl = Down /\ cp0.STATUS.erl = Down]_vars
    BY DEF HandleExceptions, NInv, Outside
  <1> QED BY <1>1, <1>2, InitNInv, PTL DEF Spec, NotInHandler
=============================================================================
