----------------------------- MODULE CP1Proofs ------------------------------
(***************************************************************************)
(* The floating point unit implements one that runs an instruction at once *)
(* (FlatFPU), for any registers, words, memory and exceptions, when the    *)
(* comparisons that compute no condition, or a wrong one, are not used.    *)
(***************************************************************************)
EXTENDS CP1, TLAPS

(* C.olt.s, C.sf.s and C.le. *)
Unsound == {<<"s", 4>>, <<"s", 8>>, <<"s", 14>>, <<"d", 14>>}

-----------------------------------------------------------------------------
(* Types *)

(* Loads under way leave registers of words. *)
LEMMA DeliveredType ==
  ASSUME TypeOK
  PROVE  Delivered \in [Register -> [0 .. 1 -> Word]]
<1>1. CASE latch.function = "none"
  BY <1>1 DEF TypeOK, Delivered
<1>2. CASE latch.function # "none"
  <2>1. /\ latch.target \in Register
        /\ latch.address \in Addr
        /\ latch.function \in {"LoadWordFPU", "LoadDWord"}
        /\ latch.function = "LoadWordFPU" => latch.word \in 0 .. 1
    BY <1>2 DEF TypeOK, Idle
  <2>2. ASSUME NEW h \in 0 .. 1
        PROVE  /\ Memory[latch.address][1 - h] \in Word
               /\ latch.function = "LoadWordFPU" => Memory[latch.address][latch.word] \in Word
    <3>1. 1 - h \in 0 .. 1
      OBVIOUS
    <3>. QED BY <2>1, <3>1, MemoryAssumption
  <2>3. regs \in [Register -> [0 .. 1 -> Word]]
    BY DEF TypeOK
  <2>. QED BY <1>2, <2>1, <2>2, <2>3 DEF Delivered
<1>. QED BY <1>1, <1>2

(* With nothing under way, the registers are what they will be. *)
LEMMA IdleDelivers ==
  ASSUME latch = Idle
  PROVE  Delivered = regs
BY DEF Delivered, Idle

(* A number names a word of a register, in both views. *)
LEMMA ViewType ==
  ASSUME TypeOK, NEW n \in Register
  PROVE  View(n) \in Register /\ Side(n) \in 0 .. 1
<1>1. n \in Nat /\ n < N /\ N \in Nat
  BY RegisterAssumption DEF Register
<1>2. n % 2 \in 0 .. 1 /\ n - (n % 2) \in 0 .. n
  BY <1>1
<1>. QED BY <1>1, <1>2 DEF View, Side, Register

(* The last instruction is idle and the registers keep their type. *)
LEMMA KeepType ==
  ASSUME TypeOK, Keep
  PROVE  /\ regs' \in [Register -> [0 .. 1 -> Word]]
         /\ latch' = Idle
         /\ Delivered' = Delivered
<1>1. regs' = Delivered /\ latch' = Idle
  BY DEF Keep
<1>2. Delivered' = regs'
  BY <1>1, IdleDelivers, Idle' = Idle DEF Delivered, Idle
<1>. QED BY <1>1, <1>2, DeliveredType

ControlType ==
  [flags : SUBSET (Architected \cup {"denormal"}), enables : SUBSET Architected,
   cause : SUBSET (Architected \cup {"denormal"}), c : BOOLEAN, coc : BOOLEAN, mode : Mode]

(* Exceptions of the host are recorded, and read as far as they are known. *)
LEMMA UpdatedType ==
  ASSUME TypeOK, NEW raised, raised \subseteq Architected \cup {"denormal"}
  PROVE  /\ Updated(raised) \in ControlType
         /\ Updated(raised).flags = control.flags \cup raised
         /\ Updated(raised).cause = raised
         /\ Updated(raised).enables = control.enables
         /\ Updated(raised).c = control.c
         /\ Updated(raised).coc = control.coc
         /\ Updated(raised).mode = control.mode
<1>1. control \in ControlType
  BY DEF TypeOK, ControlType
<1>2. control.flags \cup raised \in SUBSET (Architected \cup {"denormal"})
  BY <1>1 DEF ControlType
<1>. QED BY <1>1, <1>2 DEF Updated, ControlType

(* Every operation is Operate with exceptions that the host knows. *)
Known == {"inexact", "underflow", "overflow", "divbyzero", "invalid", "denormal"}

LEMMA KnownRaised ==
  ASSUME NEW exceptions, exceptions \subseteq Known, NEW raised \in SUBSET (exceptions \cap Raisable)
  PROVE  raised \subseteq Architected \cup {"denormal"}
BY DEF Known, Architected

(* What an operation writes. *)
LEMMA WrittenType ==
  ASSUME NEW file \in [Register -> [0 .. 1 -> Word]], NEW n \in Register,
         NEW value \in [0 .. 1 -> Word], NEW wide \in BOOLEAN
  PROVE  [file EXCEPT ![n] = IF wide THEN value ELSE [@ EXCEPT ![0] = value[0]]]
           \in [Register -> [0 .. 1 -> Word]]
<1>1. [file[n] EXCEPT ![0] = value[0]] \in [0 .. 1 -> Word]
  OBVIOUS
<1>. QED BY <1>1

(* An operation keeps the types, and is one of the abstract unit. *)
LEMMA OperateStep ==
  ASSUME TypeOK, ConditionsAgree, NEW n \in Register, NEW wide \in BOOLEAN,
         NEW exceptions, exceptions \subseteq Known, Operate(n, wide, exceptions)
  PROVE  TypeOK' /\ ConditionsAgree' /\ Flat!Next
<1>1. PICK raised \in SUBSET (exceptions \cap Raisable), value \in Results :
        /\ control' = Updated(raised)
        /\ regs' = IF raised \cap control.enables # {} THEN Delivered
                   ELSE [Delivered EXCEPT ![n] =
                           IF wide THEN value ELSE [@ EXCEPT ![0] = value[0]]]
  BY DEF Operate
<1>2. /\ FPUCheckUsable
      /\ inst' = [op |-> "compute", n |-> n, wide |-> wide]
      /\ latch' = Idle /\ status' = status
  BY DEF Operate
<1>3. raised \subseteq Architected \cup {"denormal"}
  BY <1>1, KnownRaised
<1>4. value \in [0 .. 1 -> Word]
  BY ResultsAssumption
<1>5. /\ control' \in ControlType
      /\ control'.flags = control.flags \cup raised
      /\ control'.cause = raised
      /\ control'.enables = control.enables
      /\ control'.c = control.c
      /\ control'.coc = control.coc
      /\ control'.mode = control.mode
  BY <1>1, <1>3, UpdatedType
<1>6. regs' \in [Register -> [0 .. 1 -> Word]]
  BY <1>1, <1>4, DeliveredType, WrittenType
<1>7. TypeOK'
  BY <1>2, <1>5, <1>6 DEF TypeOK, ControlType
<1>8. ConditionsAgree'
  BY <1>5 DEF ConditionsAgree
<1>9. Delivered' = regs'
  BY <1>2, IdleDelivers DEF Delivered, Idle
<1>10. Flat!Compute
  <2>1. inst' \in [op : {"compute"}, n : 0 .. N - 1, wide : BOOLEAN]
    BY <1>2 DEF Register
  <2>2. /\ ControlRead'.cause \subseteq Architected
        /\ ControlRead' = Flat!Recorded(ControlRead'.cause, ControlRead.c)
    BY <1>5 DEF ControlRead, CFC1NativeToSimulated, Flat!Recorded
  <2>3. /\ ControlRead'.cause = raised \cap Architected
        /\ ControlRead.enables = control.enables
    BY <1>5 DEF ControlRead, CFC1NativeToSimulated, TypeOK
  <2>4. ControlRead'.cause \cap ControlRead.enables = {} <=> raised \cap control.enables = {}
    BY <2>3 DEF TypeOK
  <2>5. CASE raised \cap control.enables # {}
    BY <1>1, <1>2, <1>9, <2>1, <2>2, <2>4, <2>5
    DEF Flat!Compute, Flat!Register
  <2>6. CASE raised \cap control.enables = {}
    <3>1. Delivered' = Flat!Written(inst'.n, value, inst'.wide)
      BY <1>1, <1>2, <1>9, <2>6 DEF Flat!Written
    <3>. QED BY <1>2, <1>4, <2>1, <2>2, <2>4, <2>6, <3>1
         DEF Flat!Compute, Flat!Register, Flat!Doubleword
  <2>. QED BY <2>5, <2>6
<1>. QED BY <1>2, <1>7, <1>8, <1>10 DEF Flat!Next, FPUCheckUsable

-----------------------------------------------------------------------------
(* Comparisons *)

(* The host's flags give each comparison but C.le what it is called after. *)
LEMMA ConditionIsRelation ==
  ASSUME NEW cond \in (0 .. 15) \ {14}, NEW rel \in {"lt", "eq", "gt", "un"}
  PROVE  Condition(cond, Flags(rel)) <=> Flat!Holds(cond, rel)
<1>. DEFINE host == Flags(rel)
<1>1. /\ host.un <=> rel = "un"
      /\ host.eq <=> rel \in {"eq", "un"}
      /\ host.lt <=> rel \in {"lt", "un"}
      /\ host.le <=> rel \in {"lt", "eq", "un"}
  BY DEF Flags
<1>2. Flat!Holds(cond, rel) <=>
        \/ rel = "un" /\ cond \in {1, 3, 5, 7, 9, 11, 13, 15}
        \/ rel = "eq" /\ cond \in {2, 3, 6, 7, 10, 11, 14, 15}
        \/ rel = "lt" /\ cond \in {4, 5, 6, 7, 12, 13, 14, 15}
  BY DEF Flat!Holds
<1>. HIDE DEF host
<1>3. cond \in 0 .. 7 => (Condition(cond, host) <=> Flat!Holds(cond, rel))
  BY <1>1, <1>2 DEF Condition, Cf, Cun, Ceq, Cueq, Colt, Cult, Cole, Cule
<1>4. cond \in 8 .. 15 => (Condition(cond, host) <=> Flat!Holds(cond, rel))
  BY <1>1, <1>2 DEF Condition, Csf, Cngle, Cseq, Cngl, Clt, Cnge, Cle, Cngt
<1>. QED BY <1>3, <1>4 DEF host

(* The control register with both copies of the condition set. *)
Outcome(raised, holds) == [Updated(raised) EXCEPT !.coc = holds, !.c = holds]

(* That is what a comparison leaves. *)
LEMMA ComparedIsRelation ==
  ASSUME NEW fmt \in Formats, NEW cond \in 0 .. 15, <<fmt, cond>> \notin Unsound,
         NEW rel \in {"lt", "eq", "gt", "un"}, NEW raised
  PROVE  Compared(fmt, cond, rel, raised) = Outcome(raised, Flat!Holds(cond, rel))
<1>1. /\ cond # 14
      /\ ~(fmt = "s" /\ cond = 8) /\ ~(fmt = "s" /\ cond = 4)
  BY DEF Unsound, Formats
<1>2. Condition(cond, Flags(rel)) = Flat!Holds(cond, rel)
  <2>1. Condition(cond, Flags(rel)) \in BOOLEAN
    BY DEF Condition
  <2>2. Flat!Holds(cond, rel) \in BOOLEAN
    BY DEF Flat!Holds
  <2>. QED BY <1>1, <2>1, <2>2, ConditionIsRelation
<1>. QED BY <1>1, <1>2 DEF Compared, Outcome

(* A comparison keeps the types, and sets the condition of its number. *)
LEMMA CompareStep ==
  ASSUME TypeOK, NEW fmt \in Formats, NEW cond \in 0 .. 15, <<fmt, cond>> \notin Unsound,
         NEW rel \in {"lt", "eq", "gt", "un"}, Compare(fmt, cond, rel)
  PROVE  TypeOK' /\ ConditionsAgree' /\ Flat!Next
<1>. DEFINE holds == Flat!Holds(cond, rel)
<1>1. holds \in BOOLEAN
  BY DEF Flat!Holds
<1>. HIDE DEF holds
<1>2. PICK raised \in ComparisonRaises(cond, rel) : control' = Compared(fmt, cond, rel, raised)
  BY DEF Compare
<1>3. /\ FPUCheckUsable /\ Keep /\ status' = status
      /\ inst' = [op |-> "compare", cond |-> cond, rel |-> rel]
  BY DEF Compare
<1>4. raised \subseteq Architected \cup {"denormal"}
  BY DEF ComparisonRaises, OperandExceptions, Architected
<1>5. control' = Outcome(raised, holds)
  BY <1>2, ComparedIsRelation DEF holds
<1>6. /\ control' \in ControlType
      /\ control'.flags = control.flags \cup raised
      /\ control'.cause = raised
      /\ control'.enables = control.enables
      /\ control'.c = holds
      /\ control'.coc = holds
      /\ control'.mode = control.mode
  <2>. DEFINE new == Updated(raised)
  <2>1. /\ new \in ControlType
        /\ new.flags = control.flags \cup raised
        /\ new.cause = raised
        /\ new.enables = control.enables
        /\ new.mode = control.mode
    BY <1>4, UpdatedType
  <2>. HIDE DEF new
  <2>2. control' = [new EXCEPT !.coc = holds, !.c = holds]
    BY <1>5 DEF new, Outcome
  <2>. QED BY <1>1, <2>1, <2>2 DEF ControlType
<1>7. TypeOK'
  BY <1>3, <1>6, KeepType DEF TypeOK, ControlType
<1>8. ConditionsAgree'
  BY <1>6 DEF ConditionsAgree
<1>9. Flat!Compare
  <2>1. inst' \in [op : {"compare"}, cond : 0 .. 15, rel : Flat!Relation]
    BY <1>3 DEF Flat!Relation
  <2>2. /\ ControlRead'.cause \subseteq Architected
        /\ ControlRead' = Flat!Recorded(ControlRead'.cause, holds)
    BY <1>6 DEF ControlRead, CFC1NativeToSimulated, Flat!Recorded
  <2>3. holds = Flat!Holds(inst'.cond, inst'.rel)
    BY <1>3 DEF holds
  <2>4. Delivered' = Delivered
    BY <1>3, KeepType
  <2>. QED BY <1>3, <2>1, <2>2, <2>3, <2>4 DEF Flat!Compare
<1>. QED BY <1>3, <1>7, <1>8, <1>9 DEF Flat!Next, FPUCheckUsable

-----------------------------------------------------------------------------
(* Moves, loads and the rest *)

(* What an action that leaves the control register alone has to show. *)
LEMMA ControlKept ==
  ASSUME TypeOK, ConditionsAgree, UNCHANGED control,
         regs' \in [Register -> [0 .. 1 -> Word]], latch' = Idle,
         status' \in [cu : BOOLEAN, fr : BOOLEAN]
  PROVE  /\ TypeOK' /\ ConditionsAgree'
         /\ ControlRead' = ControlRead
         /\ Delivered' = regs'
<1>1. TypeOK'
  BY DEF TypeOK
<1>2. ConditionsAgree' /\ ControlRead' = ControlRead
  BY DEF ConditionsAgree, ControlRead
<1>3. Delivered' = regs'
  BY IdleDelivers DEF Delivered, Idle
<1>. QED BY <1>1, <1>2, <1>3

(* A move between registers takes the value that is on its way. *)
LEMMA MoveStep ==
  ASSUME TypeOK, ConditionsAgree, NEW n \in Register, NEW m \in Register, NEW fmt \in Formats,
         MOV(n, m, fmt)
  PROVE  TypeOK' /\ ConditionsAgree' /\ Flat!Next
<1>. DEFINE wide == fmt = "d"
<1>1. /\ FPUCheckUsable /\ latch' = Idle /\ UNCHANGED <<control, status>>
      /\ inst' = [op |-> "move", n |-> n, m |-> m, wide |-> wide]
      /\ regs' = [Delivered EXCEPT ![n] = IF wide THEN Delivered[m]
                                          ELSE [@ EXCEPT ![0] = Delivered[m][0]]]
  BY DEF MOV
<1>2. Delivered \in [Register -> [0 .. 1 -> Word]] /\ Delivered[m] \in [0 .. 1 -> Word]
  BY DeliveredType
<1>3. wide \in BOOLEAN
  OBVIOUS
<1>. HIDE DEF wide
<1>4. regs' \in [Register -> [0 .. 1 -> Word]]
  BY <1>1, <1>2, <1>3, WrittenType
<1>5. TypeOK' /\ ConditionsAgree' /\ ControlRead' = ControlRead /\ Delivered' = regs'
  <2>1. status' \in [cu : BOOLEAN, fr : BOOLEAN]
    BY <1>1 DEF TypeOK
  <2>. QED BY <1>1, <1>4, <2>1, ControlKept
<1>6. Flat!Move
  <2>1. inst' \in [op : {"move"}, n : 0 .. N - 1, m : 0 .. N - 1, wide : BOOLEAN]
    BY <1>1, <1>3 DEF Register
  <2>2. Delivered' = Flat!Written(inst'.n, Delivered[inst'.m], inst'.wide)
    BY <1>1, <1>5 DEF Flat!Written
  <2>. QED BY <1>1, <1>5, <2>1, <2>2 DEF Flat!Move, Flat!Register
<1>. QED BY <1>1, <1>5, <1>6 DEF Flat!Next, FPUCheckUsable

(* Words and doublewords moved from integer registers. *)
LEMMA WriteStep ==
  ASSUME TypeOK, ConditionsAgree, NEW n \in Register,
         \/ \E w \in Word : MTC1(n, w)
         \/ \E d \in [0 .. 1 -> Word] : DMTC1(n, d)
  PROVE  TypeOK' /\ ConditionsAgree' /\ Flat!Next
<1>1. Delivered \in [Register -> [0 .. 1 -> Word]]
  BY DeliveredType
<1>2. View(n) \in Register /\ Side(n) \in 0 .. 1
  BY ViewType
<1>3. /\ FPUCheckUsable /\ latch' = Idle /\ UNCHANGED <<control, status>>
      /\ status' \in [cu : BOOLEAN, fr : BOOLEAN]
  BY DEF MTC1, DMTC1, TypeOK
<1>4. View(n) = Flat!Reg(n) /\ Side(n) = Flat!Half(n)
  BY DEF View, Side, Flat!Reg, Flat!Half
<1>5. ASSUME NEW w \in Word, MTC1(n, w)
      PROVE  TypeOK' /\ ConditionsAgree' /\ Flat!WriteWord
  <2>1. /\ inst' = [op |-> "write", n |-> n, word |-> w]
        /\ regs' = [Delivered EXCEPT ![View(n)] = [@ EXCEPT ![Side(n)] = w]]
    BY <1>5 DEF MTC1
  <2>2. regs' \in [Register -> [0 .. 1 -> Word]]
    BY <1>1, <1>2, <2>1
  <2>3. TypeOK' /\ ConditionsAgree' /\ ControlRead' = ControlRead /\ Delivered' = regs'
    BY <1>3, <2>2, ControlKept
  <2>4. inst' \in [op : {"write"}, n : 0 .. N - 1, word : Word]
    BY <2>1 DEF Register
  <2>. QED BY <1>3, <1>4, <2>1, <2>3, <2>4 DEF Flat!WriteWord, Flat!Register
<1>6. ASSUME NEW d \in [0 .. 1 -> Word], DMTC1(n, d)
      PROVE  TypeOK' /\ ConditionsAgree' /\ Flat!WriteDoubleword
  <2>1. /\ inst' = [op |-> "write", n |-> n, doubleword |-> d]
        /\ regs' = [Delivered EXCEPT ![View(n)] = d]
    BY <1>6 DEF DMTC1
  <2>2. regs' \in [Register -> [0 .. 1 -> Word]]
    BY <1>1, <1>2, <2>1
  <2>3. TypeOK' /\ ConditionsAgree' /\ ControlRead' = ControlRead /\ Delivered' = regs'
    BY <1>3, <2>2, ControlKept
  <2>4. inst' \in [op : {"write"}, n : 0 .. N - 1, doubleword : [0 .. 1 -> Word]]
    BY <2>1 DEF Register
  <2>. QED BY <1>3, <1>4, <2>1, <2>3, <2>4
       DEF Flat!WriteDoubleword, Flat!Register, Flat!Doubleword
<1>. QED BY <1>3, <1>5, <1>6 DEF Flat!Next, FPUCheckUsable

(* A load has taken place, for whoever looks after the next DC. *)
LEMMA LoadStep ==
  ASSUME TypeOK, ConditionsAgree, NEW n \in Register, NEW a \in Addr,
         LDC1(n, a) \/ \E k \in 0 .. 1 : LWC1(n, a, k)
  PROVE  TypeOK' /\ ConditionsAgree' /\ Flat!Next
<1>1. Delivered \in [Register -> [0 .. 1 -> Word]]
  BY DeliveredType
<1>2. View(n) \in Register /\ Side(n) \in 0 .. 1 /\ {Side(n)} \in {{0}, {1}}
  <2>1. View(n) \in Register /\ Side(n) \in 0 .. 1
    BY ViewType
  <2>2. Side(n) = 0 \/ Side(n) = 1
    BY <2>1
  <2>. QED BY <2>1, <2>2
<1>3. /\ FPUCheckUsable /\ regs' = Delivered /\ UNCHANGED <<control, status>>
      /\ regs' \in [Register -> [0 .. 1 -> Word]]
      /\ ConditionsAgree' /\ ControlRead' = ControlRead
  BY <1>1 DEF LDC1, LWC1, ConditionsAgree, ControlRead
<1>4. View(n) = Flat!Reg(n) /\ Side(n) = Flat!Half(n)
  BY DEF View, Side, Flat!Reg, Flat!Half
<1>5. ASSUME LDC1(n, a)
      PROVE  TypeOK' /\ Flat!LoadDoubleword
  <2>1. /\ inst' = [op |-> "load", n |-> n, addr |-> a]
        /\ latch' = [function |-> "LoadDWord", target |-> View(n), halves |-> 0 .. 1,
                     address |-> a]
    BY <1>5 DEF LDC1
  <2>2. latch' \in [function : {"LoadDWord"}, target : Register, halves : {0 .. 1},
                    address : Addr]
    BY <1>2, <2>1
  <2>3. TypeOK'
    BY <1>3, <2>2 DEF TypeOK
  <2>4. Delivered' = [Delivered EXCEPT ![View(n)] = [h \in 0 .. 1 |-> Memory[a][1 - h]]]
    <3>1. Delivered' = [regs' EXCEPT ![View(n)] = [h \in 0 .. 1 |-> Memory[a][1 - h]]]
      BY <2>1 DEF Delivered
    <3>. QED BY <1>3, <3>1
  <2>5. inst' \in [op : {"load"}, n : 0 .. N - 1, addr : Addr]
    BY <2>1 DEF Register
  <2>. QED BY <1>3, <1>4, <2>1, <2>3, <2>4, <2>5 DEF Flat!LoadDoubleword, Flat!Register
<1>6. ASSUME NEW k \in 0 .. 1, LWC1(n, a, k)
      PROVE  TypeOK' /\ Flat!LoadWord
  <2>1. /\ inst' = [op |-> "load", n |-> n, addr |-> a, word |-> k]
        /\ latch' = [function |-> "LoadWordFPU", target |-> View(n), halves |-> {Side(n)},
                     address |-> a, word |-> k]
    BY <1>6 DEF LWC1
  <2>2. latch' \in [function : {"LoadWordFPU"}, target : Register, halves : {{0}, {1}},
                    address : Addr, word : 0 .. 1]
    BY <1>2, <2>1
  <2>3. TypeOK'
    BY <1>3, <2>2 DEF TypeOK
  <2>4. Delivered' = [Delivered EXCEPT ![View(n)] = [@ EXCEPT ![Side(n)] = Memory[a][k]]]
    <3>1. Delivered' = [regs' EXCEPT ![View(n)] =
                          [h \in 0 .. 1 |-> IF h \notin {Side(n)} THEN @[h] ELSE Memory[a][k]]]
      BY <2>1 DEF Delivered
    <3>2. [h \in 0 .. 1 |-> IF h \notin {Side(n)} THEN Delivered[View(n)][h] ELSE Memory[a][k]]
            = [Delivered[View(n)] EXCEPT ![Side(n)] = Memory[a][k]]
      BY <1>1, <1>2
    <3>. QED BY <1>3, <3>1, <3>2
  <2>5. inst' \in [op : {"load"}, n : 0 .. N - 1, addr : Addr, word : 0 .. 1]
    BY <2>1 DEF Register
  <2>. QED BY <1>3, <1>4, <2>1, <2>3, <2>4, <2>5 DEF Flat!LoadWord, Flat!Register
<1>. QED BY <1>3, <1>5, <1>6 DEF Flat!Next, FPUCheckUsable

(* The control register as an integer. *)
LEMMA CTC1Step ==
  ASSUME TypeOK, NEW value \in ControlValues, CTC1(value)
  PROVE  TypeOK' /\ ConditionsAgree' /\ Flat!Next
<1>1. /\ FPUCheckUsable /\ Keep /\ status' = status
      /\ inst' = [op |-> "write", control |-> [value EXCEPT !.cause = @ \ {"unimplemented"}]]
      /\ control' = [flags   |-> value.flags \cap Architected,
                     enables |-> value.enables \cap Architected,
                     cause   |-> value.cause \cap Architected,
                     c |-> value.c, coc |-> value.c, mode |-> value.mode]
  BY DEF CTC1, CTC1SimulatedToNative
<1>2. /\ value.c \in BOOLEAN /\ value.mode \in Mode
      /\ value.flags \in SUBSET Architected /\ value.enables \in SUBSET Architected
      /\ value.cause \in SUBSET (Architected \cup {"unimplemented"})
  BY DEF ControlValues
<1>3. TypeOK'
  BY <1>1, <1>2, KeepType DEF TypeOK
<1>4. ConditionsAgree'
  BY <1>1 DEF ConditionsAgree
<1>5. "unimplemented" \notin Architected
  BY DEF Architected
<1>. DEFINE written == [value EXCEPT !.cause = @ \ {"unimplemented"}]
<1>6. /\ written \in [flags : SUBSET Architected, enables : SUBSET Architected,
                      cause : SUBSET Architected, c : BOOLEAN, mode : Mode]
      /\ written.flags = value.flags /\ written.enables = value.enables
      /\ written.cause = value.cause \ {"unimplemented"}
      /\ written.c = value.c /\ written.mode = value.mode
  BY <1>2 DEF ControlValues
<1>7. inst'.control = written
  BY <1>1
<1>. HIDE DEF written
<1>8. ControlRead' = written
  BY <1>1, <1>2, <1>5, <1>6 DEF ControlRead, CFC1NativeToSimulated
<1>9. Flat!WriteControl
  <2>1. inst' \in [op : {"write"}, control : Flat!Control]
    BY <1>1, <1>6 DEF Flat!Control, written
  <2>2. Delivered' = Delivered
    BY <1>1, KeepType
  <2>. QED BY <1>1, <1>7, <1>8, <2>1, <2>2 DEF Flat!WriteControl
<1>. QED BY <1>1, <1>3, <1>4, <1>9 DEF Flat!Next, FPUCheckUsable

(* What reads gives the state before it, as the program knows it. *)
LEMMA ReadStep ==
  ASSUME TypeOK, ConditionsAgree,
         \/ CFC1
         \/ \E on \in BOOLEAN : BC1(on)
         \/ \E n \in Register : MFC1(n) \/ DMFC1(n)
  PROVE  TypeOK' /\ ConditionsAgree' /\ Flat!Next
<1>1. FPUCheckUsable /\ Keep /\ UNCHANGED <<control, status>>
  BY DEF CFC1, BC1, MFC1, DMFC1
<1>2. TypeOK' /\ ConditionsAgree' /\ ControlRead' = ControlRead /\ Delivered' = Delivered
  <2>1. status' \in [cu : BOOLEAN, fr : BOOLEAN]
    BY <1>1 DEF TypeOK
  <2>. QED BY <1>1, <2>1, KeepType, ControlKept
<1>3. Flat!Answer
  <2>1. CASE CFC1
    BY <2>1 DEF CFC1, Flat!Answer
  <2>2. CASE \E on \in BOOLEAN : BC1(on)
    <3>1. control.coc = ControlRead.c
      BY DEF ConditionsAgree, ControlRead
    <3>. QED BY <2>2, <3>1 DEF BC1, Flat!Answer
  <2>3. ASSUME NEW n \in Register, MFC1(n) \/ DMFC1(n)
        PROVE  Flat!Answer
    <3>1. View(n) = Flat!Reg(n) /\ Side(n) = Flat!Half(n)
      BY DEF View, Side, Flat!Reg, Flat!Half
    <3>. QED BY <2>3, <3>1 DEF MFC1, DMFC1, Register, Flat!Register, Flat!Answer
  <2>. QED BY <2>1, <2>2, <2>3
<1>. QED BY <1>1, <1>2, <1>3 DEF Flat!Next, Flat!Read, FPUCheckUsable

(* The other units change the Status register at most. *)
LEMMA OtherStep ==
  ASSUME TypeOK, ConditionsAgree, Unusable \/ MTC0 \/ Other
  PROVE  TypeOK' /\ ConditionsAgree' /\ Flat!Next
<1>1. Keep /\ UNCHANGED control /\ status' \in [cu : BOOLEAN, fr : BOOLEAN]
  BY DEF Unusable, MTC0, Other, TypeOK
<1>2. TypeOK' /\ ConditionsAgree' /\ ControlRead' = ControlRead /\ Delivered' = Delivered
  BY <1>1, KeepType, ControlKept
<1>3. CASE Unusable
  BY <1>2, <1>3 DEF Unusable, FPUCheckUsable, Flat!Unusable, Flat!Next
<1>4. CASE MTC0 \/ Other
  <2>1. inst' = [op |-> "none"]
    BY <1>4 DEF MTC0, Other
  <2>. QED BY <1>1, <1>2, <2>1 DEF Flat!SetStatus, Flat!Next
<1>. QED BY <1>3, <1>4

-----------------------------------------------------------------------------
(* The specification *)

(* No instruction breaks the invariant, or is unlike one of the abstract unit. *)
LEMMA Step ==
  ASSUME Comparisons \cap Unsound = {}, TypeOK, ConditionsAgree, Next
  PROVE  TypeOK' /\ ConditionsAgree' /\ Flat!Next
<1>1. CASE Unusable \/ MTC0 \/ Other
  BY <1>1, OtherStep
<1>2. CASE \/ CFC1
           \/ \E on \in BOOLEAN : BC1(on)
           \/ \E n \in Register : MFC1(n) \/ SWC1(n) \/ DMFC1(n) \/ SDC1(n)
  BY <1>2, ReadStep DEF SWC1, SDC1
<1>3. CASE \E value \in ControlValues : CTC1(value)
  BY <1>3, CTC1Step
<1>4. ASSUME NEW x \in Comparisons, NEW rel \in {"lt", "eq", "gt", "un"},
             Compare(x[1], x[2], rel)
      PROVE  TypeOK' /\ ConditionsAgree' /\ Flat!Next
  <2>1. x[1] \in Formats /\ x[2] \in 0 .. 15 /\ x = <<x[1], x[2]>>
    BY ComparisonsAssumption DEF Formats
  <2>2. <<x[1], x[2]>> \notin Unsound
    BY <2>1
  <2>. QED BY <1>4, <2>1, <2>2, CompareStep
<1>5. ASSUME NEW n \in Register, NEW fmt \in Formats,
             \/ ABS(n, fmt) \/ ADD(n, fmt) \/ DIV(n, fmt) \/ MUL(n, fmt) \/ NEG(n, fmt)
             \/ SQRT(n, fmt) \/ SUB(n, fmt)
      PROVE  TypeOK' /\ ConditionsAgree' /\ Flat!Next
  <2>. DEFINE wide == fmt = "d"
  <2>1. wide \in BOOLEAN
    OBVIOUS
  <2>2. PICK exceptions : exceptions \subseteq Known /\ Operate(n, wide, exceptions)
    <3>1. /\ OperandExceptions \subseteq Known /\ ResultExceptions \subseteq Known
          /\ FixedExceptions \subseteq Known /\ ResultExceptions \cup {"divbyzero"} \subseteq Known
      BY DEF Known, OperandExceptions, FixedExceptions, ResultExceptions
    <3>. QED BY <1>5, <3>1 DEF ABS, ADD, DIV, MUL, NEG, SQRT, SUB
  <2>. HIDE DEF wide
  <2>. QED BY <2>1, <2>2, OperateStep
<1>6. ASSUME NEW n \in Register,
             \/ \E long \in BOOLEAN :
                  CEIL(n, long) \/ FLOOR(n, long) \/ ROUND(n, long) \/ TRUNC(n, long)
             \/ CVTd(n) \/ CVTl(n) \/ CVTs(n) \/ CVTw(n)
      PROVE  TypeOK' /\ ConditionsAgree' /\ Flat!Next
  <2>1. FixedExceptions \subseteq Known /\ ResultExceptions \subseteq Known
    BY DEF Known, OperandExceptions, FixedExceptions, ResultExceptions
  <2>2. PICK wide \in BOOLEAN, exceptions \in SUBSET Known : Operate(n, wide, exceptions)
    BY <1>6, <2>1 DEF CEIL, FLOOR, ROUND, TRUNC, CVTd, CVTl, CVTs, CVTw
  <2>. QED BY <2>2, OperateStep
<1>7. ASSUME NEW n \in Register, NEW fmt \in Formats, NEW m \in Register, MOV(n, m, fmt)
      PROVE  TypeOK' /\ ConditionsAgree' /\ Flat!Next
  BY <1>7, MoveStep
<1>8. ASSUME NEW n \in Register,
             \/ \E w \in Word : MTC1(n, w)
             \/ \E d \in [0 .. 1 -> Word] : DMTC1(n, d)
      PROVE  TypeOK' /\ ConditionsAgree' /\ Flat!Next
  BY <1>8, WriteStep
<1>9. ASSUME NEW n \in Register, NEW a \in Addr, LDC1(n, a) \/ \E k \in 0 .. 1 : LWC1(n, a, k)
      PROVE  TypeOK' /\ ConditionsAgree' /\ Flat!Next
  BY <1>9, LoadStep
<1>. QED BY <1>1, <1>2, <1>3, <1>4, <1>5, <1>6, <1>7, <1>8, <1>9 DEF Next

(* The registers start as words, and the two copies of the condition agree. *)
LEMMA Start ==
  ASSUME Init
  PROVE  TypeOK /\ ConditionsAgree /\ Flat!Init
<1>1. TypeOK
  BY WordAssumption DEF Init, TypeOK
<1>2. ConditionsAgree
  BY DEF Init, ConditionsAgree
<1>3. Flat!Init
  <2>1. Delivered = regs
    BY IdleDelivers DEF Init
  <2>2. ControlRead = [flags |-> {}, enables |-> {}, cause |-> {}, c |-> FALSE, mode |-> Mode0]
    BY DEF Init, ControlRead, CFC1NativeToSimulated
  <2>3. [cu1 |-> status.cu, fr |-> status.fr] \in [cu1 : BOOLEAN, fr : BOOLEAN]
    BY DEF Init
  <2>. QED BY <2>1, <2>2, <2>3 DEF Init, Register, Flat!Init, Flat!Register
<1>. QED BY <1>1, <1>2, <1>3

(* A step that changes nothing changes nothing the program knows. *)
LEMMA Stutter ==
  ASSUME TypeOK, ConditionsAgree, UNCHANGED vars
  PROVE  TypeOK' /\ ConditionsAgree' /\ UNCHANGED Flat!vars
BY DEF vars, TypeOK, ConditionsAgree, Flat!vars, Delivered, ControlRead

(* Types, and one condition in both its copies: BC1 branches on what CFC1  *)
(* shows, after comparisons and writes of the control register alike.      *)
THEOREM TypesAndConditions ==
  ASSUME Comparisons \cap Unsound = {}
  PROVE  Spec => [](TypeOK /\ ConditionsAgree)
<1>1. Init => TypeOK /\ ConditionsAgree
  BY Start
<1>2. TypeOK /\ ConditionsAgree /\ [Next]_vars => TypeOK' /\ ConditionsAgree'
  BY Step, Stutter
<1>. QED BY <1>1, <1>2, PTL DEF Spec

(* Registers and latch keep their types (CP1.c, DCStage.c). *)
THEOREM TypeCorrect ==
  ASSUME Comparisons \cap Unsound = {}
  PROVE  Spec => []TypeOK
BY TypesAndConditions, PTL

(* BC1 branches on what CFC1 shows (CP1.c). *)
THEOREM OneCondition ==
  ASSUME Comparisons \cap Unsound = {}
  PROVE  Spec => []ConditionsAgree
BY TypesAndConditions, PTL

(* Programs that use none of the comparisons that compute a wrong          *)
(* condition see one instruction take effect after the other: loads in     *)
(* time, results unless an exception is enabled, and conditions that hold. *)
THEOREM CP1IsFlat ==
  ASSUME Comparisons \cap Unsound = {}
  PROVE  Spec => FlatSpec
<1>1. Init => Flat!Init
  BY Start
<1>2. TypeOK /\ ConditionsAgree /\ [Next]_vars => [Flat!Next]_(Flat!vars)
  BY Step, Stutter
<1>. QED BY <1>1, <1>2, TypesAndConditions, PTL DEF Spec, FlatSpec, Flat!Spec
=============================================================================
