------------------------------ MODULE Integer ------------------------------
(***************************************************************************)
(* The integer functional units of the EX stage (EXStage.c): one operator  *)
(* per C function, with its name, from the decoded word w of the RF/EX     *)
(* latch and the forwarded operands rs and rt to the value of              *)
(* exdcLatch->result.data, or of HI and LO.  Registers are unsigned 64-bit *)
(* numbers.                                                                *)
(***************************************************************************)
EXTENDS Decoder, Lanes

(* (int64_t) and (int32_t) of a register, (int16_t) of the instruction word. *)
S64(x) == Signed(x, Dword)
S32(x) == Signed(x, Word)
U32(x) == Unsigned(x, Word)
Immediate(w) == Signed(w.imm, Half)

(* A 32-bit result is sign-extended into the register. *)
SignExtended(x) == Register(S32(x))

Truth(b) == IF b THEN 1 ELSE 0

(* vr4300_addsub_lut: all ones for SUB and SUBU, whose bit 1 is set. *)
vr4300_addsub_lut(w) == IF (w.funct \div 2) % 2 = 1 THEN 2^Dword - 1 ELSE 0

Xor(x, y) == Number((Bits(x) \cup Bits(y)) \ (Bits(x) \cap Bits(y)))

ADD_ADDU_SUB_SUBU(w, rs, rt) ==
  LET mask == vr4300_addsub_lut(w)
  IN  SignExtended(rs + Xor(rt, mask) - mask)

ADDI_SUBI_ADDIU_SUBIU(w, rs, rt) == SignExtended(rs + Immediate(w))
DADD(w, rs, rt) == Register(rs + rt)
DADDU(w, rs, rt) == Register(rs + rt)
DADDI(w, rs, rt) == Register(rs + Immediate(w))
DADDIU(w, rs, rt) == Register(rs + Immediate(w))
DSUB(w, rs, rt) == Register(rs - rt)
DSUBU(w, rs, rt) == Register(rs - rt)

AND(w, rs, rt) == And(rs, rt)
OR(w, rs, rt) == Or(rs, rt)
XOR(w, rs, rt) == Xor(rs, rt)
NOR(w, rs, rt) == Number((0..Dword - 1) \ Bits(Or(rs, rt)))
ANDI(w, rs, rt) == And(rs, w.imm)
ORI(w, rs, rt) == Or(rs, w.imm)
XORI(w, rs, rt) == Xor(rs, w.imm)
LUI(w, rs, rt) == SignExtended(w.imm * 2^Half)

SLT(w, rs, rt) == Truth(S64(rs) < S64(rt))
SLTU(w, rs, rt) == Truth(rs < rt)
SLTI(w, rs, rt) == Truth(S64(rs) < Immediate(w))
SLTIU(w, rs, rt) == Truth(rs < Register(Immediate(w)))

(* Mutant: the shift brings in bits of the upper half of rt. *)
SRAOfDoubleword(w, rs, rt) == SignExtended(S64(rt) \div 2^w.sa)

(* The word shifts.  The amount is the sa field or the low bits of rs.  The  *)
(* quotient of \div rounds down, as C's arithmetic shift of the builds does. *)
SLL(w, rs, rt) == SignExtended(rt * 2^w.sa)
SRL(w, rs, rt) == SignExtended(U32(rt) \div 2^w.sa)
SRA(w, rs, rt) == SignExtended(S32(rt) \div 2^w.sa)
SLLV(w, rs, rt) == SignExtended(rt * 2^(rs % Word))
SRLV(w, rs, rt) == SignExtended(U32(rt) \div 2^(rs % Word))
SRAV(w, rs, rt) == SignExtended(S32(rt) \div 2^(rs % Word))

DSLL(w, rs, rt) == Register(rt * 2^w.sa)
DSRL(w, rs, rt) == rt \div 2^w.sa
DSRA(w, rs, rt) == Register(S64(rt) \div 2^w.sa)
DSLLV(w, rs, rt) == Register(rt * 2^(rs % Dword))
DSRLV(w, rs, rt) == rt \div 2^(rs % Dword)
DSRAV(w, rs, rt) == Register(S64(rt) \div 2^(rs % Dword))
DSLL32(w, rs, rt) == Register(rt * 2^(w.sa + Word))
DSRL32(w, rs, rt) == rt \div 2^(w.sa + Word)
DSRA32(w, rs, rt) == Register(S64(rt) \div 2^(w.sa + Word))

-----------------------------------------------------------------------------
(* The units that write HI and LO, as they execute. *)
MTHI(w, rs, rt, hilo) == [hilo EXCEPT !.hi = rs]
MTLO(w, rs, rt, hilo) == [hilo EXCEPT !.lo = rs]

(* The halves of a product, each sign-extended. *)
WordHalves(p) == [hi |-> SignExtended(p \div 2^Word), lo |-> SignExtended(p)]
DwordHalves(p) == [hi |-> Register(p \div 2^Dword), lo |-> Register(p)]

MULT(w, rs, rt, hilo) == WordHalves(S32(rs) * S32(rt))
MULTU(w, rs, rt, hilo) == WordHalves(U32(rs) * U32(rt))
DMULT(w, rs, rt, hilo) == DwordHalves(S64(rs) * S64(rt))
DMULTU(w, rs, rt, hilo) == DwordHalves(rs * rt)

(* C's division truncates towards zero; its remainder has the sign of a. *)
Magnitude(x) == IF x < 0 THEN -x ELSE x

CDiv(a, b) ==
  LET q == Magnitude(a) \div Magnitude(b) IN IF (a < 0) <=> (b < 0) THEN q ELSE -q

CMod(a, b) == a - b * CDiv(a, b)

(* The test of the code is on the whole register; nothing is written when it *)
(* is zero.                                                                  *)
DIV(w, rs, rt, hilo) ==
  IF rt = 0 THEN hilo
  ELSE [hi |-> SignExtended(CMod(S32(rs), S32(rt))), lo |-> SignExtended(CDiv(S32(rs), S32(rt)))]

DIVU(w, rs, rt, hilo) ==
  IF rt = 0 THEN hilo
  ELSE [hi |-> SignExtended(U32(rs) % U32(rt)), lo |-> SignExtended(U32(rs) \div U32(rt))]

DDIV(w, rs, rt, hilo) ==
  IF rt = 0 THEN hilo
  ELSE [hi |-> Register(CMod(S64(rs), S64(rt))), lo |-> Register(CDiv(S64(rs), S64(rt)))]

DDIVU(w, rs, rt, hilo) ==
  IF rt = 0 THEN hilo ELSE [hi |-> rs % rt, lo |-> rs \div rt]

(* The divisions for which the host's division instruction traps: the       *)
(* simulator dies, there is no next state.                                  *)
HostTraps(w, rs, rt) ==
  \/ w.unit \in {"DIV", "DIVU"} /\ rt # 0 /\ U32(rt) = 0
  \/ w.unit = "DDIV" /\ S64(rs) = -(2^(Dword - 1)) /\ S64(rt) = -1

-----------------------------------------------------------------------------
(* What the units of the EX stage do, by the kind of their result. *)
ByRegisters ==
  {"ADD_ADDU_SUB_SUBU", "DADD", "DADDU", "DSUB", "DSUBU", "AND", "OR", "XOR", "NOR", "SLT",
   "SLTU", "SLL", "SRL", "SRA", "SLLV", "SRLV", "SRAV", "DSLL", "DSRL", "DSRA", "DSLLV",
   "DSRLV", "DSRAV", "DSLL32", "DSRL32", "DSRA32", "MFHI", "MFLO"}

ByImmediate ==
  {"ADDI_SUBI_ADDIU_SUBIU", "DADDI", "DADDIU", "ANDI", "ORI", "XORI", "LUI", "SLTI", "SLTIU"}

(* The memory function that the unit of a load or a store asks for. *)
MemoryFunction ==
  [ LB |-> "LoadByte", LBU |-> "LoadByteU", LH |-> "LoadHWord", LHU |-> "LoadHWordU",
    LW |-> "LoadWord", LWU |-> "LoadWordU", LD |-> "LoadDWord", LWL |-> "LoadWordLeft",
    LWR |-> "LoadWordRight", LDL |-> "LoadDWordLeft", LDR |-> "LoadDWordRight",
    SB |-> "StoreByte", SH |-> "StoreHWord", SW |-> "StoreWord", SD |-> "StoreDWord",
    SWL |-> "StoreWordLeft", SWR |-> "StoreWordRight", SDL |-> "StoreDWordLeft",
    SDR |-> "StoreDWordRight" ]

FunctionOf(w) ==
  IF w.unit \in DOMAIN MemoryFunction THEN MemoryFunction[w.unit] ELSE "NULL"

(* exdcLatch->memoryData.address. *)
Address(w, rs) == Register(rs + Immediate(w))

(* exdcLatch->result.dest: GET_RD or GET_RT, or 0 of the EX stage. *)
Dest(w) ==
  CASE w.unit \in ByRegisters -> w.rd
    [] w.unit \in ByImmediate \/ FunctionOf(w) \in Loads -> w.rt
    [] OTHER -> 0

(* exdcLatch->result.data of the units that write it. *)
Compute(w, rs, rt, hilo) ==
  LET unit == w.unit
  IN  CASE unit = "ADD_ADDU_SUB_SUBU"     -> ADD_ADDU_SUB_SUBU(w, rs, rt)
        [] unit = "ADDI_SUBI_ADDIU_SUBIU" -> ADDI_SUBI_ADDIU_SUBIU(w, rs, rt)
        [] unit = "DADD"   -> DADD(w, rs, rt)
        [] unit = "DADDU"  -> DADDU(w, rs, rt)
        [] unit = "DADDI"  -> DADDI(w, rs, rt)
        [] unit = "DADDIU" -> DADDIU(w, rs, rt)
        [] unit = "DSUB"   -> DSUB(w, rs, rt)
        [] unit = "DSUBU"  -> DSUBU(w, rs, rt)
        [] unit = "AND"    -> AND(w, rs, rt)
        [] unit = "OR"     -> OR(w, rs, rt)
        [] unit = "XOR"    -> XOR(w, rs, rt)
        [] unit = "NOR"    -> NOR(w, rs, rt)
        [] unit = "ANDI"   -> ANDI(w, rs, rt)
        [] unit = "ORI"    -> ORI(w, rs, rt)
        [] unit = "XORI"   -> XORI(w, rs, rt)
        [] unit = "LUI"    -> LUI(w, rs, rt)
        [] unit = "SLT"    -> SLT(w, rs, rt)
        [] unit = "SLTU"   -> SLTU(w, rs, rt)
        [] unit = "SLTI"   -> SLTI(w, rs, rt)
        [] unit = "SLTIU"  -> SLTIU(w, rs, rt)
        [] unit = "SLL"    -> SLL(w, rs, rt)
        [] unit = "SRL"    -> SRL(w, rs, rt)
        [] unit = "SRA"    -> SRA(w, rs, rt)
        [] unit = "SLLV"   -> SLLV(w, rs, rt)
        [] unit = "SRLV"   -> SRLV(w, rs, rt)
        [] unit = "SRAV"   -> SRAV(w, rs, rt)
        [] unit = "DSLL"   -> DSLL(w, rs, rt)
        [] unit = "DSRL"   -> DSRL(w, rs, rt)
        [] unit = "DSRA"   -> DSRA(w, rs, rt)
        [] unit = "DSLLV"  -> DSLLV(w, rs, rt)
        [] unit = "DSRLV"  -> DSRLV(w, rs, rt)
        [] unit = "DSRAV"  -> DSRAV(w, rs, rt)
        [] unit = "DSLL32" -> DSLL32(w, rs, rt)
        [] unit = "DSRL32" -> DSRL32(w, rs, rt)
        [] unit = "DSRA32" -> DSRA32(w, rs, rt)
        [] unit = "MFHI"   -> hilo.hi
        [] unit = "MFLO"   -> hilo.lo

(* HI and LO after the unit of w. *)
HiLo(w, rs, rt, hilo) ==
  LET unit == w.unit
  IN  CASE unit = "MTHI"   -> MTHI(w, rs, rt, hilo)
        [] unit = "MTLO"   -> MTLO(w, rs, rt, hilo)
        [] unit = "MULT"   -> MULT(w, rs, rt, hilo)
        [] unit = "MULTU"  -> MULTU(w, rs, rt, hilo)
        [] unit = "DMULT"  -> DMULT(w, rs, rt, hilo)
        [] unit = "DMULTU" -> DMULTU(w, rs, rt, hilo)
        [] unit = "DIV"    -> DIV(w, rs, rt, hilo)
        [] unit = "DIVU"   -> DIVU(w, rs, rt, hilo)
        [] unit = "DDIV"   -> DDIV(w, rs, rt, hilo)
        [] unit = "DDIVU"  -> DDIVU(w, rs, rt, hilo)
        [] OTHER -> hilo
=============================================================================
