--------------------------- MODULE InstructionSet ---------------------------
(***************************************************************************)
(* The MIPS III instruction set, as far as the module Integer implements   *)
(* it: how an instruction is encoded, and which results it may have.  This *)
(* is the reference the functional units are checked against, so nothing   *)
(* here is taken from them: results are characterised by equations and     *)
(* inequalities between numbers, and moves of bytes one byte at a time.    *)
(***************************************************************************)
EXTENDS Integer

(* The funct field of the instructions whose opcode field is SPECIAL. *)
Special ==
  [ SLL |-> 0, SRL |-> 2, SRA |-> 3, SLLV |-> 4, SRLV |-> 6, SRAV |-> 7, MFHI |-> 16,
    MTHI |-> 17, MFLO |-> 18, MTLO |-> 19, DSLLV |-> 20, DSRLV |-> 22, DSRAV |-> 23,
    MULT |-> 24, MULTU |-> 25, DIV |-> 26, DIVU |-> 27, DMULT |-> 28, DMULTU |-> 29,
    DDIV |-> 30, DDIVU |-> 31, ADD |-> 32, ADDU |-> 33, SUB |-> 34, SUBU |-> 35, AND |-> 36,
    OR |-> 37, XOR |-> 38, NOR |-> 39, SLT |-> 42, SLTU |-> 43, DADD |-> 44, DADDU |-> 45,
    DSUB |-> 46, DSUBU |-> 47, DSLL |-> 56, DSRL |-> 58, DSRA |-> 59, DSLL32 |-> 60,
    DSRL32 |-> 62, DSRA32 |-> 63 ]

(* The opcode field of the instructions with an immediate. *)
Primary ==
  [ ADDI |-> 8, ADDIU |-> 9, SLTI |-> 10, SLTIU |-> 11, ANDI |-> 12, ORI |-> 13, XORI |-> 14,
    LUI |-> 15, DADDI |-> 24, DADDIU |-> 25, LDL |-> 26, LDR |-> 27, LB |-> 32, LH |-> 33,
    LWL |-> 34, LW |-> 35, LBU |-> 36, LHU |-> 37, LWR |-> 38, LWU |-> 39, SB |-> 40, SH |-> 41,
    SWL |-> 42, SW |-> 43, SDL |-> 44, SDR |-> 45, SWR |-> 46, LD |-> 55, SD |-> 63 ]

RType(name, rd, rs, rt, sa) ==
  [ name |-> name, op |-> 0, funct |-> Special[name],
    rs |-> rs, rt |-> rt, rd |-> rd, sa |-> sa, imm |-> 0 ]

IType(name, rt, rs, imm) ==
  [ name |-> name, op |-> Primary[name], funct |-> 0,
    rs |-> rs, rt |-> rt, rd |-> 0, sa |-> 0, imm |-> imm % 2^Half ]

-----------------------------------------------------------------------------
(* r holds, sign-extended, the word that is x modulo 2^32. *)
IsWord(r, x) ==
  /\ S64(r) \in -(2^(Word - 1))..2^(Word - 1) - 1
  /\ (S64(r) - x) % 2^Word = 0

IsDword(r, x) == (r - x) % 2^Dword = 0

(* x, shifted right by n, is r: what is lost is less than a unit of r. *)
IsShifted(r, x, n) == r * 2^n <= x /\ x < (r + 1) * 2^n

Bit(x, k) == (x \div 2^k) % 2 = 1

IsBitwise(r, P(_, _), x, y) == \A k \in 0..Dword - 1 : Bit(r, k) <=> P(Bit(x, k), Bit(y, k))

IsTruth(r, b) == (r = 1 /\ b) \/ (r = 0 /\ ~b)

(* The product, in two halves of the given width. *)
IsProduct(hi, lo, p, width) == hi * 2^width + lo = p

(* Truncating division, modulo the width for the one quotient that does not *)
(* fit (the least number by minus one).                                     *)
IsDivision(q, r, a, b, width) ==
  /\ (a - (q * b + r)) % 2^width = 0
  /\ Magnitude(r) < Magnitude(b)
  /\ r # 0 => (r < 0 <=> a < 0)
  /\ q # -(2^(width - 1)) /\ q # 0 => (q < 0 <=> ((a < 0) # (b < 0)))

(* The amount of a variable shift. *)
By(rs, width) == rs % width

(* The value r that the instruction w may leave in its register. *)
MayBe(w, rs, rt, hilo, r) ==
  LET imm == Immediate(w)
      n == w.name
  IN  CASE n \in {"ADD", "ADDU"}     -> IsWord(r, rs + rt)
        [] n \in {"SUB", "SUBU"}     -> IsWord(r, rs - rt)
        [] n \in {"ADDI", "ADDIU"}   -> IsWord(r, rs + imm)
        [] n \in {"DADD", "DADDU"}   -> IsDword(r, rs + rt)
        [] n \in {"DSUB", "DSUBU"}   -> IsDword(r, rs - rt)
        [] n \in {"DADDI", "DADDIU"} -> IsDword(r, rs + imm)
        [] n = "AND"    -> IsBitwise(r, LAMBDA a, b : a /\ b, rs, rt)
        [] n = "OR"     -> IsBitwise(r, LAMBDA a, b : a \/ b, rs, rt)
        [] n = "XOR"    -> IsBitwise(r, LAMBDA a, b : a # b, rs, rt)
        [] n = "NOR"    -> IsBitwise(r, LAMBDA a, b : ~a /\ ~b, rs, rt)
        [] n = "ANDI"   -> IsBitwise(r, LAMBDA a, b : a /\ b, rs, w.imm)
        [] n = "ORI"    -> IsBitwise(r, LAMBDA a, b : a \/ b, rs, w.imm)
        [] n = "XORI"   -> IsBitwise(r, LAMBDA a, b : a # b, rs, w.imm)
        [] n = "LUI"    -> IsWord(r, w.imm * 2^Half)
        [] n = "SLT"    -> IsTruth(r, S64(rs) < S64(rt))
        [] n = "SLTU"   -> IsTruth(r, rs < rt)
        [] n = "SLTI"   -> IsTruth(r, S64(rs) < imm)
        [] n = "SLTIU"  -> IsTruth(r, rs < imm % 2^Dword)
        [] n = "SLL"    -> IsWord(r, rt * 2^w.sa)
        [] n = "SLLV"   -> IsWord(r, rt * 2^By(rs, Word))
        [] n = "SRL"    -> IsWord(r, S64(r)) /\ IsShifted(U32(r), U32(rt), w.sa)
        [] n = "SRLV"   -> IsWord(r, S64(r)) /\ IsShifted(U32(r), U32(rt), By(rs, Word))
        [] n = "SRA"    -> IsShifted(S64(r), S32(rt), w.sa)
        [] n = "SRAV"   -> IsShifted(S64(r), S32(rt), By(rs, Word))
        [] n = "DSLL"   -> IsDword(r, rt * 2^w.sa)
        [] n = "DSLLV"  -> IsDword(r, rt * 2^By(rs, Dword))
        [] n = "DSLL32" -> IsDword(r, rt * 2^(w.sa + Word))
        [] n = "DSRL"   -> IsShifted(r, rt, w.sa)
        [] n = "DSRLV"  -> IsShifted(r, rt, By(rs, Dword))
        [] n = "DSRL32" -> IsShifted(r, rt, w.sa + Word)
        [] n = "DSRA"   -> IsShifted(S64(r), S64(rt), w.sa)
        [] n = "DSRAV"  -> IsShifted(S64(r), S64(rt), By(rs, Dword))
        [] n = "DSRA32" -> IsShifted(S64(r), S64(rt), w.sa + Word)
        [] n = "MFHI"   -> r = hilo.hi
        [] n = "MFLO"   -> r = hilo.lo

(* The HI and LO that it may leave; by zero, nothing is said. *)
HiLoMayBe(w, rs, rt, old, new) ==
  LET words == IsWord(new.hi, S64(new.hi)) /\ IsWord(new.lo, S64(new.lo))
      n == w.name
  IN  CASE n = "MULT"   -> words /\ IsProduct(S32(new.hi), U32(new.lo), S32(rs) * S32(rt), Word)
        [] n = "MULTU"  -> words /\ IsProduct(U32(new.hi), U32(new.lo), U32(rs) * U32(rt), Word)
        [] n = "DMULT"  -> IsProduct(S64(new.hi), new.lo, S64(rs) * S64(rt), Dword)
        [] n = "DMULTU" -> IsProduct(new.hi, new.lo, rs * rt, Dword)
        [] n = "DIV"    -> rt = 0 \/ (words /\ IsDivision(S32(new.lo), S32(new.hi), S32(rs),
                                                          S32(rt), Word))
        [] n = "DIVU"   -> rt = 0 \/ (words /\ U32(rs) = U32(new.lo) * U32(rt) + U32(new.hi)
                                            /\ U32(new.hi) < U32(rt))
        [] n = "DDIV"   -> rt = 0 \/ IsDivision(S64(new.lo), S64(new.hi), S64(rs), S64(rt), Dword)
        [] n = "DDIVU"  -> rt = 0 \/ (rs = new.lo * rt + new.hi /\ new.hi < rt)
        [] n = "MTHI"   -> new = [old EXCEPT !.hi = rs]
        [] n = "MTLO"   -> new = [old EXCEPT !.lo = rs]
        [] OTHER        -> new = old

-----------------------------------------------------------------------------
(* An access to memory: how many bytes of the register and on which side of *)
(* an unaligned value, and what a load does to the rest of the register.    *)
Access(function) ==
  CASE function = "LoadByte"        -> [size |-> 1, side |-> "all",   rest |-> "sign"]
    [] function = "LoadByteU"       -> [size |-> 1, side |-> "all",   rest |-> "zero"]
    [] function = "LoadHWord"       -> [size |-> 2, side |-> "all",   rest |-> "sign"]
    [] function = "LoadHWordU"      -> [size |-> 2, side |-> "all",   rest |-> "zero"]
    [] function = "LoadWord"        -> [size |-> 4, side |-> "all",   rest |-> "sign"]
    [] function = "LoadWordU"       -> [size |-> 4, side |-> "all",   rest |-> "zero"]
    [] function = "LoadWordLeft"    -> [size |-> 4, side |-> "left",  rest |-> "sign"]
    [] function = "LoadWordRight"   -> [size |-> 4, side |-> "right", rest |-> "keep"]
    [] function = "LoadDWordLeft"   -> [size |-> 8, side |-> "left",  rest |-> "none"]
    [] function = "LoadDWordRight"  -> [size |-> 8, side |-> "right", rest |-> "none"]
    [] function = "LoadDWord"       -> [size |-> 8, side |-> "all",   rest |-> "none"]
    [] function = "StoreByte"       -> [size |-> 1, side |-> "all"]
    [] function = "StoreHWord"      -> [size |-> 2, side |-> "all"]
    [] function = "StoreWord"       -> [size |-> 4, side |-> "all"]
    [] function = "StoreWordLeft"   -> [size |-> 4, side |-> "left"]
    [] function = "StoreWordRight"  -> [size |-> 4, side |-> "right"]
    [] function = "StoreDWordLeft"  -> [size |-> 8, side |-> "left"]
    [] function = "StoreDWordRight" -> [size |-> 8, side |-> "right"]
    [] function = "StoreDWord"      -> [size |-> 8, side |-> "all"]

(* Which byte of the register belongs to which byte of memory: from the      *)
(* address to the end of the aligned value, or from its start to the address.*)
Pairs(access, address) ==
  LET n == access.size
      t == address % n
  IN  CASE access.side = "all"   -> {<<k, address + k>> : k \in 0..n - 1}
        [] access.side = "left"  -> {<<k, address + k>> : k \in 0..n - 1 - t}
        [] access.side = "right" -> {<<n - 1 - k, address - k>> : k \in 0..t}

(* The part of the register above the value. *)
Above(x, n) == x \div 2^(B * n)

LoadMoves(function, address, line, old, new) ==
  LET access == Access(function)
      n == access.size
      pairs == Pairs(access, address)
      rest == IF access.rest = "keep" /\ address % 4 = 3 THEN "sign" ELSE access.rest
  IN  /\ \A p \in pairs : Byte(new, n, p[1]) = line[p[2] % LineSize]
      /\ \A k \in 0..n - 1 : (\A p \in pairs : p[1] # k) => Byte(new, n, k) = Byte(old, n, k)
      /\ CASE rest = "zero" -> Above(new, n) = 0
           [] rest = "sign" -> IF Bit(new, B * n - 1)
                               THEN Above(new, n) = 2^(Dword - B * n) - 1
                               ELSE Above(new, n) = 0
           [] rest = "keep" -> Above(new, n) = Above(old, n)
           [] rest = "none" -> TRUE

StoreMoves(function, address, data, line, new) ==
  LET n == Access(function).size
      pairs == Pairs(Access(function), address)
  IN  /\ \A p \in pairs : new[p[2] % LineSize] = Byte(data, n, p[1])
      /\ \A k \in DOMAIN line : (\A p \in pairs : p[2] % LineSize # k) => new[k] = line[k]
=============================================================================
