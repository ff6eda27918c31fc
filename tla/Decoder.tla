------------------------------ MODULE Decoder ------------------------------
(***************************************************************************)
(* The instruction decoder (Decoder.c) and the opcode database that names  *)
(* the functional unit of every instruction (Opcodes.h).                   *)
(*                                                                         *)
(* An instruction word is a record of the fields the decoder and the       *)
(* functional units read out of the 32 bits:                               *)
(*     op 31..26, rs 25..21, rt 20..16, rd 15..11, sa 10..6, funct 5..0    *)
(* and imm, the lower halfword.  An instruction either reads rd, sa and    *)
(* funct or it reads imm, so imm is a field of its own here.               *)
(***************************************************************************)
EXTENDS Naturals, Sequences

(* The tables, row by row; entry n of the C array is entry n + 1 here. *)
SpecialOpcodeTable ==
  << "SLL",     "INVALID", "SRL",     "SRA",     "SLLV",    "INVALID", "SRLV",   "SRAV",
     "JR",      "JALR",    "INVALID", "INVALID", "SYSCALL", "BREAK",   "INVALID", "SYNC",
     "MFHI",    "MTHI",    "MFLO",    "MTLO",    "DSLLV",   "INVALID", "DSRLV",  "DSRAV",
     "MULT",    "MULTU",   "DIV",     "DIVU",    "DMULT",   "DMULTU",  "DDIV",   "DDIVU",
     "ADD",     "ADDU",    "SUB",     "SUBU",    "AND",     "OR",      "XOR",    "NOR",
     "INVALID", "INVALID", "SLT",     "SLTU",    "DADD",    "DADDU",   "DSUB",   "DSUBU",
     "TGE",     "TGEU",    "TLT",     "TLTU",    "TEQ",     "INVALID", "TNE",    "INVALID",
     "DSLL",    "INVALID", "DSRL",    "DSRA",    "DSLL32",  "INVALID", "DSRL32", "DSRA32" >>

(* The rows of a table that hold INVALID up to its end are left out. *)
RegImmOpcodeTable ==
  << "BLTZ",   "BGEZ",    "BLTZL",   "BGEZL",   "INVALID", "INVALID", "INVALID", "INVALID",
     "TGEI",   "TGEIU",   "TLTI",    "TLTIU",   "TEQI",    "INVALID", "TNEI",    "INVALID",
     "BLTZAL", "BGEZAL",  "BLTZALL", "BGEZALL" >>

COP0OpcodeTable ==
  << "MFC0", "DMFC0",   "CFC0",    "INVALID", "MTC0",    "DMTC0",   "CTC0",    "INVALID",
     "BC0",  "INVALID", "INVALID", "INVALID", "INVALID", "INVALID", "INVALID", "INVALID",
     "TLB" >>

COP1OpcodeTable ==
  << "MFC1", "DMFC1",   "CFC1",    "INVALID", "MTC1",    "DMTC1",   "CTC1",    "INVALID",
     "BC1",  "INVALID", "INVALID", "INVALID", "INVALID", "INVALID", "INVALID", "INVALID",
     "FPUS", "FPUD",    "INVALID", "INVALID", "FPUW",    "FPUL" >>

COP2OpcodeTable ==
  << "MFC2", "DMFC2", "CFC2", "INVALID", "MTC2", "DMTC2", "CTC2", "INVALID", "BC2" >>

OpcodeTable ==
  << "INVALID", "INVALID", "J",       "JAL",     "BEQ",  "BNE",  "BLEZ",  "BGTZ",
     "ADDI",    "ADDIU",   "SLTI",    "SLTIU",   "ANDI", "ORI",  "XORI",  "LUI",
     "INVALID", "INVALID", "INVALID", "INVALID", "BEQL", "BNEL", "BLEZL", "BGTZL",
     "DADDI",   "DADDIU",  "LDL",     "LDR",     "INVALID", "INVALID", "INVALID", "INVALID",
     "LB",      "LH",      "LWL",     "LW",      "LBU",  "LHU",  "LWR",   "LWU",
     "SB",      "SH",      "SWL",     "SW",      "SDL",  "SDR",  "SWR",   "CACHE",
     "LL",      "LWC1",    "LWC2",    "INVALID", "LLD",  "LDC1", "LDC2",  "LD",
     "SC",      "SWC1",    "SWC2",    "INVALID", "SCD",  "SDC1", "SDC2",  "SD" >>

(* EscapeTable: which table an opcode field leads to, and the field of the *)
(* word that indexes it.                                                   *)
EscapeTable(w) ==
  CASE w.op = 0  -> [table |-> SpecialOpcodeTable, index |-> w.funct]
    [] w.op = 1  -> [table |-> RegImmOpcodeTable,  index |-> w.rt]
    [] w.op = 16 -> [table |-> COP0OpcodeTable,    index |-> w.rs]
    [] w.op = 17 -> [table |-> COP1OpcodeTable,    index |-> w.rs]
    [] w.op = 18 -> [table |-> COP2OpcodeTable,    index |-> w.rs]
    [] OTHER     -> [table |-> OpcodeTable,        index |-> w.op]

VR4300DecodeInstruction(w) ==
  LET escape == EscapeTable(w)
  IN  IF escape.index < Len(escape.table) THEN escape.table[escape.index + 1]
                                          ELSE "INVALID"

(* The instructions that share a functional unit with another one. *)
Merged ==
  << [unit |-> "INV",                            of |-> {"INVALID"}],
     [unit |-> "ADD_ADDU_SUB_SUBU",              of |-> {"ADD", "ADDU", "SUB", "SUBU"}],
     [unit |-> "ADDI_SUBI_ADDIU_SUBIU",          of |-> {"ADDI", "ADDIU"}],
     [unit |-> "BEQ_BEQL_BNE_BNEL",              of |-> {"BEQ", "BEQL", "BNE", "BNEL"}],
     [unit |-> "BGEZ_BGEZL_BLTZ_BLTZL",          of |-> {"BGEZ", "BGEZL", "BLTZ", "BLTZL"}],
     [unit |-> "BGEZAL_BGEZALL_BLTZAL_BLTZALL",
        of |-> {"BGEZAL", "BGEZALL", "BLTZAL", "BLTZALL"}],
     [unit |-> "BGTZ_BGTZL_BLEZ_BLEZL",          of |-> {"BGTZ", "BGTZL", "BLEZ", "BLEZL"}],
     [unit |-> "BC1",                            of |-> {"BC1", "BC2"}] >>

(* VR4300_BUILD_OP: the functional unit of a mnemonic, its own if it shares *)
(* none.                                                                    *)
VR4300_BUILD_OP(mnemonic) ==
  IF \E n \in DOMAIN Merged : mnemonic \in Merged[n].of
  THEN Merged[CHOOSE n \in DOMAIN Merged : mnemonic \in Merged[n].of].unit
  ELSE mnemonic

(* A word as the instruction cache holds it and the RF/EX latch gets it: its *)
(* fields, and opcode.id in place of the fields that led to it.  The name is *)
(* the mnemonic the word was assembled from; only properties read it.        *)
Decoded(w) ==
  [ unit |-> VR4300_BUILD_OP(VR4300DecodeInstruction(w)), name |-> w.name,
    rs |-> w.rs, rt |-> w.rt, rd |-> w.rd, sa |-> w.sa, funct |-> w.funct, imm |-> w.imm ]

(* What ProduceLatchOutputs makes of any word when iwMask is 0. *)
Masked ==
  [ unit |-> "INV", name |-> "INV",
    rs |-> 0, rt |-> 0, rd |-> 0, sa |-> 0, funct |-> 0, imm |-> 0 ]
=============================================================================
