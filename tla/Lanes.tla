------------------------------- MODULE Lanes -------------------------------
(***************************************************************************)
(* The memory functions of the DC stage (DCStage.c): what a load makes of  *)
(* a cache line, and what a store leaves in it.                            *)
(*                                                                         *)
(* A byte has B bits (8 in the code), so a word of four bytes has 4 * B    *)
(* bits.  A line is a function from its sixteen offsets to bytes, in the   *)
(* order of the simulated big-endian memory; the byte swaps of the code    *)
(* make a C integer of such bytes, which here is the number ContentsAt.    *)
(***************************************************************************)
EXTENDS Integers, FiniteSetsExt

CONSTANT B

ASSUME BitsPerByte == B \in Nat \ {0}

LineSize == 16
Half == 2 * B
Word == 4 * B
Dword == 8 * B

Bytes == 0..2^B - 1
Doublewords == 0..2^Dword - 1

(* C's casts to a width: (uintN_t) x, (intN_t) x; Register is the value of  *)
(* either in a 64-bit register.                                             *)
Unsigned(x, width) == x % 2^width

Signed(x, width) ==
  LET u == x % 2^width IN IF u < 2^(width - 1) THEN u ELSE u - 2^width

Register(x) == x % 2^Dword

(* The 64 bits as the set of the positions that hold a one. *)
Bits(x) == {k \in 0..Dword - 1 : (x \div 2^k) % 2 = 1}

Number(S) == MapThenSumSet(LAMBDA k : 2^k, S)

And(x, y) == Number(Bits(x) \cap Bits(y))
Or(x, y) == Number(Bits(x) \cup Bits(y))

-----------------------------------------------------------------------------
(* memcpy(&contents, line->data + offset, size) and the byte swap. *)
ContentsAt(line, offset, size) ==
  MapThenSumSet(LAMBDA k : line[offset + k] * 2^(B * (size - 1 - k)), 0..size - 1)

(* Byte number k, counted from the left, of a value of size bytes. *)
Byte(x, size, k) == (x \div 2^(B * (size - 1 - k))) % 2^B

(* memcpy(line->data + offset, ..., count): the first count bytes of the    *)
(* swapped contents, which has size bytes.                                  *)
PutBytes(line, offset, count, contents, size) ==
  [n \in DOMAIN line |->
     IF n \in offset..offset + count - 1 THEN Byte(contents, size, n - offset) ELSE line[n]]

(* address & 0xF with the alignment of the mask: 0xF, 0xE, 0xC, 0x8. *)
Aligned(address, size) == (address % LineSize) - (address % size)

LoadByte(line, address) == Signed(line[address % LineSize], B)
LoadByteU(line, address) == line[address % LineSize]
LoadHWord(line, address) == Signed(ContentsAt(line, Aligned(address, 2), 2), Half)
LoadHWordU(line, address) == ContentsAt(line, Aligned(address, 2), 2)
LoadWord(line, address) == Signed(ContentsAt(line, Aligned(address, 4), 4), Word)
LoadWordU(line, address) == ContentsAt(line, Aligned(address, 4), 4)
LoadDWord(line, address) == ContentsAt(line, Aligned(address, 8), 8)

(* LoadWordLeftMaskTable, LoadDWordLeftMaskTable: the low type bytes. *)
LeftMask(type) == 2^(B * type) - 1

LoadWordLeft(line, address, old) ==
  LET type == address % 4
      contents == ContentsAt(line, Aligned(address, 4), 4)
  IN  Signed(Or(Unsigned(contents * 2^(B * type), Word),
                And(Unsigned(old, Word), LeftMask(type))), Word)

LoadDWordLeft(line, address, old) ==
  LET type == address % 8
      contents == ContentsAt(line, Aligned(address, 8), 8)
  IN  Or(Register(contents * 2^(B * type)), And(old, LeftMask(type)))

(* Mutant: the table is off by one byte. *)
RightMaskShort(type, size) == 2^(B * size) - 2^(B * type)

(* LoadWordRightMaskTable and LoadDWordRightMaskTable: all but the low       *)
(* type + 1 bytes of a value of size bytes.                                  *)
RightMask(type, size) == 2^(B * size) - 2^(B * (type + 1))

LoadWordRight(line, address, old) ==
  LET type == address % 4
      contents == Or(ContentsAt(line, Aligned(address, 4), 4) \div 2^(B * (3 - type)),
                     And(Unsigned(old, Word), RightMask(type, 4)))
      upper == old - Unsigned(old, Word)
  IN  IF type = 3 THEN Signed(contents, Word) ELSE upper + contents

LoadDWordRight(line, address, old) ==
  LET type == address % 8
  IN  Or(ContentsAt(line, Aligned(address, 8), 8) \div 2^(B * (7 - type)),
         And(old, RightMask(type, 8)))

-----------------------------------------------------------------------------
StoreByte(line, address, data) == PutBytes(line, address % LineSize, 1, data, 1)
StoreHWord(line, address, data) == PutBytes(line, Aligned(address, 2), 2, data, 2)
StoreWord(line, address, data) == PutBytes(line, Aligned(address, 4), 4, data, 4)
StoreDWord(line, address, data) == PutBytes(line, Aligned(address, 8), 8, data, 8)

(* The left bytes of the data go from the address to the end of the word. *)
StoreWordLeft(line, address, data) ==
  PutBytes(line, address % LineSize, 4 - (address % 4), data, 4)

StoreDWordLeft(line, address, data) ==
  PutBytes(line, address % LineSize, 8 - (address % 8), data, 8)

(* The right bytes of the data are shifted to its left end and go from the *)
(* start of the word to the address.                                       *)
StoreWordRight(line, address, data) ==
  LET size == (address % 4) + 1
  IN  PutBytes(line, Aligned(address, 4), size, data * 2^(B * (4 - size)), 4)

StoreDWordRight(line, address, data) ==
  LET size == (address % 8) + 1
  IN  PutBytes(line, Aligned(address, 8), size, data * 2^(B * (8 - size)), 8)

-----------------------------------------------------------------------------
(* memoryData->function, called by the DC stage.  The loads that merge read *)
(* the old value through memoryData->target.                                *)
Merging == {"LoadWordLeft", "LoadWordRight", "LoadDWordLeft", "LoadDWordRight"}

Loads == {"LoadByte", "LoadByteU", "LoadHWord", "LoadHWordU", "LoadWord", "LoadWordU",
          "LoadDWord"} \cup Merging

Stores == {"StoreByte", "StoreHWord", "StoreWord", "StoreDWord", "StoreWordLeft",
           "StoreWordRight", "StoreDWordLeft", "StoreDWordRight"}

(* What a load function writes to *target. *)
Load(function, line, address, old) ==
  Register(CASE function = "LoadByte"       -> LoadByte(line, address)
             [] function = "LoadByteU"      -> LoadByteU(line, address)
             [] function = "LoadHWord"      -> LoadHWord(line, address)
             [] function = "LoadHWordU"     -> LoadHWordU(line, address)
             [] function = "LoadWord"       -> LoadWord(line, address)
             [] function = "LoadWordU"      -> LoadWordU(line, address)
             [] function = "LoadDWord"      -> LoadDWord(line, address)
             [] function = "LoadWordLeft"   -> LoadWordLeft(line, address, old)
             [] function = "LoadWordRight"  -> LoadWordRight(line, address, old)
             [] function = "LoadDWordLeft"  -> LoadDWordLeft(line, address, old)
             [] function = "LoadDWordRight" -> LoadDWordRight(line, address, old))

(* The line a store function leaves. *)
Store(function, line, address, data) ==
  CASE function = "StoreByte"       -> StoreByte(line, address, data)
    [] function = "StoreHWord"      -> StoreHWord(line, address, data)
    [] function = "StoreWord"       -> StoreWord(line, address, data)
    [] function = "StoreDWord"      -> StoreDWord(line, address, data)
    [] function = "StoreWordLeft"   -> StoreWordLeft(line, address, data)
    [] function = "StoreWordRight"  -> StoreWordRight(line, address, data)
    [] function = "StoreDWordLeft"  -> StoreDWordLeft(line, address, data)
    [] function = "StoreDWordRight" -> StoreDWordRight(line, address, data)
=============================================================================
