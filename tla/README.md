# TLA+ models of the VR4300 simulator

The repository is a cycle-stepped simulator of the NEC VR4300, the processor of the
Nintendo 64: a C library without tests or threads. A machine around it calls
`CycleVR4300` once per clock, lets devices raise and clear interrupt lines between
calls, and serves bus reads and writes. What makes it hard is that one cycle runs up to
five pipeline stages that share latches, that faults stall, drain and flush those
stages in the middle of their work, and that several pieces of state are copies of
others kept up to date by hand. This directory holds TLA+ modules of that control, the
TLC runs that check it, and TLAPS proofs.

The modules describe the release build of the Makefile: `LITTLE_ENDIAN`,
`DO_FASTFORWARD`, `USE_X87FPU`, `USE_SSE`, and `NDEBUG`, so assertions are not guards.

## Inventory

| Component | State | Operations | Hard to get right | What makes it correct |
|---|---|---|---|---|
| Pipeline (`Pipeline.c`, `Latches.h`) | four latches, `stalls`, `cycles` | `CycleVR4300` and the table `CycleVR4300Short` | order of stages, which cycle may run which stages, when interrupts are looked at | instructions write back in program order, once each; the pipeline always gets back to running; interrupts are taken |
| Fault manager (`Fault.c`) | queued exception and interlock with an index each, `faulting`, saved IC/RF latch | `QueueException`, `QueueInterlock`, `HandleExceptions`, `HandleInterlocks`, one handler per fault | priorities; a flush while something is queued; resets at any time | nothing queued is lost; EPC is precise; a flush leaves nothing behind |
| Fetch (`ICStage.c`, `RFStage.c`, `ICache.c`) | latch of PC, address, mask; cache lines | look up, interlock on a miss, refill, CACHE | the latch moves on during the miss; nobody snoops for code that changes | a resumed fetch hits and fetches what was asked for; code that was written back and invalidated is fetched as stored |
| EX stage (`EXStage.c`, `Opcodes.*`) | EX/DC latch, HI, LO | 150 instructions, forwarding, busy-loop detection | branches rewrite a PC that RF and IC use in the same cycle; results are forwarded through the register file itself | path of control and results as the ISA defines them; fast-forwarding skips nothing |
| DC and WB stages (`DCStage.c`, `WBStage.c`) | DC/WB latch, a memory function | 11 loads, 8 stores | run also while the pipeline drains; a load merges with what its target holds | every byte goes where the ISA says, at every alignment; no memory function outlives a flush |
| Data cache (`DCache.c`, CACHE in `EXStage.c`) | 512 lines: tag, data, dirty, valid | probe, fill with write-back, five CACHE operations | stale tags of invalid lines; forced dirty flags; memory that devices write | one copy of a line; clean copies equal memory; the whole is one memory |
| CP0 (`CP0.c`) | Status, Cause, EPC, Count, Compare, `interruptRaiseMask` ... | `ERET`, `MTC0`, `MFC0` | two hand-written layouts per register; `interruptRaiseMask` copies three bits of Status; instructions execute between an interrupt and its handler | what MFC0 saved MTC0 puts back; handlers may nest; the copy is right |
| MIPS interface (`CPU.c`) | `miregs`, two bits of Cause | `MIRegRead`, `MIRegWrite`, raise and clear a line, create | the Cause bit copies `INTR & MASK`; it shares a byte with the timer's | the copy is right; a timer interrupt is not withdrawn |
| FPU (`CP1.c`) | 32 registers, control word, two copies of the condition | arithmetic, conversions, 32 comparisons, moves, loads, `BC1` | loads that arrive a cycle later; enabled exceptions; half-register views; unordered operands | instructions take effect in program order; a comparison sets the condition it is called after |
| TLB (`TLB.c`, `TLBTree.c`) | 32 entries, two red-black trees of them | probe, read, write, translate; insert, evict, look up, rebalance | rebalancing in mirrored cases; one order for insertion and lookup; overlaps | the trees answer as the set of entries would |
| Regions (`Region.c`, `Address.h`) | a constant table; one region cached in each of two latches | `GetRegionInfo` | a latched region outlives a change of mode | an address is translated as a fresh lookup would |
| Decoder (`Decoder.c`, `Opcodes.h`) | constant tables | `VR4300DecodeInstruction` | six tables by position, one functional unit for several instructions | each word gets its function, its operands and its destination |

Not part of the repository: the bus and its devices (`Externs.h` declares them).

**Interactions.** WB, DC, EX, RF and IC run in this order on one `struct VR4300`, so
each stage reads the latch its predecessor filled in the cycle before. EX changes the
IC/RF latch that RF reads a moment later; RF and EX queue faults in the fault manager;
the fault manager decides which stages the next cycles run, and restores or flushes the
latches. DC calls the data cache, which calls the bus; the bus calls `MIRegWrite`,
which changes Cause, which `CheckForPendingInterrupts` reads at the end of a cycle.

**No concurrency, no persistence.** Interleaving exists between stages (whose order in
a cycle is fixed, but whose latches carry different instructions), between the
processor and devices (which act between cycles) and between a refill and what the
stages did before it. There are no timeouts; "retry" is the interlock that is raised
again.

## Modules

| Module | Models | Runs |
|---|---|---|
| `Pipeline` | stages, latches, fault manager, what the instruction cache holds, Status and EPC | through `MCPipeline`: Loop, Reset, SlotException |
| `PipelineProofs` | types, the fault manager's invariants, refills, the interrupt mask, program order, precise EPC | |
| `FlatMemory` | what the data cache promises | |
| `DCache` | the data cache, loads and stores, CACHE, and a device that shares memory | |
| `Caches` | the instruction cache beside the data cache, under code that changes | through `MCDCache`: Memory |
| `CachesProofs` | one clean copy of a line; `DCache` implements `FlatMemory`; a fetch sees what was stored | |
| `Decoder` | the decoder's tables, the lookup, the functional unit of each instruction | |
| `Integer` | the functional units of EX: one operator per C function | |
| `Lanes` | the memory functions of DC, byte by byte | |
| `InstructionSet` | reference: results and bytes as the instruction set defines them | |
| `FlatCPU` | what the pipeline of data promises: one instruction after the other | |
| `DataPath` | registers, forwarding, EX, DC and WB, and the drain of an exception | through `MCDataPath`: Data, Unaligned |
| `DataPathProofs` | `DataPath` implements `FlatCPU` | |
| `Regions` | the address space and the regions that latches keep | through `MCRegions`: Segments |
| `RegionsProofs` | translation is right for halves of any width | |
| `Interrupts` | MI registers, the pending bits of Cause, Count and Compare | through `MCInterrupts`: Lines |
| `InterruptsProofs` | the Cause bits are right | |
| `CP0` | MFC0, MTC0, ERET and interrupts, under a handler that saves, nests and restores | through `MCCP0`: Nested |
| `CP0Proofs` | Cause, the registers' types and layouts, and where interrupts arrive, under any such software | |
| `FlatTLB` | what the TLB promises: an array of entries that is searched as a set | |
| `TLB` | the TLB's instructions, the translation and its two trees | through `MCTLB`: Trees, AddressSpace |
| `TLBProofs` | the trees are red-black trees of the slots in use; `TLB` implements `FlatTLB` | |
| `FlatFPU` | what the floating point unit promises: one instruction after the other | |
| `CP1` | the floating point unit and its part of the DC stage | through `MCCP1`: Float |
| `CP1Proofs` | `CP1` implements `FlatFPU` | |

Each module shows mutants beside the definitions they replace: `HandlerIgnoresSlot` is
`CommonExceptionHandler` with a plausible slip. Every property of a passing run is
refuted by one of them.

How they compose: `DataPath` extends `Integer`, which extends `Decoder` and `Lanes`;
`Caches` extends `DCache`; `CP0` takes its side of Cause from an instance of `Interrupts`.
`Pipeline` keeps what `DataPath` leaves out and the other way round: control without data,
and data on a stream of instructions without control.

### Pipeline

`cpu` is the record of what control depends on, one field per struct of the code:
`icrf` (`pc`, `addr`, `live` for `iwMask`), `saved` (`savedIcrfLatch`), `rfex`, `exdc`
(`mem`: a memory function is set; `branch`: `result.flags`; `link`: `result.data` of a call),
`dcwb`, `ra` (register 31), `fm` (the fault manager; `stalls` is the pipeline's), `icache`
(the line each set holds), `cp0` (`raise` for `interruptRaiseMask`, `ip` for Cause.IP masked
with Status.IM) and `arch`. A stage
is an operator from one state to the next (`EX` to a set, for a branch may go either
way), and a cycle composes them as the code does: `NormalCycle` for the first half of
`CycleVR4300`, `StallCycle` while `stalls` counts, and one action per entry of
`CycleVR4300Short` that can be named: `StartRF`, `StartEX`, `StartDC`, `RunHandler`,
`ResumeRF`, `FastForward`. No fault uses RESUME_IC, RESUME_EX or RESUME_DC, so these
entries have no action.

`Program` maps addresses to instructions, kept apart as far as control tells them apart.
A word is identified with its address. Addresses count words; `LineWords`, `NumSets`
and `StallCycles` are 8, 512 and 54 in the code.

`arch` is not in the code. `Retire` follows the control flow of the instructions that
write back, as the instruction set defines it (delay slots, annulled slots, ERET, returns to
the instruction behind the delay slot of a call), and an exception starts it again at the
vector. `ProgramOrder` and `PreciseEPC` compare the pipeline with it. The code takes the link
of a call, like the base of a branch, from the PC of the IC/RF latch, which is that of the
delay slot if RF, IC, refills and drains have kept in step; `ProgramOrder` would see a return
go elsewhere.

Abstractions: whether a branch is taken, and whether its register is 0, is free in each
execution; an interrupt source may come up at the end of any cycle; regions are a set of
known addresses and a set of cached ones, with identity translation (RFStage.c ignores
the result of the TLB); MTC0 writes Status and Compare only, with IM open; code does not
modify itself. `CP0`, `Regions` and `Caches` take these up.

### DCache and FlatMemory

`FlatMemory` has one memory, loads that return what it holds, stores that change a word,
an invalidation that may lose a line, and maintenance that changes nothing. In `DCache`
`Contents(p)` is the refinement mapping: the data of the set that holds `p`, else
memory. `Touch` is the lookup with fill in `VR4300DCStage` together with the memory
function; the CACHE operations are the code's, stale tags included (`TagMatches` does
not look at `valid`, `Invalidate` and `FillIfMatches` neither).

The code does not snoop. `lent` is the discipline software must keep: a line is written
back when it is handed to a device, is used past the cache while the device owns it, and
is invalidated when it is taken back. `Buffers` are the lines that software shares with
devices. `Handover` says which operation hands a line over: `"invalidate"`
(Hit_Write_Back_Invalidate), or also `"keep"` (Hit_Write_Back), after which a clean copy
stays in the cache. The second is not safe in this code: Index_Write_Back_Invalidate sets
the dirty flag of any valid line (EXStage.c:337) and so writes the copy over what the
device stored. `NoAliasAssumption` is the usual one for a virtually indexed cache: two
virtual names of a line select one set, as they do in KSEG0.

### Caches

A code line is a line of the instruction cache, made of lines of the data cache. It is
filled from memory past the data cache, by a fetch that misses (`Fetch`) or by CACHE Fill
(`FillOp`); only CACHE takes it away again. `DataStep` is any step of `DCache`. `ready`
is not in the code: the code lines that software knows to be written back and invalidated
since they last changed. A store to a part of the line, by the processor or by a device,
takes it out. An invalidation of its set puts it back when memory holds what was stored.
Index_Store_Tag invalidates too, but one that makes a line valid vouches for data nobody
has looked at, so it takes every line of the set out, unless that tag was there already.
`ready` learns whatever software could know, so that `CodeIsCurrent` says as much as it
can. Software runs in unmapped segments here: `VR4300FaultCOP` has the physical address
only and indexes with it.

### Decoder, Integer, Lanes and InstructionSet

These are operators without state. An instruction word is the record of its fields, and
`Decoder` has the tables row by row, the lookup and, from `Opcodes.h`, the functional unit
of each instruction. `Integer` has the units by their names in C, `Lanes` the memory
functions on a line of sixteen bytes: masks, shifts, byte swaps and the number of bytes
that are copied. The width of a byte is `B`, 8 in the code, so a word has `4 * B` bits.
`InstructionSet` states the results again from the definition of the instructions -
ranges and congruences for arithmetic, byte positions for memory - and nothing of it is
taken from the code.

### DataPath and FlatCPU

A step of `DataPath` is a cycle, of an instruction stream that is already decoded. `DC`
copies the destination always and the data only when there is no memory function; a load
writes through its target and finds there what the latch held. `Forwarded` and `Restored`
are what EX does to the register file so that an instruction reads the result that WB will
write in the next cycle. `HandleExceptions` trashes the latches, lets a handler run and
fetches the aborted instruction again.

`FlatCPU` executes an instruction at once. Two things of the code are part of its promise,
for what they are. An instruction that an exception aborts has had its effect on memory,
HI and LO (`Abort`), and has it again when it is executed again: the drain runs EX and DC
for it, against the comment at Fault.c:119. And a merging load merges with its own
register only right behind the instruction that wrote it (see Unaligned).

### Regions

The address space is scaled: `Eighth` stands for 0x20000000, and everything else keeps its
proportion. `Fetch` and `Access` are what the IC and DC stages do with the region in their
latch, `CacheOp` the CACHE instruction, which always looks it up. `used` remembers the last
translation, and forgets it when Status changes. `GetRegionInfo` is translated with its
32-bit and 64-bit subtractions.

### Interrupts

`intr`, `mask` and `mode` are the MI registers, `ip` the bits 2 (`"rcp"`) and 7
(`"timer"`) of Cause.IP. Devices act between cycles. A cycle is a store to an MI register
by DC (or none), an MTC0 by EX (or none) and the end of the cycle, in this order. The two
software interrupts are asserted to be 0 by the code and left out. In `Pipeline` the bits
appear as the single flag `ip`.

### CP0

Here the pieces that an interrupt needs come together: the devices and the timer
(`Interrupts`), the three cycles that drain the pipeline, MFC0, MTC0 and ERET, and a
program with a handler. The value of a register is the set of the positions of its ones,
so `MFC0Fields` and `MTC0Fields` are the two layouts of the code as they stand, and fields
have the widths the code masks them to. Fetches hit and instructions execute at once.
`frames` is the handler's stack, `contexts` the history of what each exception interrupted.

What the layouts cannot give back is not asked of them: MFC0 of CONFIG and TAGLO writes no
register, MTC0 of Status does not write `ts`, and MFC0 returns 32 bits with their sign, so
the upper part of EntryHi survives only if it is a sign extension. The software here never
requests software interrupts (asserted at CP0.c:313) nor sets RE (CP0.c:297). A `J` does
not name itself, so the test for busy loops has no say. `CP0` makes visible that two
instructions must lie between the one that closes interrupts and the one that sets EXL: an
interrupt queued before the first drains two more instructions, and if the second of them
sets EXL the handler finds it set and does not save EPC.

### TLB and FlatTLB

`tree` holds the two roots and, per node, the pointers and the colour of `struct TLBNode`;
`entries` what `TLBWI` copied into the nodes, `regs` and `index` the CP0 registers. Addresses
count pages, and pairs of pages where the code has VPN2. `RotateLeft` and `RotateRight`,
and the two mirrored halves of `TLBTreeFixup` and of the loop in `TLBTreeEvict`, are one
operator with a side as its parameter. A loop is an operator for one round (`FixupRound`,
`EvictRound`, or the step of a walk), which changes nothing once the loop is over, and `Loop`
applies it as often as there are slots, as a recursive function. That no loop needs more rounds
is not assumed: if one did, the trees would be left unbalanced, and `TLBProofs` shows that none
does. `Transplant`, `Unlink` and `EvictFixup` follow the assignments of the code, the parent of
the nil node included, which the fix-up reads when it starts at nil.

`FlatTLB` has an array of entries and the set of slots in use: a probe finds one of the
entries that map the page, or none. `Uses` says which entries software writes to which slots.
`UserTranslation` states the same for `VR4300Translate` with the frame. It is about user
addresses: for a sign-extended kernel address the end of the first half, a number of 32 bits
(TLB.c:200), is always below the address, so EntryLo1 is selected.

### CP1 and FlatFPU

A step is a cycle of the EX stage with one instruction. `regs` holds two words per register,
half 0 the low one, `control` the native copies of flags, enables and cause, `c`, `coc` and
`mode` (the rounding mode and FS, which the code only stores), `latch` the load that EX has
set up for the next DC. `Delivered` is what DC makes of the registers before EX looks at them.
Arithmetic and conversions have one shape, `Operate`: clear the host's exceptions, compute,
`FPUUpdateState`, and write `fd` unless an enabled exception was raised. Values are left open;
so are the exceptions of an operation, among those the x87 may raise for it. A comparison sees
the relation of its operands, from which `Flags` gives the processor flags after `fcomip`;
each of the 16 conditions is the expression of its own function, and `Condition` is their
order in the tables. `FPURaiseException` is an assertion, so a release build goes on.

`FlatFPU` has no latch, one condition and the exceptions the control register knows; its
`Holds` is the encoding of conditions by the instruction set. `inst` is the last instruction
with its operands and what it gave, so that the refinement also says that reads and branches
answer right. Three comparisons do something else than their names say and are left out by
`Sound` and, in the proofs, by the hypothesis `Comparisons \cap Unsound = {}`: C.olt.s computes
its flags and never assigns the condition (CP1.c:966), C.le is true for unordered operands in
both formats (CP1.c:377 and 419 compute `un | le`), and C.sf.s returns for unordered operands
between its update of `coc` and that of `c` (CP1.c:1127).

## Runs and what they show

`MCPipeline` holds programs of 34 words with boot code at the reset vector, an exception
handler that acknowledges and returns, and a body. Lines have two words and the cache
four sets, so that words 8 apart compete: misses, refills and evictions occur in every
round, on branches, on delay slots and on handlers. `StallCycles` is 1: a stall does
nothing but count, and interrupts that come during it stay pending.

- **Loop** (14,963 states) shows the pipeline on all kinds of control transfer, CACHE Fill
  and Index_Invalidate, a switched-off floating point unit and interrupts at any cycle. A
  subroutine is called from two places, once by a branch that links. From its body two busy
  loops can be reached, which are fast-forwarded, and a likely branch to itself, which is
  not. Safety, precise EPC, and the two liveness properties hold.
- **Reset** (308,781) adds two resets at any time, the floating point branches and a likely
  branch that links, and asks for program order and for `WellBehaved`: the software's fetches
  stay in its regions and its handlers return with interrupts masked, which are the premises
  under which program order and EPC are proved. A second reset can meet the first one at
  every stage of its handling, which is all that two requests can do to each other.
- **Memory** (249,342): two lines competing for a set are needed for evictions and a third
  in another set for independence. One of them holds code and is shared with a device;
  another page may own its place in the instruction cache by its tag. Lines have one word
  here. That a store merges with the other words of a line, two virtual names of a line, and
  two code lines that compete for a set, are covered by the proofs.
- **Data** (226,003): bytes of one bit, so registers of eight and words of four: the bounds
  of either width, the sign extension between them and every alignment exist in it. All
  integer instructions run, through the decoder's tables, on pairs of thirteen values that
  include every boundary, with every immediate and shift; loads and stores at every address
  of a line they may be given; and all triples of nine instructions that depend on each other
  through registers, HI, LO and memory, with an interrupt at any cycle. Three instructions
  are as many as EX, DC and WB hold. The run ends when the stream does, or when the host's
  division traps, so it does not check for deadlock.
- **Segments** (97,600): halves of an address have five bits, and every sign-extended 32-bit
  address is fetched and accessed in any order while Status takes every value without
  supervisor mode.
- **Lines** (4,024): one device that MI_INIT_MODE acknowledges and one that it does not;
  four values of Count, so that it wraps, with two writes of Count or Compare.
- **Nested** (552,684): one device and the timer, whose period of 12 lets it come up in every
  instruction of the handler; two levels of handlers. The software boots, runs a loop that
  changes EntryHi and Status in a delay slot, and its handler saves five registers,
  acknowledges, changes them, opens interrupts, closes them and restores. `ClosesInTime` says
  that it closes them early enough for the two instructions that still execute between an
  interrupt and its handler: the premise under which `NotInHandler` is proved. That the MI's
  bit of Cause is right is proved for all software and checked in Lines.
- **Trees** (102,767): seven global entries in seven slots, one of which has a second place
  and one of which alternates with an entry of an address space, written, rewritten and
  thereby evicted in any order: every shape of a tree of up to seven nodes that insertions
  and evictions reach, with every case of the insertion's fix-up. Case 2 of the eviction's
  fix-up climbs past a black inner node only in trees of ten nodes or more, which is out of
  TLC's reach and covered by the proof. There is one entry of an address space at most, because of what AddressSpace shows.
- **Float** (21,088): two registers are what a half-register view needs; one exception that
  may be enabled; one doubleword of memory with two different words; all comparisons in one
  format or the other.

Runs that show a disagreement between the code and its comments, with one property each:

- **SlotException**: a coprocessor exception in a taken delay slot takes its PC from a
  latch the branch has already redirected, so EPC is the target less two words.
- **AddressSpace**: the walk of `TLBTreeInsert` goes on while address spaces match, where
  the lookup walks on while they differ, so of three entries of one space one is not found.
- **Unaligned**: LWR into a register that the instruction before did not write takes the
  bytes it should keep from that instruction's result. EX puts the register's value into
  EX/DC for it, and DC never copies it to the latch the load merges with.

Limits of the code that no run shows, met while modelling:

- Pipeline. A busy loop whose delay slot loads from memory is fast-forwarded like an empty
  one (EXStage.c:152). One whose delay slot misses is detected before the refill, and the
  fast-forward entry, index 8, goes before the refill's, index 5, so an interrupt pairs the
  redirected PC with the flags of the branch. Two jumps whose cache lines evict one another
  interlock in every cycle that could look at interrupts (Pipeline.c:102). A reset requested
  while an exception is queued is dropped (Fault.c:123), and one at run time sets ERL and
  leaves `interruptRaiseMask` (Fault.c:378). Missing TLB entries and bad addresses are only
  printed. An interrupt that meets an ERET in RF/EX while interrupts are unmasked is given the
  PC behind it, though the ERET executes: EPC is then an address that was never to be
  executed. In a handler EXL keeps them masked. A PC that is in no region leaves the address
  of the fetch before, so that one is repeated (ICStage.c:33).
- Regions. `GetRegionInfo` tests `(lower - 0xC0000000) > 0x20000000` where it needs `<`: it
  finds no region for ksseg, and SSEG for kernel addresses in supervisor mode. An address
  with any upper half is in USEG when its lower half is below 2 GB. A latched kernel region
  still serves after a switch to user mode.
- EX. The assertions against overflow of ADD and ADDI (EXStage.c:57 and 84) fail for
  negative results in a debug build. JALR writes RA whatever register it names
  (EXStage.c:850). BC2 names BC1's unit in `Opcodes.h`. DIV and DIVU test the whole register
  for zero and divide by its low word; such a division, and DDIV of the least number by -1,
  ends the process on x86.
- TLB. `DoEntriesOverlap` is false whenever the first entry ends below the second, and only
  the last node of the walk is compared (TLBTree.c:49). INDEX keeps six bits (CP0.c:240).

`PreciseEPC` holds in Loop because its program has neither of the shapes that break it: no
floating point operation follows a branch that may be taken, and busy loops have their delay
slot in their own line. `MCPipeline` assumes so of its programs, the one of SlotException
excepted, and TLC evaluates that in each run. `RaiseMaskTracksStatus` is checked without
resets at run time, and `TranslatesRight` leaves ksseg out, for the reasons above.

**Fairness.** `FairSpec` is weak fairness of `CycleVR4300`. The machine calls it in an
endless loop, and every cycle changes the state or is a busy loop that waits for an
interrupt. Nothing is assumed of devices, of the interrupt sources or of the direction
of branches.

## Proofs

All theorems hold for every program, cache size, number of devices and so on, within the
premises that some of them name.

`PipelineProofs`. `FaultingIffQueued`, `NoInvalidFault`, `FlushLosesNoInterlock`,
`NoOrphanAccess` and `TypeOK` are inductive only together, `IInv`. The flush is safe because
an interlock has index 5 and is served before every exception index but FASTFORWARD, and
because the last cycle that drains the pipeline runs DC, which clears the memory function,
and not EX, which could set one. That an interlock is never queued beside index HANDLE needs
the table's order, and that the flag `faulting` follows the indices needs every operator
that touches them. A lemma per operator states what it does to the fault manager (`Queued`)
and to the types (`Sound`); a lemma per cycle entry composes them. For
`RefillSatisfiesFetch`, `Refilled` adds that the data of an ICB interlock is the address of
the saved latch. EX could overwrite that latch with a CACHE interlock of its own, but it
does not run while a refill waits (`Quiet`). `RaiseMaskTracksStatus` needs the hypothesis
`MaxResets = 0`: a hard reset at run time sets ERL and leaves the mask. A reset is queued at
power-on as well, and is followed for the same reason only because nothing can execute
before its handler: `PowerOn` says that RF/EX and the fetch that follows, or that a refill
brings back, are bubbles until then. Apart from that each stage is `Tame`.

`ProgramOrder` speaks of DC/WB alone, while what can go wrong happens in the front end up to
54 cycles earlier. The invariant `OInv` therefore runs the program ahead: `AfterWB` and
`AfterDC` are the states of `arch` once the instructions in flight are retired, `Back` says
that these stand in order, and `Coming` says what the front end holds: the next instruction in
RF/EX and its successor's PC in IC/RF (`Open`), a latch that leads to the next one, live or
saved by an interlock (`Waiting`), or nothing, behind a flush (`Cleared`). `PInv` adds that a
fault's PC and flag point at the first instruction that will not write back: at each phase of
the drain another one (`Precise`), for a phase lets the instructions in front of it retire. A
lemma per stage (`ExecuteInOrder`, `FetchesInOrder`, ...) and one per cycle carry both through
interlocks, exceptions and resets. Each premise of the two theorems is needed:

- `SlotsHoldNoBranch`: a branch moves the PC of IC/RF by an offset from its own slot, and in
  the slot of another that PC is elsewhere.
- `SlotsHoldNoFloat`: `FPUCheckUsable` reads a PC that a branch has redirected, which is what
  SlotException shows.
- `BusyLoopsInLine`: the fast-forward entry goes before a refill, so an interrupt would be
  queued with the redirected PC.
- `FetchesInRegions`: a PC in no region leaves the latch with an address fetched before.
- `ReturnsMasked`: an interrupt that meets an ERET gets the PC behind it.

The first three are about the text of a program and assumed of those of the runs in
`MCPipeline`; the others are about its behaviour and are `WellBehaved`, which Reset checks.
Results: `TypeCorrect`, `FaultsAreHandled`, `FaultsAreValid`, `FlushIsSafe`,
`AccessesAreOwned`, `RefillsResume`, `MaskTracksStatus`, `WritesInOrder`,
`ExceptionsArePrecise`.

`CachesProofs` starts with the data cache. `OneHolder` is not inductive: the invariant is `Homed`, a valid set holds a
line whose address selects that set, from which `OneHolder` follows by `NoAliasAssumption`.
`IInv` adds `CleanMatchesMemory`, whose clause for lent lines is needed for the steps of
devices. Results: `TypeCorrect`, `OneCopy`, `CleanCopies`, for any software. For the
refinement, `LentNotHeld` says that a lent line is not in the cache, which holds when no
hand-over keeps a copy, and `Located` says where contents are without the CHOOSE of the
mapping. Each action then maps to one action of `FlatMemory`. The same invariant shows that a
write-back, forced or not, leaves memory alone where the cache has nothing dirty. Results:
`CacheIsFlat` and `WriteBacksAreDirty`, under `"keep" \notin Handover`; the hypothesis is
needed, as said above.

The second part of `CachesProofs` is about both caches. The invariant `CInv` says of a ready line
that all copies of its parts in the data cache are clean (`Clean`), and that, if it is in the
instruction cache, its data equals memory (`Fetched`); clean copies equal memory, so contents
do. The lemma that carries it: no step of the data cache changes memory under a clean line
unless it stores to that line, and a step that stores takes the line out of `ready`. Result:
`CodeFetchIsRight`, under the hypothesis of `CacheIsFlat`.

`DataPathProofs`. The invariant is small: the register file is one and register 0 is among
it, the latch is well formed, and no memory function waits when the handler runs. The work is
in the steps: the result that DC produces is the `Result` of `FlatCPU`, and a register file
into which a result was put and from which it was taken again is the one WB completes, the
cases of register 0 and of a destination that is also a source included. `Compute`, `Load`
and `Store` are never expanded, so the theorem holds for any width. Result: `DataPathIsFlat`.

`RegionsProofs`. The invariant is `Latched` with the two properties: whatever happened, a
latch holds a region of the table, and one of those regions that holds an address translates
it as the map says, in any mode that may use it. Address arithmetic is reduced to linear facts
about `Eighth` and the square of a half. Results: `TranslationIsRight`, for addresses that are
sign-extended, and `WindowsAreRight`, for any.

`InterruptsProofs`. `CauseFollowsMI` with the types is inductive; the stores of DC are shown
to keep it before EX and the end of the cycle are. Results: `CauseIsRight`, `TypeCorrect`,
`TimerIsKept`.

`CP0Proofs` cites the lemmas of `InterruptsProofs` for its instance of `Interrupts` and adds
what `CP0` does by itself: MTC0 to Cause writes the two software bits and no other. For the
types, `RegistersOK` says that a row of fields has all that MTC0 writes, each within its
width, and flags where only the hardware writes. From it follows that the layouts of MFC0 and
MTC0 are each other's inverse: `LayoutsAgree` compares the two tables field by field, and
`BitsOfField` finds each bit of a field in the word at its place and nowhere else. Of the
registers longer than a word, EntryHi and EPC, this is true if they hold what a sign-extended
word made of them. For `NotInHandler` the invariant `NInv` says that the interrupt mask is up
outside of handlers only, and that no interrupt waits inside of one; the reset of power-on
needs `PowerOn` once more. The premise is `ClosesInTime`. Results, for any program:
`CauseIsRight`, `TimerIsKept`, `TypeCorrect`, `SavedIsRestored`, `InterruptsAreSaved`.

`CP1Proofs`. The invariant is `TypeOK` with `ConditionsAgree`: branches read `coc`, and the
mapping of the control register `c`. `Delivered` maps the registers, so a load maps to the
step that sets it up, and every other action empties the latch and writes what was delivered.
`ConditionIsRelation` goes through the conditions against the flags of the host; a lemma per
group of actions gives types, agreement and the abstract action. Results:
`TypesAndConditions`, of which `TypeCorrect` and `OneCondition` are the halves, and
`CP1IsFlat`, for any number of registers, any words and memory and any set of host exceptions,
with the comparisons named above left out.

`TLBProofs` is about any number of slots, any entries and any order of the instructions. Its
invariant `TLBInv` says that each tree is a red-black tree of exactly the slots in use whose
entries are of its kind, in the order of their addresses (`Forest`), that a slot in use holds
an entry software writes there (`Sourced`), and that no two of them clash (`Apart`). The first
part is what the code maintains; without the others it would not be inductive, for the order of
the tree is meaningless among entries that overlap.

- A tree comes with two functions the program does not keep: the nodes below each node and the
  black height of each. `Shape` and `Levels` state a red-black tree locally in their terms, and
  so need no induction over trees; a rotation or a replacement changes them at a few nodes.
- What each assignment leaves alone is stated once (`ParentSet`, `ChildSet`, `Painted`, ...),
  and from then on trees are compared only by their links. `Frame` keeps a change to one tree
  from reaching the other.
- Each loop has its invariant: in `FixupInv` the current node may be a red child of a red one,
  in `EvictInv` it is one black node short. One lemma per case of the code (`FixupUncle`,
  `FixupInner`, `FixupOuter`; `EvictRedSibling`, `EvictBlackChildren`, `EvictNear`, `EvictFar`)
  shows that the round restores the invariant higher up or ends the loop. The nodes below the
  current one are the variant, so the number of slots bounds the rounds. The lemmas about kin
  (`Elders`, `EvictAt`) show on the way that the grandparent, the sibling and its children,
  which the code follows without a test, are there.
- Eviction of a node with two children is the removal of its successor followed by a renaming
  (`Relabeled`): the order of the tree survives as the key of the successor fits there.
- Insertion: where there is room for an entry (`Room`), comparing the ends of ranges orders
  them as comparing their beginnings does, the overlap tests all fail, and the walk ends where
  the entry belongs.
- The search follows the same order (`SearchIs`), so `TLBTreeLookup` finds an entry exactly when
  there is one (`LookupIs`). The refinement and the translation of addresses follow.

Results: `TLBInvariance`, `LinksAgreeAlways`, `RedBlackAlways`, `UserTranslationAlways` and
`TLBIsFlat`. Their hypothesis is `OneSpaceIn(Uses)`: all entries that are not global go to one
slot. It cannot be dropped, as AddressSpace shows: with two entries of address spaces in use the
insertion and the lookup walk the tree in different orders. Trees satisfies it, and TLC evaluates
that. `Disciplined` is part of the model, since the result of two entries that translate one
address is undefined. `EntriesAssumption` says that an entry is aligned to its size and that the
sizes divide a region and a quarter of 32 bits of address, as the powers of four of PageMask do.

Assumptions are the ASSUMEs of the modules: vectors and addresses are known words, sizes are
positive, `NoAliasAssumption`, code lines do not overlap, there is a DP line, the nil nodes are
no slots, and `EntriesAssumption`.

Only model-checked:

- Everything temporal beyond invariants and steps (`PipelineRuns`, `InterruptTaken`,
  `TimerExpires`): liveness and ENABLED are beyond the prover.
- `ResultsRight` and `LanesRight`: they compare numbers bit by bit with a definition, over the
  sums and products of the community modules' folds.
- The premises about behaviour, `WellBehaved` and `ClosesInTime`, and `RestoresContext`: what
  they say depends on the software. Of `RestoresContext` the part that is the code's is
  proved, in `SavedIsRestored`.

## Not modelled, and why

- The values of floating point operations, which the host computes.
- An Index above the number of slots, and the bits of the TLB's entries that nothing in
  `TLB.c` looks at (valid, dirty, cache attribute).
- TLBWR, TLBINV, LDC0, SYSCALL, BREAK, the traps and the fault handlers that only print.
- A soft reset's part in `CP0` (it is in `Pipeline`), and non-maskable interrupts, which
  nothing requests.
- `MIRegRead` and the statistics, which change no state that is modelled.
- The bus and its devices: `Externs.h` declares functions that the repository does not have.
  What reaches the processor from there is in `Interrupts`, `DCache` and `Caches`. Accesses
  to addresses without a device print.

## Plan

1. `Pipeline`, `FlatMemory`, `DCache`, `Interrupts`, with proofs (done).
2. `FlatTLB`, `TLB`; `FlatFPU`, `CP1` and the refinement (done).
3. Proof of `RefillSatisfiesFetch` (done). `Decoder`, `Integer`, `Lanes`, and `DataPath` as a
   refinement of `FlatCPU` (done). `Regions`, with proofs for any width (done). `CP0` under
   nesting handlers, composed with `Interrupts` (done). `Caches`, with code that changes, and
   its proof (done).
4. Calls, links and returns in `Pipeline` (done). Left: `Pipeline` with the other data of
   `DataPath`, so that registers decide branches, which the number of its states does not allow
   at present.
5. Proofs of `RaiseMaskTracksStatus` without resets at run time and of `OnlyDirtyWrittenBack`
   (done); of `ProgramOrder` and `PreciseEPC` for programs without the shapes named above
   (done); of `CP0`'s types, of its two layouts and of `NotInHandler` (done); of the TLB's trees
   and its refinement for one address space (done). Left:
   `WellBehaved` from the text of a program, which needs what its branches and ERETs can reach.
