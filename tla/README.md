# Verification of pawn in TLA+

Pawn reads the BIOS/UEFI image of an Intel machine out of its SPI flash chip. It
is one sequential process, yet it shares its most important state, the registers
of the SPI host controller, with a piece of hardware that runs concurrently, with
the firmware that used the controller before, and with whoever else uses it
meanwhile. What can go wrong is hard to provoke in a test, and there is no test of
it (`bits_test.cc` is the only one). This directory holds models of the parts of the
program, the TLC runs that check them and the TLAPS proofs about them.

## Inventory

| Component | State | Operations | Interacts with |
|---|---|---|---|
| `bits.h` | none | `Raw`, `Value`, `Test`, `Set` | used by every accessor |
| `PhysicalMemory` | mapping, descriptor of `/dev/mem` | `Create`, destructor, 8 accessors | the register window, shared with the chipset |
| SPI registers (`IntelIch8Chipset`) | the window | a Read accessor for each register, Write accessors for HSFS, HSFC, FADDR, SSFS, SSFC | hardware sequencing, `PawnMain` |
| hardware sequencing (`Chipset::ReadSpiWithHardwareSequencing`) | locals of the loop | one call with three callbacks | controller (concurrent), caller (callbacks) |
| chipset classes, `Chipset::Create` | hardware id | `SupportsDevice`, `ReadRcbaRegister`, `ReadGcsRegister`, `ReadBiosCntlRegister` | PCI configuration space |
| root complex (`MapRootComplex`, `rcrb_mem`) | `rcrb_mem_` | map, unmap, access | `PhysicalMemory`, every accessor |
| `Pci` | `iopl_done_` | `Create`, move, destroy, `ReadConfigUint*` | ports CF8/CFC, shared with the kernel |
| `PawnMain` | the steps of the program, the dump stream | probe, map, check, dump | all of the above, the file system |
| version, build, packaging | none | | |

What is hard: a completion bit polled while older completions may still be
recorded in it; 16 data registers read one by one; status, lock-down and go bits
that share words with other fields and are written by read-modify-write; a busy
test that is made once; a loop without timeout; a stream whose errors surface late
or never; an address port any other process may store in between two accesses; a
privilege of the process that is managed by the destructors of objects. `PROJECT.json`
lists these hazards line by line, each with the properties that would notice it, and
with a note on what they leave out or why there is none.

## Modules

| Module | Models | How state and actions correspond |
|---|---|---|
| `Bits` | `bits.h` | words are sets of bit positions; the template parameters are parameters |
| `BitsSpec` | the templates, called once | checks `Bits` against integer arithmetic |
| `PhysicalMemory` | the accessors of `physical_memory.cc` | the window is a set of bit positions, little endian |
| `RegisterLayout` | structs of `chipset.h`, encodings of `chipset_intel_ich8.cc` | one `...Of` per Read accessor, one `...Bits` per Write accessor |
| `SpiRegisters` | the accessors on the window | `mem` is the window, `stored` remembers what a caller wrote; one action per Write accessor |
| `BlockReader` | `ReadSpiWithHardwareSequencing` as its caller sees it | no registers: calls of the callbacks and the status returned. It says what the code does, which departs from `chipset.h:229-238`: blocks that failed, and short ones, go to `block_read` too |
| `HwSequencing` | `ReadSpiWithHardwareSequencing` and the controller | `pc` and the locals of the function; one action per register access; `FinishCycle` is the controller, `ForeignClear` and `StartForeignCycle` are another user of it; `foreign` counts what that user does, and `wiped` tells that it cleared an FDONE the call may not have seen |
| `Chipset` | device lists, `Create`, decoding of RCBA, GCS and BIOS_CNTL, SPIBAR | operators |
| `Pci` | `pci.h`, `pci.cc` | `live` and `owners` are the objects and those with `iopl_done_`, `level` what iopl has set; one action per special member function and `Create`; `port` is CF8, and a read is three actions, one per port access; `ForeignSelect` is another user of CF8 |
| `RootComplex` | `MapRootComplex`, `UnMapRootComplex`, `PhysicalMemory::Create`, `Init`, destructor | `rcrb_mem` is the object held, `fds` and `maps` what the process has open and mapped; open and mmap fail separately |
| `Session` | a client of `Pci` and `Chipset`, any sequence of calls | composes `Pci` and `RootComplex`; `chipset` is the object, `result` what the last call returned; one action to begin and one to end each call that reads configuration space, one for each other call |
| `PawnMain` | `pawn.cc` | one action per step that can end the program; `file`, `buffer` and `faults` are the dump stream; the reading is `BlockReader`, instantiated on the same variables |
| `Pawn` | `pawn.cc` and the call it makes, together | the variables of `PawnMain` and of `HwSequencing`, sharing the arguments, the blocks handed over and the status; `rpc` is the place in the call; a step of the call that its caller sees is one step with what the caller does then |
| `SpiRegistersProofs`, `HwSequencingProofs`, `SessionProofs`, `PawnMainProofs`, `PawnProofs`, `ChipsetProofs` | | theorems, and lemmas about `Chipset` that `SessionProofs` and `PawnMainProofs` share |
| `MCSpiRegisters`, `MCHwSequencing`, `MCPawnMain`, `MCPawn`, `MCSession` | | small instances for TLC |

Composition: `PawnMain` takes its reader's steps from `BlockReader`, and
`HwSequencing` is shown (by TLC and by proof) to implement `BlockReader`. `Pawn` puts
the two together, with the controller running from before the program starts, and is
proved to implement `PawnMain`. `SpiRegisters` justifies
that `HwSequencing` treats register fields as separate numbers: a store of one
register leaves the others alone and reads back as stored. `Session` is the client
side of the two objects `PawnMain` makes: `PawnMain` is one of its sequences (one
`Create`, one probe, one map, no move), for which `Session` shows that a probe and
a read of RCBA tell the truth unless somebody else used CF8 at the wrong moment;
`PawnMain` assumes they do.

The other user of the controller follows the protocol the code follows
(`chipset.cc:106-113, 137-150`): it clears the status bits, before its cycles and after
them, and starts reads, writes and erasures, with FSMIE set as it likes. Each of
these may come between any two steps of the call. When it clears an FDONE of the call's cycle
that the busy-wait loop has not seen yet, the loop waits for nothing and, as it has no
timeout, does not end unless a later cycle of the other user sets FDONE again: the
code cannot exclude this, and `WaitsForCycle` says that it is the only way to it.

The controller is not part of the repository. It is modelled from the use the code
makes of it: a store in HSFC with FGO set starts a cycle unless one is under way;
the cycle ends some time later, sets FDONE, may set FCERR and AEL, and fills the
data registers if it was a read that succeeded; status bits stay set until they are
cleared. How they are cleared is the constant `ClearOn`: `"zero"` is what the
code assumes. `"one"` is what the Intel data sheets have (R/WC), which `chipset.h:31-34`
names as the source of its terms; no line of the repository says it. The same holds for
stdio: a block goes to a buffer, a flush moves the buffer to the file and may fail
between two blocks or within one, and the rest is lost or kept; and for the PCI bridge: bits 31 and 23:2 of CF8 select a double word, the data port
used selects bytes of it. What a read returns is represented by the place it comes
from, which tells a right answer from a wrong one without inventing contents.

In `Session` the client keeps the rules of C++: objects are used while they exist, and
a `Pci` object outlives the chipset that points to it. It may move from it and create
a second one, though, which is what the properties about the privilege are about.
`lost`, `leaked` and `raced` are history variables: they tell the cases the code does
not cover (an assignment over an owner's flag, a failed mmap, a disturbed read) from
the ones it does.

## Runs

All take less than two minutes with two workers.

| Run | Shows |
|---|---|
| `bits` | `Value`, `Test`, `Set` compute what their comments say, for every 7-bit word and every pair of positions; `Raw` does where the highest bit of the type is asked for and the lowest is bit 2 or above, as in its only use; elsewhere its mask is wrong |
| `spi_registers` | `ReadBack`: whatever stores ran, HSFS (but BERASE), HSFC, FADDR and SSFS read back as stored; `NoSpill`: no store leaves the writable registers; `LosslessReads`: BFPR and FRAP are decoded without losing a bit |
| `hw_sequencing` | the controller is left in any state by the firmware, and not used by others: `BlocksExact`, `ErrorsAttributed`, `NoOverlap`, refinement of `BlockReader` (what the code does to its caller, not what `chipset.h` says), and `Returns`: the call ends |
| `hw_sequencing_shared` | another user may clear the status bits and start a cycle at any time: `BlocksInOrder`, `FlashIntact` (no cycle of the call's is a write or an erasure), `LockdownKept`; `SmiEnableKept` as long as it has not; `WaitsForCycle`: the busy-wait loop waits for nothing only if the other user cleared an FDONE it had not seen; `BoundedWork`: every step but an idle poll leaves less to do |
| `session` | two `Pci` objects and a chipset, used in any order, on an ICH8 and an 8 Series machine, while another user stores in CF8: `ReadsExact`, `ReservedKept` and `RegistersExact` for every read that is not disturbed between its last two accesses, `OwnerHasPrivilege` after a single `Create`, `PrivilegeReturned`, `WindowsAccounted` and `WindowTrusted` whatever was mapped, remapped or failed, `NoSignal` |
| `pawn_main` | on all 74 devices and two unknown ones, with up to two failing writes, each of which may end between two blocks or within one: `DumpIsPrefix` and `SavedImage` until a write fails, `BlocksAscend` and `AbortsOnWriteErrors` whatever fails, `OldDumpKept`, `WindowFromRcba`, `ClassUnambiguous` |

The remaining runs expect a violation; each is a disagreement between the code and
one of its comments, messages or documents (`findings` in `PROJECT.json`):

| Run | Disagreement |
|---|---|
| `spi_berase` | BERASE is read from bits 4:3 and written to bit 4 |
| `spi_ranges` | the 13-bit fields of FregN and PrN hold 25-bit addresses |
| `hw_sequencing_fault` | blocks that could not be read are handed to `block_read` |
| `hw_sequencing_size` | block sizes off the 4-byte grid give short blocks |
| `hw_sequencing_rwc` | if status bits are cleared by ones, as the data sheets have it, an FDONE left by the firmware is taken for the call's own completion, and the first block holds what the data registers held before |
| `pawn_saved` | success is reported although a flush failed, shown on the whole program |

Reading the code for the models showed more that no run is spent on: the mask of
`Raw` has kMsb - 1 ones whatever kLsb is (`bits.h:36`, unlike the examples above it;
harmless in its only use, as `WindowFromRcba` and `WindowTrusted` show);
`WriteSsfcRegister` stores the frequency byte below the 16 bits with the go bit while
`ReadSsfcRegister` looks for it above, so that by the layout of the reader it is the
first store that hits the go bit, and fills bits 23:19 from `reserved7` (it has no caller); `ReadFdataNRegister`
accepts 16 where its message says 0..15 (its caller stays below, and `NoSignal` shows
that the extra one is inside the window); a descriptor of `/dev/mem` stays open for each
mmap that fails, and the destructor of one of two `Pci` objects made by `Create` takes
the privilege from the other (`WindowsAccounted` and `OwnerHasPrivilege` are stated with
these exceptions); `PawnMain` prints the
storage of the `Frap` struct, whose bytes are in the reverse order of the register.

### Bounds

* `bits`: 7 bits have every relation of msb, lsb and width that 32 have.
* `MCSpiRegisters`: four words (none, all, alternating bits, alternating pairs) and
  four initial windows set and clear every field and every neighbour; the real
  offsets are used, at SPIBAR 0x3800. The theorems cover all words and bases.
* `MCHwSequencing`: 2 data registers and a flash of 24 bytes; block sizes 3, 4, 6, 8
  and 9 lie below, on, off the grid, at and above the limit; sizes -8, 0, 12 and 16
  are negative, empty, indivisible for some block size, and up to four blocks long.
  Four blocks are enough for a status bit of one to meet the next, twice.
  `FlaSpan` = 24 makes address 16 with size 16 leave the flash. The run with another
  user takes one address, sizes 0, 8 and 12 and block sizes 6 and 8, that is up to two
  blocks, and blocks off the grid: its properties look at one block and the step to the next. Two steps of the
  other user (`MaxForeign` = 2), at any point of the call, are a cycle and a clearing of the
  status bits in either order, or two of a kind.
* `MCSession`: two `Pci` objects and two calls of `Create` are enough for every
  assignment, self-assignment and destruction of one while the other lives; they are
  interchangeable (SYMMETRY). Two descriptors: one leaked and one held, or the old and
  the new window of a remap. One store of another user (`MaxForeign` = 1) can come
  before, between and after any two port accesses; a second one would disturb
  a second read, which the properties treat each on its own. The requests have every width, and
  offsets on and off the natural alignment.
* `MCPawnMain`: 5 blocks, a flush every 3rd, a buffer of 2: flushes of both kinds
  meet full, half full and empty buffers. Two write failures let one failure follow
  another. A write may end after 32 bytes of a block (`TornBytes`); any other number is
  like it, and the theorems hold for every set of them.

* `MCPawn`: 2 blocks, a flush at the first of them and a buffer of 1, one write failure, which
  may be the one at exit; the real block size and all 16 data registers; a machine that is
  supported and others that are not or have RCBA disabled.

### Fairness

`HwSequencing` assumes weak fairness of the program (a running process is
scheduled) and of `FinishCycle` (the controller ends every cycle it has begun). The
code has no timeout and relies on the second; nothing else is assumed, in
particular no fairness of individual program steps and none of other users.

## Proofs

`SpiRegistersProofs`, for every SPIBAR, every set of words and every initial window:
`TypeCorrect`, `StoresStayInside`, `StructsReadBack` and `ReadsLoseNothing`. The argument: an n-bit store
followed by an n-bit read at the same offset gives the word back (`ReadAfterWrite`),
disjoint spans do not influence each other (`DisjointApart`), each encoding inverts
its decoding (`...RoundTrip`), and the spans of the registers are disjoint
(`RegistersApart`).

`HwSequencingProofs`, for all arguments, flash sizes and 1 to 16 data registers:

* `TypeCorrect`. `TypeInv` strengthens `TypeOK` by the argument checks that hold once
  the call runs and by how much of a block has been copied; without them the index
  of the data register read is not known to be in range.
* `FlashStaysIntact` and `LockdownStays`, whatever another user does: every
  cycle of the call's is a read (`ReadsOnly`); the FLOCKDN copy to be stored equals the
  register's (`LockdownCopied`).
* `SmiEnableStays`: the copy of FSMIE to be stored equals the register's as long as
  nobody else used the controller (`SmiEnableCopied`).
* `InOrder`, whatever another user does: the address of the block in
  progress is the start plus the number of blocks delivered times the block size, and
  never beyond the end (`Progress`).
* `ExactBlocks`, `AttributedErrors`, `NoOverlappingCycles`, assuming
  `ClearOn = "zero"`. `CycleInv` says, as long as nobody else used the controller: SCIP
  tells whether a cycle is under way; none is from the end of polling to the next
  start; after the store in HSFS the status bits are clear; while polling, FDONE is
  clear and the call's own cycle is under way, or FDONE is set and the data registers
  hold the block, or FCERR is set; nothing changes that until the block is delivered.
* `NeverWaitsInVain` and `WorkIsBounded`, whatever another user does and for either
  value of `ClearOn`: the part of `Returns` that needs no fairness. While the call polls,
  FDONE is set or a cycle is under way, unless another user has cleared FDONE since the
  call's own store in HSFS (`WaitsForCycle` is inductive: apart from that user nothing
  clears FDONE while the call polls, and only the end of a cycle, which sets it, takes
  the cycle away). `WorkLeft` is a natural number that every other step of the call
  decreases; `WorkInv` adds that a block is begun only while bytes are left and that
  the buffer holds 64 bytes at most. What remains for TLC is that the controller's
  fairness makes FDONE appear and the process's fairness makes the program look.
* `CallImplementsReader`, assuming `ClearOn = "zero"` and `MaxForeign = 0`: every step
  is a step of `BlockReader` or leaves its variables unchanged. It is what allows
  `PawnMain` to do without the registers; that the blocks are right, or their failure
  reported, is part of `BlockReader`, that only good and whole blocks are handed over is
  not, since the code does not do it.

`SessionProofs`, for any number of `Pci` objects, calls of `Pci::Create`, requests,
descriptors and stores of other users in the address port:

* `OwnerKeepsPrivilege` and `PrivilegeGivenBack`. `PrivilegeInv` adds to the two
  properties that owners exist, that there is none before the first call of `Create`,
  and that there is one at most as long as there was one call: without the last, the
  destructor of one owner could leave another without the privilege.
* `WindowsBalance`: `WindowsAccounted` is inductive. A new window is at an address where
  nothing is mapped, so destroying the old object does not unmap the new window.
* `ReadsAreExact` and `ReservedBitsKept`. `PortInv` says, unless another user stored in
  the port since: from the inl to the outl `reserved_bits` are those of the port; from
  the outl to the in the port holds the address of the current request and these
  bits. `BridgeAnswers` shows that the bridge then finds each field of the address where
  `MakeConfigAddress` put it, and `AddressBits` that none of them is in
  bits 30:24.

* `NoSignals`: a port access dies only without the privilege, which `PrivilegeInv`
  accounts for; an access of the window finds it mapped by `WindowsAccounted`, and no
  register, for no argument that `ReadFdataNRegister` lets through, ends beyond the
  16 KiB in any class (`RegisterInside`).
* `RegistersAreExact` and `WindowIsTrusted`. `CallInv` ties the call in progress to the
  registers it reads; these are naturally aligned, so that by `ReadsExact` an
  undisturbed read finds what the machine has (`FoundExact`). `ResultInv` says
  that of the chipset object and of the last result, and `BiosCntlDecoded`, `CreateLists`
  and `RcbaBase` what the classes make of it.
* `TypeCorrect`, from all of these: that a window has a 32-bit address rests on `ResultInv`.

`PawnMainProofs`, for every set of machines, every flash size flash linear addresses
can tell apart, every buffer size and flush interval, and any number of failing writes:

* `OldDumpStays`, `WindowIsRcba` and `OneClass`. `ControlInv` lists, for every place in
  the program, what has been found out on the way to it (supported chipset, window,
  straps, descriptor); without it the guard of `fopen` would not know of the checks made
  before. `OneClass` rests on the seven device lists being disjoint (`ListsDisjoint`).
* `DumpStaysPrefix`, `BlocksStayAscending`, `AbortsOnlyOnWriteErrors`, `ImageIsSaved` and
  `TypeCorrect`. `DumpInv` relates the file, the stream buffer and the blocks
  read. `FlushEffect` says what any flush does to file and buffer taken together: nothing
  if it succeeds, and if it fails, wherever the part that reaches the file ends and whether
  the rest is kept or lost, each block or part of a block that remains lies within one of
  those before, in the same order (`WholeBlocksKeep`, `TornBlockKeeps`, `PartsKeep`). So
  appending the next block, whose address is above all others, keeps them ascending
  whatever failed before (`AppendAscends`); and as long as nothing failed, file and buffer are exactly the blocks
  read. At the end every block was read, and a flush that succeeds leaves the buffer
  empty: the file is the image. `DumpInv` is `DumpOrder`, which is about the order of the
  blocks, and `LogExact`, which is about their contents.

`PawnProofs`, for the whole program under the assumptions of `PawnMainProofs`:

* `SystemImplementsMain` and `SystemSavesImage`, assuming `ClearOn = "zero"` and
  `MaxForeign = 0` as `CallImplementsReader` does. Every step is one of the call or of the
  controller, or leaves both alone (`CallSteps`), so the invariant of the call
  (`ReaderInv`) and the step simulation of `BlockReader` (`ReaderStep`) carry over from
  `HwSequencingProofs`, whose assumptions hold for the arguments `PawnMain` passes
  (`CallAssumption`). The step of `BlockReader` then tells which step of `PawnMain` it is:
  each of them is determined by what happens to the blocks and the status. An action of the
  instance the model uses is the action of the instance the proofs use (`SameSteps`).
* `SystemKeepsOrder` and `SystemLeavesFlash`, for either value of `ClearOn` and whatever
  other users of the controller do, where the blocks may be wrong:
  `OrderInv` of the call and `DumpOrder` of the program are inductive together, since
  `NextBlock` needs nothing of the controller to know the address and the size of a block. So on
  hardware whose status bits are cleared by ones the file still has every block of the flash in
  its place, an earlier dump is still replaced only where the flash can be read, and the
  flash and its lock-down are still left alone.

The inductive invariants (`CycleInv`, `OrderInv`, `PrivilegeInv`, `PortInv`, `CallInv`,
`ResultInv`, `ControlInv`, `DumpInv`), and that `Pawn` implements `PawnMain` (as the property `Spec` of `MCPawn`), were checked with TLC on the small instances before they
were proved. The assumptions on the constants are `SequencingAssumption`,
`SpiBarAssumption`, `WordsAssumption`, `PciAssumption`, `MaxFdsAssumption`, `MainAssumption` and
`SessionAssumption`; TLC evaluates them. They give types, and that 64 bytes per block
fit the 25-bit address (the program reads 16 MiB of the 32 MiB it can address).

Only model-checked: liveness (`Returns`), since fairness is out of the prover's reach, and
`MatchesReference`, which is a sum over the bits of a word and would need an induction over
it. Every other property of a passing run is proved for all values of the constants.

## Not modelled

* The overflow of `flash_address + size` (`chipset.cc:134`): signed overflow is
  undefined, so there is no outcome to state. Integers are unbounded in `HwSequencing`; its results
  are about arguments whose sum an `int` can hold, and the only caller passes 0 and
  16 MiB.
* The other user of the controller stores its address and starts its cycle in one step. So
  the call never stores its own address between these two, which would send a write or
  an erasure of the other user to it; `FlashIntact` is about the call's own cycles.
* How a stdio buffer counts the bytes of a torn block: what is kept of a block takes the
  place of a block in the buffer.
* The check of `fwrite`'s result and the end of the process by a failed check in the
  middle leave a partial dump behind; which one is stated as long as no write failed
  (`DumpIsPrefix`), and in order afterwards (`BlocksAscend`), no more.
* `bits::Value` for fields of 31 or 32 bits, whose mask C++ leaves undefined
  (`bits.h:48`): the widest field in use has 25 bits.
* What the store in CF8 does to the kernel's own use of the port: nothing a process
  can do prevents it.
* The formatting of the registers `PawnMain` displays, command-line flags, wording, the
  name of the dump file, version and build files. `kBiosDecEn1Register` has no use.
* `Session` stops at the window: what the SPI registers in it hold is the subject of
  `SpiRegisters` and `HwSequencing`.

## Plan

1. Done: registers, hardware sequencing, its caller's view, `PawnMain`, `Pci`,
   `RootComplex` and their composition in `Session`.
2. Done: proofs of every safety property and of the refinement of `BlockReader`.
3. Done: the program as a whole, with `HwSequencing` in the place of `BlockReader`, and the
   proof that it implements `PawnMain` and saves the image.
4. Left: the same for `Session` in the place of the probe and the mapping in `PawnMain`; a
   proof of `Returns`, if the prover learns about fairness.
