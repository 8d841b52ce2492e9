---- MODULE PawnMain ----
(***************************************************************************)
(* PawnMain (pawn/pawn.cc:44-201): from the command line to the dump file. *)
(* It probes the machine, maps the chipset's configuration space, checks   *)
(* that there is a flash image to be read and has it read block by block.  *)
(*                                                                         *)
(* The reading itself is module BlockReader, the caller's view of what     *)
(* HwSequencing does.  The dump is a stdio stream: a block goes into a buffer   *)
(* first and reaches the file when the buffer is flushed.  A block of the  *)
(* file is represented by what BlockReader tells about it.                 *)
(***************************************************************************)
EXTENDS Chipset, Integers, Sequences

CONSTANTS
  HardwareIds, RcbaWords, GcsWords,   \* the machines
  FlashBlocks,     \* 2^18: kMaxFlash / kBlockSize
  FlushEvery,      \* 256: the blocks from one dot of the progress display to the next
  BufferBlocks,    \* 64: the blocks a stdio buffer holds
  MaxDiskFaults,   \* writes to the dump file that may fail
  TornBytes        \* how many bytes of a block a failing write may get to the file

ASSUME MainAssumption ==
  /\ \A id \in HardwareIds : id.vendor \in Nat /\ id.device \in Nat
  /\ RcbaWords \subseteq Word(32) /\ GcsWords \subseteq Word(32)
  /\ FlashBlocks \in Nat \ {0} /\ FlashBlocks * 64 <= 2^25   \* flash linear addresses suffice
  /\ FlushEvery \in Nat \ {0} /\ BufferBlocks \in Nat \ {0}
  /\ MaxDiskFaults \in Nat /\ TornBytes \subseteq Nat \ {0}

VARIABLES
  pc,                       \* the next step, "exited" at the end
  machine,                  \* the hardware: ids, RCBA, GCS and the FDV bit
  class,                    \* of the Chipset object
  window,                   \* rcrb_mem_: the base addresses mapped, none or one
  arg, log, result, done,   \* the call of ReadSpiWithHardwareSequencing
  file, buffer,             \* the dump on disk and in the stream
  faults,                   \* writes to the dump that failed
  exit                      \* how the process ended

readerVars == <<arg, log, result, done>>
dumpVars   == <<file, buffer, faults>>
vars       == <<pc, machine, class, window, readerVars, dumpVars, exit>>

kBlockSize == 64
kMaxFlash == FlashBlocks * kBlockSize

\* The callbacks PawnMain passes: none for errors.
DumpArguments == {[flash_address |-> 0, size |-> kMaxFlash, block_size |-> kBlockSize,
                   callbacks |-> {"block_read", "block_read_done"}]}

Reader == INSTANCE BlockReader WITH Arguments <- DumpArguments, MaxBlock <- 64, FlaSpan <- 2^25

\* What the file holds before: the dump of some earlier run.
OldBlock == [address |-> -1, exact |-> FALSE, bytes |-> kBlockSize, fault |-> FALSE, reported |-> FALSE]

Init ==
  /\ pc = "arguments" /\ exit = "no"
  /\ machine \in [id : HardwareIds, rcba : RcbaWords, gcs : GcsWords, fdv : BOOLEAN]
  /\ class = "none" /\ window = {}
  /\ Reader!Init
  /\ file = <<OldBlock>> /\ buffer = <<>> /\ faults = 0

-----------------------------------------------------------------------------

Exit(how) == pc' = "exited" /\ exit' = how
Goto(next) == pc' = next /\ UNCHANGED exit

\* A failed QCHECK ends the process at once, without flushing streams.
\* ParseCommandLine leaves at most one operand, the name of the dump.
ParseArguments ==
  /\ pc = "arguments"
  /\ \E operands \in 0 .. 2 : IF operands <= 1 THEN Goto("ports") ELSE Exit("failed check")
  /\ UNCHANGED <<machine, class, window, readerVars, dumpVars>>

\* Pci::Create may be refused the I/O ports.
CreatePci ==
  /\ pc = "ports"
  /\ Goto("chipset") \/ Exit("failed check")
  /\ UNCHANGED <<machine, class, window, readerVars, dumpVars>>

CreateChipset ==
  /\ pc = "chipset"
  /\ class' = Create(machine.id)
  /\ IF class' = "unsupported" THEN Exit("failed check") ELSE Goto("map")
  /\ UNCHANGED <<machine, window, readerVars, dumpVars>>

\* Mutant of RootComplexMapped: the address is a signed number when it becomes an
\* offset in /dev/mem.
RootComplexMappedSigned(rcba) ==
  rcba.enable /\ window' = {rcba.base_address \cup (IF 31 \in rcba.base_address THEN 32 .. 63 ELSE {})}

\* Chipset::MapRootComplex succeeds: RCBA is enabled and /dev/mem gives the window.
RootComplexMapped(rcba) == rcba.enable /\ window' = {rcba.base_address}

\* Mutant of MapFailed: an error does not end the program.
MapFailedGoesOn == UNCHANGED window /\ Goto("straps")

MapFailed == UNCHANGED window /\ Exit("failure")

\* Mapping fails if RCBA is disabled, and may fail if it is not.
MapRootComplex ==
  /\ pc = "map"
  /\ \/ RootComplexMapped(RcbaOf(machine.rcba)) /\ Goto("straps")
     \/ MapFailed
  /\ UNCHANGED <<machine, class, readerVars, dumpVars>>

\* Every access of a memory-mapped register goes through rcrb_mem().
WithRootComplex(A) == IF window = {} THEN Exit("aborted") ELSE A

CheckBootStraps ==
  /\ pc = "straps"
  /\ WithRootComplex(IF BootBiosStraps(class, machine.id.device, machine.gcs) = "SPI"
                     THEN Goto("descriptor") ELSE Exit("failure"))
  /\ UNCHANGED <<machine, class, window, readerVars, dumpVars>>

\* Mutant of InvalidDescriptor: only the message is printed.
InvalidDescriptorPrints == Goto("open")

InvalidDescriptor == Exit("failure")

\* The register display, and the test of FDV in HSFS.
CheckDescriptor ==
  /\ pc = "descriptor"
  /\ WithRootComplex(IF machine.fdv THEN Goto("open") ELSE InvalidDescriptor)
  /\ UNCHANGED <<machine, class, window, readerVars, dumpVars>>

\* Mutant of Truncate: the file is opened for appending.
TruncateNot == UNCHANGED file

\* fopen with "wb" empties the file.
Truncate == file' = <<>>

OpenDump ==
  /\ pc = "open"
  /\ \/ Truncate /\ Goto("busy")
     \/ UNCHANGED file /\ Exit("failure")
  /\ UNCHANGED <<machine, class, window, readerVars, buffer, faults>>

\* SCIP in SSFS: another cycle is in progress.
CheckCycle ==
  /\ pc = "busy"
  /\ WithRootComplex(Goto("read") \/ Exit("failure"))
  /\ UNCHANGED <<machine, class, window, readerVars, dumpVars>>

StartReading ==
  /\ pc = "read"
  /\ Reader!Call
  /\ UNCHANGED <<pc, machine, class, window, dumpVars, exit>>

\* A cycle started since CheckCycle; QCHECK_OK.
ReaderUnavailable ==
  /\ pc = "read"
  /\ Reader!Unavailable
  /\ Exit("failed check")
  /\ UNCHANGED <<machine, class, window, dumpVars>>

-----------------------------------------------------------------------------
(* The stream: d is the dump, [file, buffer, faults].                      *)

Dump == [file |-> file, buffer |-> buffer, faults |-> faults]
SetDump(d) == file' = d.file /\ buffer' = d.buffer /\ faults' = d.faults

Flushed(d) == [file |-> d.file \o d.buffer, buffer |-> <<>>, faults |-> d.faults]

\* What a failing write leaves: a part has got to the file; the rest is lost, as with
\* glibc, or stays in the buffer, which C allows as well.
Failed(d, written, rest) ==
  {[file |-> d.file \o written, buffer |-> left, faults |-> d.faults + 1] : left \in {<<>>, rest}}

\* The first n bytes of a block, and the others.
First(block, n)  == [block EXCEPT !.bytes = n]
Others(block, n) == [block EXCEPT !.address = @ + n, !.bytes = @ - n]

\* The part ends between two blocks or within one.
FailedFlushes(d) ==
  LET b == d.buffer
      Torn == {p \in (1 .. Len(b)) \X TornBytes : p[2] < b[p[1]].bytes}
  IN  UNION ({Failed(d, SubSeq(b, 1, k), SubSeq(b, k + 1, Len(b))) : k \in 0 .. Len(b) - 1}
             \cup {Failed(d, Append(SubSeq(b, 1, p[1] - 1), First(b[p[1]], p[2])),
                          SubSeq([b EXCEPT ![p[1]] = Others(@, p[2])], p[1], Len(b))) : p \in Torn})

\* What a flush can leave behind; a dump with more faults than before tells of
\* its failure.
Flushes(d) ==
  {Flushed(d)} \cup (IF d.faults < MaxDiskFaults THEN FailedFlushes(d) ELSE {})

Put(d, block) == [d EXCEPT !.buffer = Append(@, block)]

\* What fwrite can do: it flushes a full buffer, and takes the block unless that fails.
Fwrite(d, block) ==
  IF Len(d.buffer) < BufferBlocks THEN {Put(d, block)}
  ELSE {IF e.faults = d.faults THEN Put(e, block) ELSE e : e \in Flushes(d)}

\* Mutant of WriteFailed: the block is written again from the start of the buffer.
WriteFailedRetries(d, e, block) ==
  SetDump([Put(d, block) EXCEPT !.file = e.file, !.faults = e.faults]) /\ UNCHANGED <<pc, exit>>

\* fwrite returned less than the block: LOG(FATAL).
WriteFailed(d, e, block) == SetDump(e) /\ Exit("aborted")

WriteBlock(d, block) ==
  \E e \in Fwrite(d, block) :
    IF e.faults = d.faults THEN SetDump(e) /\ UNCHANGED <<pc, exit>> ELSE WriteFailed(d, e, block)

\* The block_read callback.  fflush(STDIN_FILENO) is fflush(NULL): it flushes
\* the dump as well, and its result is not looked at.
SaveBlock(block) ==
  IF block.address \div kBlockSize % FlushEvery = 0
  THEN \E d \in Flushes(Dump) : WriteBlock(d, block)
  ELSE WriteBlock(Dump, block)

BlockRead ==
  /\ pc = "read"
  /\ Reader!Deliver /\ result' = "running"
  /\ SaveBlock(log'[Len(log')])
  /\ UNCHANGED <<machine, class, window>>

\* Mutant of AtExit: the process ends without running exit handlers.
AtExitNothing == UNCHANGED dumpVars

\* dump_closer is never called: the stream is flushed by the C library at exit,
\* when nobody can look at the result.
AtExit == \E d \in Flushes(Dump) : SetDump(d)

\* PawnMain returns EXIT_SUCCESS.
FinishReading ==
  /\ pc = "read"
  /\ Reader!Finish
  /\ Exit("success") /\ AtExit
  /\ UNCHANGED <<machine, class, window>>

Next == \/ ParseArguments \/ CreatePci \/ CreateChipset \/ MapRootComplex \/ CheckBootStraps
        \/ CheckDescriptor \/ OpenDump \/ CheckCycle \/ StartReading \/ ReaderUnavailable
        \/ BlockRead \/ FinishReading

Spec == Init /\ [][Next]_vars

-----------------------------------------------------------------------------
(* Properties.                                                             *)

Block == [address : Int, exact : BOOLEAN, bytes : Nat, fault : BOOLEAN, reported : BOOLEAN]

\* Types of the variables; a base address fits the 32 bits of its register.
TypeOK ==
  /\ pc \in {"arguments", "ports", "chipset", "map", "straps", "descriptor", "open", "busy",
             "read", "exited"}
  /\ exit \in {"no", "failed check", "failure", "aborted", "success"}
  /\ class \in {"none", "unsupported"} \cup {Classes[k] : k \in DOMAIN Classes}
  /\ window \subseteq Word(32)
  /\ \A s \in {file, buffer} : \A i \in DOMAIN s : s[i] \in Block
  /\ faults \in 0 .. MaxDiskFaults

\* The file is the whole flash, each block complete and in its place, and every block
\* that could be read is right.
WholeImage ==
  /\ Len(file) = FlashBlocks
  /\ \A i \in DOMAIN file : /\ file[i].address = (i - 1) * kBlockSize /\ file[i].bytes = kBlockSize
                            /\ ~file[i].fault => file[i].exact

\* If no write to the dump failed and the program reports success, the file is
\* the whole image, although the last blocks get there only at exit.
SavedImage == exit = "success" /\ faults = 0 => WholeImage

\* From the first block on, the blocks in the file and after them the ones in the
\* stream are those read so far, in the order they were read, and nothing of an
\* earlier dump, until a write fails: if the program is killed, the file is a
\* prefix of the image.
DumpIsPrefix == (pc = "read" \/ exit = "success") /\ faults = 0 => file \o buffer = log

\* An earlier dump is destroyed only on a machine whose flash can be read: a
\* chipset supported, its registers mapped, booting from SPI flash, with a valid
\* descriptor.
OldDumpKept ==
  file # <<OldBlock>> =>
    /\ class = Create(machine.id) /\ class # "unsupported"
    /\ window # {}
    /\ BootBiosStraps(class, machine.id.device, machine.gcs) = "SPI"
    /\ machine.fdv

\* rcrb_mem() never dies with "Call MapRootComplex() first.": the program aborts
\* only when the dump cannot be written.
AbortsOnWriteErrors == exit = "aborted" => faults > 0

\* Failing writes lose blocks or parts of them, but whatever the program goes on to
\* write, no byte of the flash is in the dump twice and none before one with a smaller
\* address.
BlocksAscend ==
  LET dump == file \o buffer IN
  \A i, j \in DOMAIN dump : i < j => dump[i].address + dump[i].bytes <= dump[j].address

\* The window that is mapped is the 16 KiB the RCBA register names, aligned, and
\* only if the register has it enabled; the bits below are not part of the address.
WindowFromRcba ==
  \A base \in window : 0 \in machine.rcba /\ base = machine.rcba \cap 14 .. 31

\* No device is claimed by two classes: the order in which Create asks them,
\* and a class taking over a list of its ancestor, make no difference.
ClassUnambiguous ==
  class # "none" => \A k \in Supporting(machine.id) : class = Classes[k]

(* What the README says, refuted by a run that expects a violation.         *)

\* README.md:35 "The following command will extract the BIOS firmware and save
\* the image": if the program reports success, the image is saved.
SuccessMeansSaved == exit = "success" => WholeImage
====
