---- MODULE HwSequencing ----
(***************************************************************************)
(* Chipset::ReadSpiWithHardwareSequencing (pawn/chipset.cc:98-175) and the *)
(* SPI host controller it drives.                                          *)
(*                                                                         *)
(* The program and the controller run concurrently and share the HSFS,     *)
(* HSFC, FADDR and FDATA registers; each access of a register by the       *)
(* program is a step of its own, except that the read of FADDR, which only *)
(* carries reserved bits over to the store after it, is part of that store.*)
(* The controller is not part of the repository: it is modelled from the   *)
(* way the code uses it.  Register fields have the names of chipset.h;     *)
(* numbers are numbers here, module SpiRegisters is about their encoding.  *)
(*                                                                         *)
(* A byte of flash is represented by its linear address.                   *)
(***************************************************************************)
EXTENDS Integers, Sequences

CONSTANTS
  Addresses, Sizes, BlockSizes,   \* the arguments callers pass
  FlaSpan,      \* 2^25: FADDR holds 25 bits of flash linear address
  NumFdata,     \* 16: the 32-bit flash data registers
  ClearOn,      \* what a store in HSFS must hold to clear a status bit: "zero",
                \* as the code has it, or "one"
  MaxForeign    \* steps another user of the controller may take meanwhile

ASSUME SequencingAssumption ==
  /\ Addresses \subseteq Int /\ Sizes \subseteq Int /\ BlockSizes \subseteq Int
  /\ FlaSpan \in Nat /\ FlaSpan >= 4 /\ NumFdata \in 1 .. 16
  /\ ClearOn \in {"zero", "one"} /\ MaxForeign \in Nat

VARIABLES
  pc, arg, cur_flash_address, hsfs, hsfc, reported, buf,   \* the call and its locals
  log, result, done,                                       \* what the caller sees
  status, fsmie, fcycle, fdbc, fla, fdata,                 \* the registers
  cycle, fault, intact,                                    \* the controller
  foreign, wiped                                           \* another user's doings

progVars == <<pc, arg, cur_flash_address, hsfs, hsfc, reported, buf, log, result, done>>
ctlVars  == <<status, fsmie, fcycle, fdbc, fla, fdata, cycle, fault, intact, foreign, wiped>>
vars     == <<progVars, ctlVars>>

MaxBlock == 4 * NumFdata

Arguments == [flash_address : Addresses, size : Sizes, block_size : BlockSizes,
              callbacks : SUBSET {"block_read", "block_read_error", "block_read_done"}]

\* The fields of HSFS that matter; the others are read-only and kept.
Hsfs == [flash_configuration_lockdown : BOOLEAN, spi_cycle_in_progress : BOOLEAN,
         access_error_log : BOOLEAN, flash_cycle_error : BOOLEAN, flash_cycle_done : BOOLEAN]

kFcycleRead == 0
kFcycleWrite == 2
kFcycleBlockErase == 3

NoCycle == [owner |-> "nobody", address |-> 0, count |-> 0, kind |-> kFcycleRead]

\* The controller starts in whatever state the firmware left it, maybe with a
\* cycle of another user under way.  Of the local hsfc only FSMIE is kept.
Init ==
  /\ pc = "call" /\ arg \in Arguments
  /\ cur_flash_address = 0 /\ reported = FALSE /\ buf = <<>>
  /\ log = <<>> /\ result = "none" /\ done = FALSE
  /\ status \in Hsfs /\ hsfs = status /\ fsmie \in BOOLEAN /\ hsfc = fsmie
  /\ fcycle \in 0 .. 3 /\ fdbc = 0 /\ fla = 0
  /\ fdata = [k \in 0 .. MaxBlock - 1 |-> -1]
  /\ cycle = IF status.spi_cycle_in_progress
             THEN [NoCycle EXCEPT !.owner = "foreign", !.kind = fcycle] ELSE NoCycle
  /\ fault = FALSE /\ intact = TRUE /\ foreign = 0 /\ wiped = FALSE

-----------------------------------------------------------------------------
(* The program.                                                            *)

Return(r) == pc' = "returned" /\ result' = r

Call ==
  /\ pc = "call"
  /\ IF "block_read" \notin arg.callbacks THEN Return("fatal")
     ELSE IF arg.block_size < 4 \/ arg.block_size > MaxBlock THEN Return("invalid argument")
     ELSE IF arg.size % arg.block_size # 0 THEN Return("invalid argument")
     ELSE pc' = "entry" /\ result' = "running"
  /\ UNCHANGED <<arg, cur_flash_address, hsfs, hsfc, reported, buf, log, done, ctlVars>>

CheckIdle ==
  /\ pc = "entry"
  /\ hsfs' = status
  /\ IF status.spi_cycle_in_progress
     THEN Return("unavailable") /\ UNCHANGED cur_flash_address
     ELSE pc' = "loop" /\ cur_flash_address' = arg.flash_address /\ UNCHANGED result
  /\ UNCHANGED <<arg, hsfc, reported, buf, log, done, ctlVars>>

\* Mutant of More: one block too many.
MoreInclusive == cur_flash_address <= arg.flash_address + arg.size

More == cur_flash_address < arg.flash_address + arg.size

\* Mutants of Clear: FDONE, or FCERR, is not cleared, or every bit is set.
ClearKeepsDone(h) == [h EXCEPT !.access_error_log = FALSE, !.flash_cycle_error = FALSE]
ClearKeepsError(h) == [h EXCEPT !.access_error_log = FALSE, !.flash_cycle_done = FALSE]
ClearSetsAll(h) == [f \in DOMAIN h |-> TRUE]

\* The status bits are cleared, the lock-down and the read-only bits copied.
Clear(h) ==
  [h EXCEPT !.access_error_log = FALSE, !.flash_cycle_error = FALSE, !.flash_cycle_done = FALSE]

ReadStatus ==
  /\ pc = "loop" /\ More
  /\ hsfs' = Clear(status)
  /\ pc' = "clear"
  /\ UNCHANGED <<arg, cur_flash_address, hsfc, reported, buf, log, result, done, ctlVars>>

Finish ==
  /\ pc = "loop" /\ ~More
  /\ done' = ("block_read_done" \in arg.callbacks)
  /\ Return("ok")
  /\ UNCHANGED <<arg, cur_flash_address, hsfs, hsfc, reported, buf, log, ctlVars>>

\* What a store in HSFS does: it clears status bits, may set the lock-down
\* until the next reset, and leaves the read-only bits alone.
Cleared(old, written) == old /\ (IF ClearOn = "zero" THEN written ELSE ~written)

StatusAfterStore(h) ==
  [status EXCEPT !.flash_configuration_lockdown = @ \/ h.flash_configuration_lockdown,
                 !.access_error_log = Cleared(@, h.access_error_log),
                 !.flash_cycle_error = Cleared(@, h.flash_cycle_error),
                 !.flash_cycle_done = Cleared(@, h.flash_cycle_done)]

ClearStatus ==
  /\ pc = "clear"
  /\ status' = StatusAfterStore(hsfs)
  /\ wiped' = FALSE
  /\ pc' = "address"
  /\ UNCHANGED <<arg, cur_flash_address, hsfs, hsfc, reported, buf, log, result, done,
                 fsmie, fcycle, fdbc, fla, fdata, cycle, fault, intact, foreign>>

\* Mutant of LinearAddress: the address is not cut to the bit-field.
LinearAddressUncut == cur_flash_address

\* The bit-field flash_linear_address keeps 25 bits.
LinearAddress == cur_flash_address % FlaSpan

SetAddress ==
  /\ pc = "address"
  /\ fla' = LinearAddress
  /\ pc' = "control"
  /\ UNCHANGED <<arg, cur_flash_address, hsfs, hsfc, reported, buf, log, result, done,
                 status, fsmie, fcycle, fdbc, fdata, cycle, fault, intact, foreign, wiped>>

ReadControl ==
  /\ pc = "control"
  /\ hsfc' = fsmie
  /\ pc' = "go"
  /\ UNCHANGED <<arg, cur_flash_address, hsfs, reported, buf, log, result, done, ctlVars>>

\* What is stored in FSMIE.  Mutant: the bit is not carried over.
SmiEnableOff == FALSE
SmiEnable == hsfc

\* What is stored in FCYCLE and in FGO.  Mutants: FCYCLE keeps what the
\* predecessor left; FGO is not set and no cycle starts.
FlashCycleKept == fcycle
FlashCycle == kFcycleRead

FlashCycleNoGo == FALSE
FlashCycleGo == TRUE

\* A store in HSFC with FGO set starts a cycle with the address, byte count
\* and kind the registers hold, unless one is under way already.
StartCycle ==
  /\ pc = "go"
  /\ fdbc' = arg.block_size - 1
  /\ fcycle' = FlashCycle /\ fsmie' = SmiEnable
  /\ IF FlashCycleGo /\ cycle = NoCycle
     THEN /\ cycle' = [owner |-> "pawn", address |-> fla, count |-> fdbc' + 1, kind |-> fcycle']
          /\ status' = [status EXCEPT !.spi_cycle_in_progress = TRUE]
     ELSE UNCHANGED <<cycle, status>>
  /\ pc' = "poll"
  /\ UNCHANGED <<arg, cur_flash_address, hsfs, hsfc, reported, buf, log, result, done,
                 fla, fdata, fault, intact, foreign, wiped>>

Poll ==
  /\ pc = "poll"
  /\ hsfs' = status
  /\ pc' = IF ~status.flash_cycle_done THEN "poll"
           ELSE IF status.flash_cycle_error /\ "block_read_error" \in arg.callbacks
                THEN "error" ELSE "copy"
  /\ UNCHANGED <<arg, cur_flash_address, hsfc, reported, buf, log, result, done, ctlVars>>

\* block_read_error decides whether to go on.
BlockReadError ==
  /\ pc = "error"
  /\ reported' = TRUE
  /\ \/ pc' = "copy" /\ UNCHANGED result
     \/ Return("ok")
  /\ UNCHANGED <<arg, cur_flash_address, hsfs, hsfc, buf, log, done, ctlVars>>

\* One 32-bit flash data register at a time, block_size / 4 of them.
CopyFdata ==
  /\ pc = "copy"
  /\ LET i == Len(buf) IN
       /\ buf' = buf \o <<fdata[i], fdata[i + 1], fdata[i + 2], fdata[i + 3]>>
       /\ pc' = IF i + 4 = 4 * (arg.block_size \div 4) THEN "deliver" ELSE "copy"
  /\ UNCHANGED <<arg, cur_flash_address, hsfs, hsfc, reported, log, result, done, ctlVars>>

\* The block is the bytes of flash from this address on.
Exact(address, bytes) == \A k \in 1 .. Len(bytes) : bytes[k] = address + k - 1

\* Mutants of NextAddress: it advances by the bytes copied, or not at all.
NextAddressByCopied == cur_flash_address + Len(buf)
NextAddressSame == cur_flash_address

NextAddress == cur_flash_address + arg.block_size

\* block_read is called and decides whether to go on.
BlockRead ==
  /\ pc = "deliver"
  /\ log' = Append(log, [address |-> cur_flash_address, exact |-> Exact(cur_flash_address, buf),
                         bytes |-> Len(buf), fault |-> fault, reported |-> reported])
  /\ buf' = <<>> /\ reported' = FALSE
  /\ \/ /\ pc' = "loop"
        /\ cur_flash_address' = NextAddress
        /\ UNCHANGED result
     \/ Return("ok") /\ UNCHANGED cur_flash_address
  /\ UNCHANGED <<arg, hsfs, hsfc, done, ctlVars>>

Program == \/ Call \/ CheckIdle \/ ReadStatus \/ Finish \/ ClearStatus \/ SetAddress
           \/ ReadControl \/ StartCycle \/ Poll \/ BlockReadError \/ CopyFdata \/ BlockRead

-----------------------------------------------------------------------------
(* The controller, and another user of it (firmware in system management   *)
(* mode, a flash driver), whose cycles the code expects: it looks for one  *)
(* before it starts (chipset.cc:128, pawn.cc:181).  The other user follows *)
(* the same protocol: it clears the status bits around its cycles.         *)

\* The cycle ends: the data registers hold the bytes read, or the error bit
\* is set (and the access error log, if the region was protected) and they
\* keep what they held.  A cycle of pawn's that is not a read has changed the
\* flash behind its owner's back.
FinishCycle ==
  /\ cycle # NoCycle
  /\ cycle' = NoCycle
  /\ \E failed, denied \in BOOLEAN :
       /\ denied => failed
       /\ fault' = failed
       /\ status' = [status EXCEPT !.spi_cycle_in_progress = FALSE, !.flash_cycle_done = TRUE,
                                   !.flash_cycle_error = @ \/ failed, !.access_error_log = @ \/ denied]
       /\ fdata' = IF failed \/ cycle.kind # kFcycleRead THEN fdata
                   ELSE [k \in DOMAIN fdata |-> IF k < cycle.count THEN (cycle.address + k) % FlaSpan
                                                ELSE fdata[k]]
       /\ intact' = (intact /\ (failed \/ cycle.kind = kFcycleRead \/ cycle.owner # "pawn"))
  /\ UNCHANGED <<progVars, fsmie, fcycle, fdbc, fla, foreign, wiped>>

\* The other user stores in HSFS and so clears the status bits, before a cycle of
\* its own or after one; an FDONE the call has not seen yet goes with them.
ForeignClear ==
  /\ foreign < MaxForeign
  /\ foreign' = foreign + 1
  /\ status' = Clear(status)
  /\ wiped' = (wiped \/ status.flash_cycle_done)
  /\ UNCHANGED <<progVars, fsmie, fcycle, fdbc, fla, fdata, cycle, fault, intact>>

\* The other user reads, writes or erases somewhere else, and sets FSMIE as it
\* likes; what it writes goes into the data registers first.
StartForeignCycle ==
  /\ cycle = NoCycle /\ foreign < MaxForeign
  /\ foreign' = foreign + 1
  /\ fla' = FlaSpan - 4 /\ fdbc' = 3 /\ fsmie' \in BOOLEAN
  /\ fcycle' \in {kFcycleRead, kFcycleWrite, kFcycleBlockErase}
  /\ fdata' = IF fcycle' = kFcycleWrite THEN [k \in DOMAIN fdata |-> IF k < 4 THEN -1 ELSE fdata[k]]
              ELSE fdata
  /\ cycle' = [owner |-> "foreign", address |-> fla', count |-> 4, kind |-> fcycle']
  /\ status' = [status EXCEPT !.spi_cycle_in_progress = TRUE]
  /\ UNCHANGED <<progVars, fault, intact, wiped>>

Next == Program \/ FinishCycle \/ ForeignClear \/ StartForeignCycle

Spec == Init /\ [][Next]_vars

\* The program keeps running, and the controller finishes every cycle it has
\* begun; the busy-wait loop has no timeout and relies on that.
FairSpec == Spec /\ WF_vars(Program) /\ WF_vars(FinishCycle)

-----------------------------------------------------------------------------
(* Properties.                                                             *)

Locations == {"call", "entry", "loop", "clear", "address", "control", "go", "poll", "error", "copy",
              "deliver", "returned"}

Entry == [address : Int, exact : BOOLEAN, bytes : Nat, fault : BOOLEAN, reported : BOOLEAN]

CallTypeOK ==
  /\ pc \in Locations /\ arg \in Arguments /\ cur_flash_address \in Int
  /\ hsfs \in Hsfs /\ hsfc \in BOOLEAN /\ reported \in BOOLEAN /\ buf \in Seq(Int)

HistoryTypeOK ==
  /\ log \in Seq(Entry) /\ done \in BOOLEAN
  /\ result \in {"none", "running", "fatal", "invalid argument", "unavailable", "ok"}

RegisterTypeOK ==
  /\ status \in Hsfs /\ fsmie \in BOOLEAN /\ fcycle \in 0 .. 3
  /\ fdbc \in 0 .. MaxBlock - 1 /\ fla \in 0 .. FlaSpan - 1 /\ fdata \in [0 .. MaxBlock - 1 -> Int]

ControllerTypeOK ==
  /\ cycle \in [owner : {"nobody", "foreign", "pawn"}, address : 0 .. FlaSpan - 1,
                count : 0 .. MaxBlock, kind : 0 .. 3]
  /\ fault \in BOOLEAN /\ intact \in BOOLEAN /\ foreign \in Nat /\ wiped \in BOOLEAN

\* Types of the locals, the history of callbacks, the registers and the
\* controller.
TypeOK == CallTypeOK /\ HistoryTypeOK /\ RegisterTypeOK /\ ControllerTypeOK

\* The flash linear addresses of the whole range are distinct.
InRange == arg.flash_address >= 0 /\ arg.flash_address + arg.size <= FlaSpan

\* No other user cleared the status bits or started a cycle since the call.
Undisturbed == foreign = 0

\* Every block handed to block_read whose cycle succeeded holds the bytes of
\* the flash at exactly the address it is said to come from: never those of the
\* block before, nor a mixture, although the data registers are read one by one
\* after a status bit that earlier cycles and the firmware have set as well.
BlocksExact ==
  Undisturbed /\ InRange => \A i \in DOMAIN log : ~log[i].fault => log[i].exact

\* With a block_read_error callback, a block was reported to it if and only if
\* the cycle of that very block failed: an error bit left over from an earlier
\* block, or from the firmware, is not blamed on this one.
ErrorsAttributed ==
  Undisturbed /\ "block_read_error" \in arg.callbacks =>
    \A i \in DOMAIN log : log[i].reported = log[i].fault

\* Whatever the controller and its other users do, the blocks are handed over in
\* order without gap or repetition, and block_read_done is called only when the
\* whole range has been.
BlocksInOrder ==
  /\ \A i \in DOMAIN log :
       log[i].address = arg.flash_address + (i - 1) * arg.block_size
  /\ done /\ arg.size >= 0 => Len(log) * arg.block_size = arg.size

\* No cycle of the call's changes the flash, whatever cycle kind (write, erase) its
\* predecessor or another user meanwhile left in HSFC.
FlashIntact == intact

\* A call the firmware did not lock out never locks the flash configuration
\* either: the store that clears the status bits writes FLOCKDN back as read.
LockdownKept ==
  [][status'.flash_configuration_lockdown = status.flash_configuration_lockdown]_vars

\* The call never changes whether the end of a cycle raises an SMI: the store that
\* starts its cycle writes FSMIE back as read, unless another user has changed the bit
\* in between.
SmiEnableKept == [][Undisturbed' => fsmie' = fsmie]_vars

\* The call programs a new cycle only when the one before has ended, which it
\* learns from FDONE alone.
NoOverlap == [][pc = "go" /\ Undisturbed /\ pc' = "poll" => cycle = NoCycle]_vars

\* The busy-wait loop, which has no timeout, waits for nothing only after another
\* user has cleared, together with the status bits of its own cycle, an FDONE the call
\* had not seen yet.  Otherwise the loop is about to see FDONE, or a cycle is under way
\* whose end will set it: the call's own, or one that kept it from starting.
WaitsForCycle == pc = "poll" => status.flash_cycle_done \/ cycle # NoCycle \/ wiped

\* Steps of the call in a block so far.
InBlock == CASE pc = "clear" -> 1 [] pc = "address" -> 2 [] pc = "control" -> 3 [] pc = "go" -> 4
             [] pc = "poll" -> 5 [] pc = "error" -> 6 [] pc = "copy" -> 7 + Len(buf)
             [] pc = "deliver" -> 8 + Len(buf)
             [] OTHER -> 0

\* A bound of the steps a call can still make, idle polls apart: less than 73 for
\* every byte of the range that is left.
WorkLeft ==
  LET Bound(bytes) == IF bytes > 0 THEN 73 * bytes ELSE 0 IN
  CASE pc = "returned" -> 0
    [] pc = "call"     -> Bound(arg.size) + 3
    [] pc = "entry"    -> Bound(arg.size) + 2
    [] OTHER           -> Bound(arg.flash_address + arg.size - cur_flash_address) + 1 - InBlock

\* Whatever the callbacks, the controller and its other users do, every step of the
\* call but a poll that finds FDONE clear brings the call nearer to its end: only
\* the controller can keep it from returning.
BoundedWork ==
  [][\/ pc = "poll" /\ ~status.flash_cycle_done
     \/ UNCHANGED progVars
     \/ WorkLeft' \in 0 .. WorkLeft - 1]_vars

\* The call returns: the busy-wait loop ends for every block.
Returns == <>(pc = "returned")

\* To its caller the call does what module BlockReader says, which hides the registers:
\* blocks in order, each either right or its failure reported, if there is a callback.
Reader == INSTANCE BlockReader
ImplementsReader == Reader!Spec

(* What comments and messages of the code say, refuted by the runs that     *)
(* expect a violation.                                                     *)

\* chipset.h:232 "On each successful read block, block_read is called": a block
\* that could not be read is not handed to block_read.
OnlySuccessfulBlocks == \A i \in DOMAIN log : ~log[i].fault

\* chipset.cc:121 "Block size must be a value between 4-64 (inclusive)": for any
\* such block size block_read is given a block of that size.
WholeBlocks == \A i \in DOMAIN log : log[i].bytes = arg.block_size
====
