---- MODULE Pawn ----
(***************************************************************************)
(* The whole program on its hardware: PawnMain with the call of            *)
(* ReadSpiWithHardwareSequencing it makes (pawn/pawn.cc:186-199) carried   *)
(* out register by register (module HwSequencing), in the place of the     *)
(* caller's view of it (module BlockReader).  The call and its caller share*)
(* the arguments, the blocks handed over and the status returned; a        *)
(* callback runs within the step of the call that makes it.  The           *)
(* controller goes its own way from before the program starts until after  *)
(* it has ended.                                                           *)
(***************************************************************************)
EXTENDS PawnMain

CONSTANTS ClearOn, MaxForeign   \* of the controller

VARIABLES
  rpc, cur_flash_address, hsfs, hsfc, reported, buf,   \* the call and its locals
  status, fsmie, fcycle, fdbc, fla, fdata,             \* the registers
  cycle, fault, intact,                                \* the controller
  foreign, wiped                                       \* another user's doings

\* PawnMain has the whole flash read, through the data registers of a chipset.
Hw == INSTANCE HwSequencing WITH pc <- rpc, Addresses <- {0}, Sizes <- {kMaxFlash},
                                 BlockSizes <- {kBlockSize}, FlaSpan <- 2^25, NumFdata <- 16

mainVars       == <<pc, machine, class, window, dumpVars, exit>>
localVars      == <<rpc, cur_flash_address, hsfs, hsfc, reported, buf>>
controllerVars == <<status, fsmie, fcycle, fdbc, fla, fdata, cycle, fault, intact, foreign, wiped>>
systemVars     == <<mainVars, readerVars, localVars, controllerVars>>

SystemInit == Init /\ Hw!Init

\* PawnMain up to the call.
Prepare ==
  /\ \/ ParseArguments \/ CreatePci \/ CreateChipset \/ MapRootComplex
     \/ CheckBootStraps \/ CheckDescriptor \/ OpenDump \/ CheckCycle
  /\ UNCHANGED <<localVars, controllerVars>>

CallReader ==
  /\ pc = "read"
  /\ Hw!Call
  /\ UNCHANGED mainVars

\* The call finds a cycle in progress, and the QCHECK_OK around it fails.
FindBusy ==
  /\ pc = "read"
  /\ Hw!CheckIdle /\ result' = "unavailable"
  /\ Exit("failed check")
  /\ UNCHANGED <<machine, class, window, dumpVars>>

\* Steps of the call that its caller does not see.  There is no block_read_error.
ReadRegisters ==
  /\ pc = "read"
  /\ \/ Hw!CheckIdle /\ result' = "running"
     \/ Hw!ReadStatus \/ Hw!ClearStatus \/ Hw!SetAddress \/ Hw!ReadControl \/ Hw!StartCycle
     \/ Hw!Poll \/ Hw!CopyFdata
  /\ UNCHANGED mainVars

\* The call hands a block to the callback, which never ends the call but may end
\* the process.
HandOver ==
  /\ pc = "read"
  /\ Hw!BlockRead /\ result' = "running"
  /\ SaveBlock(log'[Len(log')])
  /\ UNCHANGED <<machine, class, window>>

CallReturns ==
  /\ pc = "read"
  /\ Hw!Finish
  /\ Exit("success") /\ AtExit
  /\ UNCHANGED <<machine, class, window>>

\* The controller, and another user of it.
Controller ==
  /\ Hw!FinishCycle \/ Hw!ForeignClear \/ Hw!StartForeignCycle
  /\ UNCHANGED mainVars

SystemNext == \/ Prepare \/ CallReader \/ FindBusy \/ ReadRegisters \/ HandOver \/ CallReturns
              \/ Controller

SystemSpec == SystemInit /\ [][SystemNext]_systemVars

-----------------------------------------------------------------------------
(* Properties.                                                             *)

\* If the program reports success and no write to the dump failed, the file has
\* every block of the flash in its place, whatever other users make of the blocks
\* on the way and whatever clears the status bits.
BlocksInPlace ==
  exit = "success" /\ faults = 0 =>
    /\ Len(file) = FlashBlocks
    /\ \A i \in DOMAIN file : file[i].address = (i - 1) * kBlockSize

\* No cycle of the program's changes the flash, whatever kind of cycle its predecessor or
\* another user left in HSFC and whatever is under way when it starts.
FlashIntact == intact

\* The program never locks the flash configuration, which only a reset would undo.
LockdownKept ==
  [][status'.flash_configuration_lockdown = status.flash_configuration_lockdown]_systemVars
====
