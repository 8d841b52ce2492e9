---- MODULE PawnProofs ----
(***************************************************************************)
(* The program with its register-level reader (module Pawn) implements     *)
(* PawnMain, if a store of zero clears the status bits and nobody else     *)
(* uses the controller: what is proved about PawnMain with the caller's    *)
(* view of the reader (module BlockReader) holds for the program as a      *)
(* whole.                                                                  *)
(*                                                                         *)
(* Every step of the program is a step of the call or leaves the call      *)
(* alone, so the call's inductive invariant (HwSequencingProofs) holds     *)
(* here as well.                                                           *)
(***************************************************************************)
EXTENDS Pawn, PawnMainProofs

H == INSTANCE HwSequencingProofs WITH pc <- rpc, Addresses <- {0}, Sizes <- {kMaxFlash},
                                      BlockSizes <- {kBlockSize}, FlaSpan <- 2^25, NumFdata <- 16

\* What HwSequencingProofs assumes of its constants, for the values they have here.
LEMMA CallAssumption ==
  ASSUME ClearOn \in {"zero", "one"}, MaxForeign \in Nat
  PROVE  H!SequencingAssumption
<1>1. kMaxFlash \in Int /\ kBlockSize \in Int BY MainAssumption DEF kMaxFlash, kBlockSize
<1>2. 2^25 \in Nat /\ 2^25 >= 4 OBVIOUS
<1> QED BY <1>1, <1>2 DEF H!SequencingAssumption

\* The call of module Pawn is the one of the proofs.
LEMMA SameInit == Hw!Init => H!Init
BY DEF Hw!Init, H!Init, Hw!Arguments, H!Arguments, Hw!Hsfs, H!Hsfs, Hw!MaxBlock, H!MaxBlock,
       Hw!NoCycle, H!NoCycle, Hw!kFcycleRead, H!kFcycleRead

\* And so are its steps.
LEMMA SameSteps ==
  /\ Hw!Call => H!Call
  /\ Hw!CheckIdle => H!CheckIdle
  /\ Hw!ReadStatus => H!ReadStatus
  /\ Hw!ClearStatus => H!ClearStatus
  /\ Hw!SetAddress => H!SetAddress
  /\ Hw!ReadControl => H!ReadControl
  /\ Hw!StartCycle => H!StartCycle
  /\ Hw!Poll => H!Poll
  /\ Hw!CopyFdata => H!CopyFdata
  /\ Hw!BlockRead => H!BlockRead
  /\ Hw!Finish => H!Finish
  /\ Hw!FinishCycle => H!FinishCycle
  /\ Hw!ForeignClear => H!ForeignClear
  /\ Hw!StartForeignCycle => H!StartForeignCycle
<1> USE DEF Hw!Return, H!Return, Hw!ctlVars, H!ctlVars, Hw!progVars, H!progVars
<1>1. Hw!Call => H!Call BY DEF Hw!Call, H!Call, Hw!MaxBlock, H!MaxBlock
<1>2. Hw!CheckIdle => H!CheckIdle BY DEF Hw!CheckIdle, H!CheckIdle
<1>3. Hw!ReadStatus => H!ReadStatus
  BY DEF Hw!ReadStatus, H!ReadStatus, Hw!More, H!More, Hw!Clear, H!Clear
<1>4. Hw!ClearStatus => H!ClearStatus
  BY DEF Hw!ClearStatus, H!ClearStatus, Hw!StatusAfterStore, H!StatusAfterStore,
         Hw!Cleared, H!Cleared
<1>5. Hw!SetAddress => H!SetAddress
  BY DEF Hw!SetAddress, H!SetAddress, Hw!LinearAddress, H!LinearAddress
<1>6. Hw!StartCycle => H!StartCycle
  BY DEF Hw!StartCycle, H!StartCycle, Hw!FlashCycle, H!FlashCycle, Hw!FlashCycleGo,
         H!FlashCycleGo, Hw!SmiEnable, H!SmiEnable, Hw!NoCycle, H!NoCycle, Hw!kFcycleRead, H!kFcycleRead
<1>7. Hw!Poll => H!Poll BY DEF Hw!Poll, H!Poll
<1>8. Hw!CopyFdata => H!CopyFdata BY DEF Hw!CopyFdata, H!CopyFdata
<1>9. Hw!BlockRead => H!BlockRead
  BY DEF Hw!BlockRead, H!BlockRead, Hw!Exact, H!Exact, Hw!NextAddress, H!NextAddress
<1>10. Hw!Finish => H!Finish BY DEF Hw!Finish, H!Finish, Hw!More, H!More
<1>11. Hw!FinishCycle => H!FinishCycle
  BY DEF Hw!FinishCycle, H!FinishCycle, Hw!NoCycle, H!NoCycle, Hw!kFcycleRead, H!kFcycleRead
<1>12. Hw!StartForeignCycle => H!StartForeignCycle
  BY DEF Hw!StartForeignCycle, H!StartForeignCycle, Hw!NoCycle, H!NoCycle, Hw!kFcycleRead,
         H!kFcycleRead, Hw!kFcycleWrite, H!kFcycleWrite, Hw!kFcycleBlockErase, H!kFcycleBlockErase
<1>13. Hw!ForeignClear => H!ForeignClear
  BY DEF Hw!ForeignClear, H!ForeignClear, Hw!Clear, H!Clear
<1>14. Hw!ReadControl => H!ReadControl BY DEF Hw!ReadControl, H!ReadControl
<1> QED BY <1>1, <1>2, <1>3, <1>4, <1>5, <1>6, <1>7, <1>8, <1>9, <1>10, <1>11, <1>12, <1>13, <1>14

\* What PawnMain does before the call leaves the call's variables alone.
LEMMA PrepareSteps == Prepare => UNCHANGED <<readerVars, localVars, controllerVars>>
BY DEF Prepare, ParseArguments, CreatePci, CreateChipset, MapRootComplex, CheckBootStraps,
       CheckDescriptor, OpenDump, CheckCycle

\* Every step is one of the call or of the controller, or leaves both alone.
LEMMA CallSteps == [SystemNext]_systemVars => [H!Next]_(H!vars)
<1> SUFFICES ASSUME [SystemNext]_systemVars PROVE H!Next \/ UNCHANGED H!vars
  OBVIOUS
<1> USE DEF H!Next, H!Program
<1>1. CASE UNCHANGED <<readerVars, localVars, controllerVars>>
  BY <1>1 DEF readerVars, localVars, controllerVars, H!vars, H!progVars, H!ctlVars
<1>2. CASE Prepare BY <1>1, <1>2, PrepareSteps
<1>3. CASE CallReader \/ FindBusy \/ HandOver \/ CallReturns
  BY <1>3, SameSteps DEF CallReader, FindBusy, HandOver, CallReturns
<1>4. CASE ReadRegisters BY <1>4, SameSteps DEF ReadRegisters
<1>5. CASE Controller BY <1>5, SameSteps DEF Controller
<1>6. CASE UNCHANGED systemVars BY <1>1, <1>6 DEF systemVars
<1> QED BY <1>2, <1>3, <1>4, <1>5, <1>6 DEF SystemNext

\* The call's invariant, with the arguments PawnMain passes.
SystemInv == H!ReaderInv /\ arg \in DumpArguments

\* It holds at first, whatever the firmware left in the controller.
LEMMA SystemInvInit ==
  ASSUME ClearOn \in {"zero", "one"}, MaxForeign \in Nat
  PROVE  SystemInit => SystemInv
BY SameInit, CallAssumption, H!ReaderInvInit DEF SystemInit, SystemInv, Init, Reader!Init

\* No step of the call changes its arguments.
LEMMA ArgumentsKept == [H!Next]_(H!vars) => arg' = arg
BY DEF H!Next, H!Program, H!Call, H!CheckIdle, H!ReadStatus, H!Finish, H!ClearStatus, H!SetAddress,
       H!ReadControl, H!StartCycle, H!Poll, H!BlockReadError, H!CopyFdata, H!BlockRead, H!FinishCycle,
       H!ForeignClear, H!StartForeignCycle, H!vars, H!progVars

\* Every step keeps it.
LEMMA SystemInvStep ==
  ASSUME ClearOn = "zero", MaxForeign = 0
  PROVE  SystemInv /\ [SystemNext]_systemVars => SystemInv'
<1> SUFFICES ASSUME SystemInv, [SystemNext]_systemVars PROVE SystemInv'
  OBVIOUS
<1>1. [H!Next]_(H!vars) BY CallSteps
<1>2. H!ReaderInv' BY <1>1, CallAssumption, H!ReaderInvStep DEF SystemInv
<1>3. arg' \in DumpArguments' BY <1>1, ArgumentsKept DEF SystemInv, DumpArguments, kMaxFlash, kBlockSize
<1> QED BY <1>2, <1>3 DEF SystemInv

\* The abstract reader of HwSequencing takes the steps of the one of PawnMain.
LEMMA SameReader ==
  /\ H!Reader!Call => Reader!Call
  /\ H!Reader!Unavailable => Reader!Unavailable
  /\ H!Reader!Deliver => Reader!Deliver
  /\ H!Reader!Finish => Reader!Finish
<1> USE DEF H!Reader!Remaining, Reader!Remaining, H!Reader!Position, Reader!Position
<1>1. H!Reader!Call => Reader!Call
  <2>1. H!MaxBlock = 64 BY DEF H!MaxBlock
  <2>2. H!Reader!Valid(arg) <=> Reader!Valid(arg)
    BY <2>1 DEF H!Reader!Valid, Reader!Valid
  <2> QED BY <2>2 DEF H!Reader!Call, Reader!Call
<1>2. H!Reader!Unavailable => Reader!Unavailable
  BY DEF H!Reader!Unavailable, Reader!Unavailable
<1>3. H!Reader!Deliver => Reader!Deliver
  BY DEF H!Reader!Deliver, Reader!Deliver, H!Reader!InRange, Reader!InRange
<1>4. H!Reader!Finish => Reader!Finish
  BY DEF H!Reader!Finish, Reader!Finish
<1> QED BY <1>1, <1>2, <1>3, <1>4

\* Every step is one of PawnMain, or one that PawnMain does not see.
LEMMA SystemStep ==
  ASSUME ClearOn \in {"zero", "one"}, MaxForeign \in Nat
  PROVE  SystemInv /\ [SystemNext]_systemVars => [Next]_vars
<1> SUFFICES ASSUME SystemInv, [SystemNext]_systemVars PROVE Next \/ UNCHANGED vars
  OBVIOUS
<1>0. /\ H!Reader!Next \/ UNCHANGED H!Reader!vars
      /\ log \in Seq(H!Entry)
      /\ "block_read_error" \notin arg.callbacks
      /\ rpc = "call" => result = "none"
      /\ rpc \notin {"call", "returned"} => result = "running"
  <2>1. H!TypeInv /\ H!OrderInv /\ H!CycleInv /\ H!ResultInv /\ foreign = 0
    BY DEF SystemInv, H!ReaderInv
  <2>2. [H!Reader!Next]_(H!Reader!vars) BY <2>1, CallSteps, CallAssumption, H!ReaderStep
  <2>3. log \in Seq(H!Entry) BY <2>1 DEF H!TypeInv, H!TypeOK, H!HistoryTypeOK
  <2>4. "block_read_error" \notin arg.callbacks BY DEF SystemInv, DumpArguments
  <2>5. /\ rpc = "call" => result = "none"
        /\ rpc \notin {"call", "returned"} => result = "running"
    BY <2>1 DEF H!ResultInv, H!Running
  <2> QED BY <2>2, <2>3, <2>4, <2>5
<1>1. CASE Prepare BY <1>1 DEF Prepare, Next
<1>2. CASE CallReader
  <2>1. result = "none" /\ result' # "none"
    BY <1>0, <1>2 DEF CallReader, Hw!Call, Hw!Return
  <2>2. H!Reader!Call
    BY <1>0, <2>1 DEF H!Reader!Next, H!Reader!vars, H!Reader!Unavailable, H!Reader!Deliver,
                      H!Reader!Abandon, H!Reader!Finish
  <2>3. StartReading BY <1>2, <2>2, SameReader DEF CallReader, StartReading, mainVars
  <2> QED BY <2>3 DEF Next
<1>3. CASE FindBusy
  <2>1. result = "running" /\ result' = "unavailable"
    BY <1>0, <1>3 DEF FindBusy, Hw!CheckIdle
  <2>2. H!Reader!Unavailable
    BY <1>0, <2>1 DEF H!Reader!Next, H!Reader!vars, H!Reader!Call, H!Reader!Deliver,
                      H!Reader!Abandon, H!Reader!Finish
  <2>3. ReaderUnavailable BY <1>3, <2>2, SameReader DEF FindBusy, ReaderUnavailable
  <2> QED BY <2>3 DEF Next
<1>4. CASE ReadRegisters
  <2>1. UNCHANGED readerVars
    <3>1. CASE Hw!CheckIdle /\ result' = "running"
      BY <1>0, <3>1 DEF Hw!CheckIdle, readerVars
    <3>2. CASE \/ Hw!ReadStatus \/ Hw!ClearStatus \/ Hw!SetAddress \/ Hw!ReadControl
               \/ Hw!StartCycle \/ Hw!Poll \/ Hw!CopyFdata
      BY <3>2 DEF Hw!ReadStatus, Hw!ClearStatus, Hw!SetAddress, Hw!ReadControl, Hw!StartCycle, Hw!Poll,
                  Hw!CopyFdata, readerVars
    <3> QED BY <1>4, <3>1, <3>2 DEF ReadRegisters
  <2> QED BY <1>4, <2>1 DEF ReadRegisters, mainVars, vars
<1>5. CASE HandOver
  <2>1. PICK block : log' = Append(log, block) BY <1>5 DEF HandOver, Hw!BlockRead
  <2>2. Len(log') = Len(log) + 1 /\ Len(log) \in Nat BY <1>0, <2>1
  <2>3. log' # log BY <2>2
  <2>4. H!Reader!Deliver
    BY <1>0, <2>3 DEF H!Reader!Next, H!Reader!vars, H!Reader!Call, H!Reader!Unavailable,
                      H!Reader!Abandon, H!Reader!Finish
  <2>5. BlockRead BY <1>5, <2>4, SameReader DEF HandOver, BlockRead
  <2> QED BY <2>5 DEF Next
<1>6. CASE CallReturns
  <2>1. result = "running" /\ result' = "ok" /\ log' = log
    BY <1>0, <1>6 DEF CallReturns, Hw!Finish, Hw!Return
  <2>2. ~H!Reader!Deliver
    <3> SUFFICES ASSUME H!Reader!Deliver PROVE FALSE
      OBVIOUS
    <3>1. PICK block : log' = Append(log, block) BY DEF H!Reader!Deliver
    <3>2. Len(log') = Len(log) + 1 /\ Len(log) \in Nat BY <1>0, <3>1
    <3> QED BY <2>1, <3>2
  <2>3. H!Reader!Finish
    BY <1>0, <2>1, <2>2 DEF H!Reader!Next, H!Reader!vars, H!Reader!Call, H!Reader!Unavailable,
                            H!Reader!Abandon
  <2>4. FinishReading BY <1>6, <2>3, SameReader DEF CallReturns, FinishReading
  <2> QED BY <2>4 DEF Next
<1>7. CASE Controller
  BY <1>7 DEF Controller, Hw!FinishCycle, Hw!ForeignClear, Hw!StartForeignCycle, Hw!progVars,
              mainVars, readerVars, vars
<1>8. CASE UNCHANGED systemVars
  BY <1>8 DEF systemVars, mainVars, vars
<1> QED BY <1>1, <1>2, <1>3, <1>4, <1>5, <1>6, <1>7, <1>8 DEF SystemNext

\* If a store of zero clears the status bits and nobody else uses the controller, the
\* program with the registers it drives does what PawnMain does with the caller's view
\* of the reader, register accesses and the controller's steps apart.
THEOREM SystemImplementsMain ==
  ASSUME ClearOn = "zero", MaxForeign = 0
  PROVE  SystemSpec => Spec
<1>1. SystemInit => Init BY DEF SystemInit
<1>2. SystemInv /\ [SystemNext]_systemVars => SystemInv' BY SystemInvStep
<1>3. SystemInit => SystemInv BY SystemInvInit
<1>4. SystemInv /\ [SystemNext]_systemVars => [Next]_vars BY SystemStep
<1> QED BY <1>1, <1>2, <1>3, <1>4, PTL DEF SystemSpec, Spec

\* Hence it saves the image: with every register access and every state the firmware
\* may have left, a success without a failed write means a file with the bytes of the
\* flash wherever they could be read; until a write fails the file and the stream are
\* what was read, and a block is never there twice.
THEOREM SystemSavesImage ==
  ASSUME ClearOn = "zero", MaxForeign = 0
  PROVE  SystemSpec => [](SavedImage /\ DumpIsPrefix /\ BlocksAscend)
BY SystemImplementsMain, ImageIsSaved, DumpStaysPrefix, BlocksStayAscending, PTL

-----------------------------------------------------------------------------
(* What holds whatever clears the status bits and whatever other users     *)
(* do: the blocks may be wrong, but they are saved in order.               *)

OrderSystemInv == H!TypeInv /\ H!OrderInv /\ ControlInv /\ DumpOrder

\* The step of the call that hands a block over gives the callback the next block.
LEMMA NextBlock ==
  ASSUME H!TypeInv, H!OrderInv, DumpOrder, Hw!BlockRead
  PROVE  \E b \in Block : /\ log' = Append(log, b) /\ b.address = Len(log) * kBlockSize
                          /\ b.bytes = kBlockSize /\ Len(log) < FlashBlocks /\ arg' = arg
<1> DEFINE b == [address |-> cur_flash_address, exact |-> Hw!Exact(cur_flash_address, buf),
                 bytes |-> Len(buf), fault |-> fault, reported |-> reported]
<1>1. log' = Append(log, b) /\ arg' = arg /\ rpc = "deliver" BY DEF Hw!BlockRead
<1>2. b \in Block
  <2>1. cur_flash_address \in Int /\ Len(buf) \in Nat
    BY DEF H!TypeInv, H!TypeOK, H!CallTypeOK
  <2>2. fault \in BOOLEAN /\ reported \in BOOLEAN
    BY DEF H!TypeInv, H!TypeOK, H!CallTypeOK, H!ControllerTypeOK
  <2>3. Hw!Exact(cur_flash_address, buf) \in BOOLEAN BY Zenon DEF Hw!Exact
  <2> QED BY <2>1, <2>2, <2>3 DEF Block
<1>3. /\ cur_flash_address = arg.flash_address + Len(log) * arg.block_size
      /\ Len(log) * arg.block_size < arg.size
  BY <1>1 DEF H!OrderInv, H!Progress, H!Running
<1>4. /\ arg.flash_address = 0 /\ arg.size = FlashBlocks * 64 /\ arg.block_size = 64
      /\ Len(log) \in Nat /\ FlashBlocks \in Nat /\ kBlockSize = 64
  BY MainAssumption, LenProperties DEF DumpOrder, DumpArguments, kMaxFlash, kBlockSize
<1>5. b.address = Len(log) * kBlockSize /\ Len(log) < FlashBlocks BY <1>3, <1>4
<1>6. b.bytes = kBlockSize
  <2>1. b.bytes = 4 * (64 \div 4) BY <1>1, <1>4 DEF H!TypeInv, H!Copied
  <2> QED BY <1>4, <2>1
<1> HIDE DEF b
<1> QED BY <1>1, <1>2, <1>5, <1>6

\* Every step keeps the order.
LEMMA OrderSystemStep ==
  ASSUME ClearOn \in {"zero", "one"}, MaxForeign \in Nat
  PROVE  OrderSystemInv /\ [SystemNext]_systemVars => OrderSystemInv'
<1> SUFFICES ASSUME OrderSystemInv, [SystemNext]_systemVars PROVE OrderSystemInv'
  OBVIOUS
<1> USE DEF OrderSystemInv
<1>0. H!TypeInv' /\ H!OrderInv' BY CallSteps, CallAssumption, H!TypeStep, H!OrderStep
<1>1. CASE Prepare
  <2>1. ControlInv' BY <1>1, ControlStep DEF Prepare, Next
  <2>2. DumpOrder' BY <1>1, EarlyDumpStep, OpenDumpStep DEF Prepare
  <2> QED BY <1>0, <2>1, <2>2
<1>2. CASE CallReader \/ FindBusy \/ ReadRegisters
  <2>1. /\ pc = "read" /\ UNCHANGED <<machine, class, window, dumpVars>>
        /\ UNCHANGED <<pc, exit>> \/ Exit("failed check")
    BY <1>2 DEF CallReader, FindBusy, ReadRegisters, mainVars
  <2>2. UNCHANGED <<arg, log>>
    BY <1>2 DEF CallReader, FindBusy, ReadRegisters, Hw!Call, Hw!CheckIdle, Hw!ReadStatus,
                Hw!ClearStatus, Hw!SetAddress, Hw!ReadControl, Hw!StartCycle, Hw!Poll, Hw!CopyFdata
  <2>3. ControlInv' BY <2>1, ReadingKeepsControl DEF Exit
  <2>4. DumpOrder' BY <2>1, <2>2, CallStep
  <2> QED BY <1>0, <2>3, <2>4
<1>3. CASE HandOver
  <2>1. /\ pc = "read" /\ Hw!BlockRead /\ SaveBlock(log'[Len(log')])
        /\ UNCHANGED <<machine, class, window>>
    BY <1>3 DEF HandOver
  <2>2. UNCHANGED <<pc, exit>> \/ (pc' = "exited" /\ exit' = "aborted")
    BY <2>1 DEF SaveBlock, WriteBlock, WriteFailed, Exit
  <2>3. ControlInv' BY <2>1, <2>2, ReadingKeepsControl
  <2>4. PICK b \in Block : /\ log' = Append(log, b) /\ b.address = Len(log) * kBlockSize
                          /\ b.bytes = kBlockSize /\ Len(log) < FlashBlocks /\ arg' = arg
    BY <2>1, NextBlock
  <2>5. DumpOrder' BY <2>1, <2>4, SaveBlockStep
  <2> QED BY <1>0, <2>3, <2>5
<1>4. CASE CallReturns
  <2>1. /\ pc = "read" /\ Hw!Finish /\ Exit("success") /\ AtExit
        /\ UNCHANGED <<machine, class, window>>
    BY <1>4 DEF CallReturns
  <2>2. /\ rpc = "loop" /\ ~(cur_flash_address < arg.flash_address + arg.size)
        /\ UNCHANGED <<arg, log>>
    BY <2>1 DEF Hw!Finish, Hw!More
  <2>3. cur_flash_address = Reader!Position
    BY <2>2 DEF H!OrderInv, H!Progress, Reader!Position
  <2>4. ~Reader!Remaining BY <2>2, <2>3 DEF Reader!Remaining
  <2>5. ControlInv' BY <2>1, ReadingKeepsControl DEF Exit
  <2>6. DumpOrder' BY <2>1, <2>2, <2>4, FinishStep
  <2> QED BY <1>0, <2>5, <2>6
<1>5. CASE Controller \/ UNCHANGED systemVars
  <2>1. UNCHANGED vars
    BY <1>5 DEF Controller, Hw!FinishCycle, Hw!ForeignClear, Hw!StartForeignCycle, Hw!progVars,
                systemVars, mainVars, readerVars, vars
  <2> QED BY <1>0, <2>1, ControlStep, EarlyDumpStep
<1> QED BY <1>1, <1>2, <1>3, <1>4, <1>5 DEF SystemNext

\* Whatever clears the status bits and whatever cycles other users start, a
\* success without a failed write means a file with every block of the flash in its
\* place; the file is a prefix of the blocks read until a write fails, in order even
\* then, and an earlier dump is lost only on a machine whose flash can be read.
THEOREM SystemKeepsOrder ==
  ASSUME ClearOn \in {"zero", "one"}, MaxForeign \in Nat
  PROVE  SystemSpec => [](BlocksInPlace /\ DumpIsPrefix /\ BlocksAscend /\ OldDumpKept)
<1>1. SystemInit => OrderSystemInv
  <2> SUFFICES ASSUME SystemInit PROVE OrderSystemInv
    OBVIOUS
  <2>1. H!Init BY SameInit DEF SystemInit
  <2>2. H!TypeInv BY <2>1, CallAssumption, H!TypeInit
  <2>3. H!OrderInv BY <2>1, CallAssumption, H!OrderInit
  <2>4. ControlInv /\ DumpOrder BY ControlInit, DumpInit DEF SystemInit
  <2> QED BY <2>2, <2>3, <2>4 DEF OrderSystemInv
<1>2. OrderSystemInv /\ [SystemNext]_systemVars => OrderSystemInv' BY OrderSystemStep
<1>3. OrderSystemInv => BlocksInPlace /\ DumpIsPrefix /\ BlocksAscend /\ OldDumpKept
  <2> SUFFICES ASSUME ControlInv, DumpOrder
               PROVE  BlocksInPlace /\ DumpIsPrefix /\ BlocksAscend /\ OldDumpKept
    BY DEF OrderSystemInv
  <2>1. DumpIsPrefix /\ OldDumpKept BY DEF ControlInv, DumpOrder
  <2>2. BlocksAscend BY OrderAscends
  <2>3. BlocksInPlace
    <3> SUFFICES ASSUME exit = "success", faults = 0
                 PROVE  /\ Len(file) = FlashBlocks
                        /\ \A i \in DOMAIN file : file[i].address = (i - 1) * kBlockSize
      BY DEF BlocksInPlace
    <3>1. file = log BY FileIsLog
    <3> QED BY <3>1, LenProperties DEF DumpOrder
  <2> QED BY <2>1, <2>2, <2>3
<1> QED BY <1>1, <1>2, <1>3, PTL DEF SystemSpec

\* Whatever clears the status bits and whatever other users read, write or erase, no
\* cycle of the program's changes the flash and the program does not lock its
\* configuration, from its start to its end.
THEOREM SystemLeavesFlash ==
  ASSUME ClearOn \in {"zero", "one"}, MaxForeign \in Nat
  PROVE  SystemSpec => []FlashIntact /\ LockdownKept
<1>1. SystemInit => H!Init BY SameInit DEF SystemInit
<1>2. SystemSpec => H!Spec BY <1>1, CallSteps, PTL DEF SystemSpec, H!Spec
<1>3. H!SequencingAssumption BY CallAssumption
<1>4. H!Spec => []H!FlashIntact BY <1>3, H!FlashStaysIntact
<1>5. H!FlashIntact => FlashIntact BY DEF H!FlashIntact, FlashIntact
<1>6. H!Spec => H!LockdownKept BY <1>3, H!LockdownStays
<1> DEFINE Kept == status'.flash_configuration_lockdown = status.flash_configuration_lockdown
<1>7. [Kept]_(H!vars) => [Kept]_systemVars
  BY DEF H!vars, H!ctlVars
<1>8. H!LockdownKept => LockdownKept
  BY <1>7, PTL DEF H!LockdownKept, LockdownKept
<1> QED BY <1>2, <1>4, <1>5, <1>6, <1>8, PTL
====
