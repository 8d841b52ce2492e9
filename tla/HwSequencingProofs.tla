---- MODULE HwSequencingProofs ----
(***************************************************************************)
(* Proofs about ReadSpiWithHardwareSequencing (module HwSequencing), for   *)
(* any arguments and any number of data registers.                         *)
(***************************************************************************)
EXTENDS HwSequencing, SequenceTheorems, TLAPS

-----------------------------------------------------------------------------
(* Types.  The data registers read stay within the 16 there are because    *)
(* the buffer is filled four bytes at a time up to the block size.         *)

\* The call is past its checks and has not returned.
Running == pc \notin {"call", "returned"}

\* The argument checks hold wherever the call relies on them.
Checked == Running => arg.block_size \in 4 .. MaxBlock

\* How much of the block has been copied.
Copied ==
  /\ pc \notin {"copy", "deliver"} => buf = <<>> \/ pc = "returned"
  /\ pc = "copy" => \E q \in Nat : Len(buf) = 4 * q /\ q < arg.block_size \div 4
  /\ pc = "deliver" => Len(buf) = 4 * (arg.block_size \div 4)

TypeInv == TypeOK /\ Checked /\ Copied

\* A remainder modulo the span of FADDR fits FADDR.
LEMMA ModType == ASSUME NEW a \in Int PROVE a % FlaSpan \in 0 .. FlaSpan - 1
BY SequencingAssumption

\* The largest block has at least one data register.
LEMMA BlockLimit == MaxBlock \in Nat /\ MaxBlock >= 4
BY SequencingAssumption DEF MaxBlock

\* The arguments are integers.
LEMMA ArgumentTypes ==
  ASSUME arg \in Arguments
  PROVE  arg.flash_address \in Int /\ arg.size \in Int /\ arg.block_size \in Int
BY SequencingAssumption DEF Arguments

\* The initial state has the declared types.
LEMMA TypeInit == Init => TypeInv
<1> SUFFICES ASSUME Init PROVE TypeInv
  OBVIOUS
<1> USE SequencingAssumption DEF Init
<1>1. CallTypeOK /\ HistoryTypeOK
  <2>1. pc \in Locations /\ cur_flash_address \in Int BY DEF Locations
  <2>2. hsfs \in Hsfs /\ hsfc \in BOOLEAN /\ reported \in BOOLEAN OBVIOUS
  <2>3. buf \in Seq(Int) /\ log \in Seq(Entry) OBVIOUS
  <2> QED BY <2>1, <2>2, <2>3 DEF CallTypeOK, HistoryTypeOK
<1>2. RegisterTypeOK
  BY BlockLimit DEF RegisterTypeOK
<1>3. ControllerTypeOK
  <2> DEFINE T == [owner : {"nobody", "foreign", "pawn"}, address : 0 .. FlaSpan - 1,
                   count : 0 .. MaxBlock, kind : 0 .. 3]
  <2>1. NoCycle \in T BY BlockLimit DEF NoCycle, kFcycleRead
  <2>2. [NoCycle EXCEPT !.owner = "foreign", !.kind = fcycle] \in T
    BY BlockLimit DEF NoCycle, kFcycleRead
  <2>3. cycle \in T BY <2>1, <2>2
  <2> QED BY <2>3 DEF ControllerTypeOK
<1>4. Checked /\ Copied
  BY DEF Checked, Copied, Running
<1> QED BY <1>1, <1>2, <1>3, <1>4 DEF TypeInv, TypeOK

\* Every step keeps them.
LEMMA TypeStep == TypeInv /\ [Next]_vars => TypeInv'
<1> SUFFICES ASSUME TypeInv, [Next]_vars PROVE TypeInv'
  OBVIOUS
<1> USE DEF TypeInv, TypeOK
<1>0. arg.flash_address \in Int /\ arg.size \in Int /\ arg.block_size \in Int
  BY ArgumentTypes DEF CallTypeOK
<1>a. UNCHANGED ctlVars => RegisterTypeOK' /\ ControllerTypeOK'
  BY DEF ctlVars, RegisterTypeOK, ControllerTypeOK
<1>b. UNCHANGED progVars => CallTypeOK' /\ HistoryTypeOK' /\ Checked' /\ Copied'
  BY DEF progVars, CallTypeOK, HistoryTypeOK, Checked, Copied, Running
<1>1. CASE Call
  <2>1. CallTypeOK' BY <1>1 DEF Call, Return, CallTypeOK, Locations
  <2>2. HistoryTypeOK' BY <1>1 DEF Call, Return, HistoryTypeOK
  <2>3. Checked'
    <3>1. pc' = "entry" => ~(arg.block_size < 4 \/ arg.block_size > MaxBlock)
      BY <1>1 DEF Call, Return
    <3>2. pc' \in {"entry", "returned"} /\ arg' = arg BY <1>1 DEF Call, Return
    <3> QED BY <1>0, <3>1, <3>2, BlockLimit DEF Checked, Running
  <2>4. Copied' BY <1>1 DEF Call, Return, Copied
  <2> QED BY <1>1, <1>a, <2>1, <2>2, <2>3, <2>4 DEF Call
<1>2. CASE CheckIdle
  <2>1. CallTypeOK' BY <1>0, <1>2 DEF CheckIdle, Return, CallTypeOK, Locations, RegisterTypeOK
  <2>2. HistoryTypeOK' BY <1>2 DEF CheckIdle, Return, HistoryTypeOK
  <2>3. Checked' /\ Copied' BY <1>2 DEF CheckIdle, Return, Checked, Copied, Running
  <2> QED BY <1>2, <1>a, <2>1, <2>2, <2>3 DEF CheckIdle
<1>3. CASE ReadStatus
  <2>1. CallTypeOK' BY <1>3 DEF ReadStatus, Clear, CallTypeOK, Locations, RegisterTypeOK, Hsfs
  <2>2. HistoryTypeOK' BY <1>3 DEF ReadStatus, HistoryTypeOK
  <2>3. Checked' /\ Copied' BY <1>3 DEF ReadStatus, Checked, Copied, Running
  <2> QED BY <1>3, <1>a, <2>1, <2>2, <2>3 DEF ReadStatus
<1>4. CASE Finish
  <2>1. CallTypeOK' BY <1>4 DEF Finish, Return, CallTypeOK, Locations
  <2>2. HistoryTypeOK'
    <3>0. ("block_read_done" \in arg.callbacks) \in BOOLEAN OBVIOUS
    <3>1. done' \in BOOLEAN BY <1>4, <3>0 DEF Finish
    <3> QED BY <1>4, <3>1 DEF Finish, Return, HistoryTypeOK
  <2>3. Checked' /\ Copied' BY <1>4 DEF Finish, Return, Checked, Copied, Running
  <2> QED BY <1>4, <1>a, <2>1, <2>2, <2>3 DEF Finish
<1>5. CASE ClearStatus
  <2>1. CallTypeOK' /\ HistoryTypeOK'
    BY <1>5 DEF ClearStatus, CallTypeOK, HistoryTypeOK, Locations
  <2>2. RegisterTypeOK'
    BY <1>5 DEF ClearStatus, StatusAfterStore, Cleared, RegisterTypeOK, Hsfs
  <2>3. ControllerTypeOK' BY <1>5 DEF ClearStatus, ControllerTypeOK
  <2>4. Checked' /\ Copied' BY <1>5 DEF ClearStatus, Checked, Copied, Running
  <2> QED BY <2>1, <2>2, <2>3, <2>4
<1>6. CASE SetAddress
  <2>1. CallTypeOK' /\ HistoryTypeOK'
    BY <1>6 DEF SetAddress, CallTypeOK, HistoryTypeOK, Locations
  <2>2. RegisterTypeOK' BY <1>6, ModType DEF SetAddress, LinearAddress, RegisterTypeOK, CallTypeOK
  <2>3. ControllerTypeOK' BY <1>6 DEF SetAddress, ControllerTypeOK
  <2>4. Checked' /\ Copied' BY <1>6 DEF SetAddress, Checked, Copied, Running
  <2> QED BY <2>1, <2>2, <2>3, <2>4
<1>15. CASE ReadControl
  <2>1. CallTypeOK' BY <1>15 DEF ReadControl, CallTypeOK, Locations, RegisterTypeOK
  <2>2. HistoryTypeOK' BY <1>15 DEF ReadControl, HistoryTypeOK
  <2>3. Checked' /\ Copied' BY <1>15 DEF ReadControl, Checked, Copied, Running
  <2> QED BY <1>15, <1>a, <2>1, <2>2, <2>3 DEF ReadControl
<1>7. CASE StartCycle
  <2>1. CallTypeOK' /\ HistoryTypeOK'
    BY <1>7 DEF StartCycle, CallTypeOK, HistoryTypeOK, Locations
  <2>2. fdbc' \in 0 .. MaxBlock - 1 /\ fdbc' + 1 \in 0 .. MaxBlock
    BY <1>0, <1>7, BlockLimit DEF StartCycle, Checked, Running
  <2>3. RegisterTypeOK'
    <3>1. status' \in Hsfs BY <1>7 DEF StartCycle, FlashCycle, FlashCycleGo, RegisterTypeOK, Hsfs
    <3>2. fsmie' \in BOOLEAN BY <1>7 DEF StartCycle, SmiEnable, CallTypeOK
    <3> QED BY <1>7, <2>2, <3>1, <3>2
        DEF StartCycle, FlashCycle, FlashCycleGo, RegisterTypeOK, kFcycleRead
  <2>4. ControllerTypeOK'
    BY <1>7, <2>2 DEF StartCycle, FlashCycle, FlashCycleGo, ControllerTypeOK, RegisterTypeOK, kFcycleRead
  <2>5. Checked' /\ Copied' BY <1>7 DEF StartCycle, Checked, Copied, Running
  <2> QED BY <2>1, <2>3, <2>4, <2>5
<1>8. CASE Poll
  <2>1. CallTypeOK' BY <1>8 DEF Poll, CallTypeOK, Locations, RegisterTypeOK
  <2>2. HistoryTypeOK' BY <1>8 DEF Poll, HistoryTypeOK
  <2>3. Checked' BY <1>8 DEF Poll, Checked, Running
  <2>4. Copied' BY <1>0, <1>8, BlockLimit DEF Poll, Checked, Copied, Running
  <2> QED BY <1>8, <1>a, <2>1, <2>2, <2>3, <2>4 DEF Poll
<1>9. CASE BlockReadError
  <2>1. CallTypeOK' BY <1>9 DEF BlockReadError, Return, CallTypeOK, Locations
  <2>2. HistoryTypeOK' BY <1>9 DEF BlockReadError, Return, HistoryTypeOK
  <2>3. Checked' BY <1>9 DEF BlockReadError, Return, Checked, Running
  <2>4. Copied' BY <1>0, <1>9, BlockLimit DEF BlockReadError, Return, Checked, Copied, Running
  <2> QED BY <1>9, <1>a, <2>1, <2>2, <2>3, <2>4 DEF BlockReadError
<1>10. CASE CopyFdata
  <2>1. PICK q \in Nat : Len(buf) = 4 * q /\ q < arg.block_size \div 4
    BY <1>10 DEF CopyFdata, Copied
  <2>2. Len(buf) + 3 \in 0 .. MaxBlock - 1
    BY <1>0, <1>10, <2>1, BlockLimit DEF CopyFdata, Checked, Running
  <2>3. buf' \in Seq(Int) /\ Len(buf') = Len(buf) + 4
    <3> DEFINE i == Len(buf)
    <3> DEFINE four == <<fdata[i], fdata[i + 1], fdata[i + 2], fdata[i + 3]>>
    <3>1. i \in Nat BY DEF CallTypeOK
    <3>2. fdata[i] \in Int /\ fdata[i + 1] \in Int /\ fdata[i + 2] \in Int /\ fdata[i + 3] \in Int
      BY <2>2, <3>1, BlockLimit DEF RegisterTypeOK
    <3>3. four \in Seq(Int) /\ Len(four) = 4 BY <3>2
    <3>4. buf' = buf \o four BY <1>10 DEF CopyFdata
    <3> HIDE DEF four
    <3>5. buf \in Seq(Int) BY DEF CallTypeOK
    <3>6. buf \o four \in Seq(Int) /\ Len(buf \o four) = Len(buf) + Len(four)
      BY <3>3, <3>5, ConcatProperties
    <3> QED BY <3>3, <3>4, <3>6
  <2>4. CallTypeOK' BY <1>10, <2>3 DEF CopyFdata, CallTypeOK, Locations
  <2>5. HistoryTypeOK' BY <1>10 DEF CopyFdata, HistoryTypeOK
  <2>6. Checked' BY <1>10 DEF CopyFdata, Checked, Running
  <2>7. Copied'
    <3>1. Len(buf') = 4 * (q + 1) /\ q + 1 \in Nat BY <2>1, <2>3
    <3>2. arg' = arg /\ pc' = IF Len(buf) + 4 = 4 * (arg.block_size \div 4) THEN "deliver" ELSE "copy"
      BY <1>10 DEF CopyFdata
    <3>3. pc' = "copy" => q + 1 < arg.block_size \div 4 BY <1>0, <2>1, <3>2
    <3>4. pc' = "deliver" => Len(buf') = 4 * (arg'.block_size \div 4) BY <2>3, <3>2
    <3>5. pc' \in {"copy", "deliver"} BY <3>2
    <3> QED BY <3>1, <3>2, <3>3, <3>4, <3>5 DEF Copied
  <2> QED BY <1>10, <1>a, <2>4, <2>5, <2>6, <2>7 DEF CopyFdata
<1>11. CASE BlockRead
  <2>1. CallTypeOK'
    <3>1. buf' \in Seq(Int) BY <1>11 DEF BlockRead
    <3>2. cur_flash_address' \in Int BY <1>0, <1>11 DEF BlockRead, NextAddress, CallTypeOK
    <3>3. pc' \in Locations BY <1>11 DEF BlockRead, Return, Locations
    <3> QED BY <1>11, <3>1, <3>2, <3>3 DEF BlockRead, CallTypeOK
  <2>2. HistoryTypeOK'
    <3> DEFINE e == [address |-> cur_flash_address, exact |-> Exact(cur_flash_address, buf),
                     bytes |-> Len(buf), fault |-> fault, reported |-> reported]
    <3>1. Exact(cur_flash_address, buf) \in BOOLEAN BY Zenon DEF Exact
    <3>2. e \in Entry BY <3>1 DEF Entry, CallTypeOK, ControllerTypeOK
    <3>3. log' = Append(log, e) BY <1>11 DEF BlockRead
    <3> HIDE DEF e
    <3>4. log' \in Seq(Entry) BY <3>2, <3>3, AppendProperties DEF HistoryTypeOK
    <3>5. done' = done /\ result' \in {result, "ok"} BY <1>11 DEF BlockRead, Return
    <3> QED BY <3>4, <3>5 DEF HistoryTypeOK
  <2>3. Checked' /\ Copied' BY <1>11 DEF BlockRead, Return, Checked, Copied, Running
  <2> QED BY <1>11, <1>a, <2>1, <2>2, <2>3 DEF BlockRead
<1>12. CASE FinishCycle
  <2>1. RegisterTypeOK'
    <3>1. status' \in Hsfs BY <1>12 DEF FinishCycle, RegisterTypeOK, Hsfs
    <3>2. fdata' \in [0 .. MaxBlock - 1 -> Int]
      <4>1. ASSUME NEW k \in 0 .. MaxBlock - 1 PROVE (cycle.address + k) % FlaSpan \in Int
        BY ModType, SequencingAssumption, BlockLimit DEF ControllerTypeOK
      <4> QED BY <1>12, <4>1 DEF FinishCycle, RegisterTypeOK
    <3> QED BY <1>12, <3>1, <3>2 DEF FinishCycle, RegisterTypeOK
  <2>2. ControllerTypeOK'
    BY <1>12, BlockLimit, SequencingAssumption DEF FinishCycle, ControllerTypeOK, NoCycle, kFcycleRead
  <2> QED BY <1>12, <1>b, <2>1, <2>2 DEF FinishCycle
<1>13. CASE StartForeignCycle
  <2>1. RegisterTypeOK'
    <3>1. status' \in Hsfs BY <1>13 DEF StartForeignCycle, RegisterTypeOK, Hsfs
    <3>2. fcycle' \in 0 .. 3
      BY <1>13 DEF StartForeignCycle, kFcycleRead, kFcycleWrite, kFcycleBlockErase
    <3>3. fdata' \in [0 .. MaxBlock - 1 -> Int] BY <1>13 DEF StartForeignCycle, RegisterTypeOK
    <3> QED BY <1>13, <3>1, <3>2, <3>3, BlockLimit, SequencingAssumption
        DEF StartForeignCycle, RegisterTypeOK
  <2>2. ControllerTypeOK'
    BY <1>13, BlockLimit, SequencingAssumption
    DEF StartForeignCycle, ControllerTypeOK, kFcycleRead, kFcycleWrite, kFcycleBlockErase
  <2> QED BY <1>13, <1>b, <2>1, <2>2 DEF StartForeignCycle
<1>16. CASE ForeignClear
  <2>1. RegisterTypeOK'
    <3>1. status' \in Hsfs BY <1>16 DEF ForeignClear, Clear, RegisterTypeOK, Hsfs
    <3> QED BY <1>16, <3>1 DEF ForeignClear, RegisterTypeOK
  <2>2. ControllerTypeOK'
    <3>1. status.flash_cycle_done \in BOOLEAN BY DEF RegisterTypeOK, Hsfs
    <3>2. wiped' \in BOOLEAN BY <1>16, <3>1 DEF ForeignClear, ControllerTypeOK
    <3> QED BY <1>16, <3>2 DEF ForeignClear, ControllerTypeOK
  <2> QED BY <1>16, <1>b, <2>1, <2>2 DEF ForeignClear
<1>14. CASE UNCHANGED vars
  BY <1>14, <1>a, <1>b DEF vars
<1> QED BY <1>1, <1>2, <1>3, <1>4, <1>5, <1>6, <1>7, <1>8, <1>9, <1>10, <1>11, <1>12,
           <1>13, <1>14, <1>15, <1>16 DEF Next, Program

\* The locals, the history of callbacks, the registers and the controller have
\* their types in every reachable state; in particular the copy of the data
\* registers never leaves them.
THEOREM TypeCorrect == Spec => []TypeOK
<1>1. TypeInv => TypeOK BY DEF TypeInv
<1> QED BY <1>1, TypeInit, TypeStep, PTL DEF Spec

\* The stronger form the proofs below use.
LEMMA TypeInvariant == Spec => []TypeInv
BY TypeInit, TypeStep, PTL DEF Spec

-----------------------------------------------------------------------------
(* The call leaves the flash and its lock-down alone.                      *)

\* A cycle of the call's is a read.
ReadsOnly == (cycle.owner = "pawn" => cycle.kind = kFcycleRead) /\ intact = TRUE

\* Every cycle the call starts is a read cycle, whatever kind the firmware or another
\* user has left in the control register: no cycle of its own changes the flash.
THEOREM FlashStaysIntact == Spec => []FlashIntact
<1>1. Init => ReadsOnly
  BY DEF Init, ReadsOnly, NoCycle
<1>2. TypeInv /\ ReadsOnly /\ [Next]_vars => ReadsOnly'
  <2> SUFFICES ASSUME ReadsOnly, [Next]_vars PROVE ReadsOnly'
    OBVIOUS
  <2> USE DEF ReadsOnly
  <2>1. CASE UNCHANGED <<cycle, intact>> BY <2>1
  <2>2. CASE StartCycle BY <2>2 DEF StartCycle, FlashCycle, FlashCycleGo
  <2>3. CASE FinishCycle BY <2>3 DEF FinishCycle, NoCycle
  <2>4. CASE StartForeignCycle BY <2>4 DEF StartForeignCycle
  <2> QED
    BY <2>1, <2>2, <2>3, <2>4 DEF Next, Program, Call, CheckIdle, ReadStatus, Finish, ClearStatus,
       SetAddress, ReadControl, ForeignClear, Poll, BlockReadError, CopyFdata, BlockRead, vars, ctlVars
<1>3. ReadsOnly => FlashIntact BY DEF ReadsOnly, FlashIntact
<1> QED BY <1>1, <1>2, <1>3, TypeInvariant, PTL DEF Spec

\* The lock-down bit about to be stored is the one the register holds.
LockdownCopied ==
  pc = "clear" => hsfs.flash_configuration_lockdown = status.flash_configuration_lockdown

\* The call never changes FLOCKDN.
THEOREM LockdownStays == Spec => LockdownKept
<1> DEFINE lock == status.flash_configuration_lockdown
<1>1. Init => LockdownCopied
  BY DEF Init, LockdownCopied
<1>2. TypeInv /\ LockdownCopied /\ [Next]_vars => LockdownCopied' /\ lock' = lock
  <2> SUFFICES ASSUME TypeInv, LockdownCopied, [Next]_vars PROVE LockdownCopied' /\ lock' = lock
    OBVIOUS
  <2>0. status \in Hsfs BY DEF TypeInv, TypeOK, RegisterTypeOK
  <2>1. CASE UNCHANGED status /\ pc' # "clear" BY <2>1 DEF LockdownCopied
  <2>2. CASE ReadStatus BY <2>0, <2>2 DEF ReadStatus, Clear, LockdownCopied, ctlVars, Hsfs
  <2>3. CASE ClearStatus
    BY <2>0, <2>3 DEF ClearStatus, StatusAfterStore, LockdownCopied, Hsfs
  <2>4. CASE StartCycle BY <2>0, <2>4 DEF StartCycle, FlashCycle, FlashCycleGo, LockdownCopied, Hsfs
  <2>5. CASE FinishCycle BY <2>0, <2>5 DEF FinishCycle, LockdownCopied, Hsfs, progVars
  <2>6. CASE StartForeignCycle BY <2>0, <2>6 DEF StartForeignCycle, LockdownCopied, Hsfs, progVars
  <2>7. CASE UNCHANGED vars BY <2>7 DEF vars, progVars, ctlVars, LockdownCopied
  <2>8. CASE ForeignClear BY <2>0, <2>8 DEF ForeignClear, Clear, LockdownCopied, Hsfs, progVars
  <2> QED
    BY <2>1, <2>2, <2>3, <2>4, <2>5, <2>6, <2>7, <2>8 DEF Next, Program, Call, CheckIdle, Finish, Return,
       SetAddress, ReadControl, Poll, BlockReadError, CopyFdata, BlockRead, ctlVars
<1>3. TypeInv /\ LockdownCopied /\ [Next]_vars =>
        [status'.flash_configuration_lockdown = status.flash_configuration_lockdown]_vars
  BY <1>2
<1>4. TypeInv /\ LockdownCopied /\ [Next]_vars => LockdownCopied'
  BY <1>2
<1> HIDE DEF lock
<1> QED BY <1>1, <1>3, <1>4, TypeInvariant, PTL DEF Spec, LockdownKept

\* The FSMIE about to be stored is the one the register holds, unless another user
\* has been there.
SmiEnableCopied == Undisturbed /\ pc = "go" => hsfc = fsmie

\* The call never changes FSMIE, although it reads and stores the register in two
\* steps, unless another user of the controller comes between.
THEOREM SmiEnableStays == Spec => SmiEnableKept
<1>1. Init => SmiEnableCopied BY DEF Init, SmiEnableCopied
<1>2. TypeInv /\ SmiEnableCopied /\ [Next]_vars =>
        SmiEnableCopied' /\ (Undisturbed' => fsmie' = fsmie)
  <2> SUFFICES ASSUME TypeInv, SmiEnableCopied, [Next]_vars
               PROVE  SmiEnableCopied' /\ (Undisturbed' => fsmie' = fsmie)
    OBVIOUS
  <2> USE DEF Undisturbed, SmiEnableCopied
  <2>0. foreign \in Nat BY DEF TypeInv, TypeOK, ControllerTypeOK
  <2>1. CASE UNCHANGED <<fsmie, foreign>> /\ pc' # "go" BY <2>1
  <2>2. CASE UNCHANGED <<fsmie, foreign, pc, hsfc>> BY <2>2
  <2>3. CASE ReadControl BY <2>3 DEF ReadControl, ctlVars
  <2>4. CASE StartCycle BY <2>4 DEF StartCycle, SmiEnable
  <2>5. CASE ForeignClear \/ StartForeignCycle
    <3>1. foreign' = foreign + 1 BY <2>5 DEF ForeignClear, StartForeignCycle
    <3> QED BY <2>0, <3>1
  <2> QED
    BY <2>1, <2>2, <2>3, <2>4, <2>5 DEF Next, Program, Call, CheckIdle, ReadStatus, Finish, Return,
       ClearStatus, SetAddress, Poll, BlockReadError, CopyFdata, BlockRead, FinishCycle, vars, progVars,
       ctlVars
<1>3. TypeInv /\ SmiEnableCopied /\ [Next]_vars => [Undisturbed' => fsmie' = fsmie]_vars BY <1>2
<1>4. TypeInv /\ SmiEnableCopied /\ [Next]_vars => SmiEnableCopied' BY <1>2
<1> QED BY <1>1, <1>3, <1>4, TypeInvariant, PTL DEF Spec, SmiEnableKept

-----------------------------------------------------------------------------
(* The blocks come in order.                                               *)

\* Division without remainder.
LEMMA ExactDivision ==
  ASSUME NEW a \in Int, NEW b \in Nat \ {0}, a % b = 0
  PROVE  a \div b \in Int /\ a = (a \div b) * b
OBVIOUS

\* A positive factor on both sides of an inequality cancels.
LEMMA CancelFactor ==
  ASSUME NEW a \in Int, NEW c \in Int, NEW b \in Nat \ {0}, a * b < c * b
  PROVE  a < c
OBVIOUS

\* If n blocks reach the end of the range and one less did not, they make up
\* the range exactly, because its size is a multiple of the block size.
LEMMA WholeRange ==
  ASSUME NEW n \in Nat, NEW b \in Nat \ {0}, NEW size \in Nat, size % b = 0,
         ~(n * b < size), n = 0 \/ (n - 1) * b < size
  PROVE  n * b = size
<1> DEFINE q == size \div b
<1>1. q \in Int /\ size = q * b BY ExactDivision
<1> HIDE DEF q
<1>2. CASE n = 0 BY <1>2
<1>3. CASE (n - 1) * b < size
  <2>1. n - 1 < q BY <1>1, <1>3, CancelFactor
  <2>2. ~(n < q) BY <1>1
  <2> QED BY <1>1, <2>1, <2>2
<1> QED BY <1>2, <1>3

\* One more block.
LEMMA OneMore == ASSUME NEW n \in Int, NEW b \in Int PROVE (n + 1) * b = n * b + b
OBVIOUS

\* The address of the loop follows from the number of blocks handed over, and
\* the loop condition held for each of them.
Progress ==
  /\ pc \in {"call", "entry"} => log = <<>>
  /\ pc \notin {"call", "entry", "returned"} =>
       cur_flash_address = arg.flash_address + Len(log) * arg.block_size
  /\ Running /\ pc \notin {"entry", "loop"} => Len(log) * arg.block_size < arg.size
  /\ pc = "loop" => log = <<>> \/ (Len(log) - 1) * arg.block_size < arg.size
  /\ Running => arg.size % arg.block_size = 0
  /\ pc # "returned" => done = FALSE

OrderInv == Progress /\ BlocksInOrder

\* They hold before the first block.
LEMMA OrderInit == Init => OrderInv
BY DEF Init, OrderInv, Progress, BlocksInOrder, Running

\* Every step keeps them.
LEMMA OrderStep == TypeInv /\ OrderInv /\ [Next]_vars => OrderInv'
<1> SUFFICES ASSUME TypeInv, OrderInv, [Next]_vars PROVE OrderInv'
  OBVIOUS
<1> USE DEF OrderInv
<1>0. /\ arg \in Arguments /\ log \in Seq(Entry) /\ done \in BOOLEAN
      /\ arg.flash_address \in Int /\ arg.size \in Int /\ arg.block_size \in Int
  BY ArgumentTypes DEF TypeInv, TypeOK, CallTypeOK, HistoryTypeOK
<1>a. Running => arg.block_size \in Nat \ {0}
  BY <1>0, BlockLimit DEF TypeInv, Checked
<1>b. UNCHANGED <<arg, log, done>> => BlocksInOrder'
  BY DEF BlocksInOrder
<1>1. CASE Call
  <2>1. Progress'
    BY <1>0, <1>1 DEF Call, Return, Progress, Running
  <2> QED BY <1>1, <1>b, <2>1 DEF Call
<1>2. CASE CheckIdle
  <2>1. Progress'
    BY <1>0, <1>2 DEF CheckIdle, Return, Progress, Running
  <2> QED BY <1>2, <1>b, <2>1 DEF CheckIdle
<1>3. CASE ReadStatus
  <2>1. Progress'
    BY <1>0, <1>a, <1>3 DEF ReadStatus, More, Progress, Running
  <2> QED BY <1>3, <1>b, <2>1 DEF ReadStatus
<1>4. CASE Finish
  <2>1. Progress'
    BY <1>0, <1>4 DEF Finish, Return, Progress, Running
  <2>2. arg.size >= 0 => Len(log) * arg.block_size = arg.size
    <3> SUFFICES ASSUME arg.size >= 0 PROVE Len(log) * arg.block_size = arg.size
      OBVIOUS
    <3>1. Running /\ ~More BY <1>4 DEF Finish, Running
    <3>2. cur_flash_address = arg.flash_address + Len(log) * arg.block_size
      BY <1>4 DEF Finish, Progress
    <3>3. Len(log) \in Nat /\ Len(log) * arg.block_size \in Int BY <1>0
    <3>4. ~(Len(log) * arg.block_size < arg.size) BY <1>0, <3>1, <3>2, <3>3 DEF More
    <3>5. Len(log) = 0 \/ (Len(log) - 1) * arg.block_size < arg.size
      BY <1>4 DEF Finish, Progress
    <3>6. arg.size % arg.block_size = 0 BY <3>1 DEF Progress
    <3>7. arg.size \in Nat /\ arg.block_size \in Nat \ {0} BY <1>0, <1>a, <3>1
    <3> QED BY <3>3, <3>4, <3>5, <3>6, <3>7, WholeRange
  <2>3. BlocksInOrder' BY <1>4, <2>2 DEF Finish, BlocksInOrder
  <2> QED BY <2>1, <2>3
<1>5. CASE BlockRead
  <2> DEFINE e == [address |-> cur_flash_address, exact |-> Exact(cur_flash_address, buf),
                   bytes |-> Len(buf), fault |-> fault, reported |-> reported]
  <2>1. log' = Append(log, e) /\ arg' = arg /\ done' = FALSE
    BY <1>5 DEF BlockRead, NextAddress, Progress
  <2>2. e.address = arg.flash_address + Len(log) * arg.block_size
    BY <1>5 DEF BlockRead, NextAddress, Progress
  <2> HIDE DEF e
  <2>3. Len(log) \in Nat /\ Len(log') = Len(log) + 1
    BY <1>0, <2>1
  <2>4. BlocksInOrder'
    <3> SUFFICES ASSUME NEW i \in 1 .. Len(log) + 1
                 PROVE log'[i].address = arg.flash_address + (i - 1) * arg.block_size
      BY <1>0, <2>1, <2>3 DEF BlocksInOrder
    <3>1. CASE i \in 1 .. Len(log)
      BY <1>0, <2>1, <3>1 DEF BlocksInOrder
    <3>2. CASE i = Len(log) + 1
      BY <1>0, <2>1, <2>2, <2>3, <3>2
    <3> QED BY <2>3, <3>1, <3>2
  <2>5. Progress'
    <3>1. Len(log) * arg.block_size < arg.size
      BY <1>5 DEF BlockRead, NextAddress, Progress, Running
    <3>2. Len(log') * arg.block_size = Len(log) * arg.block_size + arg.block_size
      <4>1. Len(log) \in Int /\ arg.block_size \in Int BY <1>0, <2>3
      <4>2. (Len(log) + 1) * arg.block_size = Len(log) * arg.block_size + arg.block_size
        BY <4>1, OneMore
      <4> QED BY <2>3, <4>2
    <3>3. pc' = "loop" => cur_flash_address' = arg.flash_address + Len(log') * arg.block_size
      BY <1>0, <1>5, <2>3, <3>2 DEF BlockRead, NextAddress, Return, Progress
    <3>4. Len(log') - 1 = Len(log)
      BY <2>3
    <3> QED BY <1>5, <2>1, <3>1, <3>3, <3>4 DEF BlockRead, NextAddress, Return, Progress, Running
  <2> QED BY <2>4, <2>5
<1>6. CASE ClearStatus \/ SetAddress \/ ReadControl \/ StartCycle \/ Poll \/ BlockReadError \/ CopyFdata
  <2>1. /\ UNCHANGED <<arg, cur_flash_address, log, done>>
        /\ pc \in {"clear", "address", "control", "go", "poll", "error", "copy"}
        /\ pc' \in {"address", "control", "go", "poll", "error", "copy", "deliver", "returned"}
    BY <1>6 DEF ClearStatus, SetAddress, ReadControl, StartCycle, Poll, BlockReadError, CopyFdata, Return
  <2>2. Progress' BY <2>1 DEF Progress, Running
  <2> QED BY <1>b, <2>1, <2>2
<1>7. CASE UNCHANGED progVars
  <2>1. Progress' BY <1>7 DEF progVars, Progress, Running
  <2> QED BY <1>7, <1>b, <2>1 DEF progVars
<1> QED BY <1>1, <1>2, <1>3, <1>4, <1>5, <1>6, <1>7
        DEF Next, Program, FinishCycle, ForeignClear, StartForeignCycle, vars

\* Whatever the controller and its other users do, the blocks are handed over in
\* order without gap or repetition, and block_read_done is called only after the
\* whole range.
THEOREM InOrder == Spec => []BlocksInOrder
<1>1. OrderInv => BlocksInOrder BY DEF OrderInv
<1> QED BY <1>1, OrderInit, OrderStep, TypeInvariant, PTL DEF Spec

-----------------------------------------------------------------------------
(* What the end of the call depends on.                                    *)

\* The busy-wait loop waits for nothing only after another user's store in HSFS has
\* taken away an FDONE the call had not seen yet, whatever clears the status bits and
\* however many cycles, of whatever kind, other users start.
THEOREM NeverWaitsInVain == Spec => []WaitsForCycle
<1>1. Init => WaitsForCycle BY DEF Init, WaitsForCycle
<1>2. TypeInv /\ WaitsForCycle /\ [Next]_vars => WaitsForCycle'
  <2> SUFFICES ASSUME TypeInv, WaitsForCycle, [Next]_vars PROVE WaitsForCycle'
    OBVIOUS
  <2>0. status \in Hsfs BY DEF TypeInv, TypeOK, RegisterTypeOK
  <2>1. CASE pc' # "poll" BY <2>1 DEF WaitsForCycle
  <2>2. CASE StartCycle
    BY <2>0, <2>2 DEF StartCycle, FlashCycleGo, NoCycle, WaitsForCycle
  <2>3. CASE Poll BY <2>3 DEF Poll, ctlVars, WaitsForCycle
  <2>4. CASE FinishCycle BY <2>0, <2>4 DEF FinishCycle, progVars, Hsfs, WaitsForCycle
  <2>5. CASE StartForeignCycle BY <2>0, <2>5 DEF StartForeignCycle, progVars, Hsfs, NoCycle, WaitsForCycle
  <2>6. CASE UNCHANGED vars BY <2>6 DEF vars, progVars, ctlVars, WaitsForCycle
  <2>7. CASE ForeignClear BY <2>7 DEF ForeignClear, progVars, WaitsForCycle
  <2> QED
    BY <2>1, <2>2, <2>3, <2>4, <2>5, <2>6, <2>7 DEF Next, Program, Call, CheckIdle, ReadStatus,
       Finish, ClearStatus, SetAddress, ReadControl, BlockReadError, CopyFdata, BlockRead, Return
<1> QED BY <1>1, <1>2, TypeInvariant, PTL DEF Spec

\* The buffer never holds more than the largest block.
BufferBound == pc \in {"copy", "deliver"} => Len(buf) <= 64

\* The range is not exhausted while a block is in progress.
BytesLeft == arg.flash_address + arg.size - cur_flash_address
BlockBound == pc \in {"clear", "address", "control", "go", "poll", "error", "copy", "deliver"} => BytesLeft > 0

WorkInv == BufferBound /\ BlockBound

\* A register more is copied only as long as the block has room for it.
LEMMA CopyBound ==
  ASSUME TypeInv, CopyFdata
  PROVE  Len(buf) \in Nat /\ Len(buf') = Len(buf) + 4 /\ Len(buf) + 4 <= 64
<1>1. /\ arg.block_size \in Int /\ arg.block_size <= 64 /\ buf \in Seq(Int)
  BY ArgumentTypes, SequencingAssumption
     DEF TypeInv, TypeOK, CallTypeOK, Checked, Running, CopyFdata, MaxBlock
<1>2. PICK q \in Nat : Len(buf) = 4 * q /\ q < arg.block_size \div 4
  BY DEF TypeInv, Copied, CopyFdata
<1>3. 4 * q + 4 <= 64 BY <1>1, <1>2
<1> DEFINE four == <<fdata[Len(buf)], fdata[Len(buf) + 1], fdata[Len(buf) + 2], fdata[Len(buf) + 3]>>
<1>4. buf' = buf \o four /\ Len(four) = 4 BY DEF CopyFdata
<1>5. four \in Seq(Int)
  <2>1. fdata \in [0 .. MaxBlock - 1 -> Int] BY DEF TypeInv, TypeOK, RegisterTypeOK
  <2>2. arg.block_size <= MaxBlock /\ MaxBlock \in Nat
    BY BlockLimit DEF TypeInv, Checked, Running, CopyFdata
  <2>3. 4 * q + 3 <= MaxBlock - 1 BY <1>1, <1>2, <2>2
  <2> QED BY <1>2, <2>1, <2>2, <2>3
<1> HIDE DEF four
<1>6. buf \in Seq(Int) BY <1>1
<1>7. Len(buf \o four) = Len(buf) + Len(four) BY <1>5, <1>6, ConcatProperties
<1> QED BY <1>2, <1>3, <1>4, <1>7

\* Every step keeps these bounds.
LEMMA WorkStep == TypeInv /\ WorkInv /\ [Next]_vars => WorkInv'
<1> SUFFICES ASSUME TypeInv, WorkInv, [Next]_vars PROVE WorkInv'
  OBVIOUS
<1> USE DEF WorkInv, BufferBound, BlockBound, BytesLeft
<1>0. /\ arg.flash_address \in Int /\ arg.size \in Int /\ cur_flash_address \in Int
  BY ArgumentTypes DEF TypeInv, TypeOK, CallTypeOK
<1>1. CASE pc' \in {"entry", "loop", "returned"} BY <1>1
<1>2. CASE ReadStatus BY <1>0, <1>2 DEF ReadStatus, More
<1>3. CASE ClearStatus \/ SetAddress \/ ReadControl \/ StartCycle
  BY <1>3 DEF ClearStatus, SetAddress, ReadControl, StartCycle
<1>4. CASE (Poll \/ BlockReadError) /\ pc' # "returned"
  <2>1. /\ UNCHANGED <<arg, cur_flash_address, buf>> /\ pc \in {"poll", "error"}
        /\ pc' \in {"poll", "error", "copy"}
    BY <1>4 DEF Poll, BlockReadError, Return
  <2>2. buf = <<>> BY <2>1 DEF TypeInv, Copied
  <2>3. Len(<<>>) = 0 OBVIOUS
  <2> QED BY <2>1, <2>2, <2>3
<1>5. CASE CopyFdata
  <2>1. Len(buf') <= 64 BY <1>5, CopyBound
  <2>2. UNCHANGED <<arg, cur_flash_address>> /\ pc = "copy" /\ pc' \in {"copy", "deliver"}
    BY <1>5 DEF CopyFdata
  <2> QED BY <2>1, <2>2
<1>6. CASE UNCHANGED progVars BY <1>6 DEF progVars
<1> QED
  BY <1>1, <1>2, <1>3, <1>4, <1>5, <1>6 DEF Next, Program, Call, CheckIdle, Finish, Return,
     BlockReadError, BlockRead, FinishCycle, ForeignClear, StartForeignCycle, vars

\* What is left to do, place by place.
Bound(bytes) == IF bytes > 0 THEN 73 * bytes ELSE 0
WorkTable ==
  /\ pc = "returned" => WorkLeft = 0
  /\ pc = "call" => WorkLeft = Bound(arg.size) + 3
  /\ pc = "entry" => WorkLeft = Bound(arg.size) + 2
  /\ pc = "loop" => WorkLeft = Bound(BytesLeft) + 1
  /\ pc = "clear" => WorkLeft = Bound(BytesLeft)
  /\ pc = "address" => WorkLeft = Bound(BytesLeft) - 1
  /\ pc = "control" => WorkLeft = Bound(BytesLeft) - 2
  /\ pc = "go" => WorkLeft = Bound(BytesLeft) - 3
  /\ pc = "poll" => WorkLeft = Bound(BytesLeft) - 4
  /\ pc = "error" => WorkLeft = Bound(BytesLeft) - 5
  /\ pc = "copy" => WorkLeft = Bound(BytesLeft) - 6 - Len(buf)
  /\ pc = "deliver" => WorkLeft = Bound(BytesLeft) - 7 - Len(buf)

\* That is what WorkLeft says.
LEMMA WorkAt == TypeInv => WorkTable
<1> SUFFICES ASSUME TypeInv PROVE WorkTable
  OBVIOUS
<1>1. /\ arg.flash_address \in Int /\ arg.size \in Int /\ cur_flash_address \in Int /\ Len(buf) \in Nat
  BY ArgumentTypes DEF TypeInv, TypeOK, CallTypeOK
<1>2. Bound(BytesLeft) \in Int BY <1>1 DEF BytesLeft, Bound
<1>3. /\ pc = "returned" => WorkLeft = 0
      /\ pc = "call" => WorkLeft = Bound(arg.size) + 3
      /\ pc = "entry" => WorkLeft = Bound(arg.size) + 2
  BY DEF WorkLeft, Bound
<1>4. pc \notin {"returned", "call", "entry"} => WorkLeft = Bound(BytesLeft) + 1 - InBlock
  BY DEF WorkLeft, BytesLeft, Bound
<1>5. /\ (pc = "loop" => InBlock = 0) /\ (pc = "clear" => InBlock = 1) /\ (pc = "address" => InBlock = 2)
      /\ (pc = "control" => InBlock = 3) /\ (pc = "go" => InBlock = 4) /\ (pc = "poll" => InBlock = 5)
      /\ (pc = "error" => InBlock = 6) /\ (pc = "copy" => InBlock = 7 + Len(buf))
      /\ (pc = "deliver" => InBlock = 8 + Len(buf))
  BY DEF InBlock
<1>6. /\ pc = "loop" => WorkLeft = Bound(BytesLeft) + 1
      /\ pc = "clear" => WorkLeft = Bound(BytesLeft)
      /\ pc = "address" => WorkLeft = Bound(BytesLeft) - 1
      /\ pc = "control" => WorkLeft = Bound(BytesLeft) - 2
      /\ pc = "go" => WorkLeft = Bound(BytesLeft) - 3
      /\ pc = "poll" => WorkLeft = Bound(BytesLeft) - 4
      /\ pc = "error" => WorkLeft = Bound(BytesLeft) - 5
      /\ pc = "copy" => WorkLeft = Bound(BytesLeft) - 6 - Len(buf)
      /\ pc = "deliver" => WorkLeft = Bound(BytesLeft) - 7 - Len(buf)
  BY <1>1, <1>2, <1>4, <1>5
<1> QED BY <1>3, <1>6 DEF WorkTable

\* Every step of the call but an idle poll leaves less to do, and only finitely
\* much is left at any time: together with NeverWaitsInVain, only a controller that
\* does not end a cycle, or another user that clears an FDONE the call has not seen,
\* can keep the call from returning.
THEOREM WorkIsBounded == Spec => BoundedWork
<1>1. Init => WorkInv BY DEF Init, WorkInv, BufferBound, BlockBound
<1>2. TypeInv' => WorkTable' BY WorkAt, PTL
<1>3. TypeInv /\ TypeInv' /\ WorkInv /\ [Next]_vars =>
        [\/ pc = "poll" /\ ~status.flash_cycle_done
         \/ UNCHANGED progVars
         \/ WorkLeft' \in 0 .. WorkLeft - 1]_vars
  <2> SUFFICES ASSUME TypeInv, TypeInv', WorkInv, Next,
                      ~(pc = "poll" /\ ~status.flash_cycle_done), ~UNCHANGED progVars
               PROVE  WorkLeft' \in 0 .. WorkLeft - 1
    OBVIOUS
  <2>0. /\ arg.flash_address \in Int /\ arg.size \in Int /\ arg.block_size \in Int
        /\ cur_flash_address \in Int /\ Len(buf) \in Nat /\ BytesLeft \in Int
    BY ArgumentTypes DEF TypeInv, TypeOK, CallTypeOK, BytesLeft
  <2>a. WorkTable /\ WorkTable' BY <1>2, WorkAt
  <2>b. ASSUME NEW n \in Int PROVE Bound(n) \in Nat /\ (n > 0 => Bound(n) >= 73 /\ Bound(n) = 73 * n)
    BY DEF Bound
  <2>c. /\ Bound(BytesLeft) \in Nat /\ (BytesLeft > 0 => Bound(BytesLeft) >= 73)
        /\ Bound(arg.size) \in Nat
    BY <2>0, <2>b
  <2>1. CASE pc # "returned" /\ pc' = "returned"
    <3>1. WorkLeft' = 0 BY <2>1, <2>a DEF WorkTable
    <3>2. WorkLeft \in Nat /\ WorkLeft > 0
      <4>1. pc \in Locations \ {"returned"} BY <2>1 DEF TypeInv, TypeOK, CallTypeOK
      <4>2. pc \in {"clear", "address", "control", "go", "poll", "error", "copy", "deliver"} => Bound(BytesLeft) >= 73
        BY <2>c DEF WorkInv, BlockBound
      <4>3. pc \in {"copy", "deliver"} => Len(buf) <= 64 BY DEF WorkInv, BufferBound
      <4>4. CASE pc \in {"call", "entry", "loop"} BY <2>0, <2>a, <2>c, <4>4 DEF WorkTable
      <4>5. CASE pc \in {"clear", "address", "control", "go", "poll", "error"} BY <2>0, <2>a, <2>c, <4>2, <4>5 DEF WorkTable
      <4>6. CASE pc \in {"copy", "deliver"} BY <2>0, <2>a, <2>c, <4>2, <4>3, <4>6 DEF WorkTable
      <4> QED BY <4>1, <4>4, <4>5, <4>6 DEF Locations
    <3> QED BY <3>1, <3>2
  <2>2. CASE Call /\ pc' # "returned"
    <3>1. pc = "call" /\ pc' = "entry" /\ arg' = arg BY <2>2 DEF Call, Return
    <3> QED BY <2>a, <2>c, <3>1 DEF WorkTable
  <2>3. CASE CheckIdle /\ pc' # "returned"
    <3>1. pc = "entry" /\ pc' = "loop" /\ arg' = arg /\ cur_flash_address' = arg.flash_address
      BY <2>3 DEF CheckIdle, Return
    <3>2. BytesLeft' = arg.size BY <2>0, <3>1 DEF BytesLeft
    <3> QED BY <2>a, <2>c, <3>1, <3>2 DEF WorkTable
  <2>4. CASE UNCHANGED <<arg, cur_flash_address>> /\ pc' # "returned" /\
             (ReadStatus \/ ClearStatus \/ SetAddress \/ ReadControl \/ StartCycle \/ Poll
              \/ BlockReadError)
    <3>1. BytesLeft' = BytesLeft BY <2>4 DEF BytesLeft
    <3>2. \/ pc = "loop" /\ pc' = "clear" /\ More
          \/ pc = "clear" /\ pc' = "address"
          \/ pc = "address" /\ pc' = "control"
          \/ pc = "control" /\ pc' = "go"
          \/ pc = "go" /\ pc' = "poll"
          \/ pc = "poll" /\ pc' = "error"
          \/ pc \in {"poll", "error"} /\ pc' = "copy" /\ buf' = buf
      <4>1. CASE Poll BY <2>4, <4>1 DEF Poll
      <4>2. CASE BlockReadError BY <2>4, <4>2 DEF BlockReadError, Return
      <4>3. CASE ReadStatus \/ ClearStatus \/ SetAddress \/ ReadControl \/ StartCycle
        BY <4>3 DEF ReadStatus, ClearStatus, SetAddress, ReadControl, StartCycle
      <4> QED BY <2>4, <4>1, <4>2, <4>3
    <3>3. BytesLeft > 0
      <4>1. CASE More BY <2>0, <4>1 DEF More, BytesLeft
      <4> QED BY <3>2, <4>1 DEF WorkInv, BlockBound
    <3>4. pc \in {"poll", "error"} => Len(buf) = 0 BY DEF TypeInv, Copied
    <3>5. Bound(BytesLeft) \in Nat /\ Bound(BytesLeft) >= 73 BY <2>c, <3>3
    <3>6. CASE pc' = "copy"
      <4>1. WorkLeft \in {Bound(BytesLeft) - 4, Bound(BytesLeft) - 5} BY <2>a, <3>2, <3>6 DEF WorkTable
      <4>2. Len(buf) = 0 /\ buf' = buf BY <3>2, <3>4, <3>6
      <4>3. WorkLeft' = Bound(BytesLeft) - 6 - Len(buf) BY <2>a, <3>1, <3>6, <4>2 DEF WorkTable
      <4> QED BY <3>5, <4>1, <4>2, <4>3
    <3>7. CASE pc' # "copy"
      <4>1. \/ WorkLeft = Bound(BytesLeft) + 1 /\ WorkLeft' = Bound(BytesLeft)
            \/ WorkLeft = Bound(BytesLeft) /\ WorkLeft' = Bound(BytesLeft) - 1
            \/ WorkLeft = Bound(BytesLeft) - 1 /\ WorkLeft' = Bound(BytesLeft) - 2
            \/ WorkLeft = Bound(BytesLeft) - 2 /\ WorkLeft' = Bound(BytesLeft) - 3
            \/ WorkLeft = Bound(BytesLeft) - 3 /\ WorkLeft' = Bound(BytesLeft) - 4
            \/ WorkLeft = Bound(BytesLeft) - 4 /\ WorkLeft' = Bound(BytesLeft) - 5
        BY <2>a, <3>1, <3>2, <3>7 DEF WorkTable
      <4> QED BY <3>5, <4>1
    <3> QED BY <3>6, <3>7
  <2>5. CASE CopyFdata
    <3>1. pc = "copy" /\ pc' \in {"copy", "deliver"} /\ BytesLeft' = BytesLeft
      BY <2>5 DEF CopyFdata, BytesLeft
    <3>2. BytesLeft > 0 BY <3>1 DEF WorkInv, BlockBound
    <3>3. Len(buf') = Len(buf) + 4 /\ Len(buf) + 4 <= 64 BY <2>5, CopyBound
    <3> QED BY <2>0, <2>a, <2>c, <3>1, <3>2, <3>3 DEF WorkTable
  <2>6. CASE BlockRead /\ pc' # "returned"
    <3>1. pc = "deliver" /\ pc' = "loop" /\ arg' = arg /\ cur_flash_address' = cur_flash_address + arg.block_size
      BY <2>6 DEF BlockRead, NextAddress, Return
    <3>2. arg.block_size >= 4 BY <2>0, <3>1, BlockLimit DEF TypeInv, Checked, Running
    <3>3. BytesLeft' = BytesLeft - arg.block_size
      <4>1. BytesLeft' = arg.flash_address + arg.size - (cur_flash_address + arg.block_size)
        BY <3>1 DEF BytesLeft
      <4> QED BY <2>0, <4>1 DEF BytesLeft
    <3>4. BytesLeft > 0 /\ Len(buf) <= 64 BY <3>1 DEF WorkInv, BlockBound, BufferBound
    <3>5. Bound(BytesLeft') \in Nat /\ Bound(BytesLeft') <= Bound(BytesLeft) - 73
      BY <2>0, <3>2, <3>3, <3>4 DEF Bound
    <3>6. WorkLeft = Bound(BytesLeft) - 7 - Len(buf) /\ WorkLeft' = Bound(BytesLeft') + 1
      BY <2>a, <3>1 DEF WorkTable
    <3>7. ASSUME NEW x \in Nat, NEW y \in Nat, NEW l \in Nat, l <= 64, y <= x - 73
          PROVE  y + 1 \in 0 .. (x - 7 - l) - 1
      BY <3>7
    <3> QED BY <2>0, <2>c, <3>4, <3>5, <3>6, <3>7
  <2> QED
    BY <2>1, <2>2, <2>3, <2>4, <2>5, <2>6 DEF Next, Program, Call, CheckIdle, ReadStatus, Finish, Return,
       ClearStatus, SetAddress, ReadControl, StartCycle, Poll, BlockReadError, BlockRead, FinishCycle,
       ForeignClear, StartForeignCycle
<1> QED BY <1>1, <1>3, WorkStep, TypeInvariant, PTL DEF Spec, BoundedWork

-----------------------------------------------------------------------------
(* The blocks hold the right bytes and errors are attributed to the right  *)
(* block, as long as a store of zero clears a status bit and no other user *)
(* starts a cycle.  FDONE and FCERR say something about the current block  *)
(* only because both are cleared before its cycle starts, and the cycle    *)
(* is the call's own only because the controller was idle.                 *)

OwnCycle == [owner |-> "pawn", address |-> cur_flash_address % FlaSpan,
             count |-> arg.block_size, kind |-> kFcycleRead]

\* The byte of the flash at distance k from the block's address.
FlashByte(k) == ((cur_flash_address % FlaSpan) + k) % FlaSpan

\* The data registers hold the block, unless its cycle failed.
Loaded == fault = FALSE => \A k \in 0 .. arg.block_size - 1 : fdata[k] = FlashByte(k)

InProgressBit == status.spi_cycle_in_progress = (cycle # NoCycle)

Idle == pc \notin {"call", "entry", "poll", "returned"} => cycle = NoCycle

StatusCleared ==
  /\ pc = "clear" => hsfs.flash_cycle_error = FALSE /\ hsfs.flash_cycle_done = FALSE
  /\ pc \in {"address", "control", "go"} => status.flash_cycle_error = FALSE /\ status.flash_cycle_done = FALSE
  /\ pc \in {"control", "go"} => fla = cur_flash_address % FlaSpan

Polling ==
  pc = "poll" =>
    \/ cycle = OwnCycle /\ status.flash_cycle_error = FALSE /\ status.flash_cycle_done = FALSE
    \/ cycle = NoCycle /\ status.flash_cycle_error = fault /\ Loaded

Completed ==
  /\ pc = "error" => Loaded /\ fault = TRUE /\ "block_read_error" \in arg.callbacks
  /\ pc \in {"copy", "deliver"} =>
       /\ Loaded
       /\ reported = (fault /\ "block_read_error" \in arg.callbacks)
       /\ fault = FALSE => \A k \in 1 .. Len(buf) : buf[k] = FlashByte(k - 1)
  /\ pc \notin {"copy", "deliver", "returned"} => reported = FALSE
  /\ pc = "deliver" => Len(buf) = 4 * (arg.block_size \div 4)

Attributed == "block_read_error" \in arg.callbacks => \A i \in DOMAIN log : log[i].reported = log[i].fault
AllExact == InRange => \A i \in DOMAIN log : ~log[i].fault => log[i].exact

CycleInv ==
  foreign = 0 =>
    InProgressBit /\ Idle /\ StatusCleared /\ Polling /\ Completed /\ Attributed /\ AllExact

CycleParts == InProgressBit /\ Idle /\ StatusCleared /\ Polling /\ Completed /\ Attributed /\ AllExact

\* One more block still fits in a range that is a multiple of the block size.
LEMMA NextBlockFits ==
  ASSUME NEW n \in Nat, NEW b \in Nat \ {0}, NEW size \in Int, size % b = 0, n * b < size
  PROVE  n * b + b <= size
<1> DEFINE q == size \div b
<1>1. q \in Int /\ size = q * b BY ExactDivision
<1> HIDE DEF q
<1>2. n < q BY <1>1, CancelFactor
<1>3. (n + 1) * b <= q * b BY <1>1, <1>2
<1> QED BY <1>1, <1>3

\* An address within the flash is not changed by the width of FADDR.
LEMMA SmallRemainder ==
  ASSUME NEW a \in Nat, NEW k \in Nat, a + k < FlaSpan
  PROVE  ((a % FlaSpan) + k) % FlaSpan = a + k
<1>1. FlaSpan \in Nat /\ a < FlaSpan BY SequencingAssumption
<1>2. ASSUME NEW x \in Nat, x < FlaSpan PROVE x % FlaSpan = x BY <1>1, <1>2
<1>3. a % FlaSpan = a BY <1>1, <1>2
<1> QED BY <1>2, <1>3

\* A block about to be handed over, whose cycle succeeded, is the flash's.
LEMMA BlockIsExact ==
  ASSUME TypeInv, OrderInv, CycleParts, pc = "deliver", InRange, fault = FALSE
  PROVE  Exact(cur_flash_address, buf)
<1>0. arg.flash_address \in Int /\ arg.size \in Int /\ arg.block_size \in Int /\ cur_flash_address \in Int
  BY ArgumentTypes DEF TypeInv, TypeOK, CallTypeOK
<1> SUFFICES ASSUME NEW k \in 1 .. Len(buf) PROVE buf[k] = cur_flash_address + k - 1
  BY DEF Exact
<1>1. /\ arg.block_size \in Nat \ {0} /\ arg.size % arg.block_size = 0
      /\ cur_flash_address = arg.flash_address + Len(log) * arg.block_size
      /\ Len(log) * arg.block_size < arg.size
  BY <1>0, BlockLimit DEF OrderInv, Progress, Running, TypeInv, Checked
<1>2. Len(log) \in Nat /\ Len(buf) \in Nat
  <2>1. log \in Seq(Entry) /\ buf \in Seq(Int)
    BY DEF TypeInv, TypeOK, HistoryTypeOK, CallTypeOK
  <2> QED BY <2>1
<1>3. Len(log) * arg.block_size + arg.block_size <= arg.size
  BY <1>0, <1>1, <1>2, NextBlockFits
<1>4. Len(log) * arg.block_size \in Nat
  BY <1>1, <1>2
<1>5. cur_flash_address >= 0 /\ cur_flash_address + arg.block_size <= FlaSpan
  <2> DEFINE n == Len(log) * arg.block_size
  <2>1. n \in Nat /\ n + arg.block_size <= arg.size /\ cur_flash_address = arg.flash_address + n
    BY <1>1, <1>3, <1>4
  <2> HIDE DEF n
  <2>2. /\ arg.flash_address >= 0 /\ arg.flash_address + arg.size <= FlaSpan
        /\ FlaSpan \in Nat
    BY SequencingAssumption DEF InRange
  <2>3. cur_flash_address >= 0 BY <1>0, <2>1, <2>2
  <2>4. arg.flash_address + (n + arg.block_size) <= FlaSpan BY <1>0, <2>1, <2>2
  <2> QED BY <1>0, <2>1, <2>2, <2>3, <2>4
<1>6. Len(buf) <= arg.block_size
  BY <1>0, <1>1 DEF CycleParts, Completed
<1>7. k - 1 \in Nat /\ cur_flash_address + (k - 1) < FlaSpan
  BY <1>0, <1>1, <1>2, <1>5, <1>6, SequencingAssumption
<1>8. FlashByte(k - 1) = cur_flash_address + (k - 1)
  BY <1>0, <1>5, <1>7, SmallRemainder DEF FlashByte
<1>9. buf[k] = FlashByte(k - 1) BY DEF CycleParts, Completed
<1> QED BY <1>0, <1>2, <1>8, <1>9

\* Whatever the firmware left in the status register, SCIP is right at first.
LEMMA CycleInit == Init => CycleInv
<1> SUFFICES ASSUME Init PROVE CycleParts
  BY DEF CycleInv, CycleParts
<1>1. InProgressBit BY DEF Init, InProgressBit, NoCycle, Hsfs
<1>2. Idle /\ StatusCleared /\ Polling /\ Completed
  BY DEF Init, Idle, StatusCleared, Polling, Completed
<1>3. Attributed /\ AllExact BY DEF Init, Attributed, AllExact
<1> QED BY <1>1, <1>2, <1>3 DEF CycleParts

\* Every step keeps the cycle invariant.
LEMMA CycleStep ==
  ASSUME ClearOn = "zero"
  PROVE  TypeInv /\ OrderInv /\ CycleInv /\ [Next]_vars => CycleInv'
<1> SUFFICES ASSUME TypeInv, OrderInv, CycleInv, [Next]_vars, foreign' = 0
             PROVE  CycleParts'
  BY DEF CycleInv, CycleParts
<1>0. /\ arg.flash_address \in Int /\ arg.size \in Int /\ arg.block_size \in Int
      /\ status \in Hsfs /\ hsfs \in Hsfs /\ fault \in BOOLEAN /\ cur_flash_address \in Int
  BY ArgumentTypes DEF TypeInv, TypeOK, CallTypeOK, RegisterTypeOK, ControllerTypeOK
<1>1. foreign = 0
  <2>1. CASE ForeignClear \/ StartForeignCycle
    BY <2>1 DEF ForeignClear, StartForeignCycle, TypeInv, TypeOK, ControllerTypeOK
  <2>2. CASE UNCHANGED foreign BY <2>2
  <2> QED BY <2>1, <2>2 DEF Next, Program, Call, CheckIdle, ReadStatus, Finish, ClearStatus,
      SetAddress, ReadControl, StartCycle, Poll, BlockReadError, CopyFdata, BlockRead, FinishCycle,
      vars, ctlVars
<1>2. CycleParts BY <1>1 DEF CycleInv, CycleParts
<1> USE DEF CycleParts
<1>a. UNCHANGED <<status, cycle>> => InProgressBit' BY <1>2 DEF InProgressBit
<1>b. UNCHANGED <<arg, log>> => Attributed' /\ AllExact' BY <1>2 DEF Attributed, AllExact, InRange
<1>3. CASE Call
  <2>1. Idle' /\ StatusCleared' /\ Polling'
    BY <1>2, <1>3 DEF Call, Return, ctlVars, Idle, StatusCleared, Polling
  <2>2. Completed' BY <1>2, <1>3 DEF Call, Return, Completed
  <2> QED BY <1>a, <1>b, <1>3, <2>1, <2>2 DEF Call, ctlVars
<1>4. CASE CheckIdle
  <2>1. Idle' BY <1>2, <1>4 DEF CheckIdle, Return, ctlVars, Idle, InProgressBit
  <2>2. StatusCleared' /\ Polling' BY <1>4 DEF CheckIdle, Return, StatusCleared, Polling
  <2>3. Completed' BY <1>2, <1>4 DEF CheckIdle, Return, Completed
  <2> QED BY <1>a, <1>b, <1>4, <2>1, <2>2, <2>3 DEF CheckIdle, ctlVars
<1>5. CASE ReadStatus
  <2>1. Idle' /\ Polling' BY <1>2, <1>5 DEF ReadStatus, ctlVars, Idle, Polling
  <2>2. StatusCleared' BY <1>0, <1>5 DEF ReadStatus, Clear, StatusCleared, Hsfs
  <2>3. Completed' BY <1>2, <1>5 DEF ReadStatus, Completed
  <2> QED BY <1>a, <1>b, <1>5, <2>1, <2>2, <2>3 DEF ReadStatus, ctlVars
<1>6. CASE Finish
  <2>1. Idle' /\ StatusCleared' /\ Polling' /\ Completed'
    BY <1>6 DEF Finish, Return, Idle, StatusCleared, Polling, Completed
  <2> QED BY <1>a, <1>b, <1>6, <2>1 DEF Finish, ctlVars
<1>7. CASE ClearStatus
  <2>1. InProgressBit' BY <1>0, <1>2, <1>7 DEF ClearStatus, StatusAfterStore, InProgressBit, Hsfs
  <2>2. Idle' /\ Polling' BY <1>2, <1>7 DEF ClearStatus, Idle, Polling
  <2>3. StatusCleared'
    BY <1>0, <1>2, <1>7 DEF ClearStatus, StatusAfterStore, Cleared, StatusCleared, Hsfs
  <2>4. Completed' BY <1>2, <1>7 DEF ClearStatus, Completed
  <2> QED BY <1>b, <1>7, <2>1, <2>2, <2>3, <2>4 DEF ClearStatus
<1>8. CASE SetAddress
  <2>1. Idle' /\ Polling' /\ StatusCleared'
    BY <1>2, <1>8 DEF SetAddress, LinearAddress, Idle, Polling, StatusCleared
  <2>2. Completed' BY <1>2, <1>8 DEF SetAddress, Completed
  <2> QED BY <1>a, <1>b, <1>8, <2>1, <2>2 DEF SetAddress
<1>9. CASE StartCycle
  <2>1. cycle = NoCycle BY <1>2, <1>9 DEF StartCycle, FlashCycle, FlashCycleGo, Idle
  <2>2. cycle' = OwnCycle
    BY <1>0, <1>2, <1>9, <2>1 DEF StartCycle, FlashCycle, FlashCycleGo, StatusCleared, OwnCycle
  <2>3. status' = [status EXCEPT !.spi_cycle_in_progress = TRUE]
    BY <1>9, <2>1 DEF StartCycle, FlashCycle, FlashCycleGo
  <2>4. OwnCycle # NoCycle BY DEF OwnCycle, NoCycle
  <2>5. UNCHANGED <<arg, cur_flash_address>> /\ pc = "go" /\ pc' = "poll" BY <1>9 DEF StartCycle
  <2>6. InProgressBit' BY <1>0, <2>2, <2>3, <2>4 DEF InProgressBit, Hsfs
  <2>7. Polling'
    BY <1>0, <1>2, <2>2, <2>3, <2>5 DEF StatusCleared, Polling, OwnCycle, Hsfs
  <2>8. Idle' /\ StatusCleared' BY <2>5 DEF Idle, StatusCleared
  <2>9. Completed' BY <1>2, <1>9 DEF StartCycle, Completed
  <2> QED BY <1>b, <1>9, <2>6, <2>7, <2>8, <2>9 DEF StartCycle
<1>10. CASE Poll
  <2>1. UNCHANGED <<arg, cur_flash_address, fault, fdata, status, cycle, reported, buf>>
    BY <1>10 DEF Poll, ctlVars
  <2>2. Loaded' <=> Loaded BY <2>1 DEF Loaded, FlashByte
  <2>3. CASE pc' = "poll"
    <3>1. Polling' BY <1>2, <1>10, <2>1, <2>2 DEF Poll, Polling, OwnCycle
    <3>2. Idle' /\ StatusCleared' BY <2>3 DEF Idle, StatusCleared
    <3>3. Completed' BY <1>2, <1>10, <2>3, <2>1 DEF Poll, Completed
    <3> QED BY <1>a, <1>b, <1>10, <2>1, <3>1, <3>2, <3>3 DEF Poll
  <2>4. CASE pc' # "poll"
    <3>1. cycle = NoCycle /\ status.flash_cycle_error = fault /\ Loaded
      BY <1>2, <1>10, <2>4 DEF Poll, Polling
    <3>2. pc' = IF status.flash_cycle_error /\ "block_read_error" \in arg.callbacks
                THEN "error" ELSE "copy"
      BY <1>10, <2>4 DEF Poll
    <3>3. Idle' /\ StatusCleared' /\ Polling' BY <2>1, <3>1, <3>2 DEF Idle, StatusCleared, Polling
    <3>4. reported = FALSE /\ buf = <<>>
      BY <1>2, <1>10 DEF Poll, Completed, TypeInv, Copied
    <3>5. Completed'
      <4>1. CASE pc' = "error"
        BY <1>0, <2>1, <2>2, <3>1, <3>2, <3>4, <4>1 DEF Completed
      <4>2. CASE pc' = "copy"
        <5>1. ~(fault /\ "block_read_error" \in arg.callbacks)
          BY <1>0, <3>1, <3>2, <4>2
        <5>2. reported' = (fault' /\ "block_read_error" \in arg'.callbacks)
          BY <2>1, <3>4, <5>1
        <5>3. \A k \in 1 .. Len(buf') : buf'[k] = FlashByte(k - 1)'
          BY <2>1, <3>4
        <5> QED BY <2>2, <3>1, <4>2, <5>2, <5>3 DEF Completed
      <4> QED BY <3>2, <4>1, <4>2
    <3> QED BY <1>a, <1>b, <1>10, <2>1, <3>3, <3>5 DEF Poll
  <2> QED BY <2>3, <2>4
<1>11. CASE BlockReadError
  <2>1. UNCHANGED <<arg, cur_flash_address, fault, fdata, status, cycle, buf>>
    BY <1>11 DEF BlockReadError, ctlVars
  <2>2. Loaded' <=> Loaded BY <2>1 DEF Loaded, FlashByte
  <2>3. Idle' /\ StatusCleared' /\ Polling'
    BY <1>2, <1>11, <2>1 DEF BlockReadError, Return, Idle, StatusCleared, Polling
  <2>4. Completed'
    BY <1>2, <1>11, <2>1, <2>2 DEF BlockReadError, Return, Completed
  <2> QED BY <1>a, <1>b, <1>11, <2>1, <2>3, <2>4 DEF BlockReadError
<1>12. CASE CopyFdata
  <2>1. UNCHANGED <<arg, cur_flash_address, fault, fdata, status, cycle, reported, log>> /\ pc = "copy"
    BY <1>12 DEF CopyFdata, ctlVars
  <2>2. Loaded' <=> Loaded BY <2>1 DEF Loaded, FlashByte
  <2>3. pc' \in {"copy", "deliver"} /\ (pc' = "deliver" => Len(buf) + 4 = 4 * (arg.block_size \div 4))
    BY <1>12 DEF CopyFdata
  <2>4. Idle' /\ StatusCleared' /\ Polling'
    BY <1>2, <2>1, <2>3 DEF Idle, StatusCleared, Polling
  <2>5. PICK q \in Nat : Len(buf) = 4 * q /\ q < arg.block_size \div 4
    BY <2>1 DEF TypeInv, Copied
  <2>6. Len(buf) \in Nat /\ Len(buf) + 4 <= arg.block_size
    BY <1>0, <2>5
  <2>7. /\ Len(buf') = Len(buf) + 4
        /\ \A k \in 1 .. Len(buf') : buf'[k] = IF k <= Len(buf) THEN buf[k] ELSE fdata[k - 1]
    <3> DEFINE i == Len(buf)
    <3> DEFINE four == <<fdata[i], fdata[i + 1], fdata[i + 2], fdata[i + 3]>>
    <3>1. buf' = buf \o four BY <1>12 DEF CopyFdata
    <3>2. /\ fdata[i] \in Int /\ fdata[i + 1] \in Int /\ fdata[i + 2] \in Int /\ fdata[i + 3] \in Int
          /\ buf \in Seq(Int)
      <4>1. arg.block_size <= MaxBlock BY <1>0, <2>1, BlockLimit DEF TypeInv, Checked, Running
      <4>2. i \in 0 .. MaxBlock - 1 /\ i + 1 \in 0 .. MaxBlock - 1 /\ i + 2 \in 0 .. MaxBlock - 1
            /\ i + 3 \in 0 .. MaxBlock - 1
        BY <1>0, <2>6, <4>1, BlockLimit
      <4> QED BY <4>2 DEF TypeInv, TypeOK, CallTypeOK, RegisterTypeOK
    <3>3. four \in Seq(Int) /\ Len(four) = 4 BY <3>2
    <3>4. \A k \in 1 .. 4 : four[k] = fdata[i + k - 1] BY <2>6
    <3> HIDE DEF four
    <3>5. /\ Len(buf \o four) = Len(buf) + 4
          /\ \A k \in 1 .. Len(buf) + 4 :
               (buf \o four)[k] = IF k <= Len(buf) THEN buf[k] ELSE four[k - Len(buf)]
      <4>1. /\ Len(buf \o four) = Len(buf) + Len(four)
            /\ \A k \in 1 .. Len(buf) + Len(four) :
                 (buf \o four)[k] = IF k <= Len(buf) THEN buf[k] ELSE four[k - Len(buf)]
        BY <3>2, <3>3, ConcatProperties
      <4> QED BY <3>3, <4>1
    <3>6. ASSUME NEW k \in 1 .. Len(buf) + 4, ~(k <= Len(buf))
          PROVE  four[k - Len(buf)] = fdata[k - 1]
      BY <2>6, <3>4, <3>6
    <3> QED BY <3>1, <3>5, <3>6
  <2>8. fault = FALSE => \A k \in 1 .. Len(buf') : buf'[k] = FlashByte(k - 1)
    <3> SUFFICES ASSUME fault = FALSE, NEW k \in 1 .. Len(buf') PROVE buf'[k] = FlashByte(k - 1)
      OBVIOUS
    <3>1. CASE k <= Len(buf)
      BY <1>2, <2>1, <2>6, <2>7, <3>1 DEF Completed
    <3>2. CASE ~(k <= Len(buf))
      <4>1. k - 1 \in 0 .. arg.block_size - 1 BY <1>0, <2>6, <2>7, <3>2
      <4>2. fdata[k - 1] = FlashByte(k - 1) BY <1>2, <2>1, <4>1 DEF Completed, Loaded
      <4> QED BY <2>7, <3>2, <4>2
    <3> QED BY <3>1, <3>2
  <2>9. Completed'
    <3>1. \A k : FlashByte(k)' = FlashByte(k) BY <2>1 DEF FlashByte
    <3> QED BY <1>0, <1>2, <2>1, <2>2, <2>3, <2>7, <2>8, <3>1 DEF Completed
  <2> QED BY <1>a, <1>b, <2>1, <2>4, <2>9
<1>13. CASE BlockRead
  <2> DEFINE e == [address |-> cur_flash_address, exact |-> Exact(cur_flash_address, buf),
                   bytes |-> Len(buf), fault |-> fault, reported |-> reported]
  <2>1. /\ log' = Append(log, e) /\ pc = "deliver" /\ pc' \in {"loop", "returned"}
        /\ UNCHANGED <<arg, status, cycle>>
    BY <1>13 DEF BlockRead, Return, ctlVars
  <2>2. Idle' /\ StatusCleared' /\ Polling'
    BY <1>2, <2>1 DEF Idle, StatusCleared, Polling
  <2>3. Completed' BY <1>13 DEF BlockRead, Return, Completed
  <2>4. InRange /\ fault = FALSE => Exact(cur_flash_address, buf)
    BY <1>2, <2>1, BlockIsExact
  <2>5. e.exact = Exact(cur_flash_address, buf) /\ e.fault = fault /\ e.reported = reported
    OBVIOUS
  <2> HIDE DEF e
  <2>6. /\ Len(log) \in Nat /\ DOMAIN log = 1 .. Len(log) /\ DOMAIN log' = 1 .. Len(log) + 1
        /\ \A i \in 1 .. Len(log) : log'[i] = log[i]
        /\ log'[Len(log) + 1] = e
    <3>1. log \in Seq(Entry) BY DEF TypeInv, TypeOK, HistoryTypeOK
    <3>2. /\ Len(Append(log, e)) = Len(log) + 1
          /\ \A i \in 1 .. Len(log) : Append(log, e)[i] = log[i]
          /\ Append(log, e)[Len(log) + 1] = e
      BY <3>1
    <3>3. DOMAIN log = 1 .. Len(log) /\ Len(log) \in Nat BY <3>1
    <3>4. DOMAIN Append(log, e) = 1 .. Len(log) + 1 BY <3>1
    <3> QED BY <2>1, <3>2, <3>3, <3>4
  <2>7. \A i \in DOMAIN log' : i \in DOMAIN log \/ log'[i] = e
    BY <2>6
  <2>8. Attributed'
    <3> SUFFICES ASSUME "block_read_error" \in arg.callbacks, NEW i \in DOMAIN log'
                 PROVE  log'[i].reported = log'[i].fault
      BY <2>1 DEF Attributed
    <3>1. CASE i \in DOMAIN log BY <1>2, <2>6, <3>1 DEF Attributed
    <3>2. CASE log'[i] = e
      <4>1. reported = (fault /\ "block_read_error" \in arg.callbacks)
        BY <1>2, <2>1 DEF Completed
      <4>2. reported = fault BY <1>0, <4>1
      <4> QED BY <2>5, <3>2, <4>2
    <3> QED BY <2>7, <3>1, <3>2
  <2>9. AllExact'
    <3> SUFFICES ASSUME InRange, NEW i \in DOMAIN log', ~log'[i].fault
                 PROVE  log'[i].exact
      BY <2>1 DEF AllExact, InRange
    <3>1. CASE i \in DOMAIN log BY <1>2, <2>6, <3>1 DEF AllExact
    <3>2. CASE log'[i] = e BY <1>0, <2>4, <2>5, <3>2
    <3> QED BY <2>7, <3>1, <3>2
  <2> QED BY <1>a, <2>1, <2>2, <2>3, <2>8, <2>9
<1>14. CASE FinishCycle
  <2>1. UNCHANGED <<arg, cur_flash_address, reported, buf, log, pc, hsfs, fla>>
    BY <1>14 DEF FinishCycle, progVars
  <2>2. cycle # NoCycle /\ cycle' = NoCycle BY <1>14 DEF FinishCycle
  <2>3. pc \in {"call", "entry", "poll", "returned"} BY <1>2, <2>2 DEF Idle
  <2>4. InProgressBit'
    BY <1>0, <1>14, <2>2 DEF FinishCycle, InProgressBit, Hsfs
  <2>5. Idle' /\ StatusCleared' BY <2>1, <2>2, <2>3 DEF Idle, StatusCleared
  <2>6. Completed' BY <1>2, <2>1, <2>3 DEF Completed
  <2>7. ASSUME pc = "poll" PROVE status'.flash_cycle_error = fault' /\ Loaded'
    <3>1. cycle = OwnCycle /\ status.flash_cycle_error = FALSE
      BY <1>2, <2>2, <2>7 DEF Polling
    <3>2. status'.flash_cycle_error = fault'
      BY <1>0, <1>14, <3>1 DEF FinishCycle, Hsfs
    <3>3. ASSUME fault' = FALSE, NEW k \in 0 .. arg.block_size - 1 PROVE fdata'[k] = FlashByte(k)
      <4>1. fdata' = [j \in DOMAIN fdata |->
                        IF j < arg.block_size THEN ((cur_flash_address % FlaSpan) + j) % FlaSpan ELSE fdata[j]]
        BY <1>14, <3>1, <3>3 DEF FinishCycle, OwnCycle
      <4>2. k \in DOMAIN fdata /\ k < arg.block_size
        BY <1>0, <2>7, BlockLimit DEF TypeInv, TypeOK, RegisterTypeOK, Checked, Running
      <4> QED BY <4>1, <4>2 DEF FlashByte
    <3>4. \A k : FlashByte(k)' = FlashByte(k) BY <2>1 DEF FlashByte
    <3> QED BY <2>1, <3>2, <3>3, <3>4 DEF Loaded
  <2>8. Polling' BY <2>1, <2>2, <2>7 DEF Polling
  <2> QED BY <1>b, <2>1, <2>4, <2>5, <2>6, <2>8
<1>15. CASE ForeignClear \/ StartForeignCycle
  BY <1>1, <1>15 DEF ForeignClear, StartForeignCycle
<1>17. CASE ReadControl
  <2>1. Idle' /\ Polling' /\ StatusCleared'
    BY <1>2, <1>17 DEF ReadControl, ctlVars, Idle, Polling, StatusCleared
  <2>2. Completed' BY <1>2, <1>17 DEF ReadControl, Completed
  <2> QED BY <1>a, <1>b, <1>17, <2>1, <2>2 DEF ReadControl, ctlVars
<1>16. CASE UNCHANGED vars
  <2>1. Idle' /\ StatusCleared' BY <1>2, <1>16 DEF vars, progVars, ctlVars, Idle, StatusCleared
  <2>2. Polling'
    BY <1>2, <1>16 DEF vars, progVars, ctlVars, Polling, OwnCycle, Loaded, FlashByte
  <2>3. Completed' BY <1>2, <1>16 DEF vars, progVars, ctlVars, Completed, Loaded, FlashByte
  <2> QED BY <1>a, <1>b, <1>16, <2>1, <2>2, <2>3 DEF vars, progVars, ctlVars
<1> QED BY <1>3, <1>4, <1>5, <1>6, <1>7, <1>8, <1>9, <1>10, <1>11, <1>12, <1>13, <1>14,
           <1>15, <1>16, <1>17 DEF Next, Program

\* The three invariants together are inductive.
LEMMA CycleInvariant ==
  ASSUME ClearOn = "zero"
  PROVE  Spec => [](TypeInv /\ OrderInv /\ CycleInv)
<1>1. TypeInv /\ OrderInv /\ CycleInv /\ [Next]_vars => CycleInv' BY CycleStep
<1> QED BY <1>1, CycleInit, OrderInit, OrderStep, TypeInit, TypeStep, PTL DEF Spec

\* If a store of zero clears the status bits, every block whose cycle succeeded
\* is handed over with exactly the bytes of the flash at its address.
THEOREM ExactBlocks ==
  ASSUME ClearOn = "zero"
  PROVE  Spec => []BlocksExact
<1>1. CycleInv => BlocksExact
  BY DEF CycleInv, AllExact, BlocksExact, Undisturbed
<1> QED BY <1>1, CycleInvariant, PTL

\* Under the same condition block_read_error hears of exactly the blocks whose
\* cycles failed.
THEOREM AttributedErrors ==
  ASSUME ClearOn = "zero"
  PROVE  Spec => []ErrorsAttributed
<1>1. CycleInv => ErrorsAttributed
  BY DEF CycleInv, Attributed, ErrorsAttributed, Undisturbed
<1> QED BY <1>1, CycleInvariant, PTL

\* Under the same condition no cycle is programmed while one is under way.
THEOREM NoOverlappingCycles ==
  ASSUME ClearOn = "zero"
  PROVE  Spec => NoOverlap
<1>1. CycleInv => [pc = "go" /\ Undisturbed /\ pc' = "poll" => cycle = NoCycle]_vars
  BY DEF CycleInv, Idle, Undisturbed
<1> QED BY <1>1, CycleInvariant, PTL DEF NoOverlap

-----------------------------------------------------------------------------
(* To its caller the call does what module BlockReader says.               *)

\* The status the caller sees, by location.
ResultInv ==
  /\ pc = "call" => result = "none"
  /\ Running => result = "running" /\ "block_read" \in arg.callbacks

\* Every step keeps it.
LEMMA ResultStep == ResultInv /\ [Next]_vars => ResultInv'
<1> SUFFICES ASSUME ResultInv, [Next]_vars PROVE ResultInv'
  OBVIOUS
<1> USE DEF ResultInv, Running
<1>1. CASE Call BY <1>1 DEF Call, Return
<1>2. CASE CheckIdle BY <1>2 DEF CheckIdle, Return
<1>3. CASE ReadStatus \/ ClearStatus \/ SetAddress \/ ReadControl \/ StartCycle \/ Poll \/ CopyFdata
  BY <1>3 DEF ReadStatus, ClearStatus, SetAddress, ReadControl, StartCycle, Poll, CopyFdata
<1>4. CASE Finish \/ BlockReadError \/ BlockRead
  BY <1>4 DEF Finish, BlockReadError, BlockRead, Return
<1>5. CASE UNCHANGED progVars BY <1>5 DEF progVars
<1> QED BY <1>1, <1>2, <1>3, <1>4, <1>5 DEF Next, Program, FinishCycle, ForeignClear, StartForeignCycle, vars

\* Every step is a step of the abstract specification, or stutters.
LEMMA ReaderStep ==
  TypeInv /\ OrderInv /\ CycleInv /\ ResultInv /\ foreign = 0 /\ [Next]_vars
    => [Reader!Next]_(Reader!vars)
<1> SUFFICES ASSUME TypeInv, OrderInv, CycleInv, ResultInv, foreign = 0, [Next]_vars
             PROVE  Reader!Next \/ UNCHANGED Reader!vars
  OBVIOUS
<1>0. /\ arg.flash_address \in Int /\ arg.size \in Int /\ arg.block_size \in Int
      /\ log \in Seq(Entry) /\ fault \in BOOLEAN /\ cur_flash_address \in Int
  BY ArgumentTypes DEF TypeInv, TypeOK, CallTypeOK, HistoryTypeOK, ControllerTypeOK
<1>a. CycleParts BY DEF CycleInv, CycleParts
<1>b. Running /\ pc # "entry" => Reader!Position = cur_flash_address
  BY DEF OrderInv, Progress, Running, Reader!Position
<1>c. Running /\ pc \notin {"entry", "loop"} => Reader!Remaining
  BY <1>0 DEF OrderInv, Progress, Running, Reader!Position, Reader!Remaining
<1>1. CASE Call
  <2>1. Reader!Valid(arg) <=> ~(arg.block_size < 4 \/ arg.block_size > MaxBlock)
                              /\ arg.size % arg.block_size = 0
    BY <1>0, BlockLimit DEF Reader!Valid
  <2>2. Reader!Call BY <1>1, <2>1 DEF Call, Return, Reader!Call, ResultInv
  <2> QED BY <2>2 DEF Reader!Next
<1>2. CASE CheckIdle
  <2>1. CASE status.spi_cycle_in_progress
    <3>1. Reader!Unavailable
      BY <1>2, <2>1 DEF CheckIdle, Return, Reader!Unavailable, ResultInv, Running, OrderInv, Progress
    <3> QED BY <3>1 DEF Reader!Next
  <2>2. CASE ~status.spi_cycle_in_progress
    BY <1>2, <2>2 DEF CheckIdle, Reader!vars
  <2> QED BY <2>1, <2>2
<1>3. CASE ReadStatus \/ ClearStatus \/ SetAddress \/ ReadControl \/ StartCycle \/ Poll \/ CopyFdata
  BY <1>3 DEF ReadStatus, ClearStatus, SetAddress, ReadControl, StartCycle, Poll, CopyFdata, Reader!vars
<1>4. CASE Finish
  <2>1. ~Reader!Remaining
    BY <1>b, <1>4 DEF Finish, More, Reader!Remaining, Running
  <2>2. Reader!Finish BY <1>4, <2>1 DEF Finish, Return, Reader!Finish, ResultInv, Running
  <2> QED BY <2>2 DEF Reader!Next
<1>5. CASE BlockReadError
  <2>1. CASE result' = "ok"
    <3>1. Reader!Abandon
      BY <1>a, <1>c, <1>5, <2>1
      DEF BlockReadError, Reader!Abandon, ResultInv, Running, CycleParts, Completed
    <3> QED BY <3>1 DEF Reader!Next
  <2>2. CASE UNCHANGED result
    BY <1>5, <2>2 DEF BlockReadError, Reader!vars
  <2> QED BY <1>5, <2>1, <2>2 DEF BlockReadError, Return
<1>6. CASE BlockRead
  <2> DEFINE ex == Exact(cur_flash_address, buf)
  <2>1. ex \in BOOLEAN BY Zenon DEF Exact
  <2>2. Reader!InRange(arg) /\ ~fault => ex
    BY <1>0, <1>a, <1>6, BlockIsExact DEF BlockRead, InRange, Reader!InRange
  <2>3. log' = Append(log, [address |-> Reader!Position, exact |-> ex,
                            bytes |-> 4 * (arg.block_size \div 4), fault |-> fault,
                            reported |-> fault /\ "block_read_error" \in arg.callbacks])
    BY <1>a, <1>b, <1>6 DEF BlockRead, CycleParts, Completed, Running
  <2>4. Reader!Remaining /\ result = "running"
    BY <1>c, <1>6 DEF BlockRead, ResultInv, Running
  <2>5. result' \in {"running", "ok"} /\ UNCHANGED <<arg, done>>
    BY <1>6, <2>4 DEF BlockRead, Return
  <2> HIDE DEF ex
  <2>6. Reader!Deliver BY <1>0, <2>1, <2>2, <2>3, <2>4, <2>5 DEF Reader!Deliver
  <2> QED BY <2>6 DEF Reader!Next
<1>7. CASE UNCHANGED progVars
  BY <1>7 DEF progVars, Reader!vars
<1> QED BY <1>1, <1>2, <1>3, <1>4, <1>5, <1>6, <1>7
        DEF Next, Program, FinishCycle, ForeignClear, StartForeignCycle, vars

\* All that is needed of the call's state.
ReaderInv == TypeInv /\ OrderInv /\ CycleInv /\ ResultInv /\ foreign = 0

\* It holds at first.
LEMMA ReaderInvInit == Init => ReaderInv
<1>1. Init => ResultInv /\ foreign = 0 BY DEF Init, ResultInv, Running
<1> QED BY <1>1, TypeInit, OrderInit, CycleInit DEF ReaderInv

\* It goes on to hold if a store of zero clears the status bits and nobody else
\* uses the controller.
LEMMA ReaderInvStep ==
  ASSUME ClearOn = "zero", MaxForeign = 0
  PROVE  ReaderInv /\ [Next]_vars => ReaderInv'
<1> SUFFICES ASSUME ReaderInv, [Next]_vars PROVE ReaderInv'
  OBVIOUS
<1>1. foreign' = 0
  <2>1. ~ForeignClear /\ ~StartForeignCycle BY DEF ForeignClear, StartForeignCycle, ReaderInv
  <2>2. CASE UNCHANGED foreign BY <2>2 DEF ReaderInv
  <2> QED BY <2>1, <2>2 DEF Next, Program, Call, CheckIdle, ReadStatus, Finish, ClearStatus, SetAddress, ReadControl,
         StartCycle, Poll, BlockReadError, CopyFdata, BlockRead, FinishCycle, vars, ctlVars
<1> QED BY <1>1, TypeStep, OrderStep, CycleStep, ResultStep DEF ReaderInv

\* If a store of zero clears the status bits and nobody else uses the controller, the
\* call refines BlockReader, its caller's view: although FDONE, FCERR and the data
\* registers are shared with a concurrent controller, each block is handed over in its
\* place, right unless its own cycle failed, and blamed only for that.  Like the code,
\* and unlike chipset.h:232, BlockReader has failed blocks handed over too.
THEOREM CallImplementsReader ==
  ASSUME ClearOn = "zero", MaxForeign = 0
  PROVE  Spec => ImplementsReader
<1>1. Init => Reader!Init BY DEF Init, Reader!Init
<1>2. ReaderInv /\ [Next]_vars => [Reader!Next]_(Reader!vars) BY ReaderStep DEF ReaderInv
<1>3. ReaderInv /\ [Next]_vars => ReaderInv' BY ReaderInvStep
<1> QED BY <1>1, <1>2, <1>3, ReaderInvInit, PTL DEF Spec, ImplementsReader, Reader!Spec
====
