---- MODULE BlockReader ----
(***************************************************************************)
(* Chipset::ReadSpiWithHardwareSequencing (chipset.cc:98-175) as its       *)
(* caller sees it, without registers: one call that hands the flash over   *)
(* block by block, in order, and then returns.                             *)
(*                                                                         *)
(* It says what the code does, which is less than what chipset.h:229-238   *)
(* promises: a block whose cycle failed goes to block_read as well, and a  *)
(* block size that is not a multiple of 4 gives blocks shorter than asked  *)
(* for.  The runs hw_sequencing_fault and hw_sequencing_size show both.    *)
(*                                                                         *)
(* Of the bytes of a block only this is kept: whether they are exactly the *)
(* bytes of the flash at the block's address.                              *)
(***************************************************************************)
EXTENDS Integers, Sequences

CONSTANTS
  Arguments,   \* the argument tuples a caller may pass (a set of records)
  MaxBlock,    \* 64, the bytes a chipset transfers at a time
  FlaSpan      \* 2^25, the bytes a flash linear address can tell apart

VARIABLES
  arg,      \* the arguments of the call
  log,      \* the block_read calls made so far
  result,   \* "none" before the call, "running", then the status returned
  done      \* block_read_done was called

vars == <<arg, log, result, done>>

\* The checks of chipset.cc:118-125.
Valid(a) ==
  /\ a.block_size \in 4 .. MaxBlock
  /\ a.size % a.block_size = 0

\* The flash linear addresses of the whole range are distinct.
InRange(a) == a.flash_address >= 0 /\ a.flash_address + a.size <= FlaSpan

Init ==
  /\ arg \in Arguments
  /\ log = <<>>
  /\ result = "none"
  /\ done = FALSE

Call ==
  /\ result = "none"
  /\ result' = IF "block_read" \notin arg.callbacks THEN "fatal"
               ELSE IF Valid(arg) THEN "running" ELSE "invalid argument"
  /\ UNCHANGED <<arg, log, done>>

\* Another master uses the SPI bus.
Unavailable ==
  /\ result = "running" /\ log = <<>>
  /\ result' = "unavailable"
  /\ UNCHANGED <<arg, log, done>>

\* The address of the next block.
Position == arg.flash_address + Len(log) * arg.block_size

\* The blocks of the range not handed over yet.
Remaining == Position < arg.flash_address + arg.size

\* A failure to read the next block is reported to block_read_error if there is one;
\* either way block_size / 4 words go to block_read, which may end the call.
Deliver ==
  /\ result = "running" /\ Remaining
  /\ \E fault, exact \in BOOLEAN :
       /\ InRange(arg) /\ ~fault => exact
       /\ log' = Append(log, [address |-> Position, exact |-> exact,
                              bytes |-> 4 * (arg.block_size \div 4), fault |-> fault,
                              reported |-> fault /\ "block_read_error" \in arg.callbacks])
  /\ result' \in {"running", "ok"}
  /\ UNCHANGED <<arg, done>>

\* block_read_error ended the call.
Abandon ==
  /\ result = "running" /\ Remaining
  /\ "block_read_error" \in arg.callbacks
  /\ result' = "ok"
  /\ UNCHANGED <<arg, log, done>>

Finish ==
  /\ result = "running" /\ ~Remaining
  /\ done' = ("block_read_done" \in arg.callbacks)
  /\ result' = "ok"
  /\ UNCHANGED <<arg, log>>

Next == Call \/ Unavailable \/ Deliver \/ Abandon \/ Finish

Spec == Init /\ [][Next]_vars
====
