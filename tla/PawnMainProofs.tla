---- MODULE PawnMainProofs ----
(***************************************************************************)
(* Proofs about the program (module PawnMain), for every set of machines,  *)
(* every flash size a flash linear address can tell apart, and any buffer. *)
(***************************************************************************)
EXTENDS PawnMain, ChipsetProofs, SequenceTheorems

-----------------------------------------------------------------------------
(* The way to the dump.                                                    *)

\* Where the program is when the checks have been made, one after the other.
Probed    == {"map", "straps", "descriptor", "open", "busy", "read"}
WithRcrb  == Probed \ {"map"}
FromSpi   == WithRcrb \ {"straps"}
Described == FromSpi \ {"descriptor"}

\* What the program has found out on the way, and what it has not touched yet.
ControlInv ==
  /\ pc \in Probed \cup {"arguments", "ports", "chipset", "exited"}
  /\ exit \in {"no", "failed check", "failure", "aborted", "success"}
  /\ exit = "no" <=> pc # "exited"
  /\ machine \in [id : HardwareIds, rcba : RcbaWords, gcs : GcsWords, fdv : BOOLEAN]
  /\ class \in {"none", Create(machine.id)}
  /\ pc \in Probed => class = Create(machine.id) /\ class # "unsupported"
  /\ pc \in Probed \cup {"arguments", "ports", "chipset"} => (window = {} <=> pc \notin WithRcrb)
  /\ pc \in FromSpi => BootBiosStraps(class, machine.id.device, machine.gcs) = "SPI"
  /\ pc \in Described => machine.fdv
  /\ window \subseteq Word(32) /\ WindowFromRcba /\ OldDumpKept

\* The program starts with nothing known and the old dump in place.
LEMMA ControlInit == Init => ControlInv
BY DEF Init, ControlInv, Probed, WithRcrb, FromSpi, Described, WindowFromRcba, OldDumpKept

\* The steps of the call of ReadSpiWithHardwareSequencing.
LEMMA ReadingSteps ==
  ASSUME StartReading \/ ReaderUnavailable \/ BlockRead \/ FinishReading
  PROVE  /\ pc = "read" /\ UNCHANGED <<machine, class, window>>
         /\ \/ UNCHANGED <<pc, exit>>
            \/ pc' = "exited" /\ exit' \in {"failed check", "aborted", "success"}
<1>1. CASE StartReading \/ ReaderUnavailable \/ FinishReading
  BY <1>1 DEF StartReading, ReaderUnavailable, FinishReading, Exit
<1>2. CASE BlockRead
  BY <1>2 DEF BlockRead, SaveBlock, WriteBlock, WriteFailed, Exit
<1> QED BY <1>1, <1>2

\* What happens during the call keeps what the program has found out.
LEMMA ReadingKeepsControl ==
  ASSUME ControlInv, pc = "read", UNCHANGED <<machine, class, window>>,
         \/ UNCHANGED <<pc, exit>>
         \/ pc' = "exited" /\ exit' \in {"failed check", "aborted", "success"}
  PROVE  ControlInv'
BY DEF ControlInv, Probed, WithRcrb, FromSpi, Described, WindowFromRcba, OldDumpKept

\* Every step keeps ControlInv.
LEMMA ControlStep == ControlInv /\ [Next]_vars => ControlInv'
<1> SUFFICES ASSUME ControlInv, [Next]_vars PROVE ControlInv'
  OBVIOUS
<1> USE DEF ControlInv, Probed, WithRcrb, FromSpi, Described, WindowFromRcba, OldDumpKept
<1>1. CASE ParseArguments \/ CreatePci
  BY <1>1 DEF ParseArguments, CreatePci, Goto, Exit, dumpVars
<1>2. CASE CreateChipset
  BY <1>2 DEF CreateChipset, Goto, Exit, dumpVars
<1>3. CASE MapRootComplex
  <2>1. machine.rcba \in Word(32) BY MainAssumption
  <2>2. RcbaOf(machine.rcba).base_address \in Word(32)
        /\ RcbaOf(machine.rcba).base_address = machine.rcba \cap 14 .. 31
        /\ RcbaOf(machine.rcba).enable = (0 \in machine.rcba)
    BY <2>1, RcbaBase
  <2>3. pc = "map" /\ UNCHANGED <<machine, class, file>> BY <1>3 DEF MapRootComplex, dumpVars
  <2>4. CASE MapFailed BY <2>3, <2>4 DEF MapFailed, Exit
  <2>5. CASE RootComplexMapped(RcbaOf(machine.rcba)) /\ Goto("straps")
    BY <2>2, <2>3, <2>5 DEF RootComplexMapped, Goto
  <2> QED BY <1>3, <2>4, <2>5 DEF MapRootComplex
<1>4. CASE CheckBootStraps
  BY <1>4 DEF CheckBootStraps, WithRootComplex, Goto, Exit, dumpVars
<1>5. CASE CheckDescriptor
  BY <1>5 DEF CheckDescriptor, InvalidDescriptor, WithRootComplex, Goto, Exit, dumpVars
<1>6. CASE OpenDump
  BY <1>6 DEF OpenDump, Truncate, Goto, Exit
<1>7. CASE CheckCycle
  BY <1>7 DEF CheckCycle, WithRootComplex, Goto, Exit, dumpVars
<1>8. CASE StartReading \/ ReaderUnavailable \/ BlockRead \/ FinishReading
  BY <1>8, ReadingSteps, ReadingKeepsControl
<1>9. CASE UNCHANGED vars
  BY <1>9 DEF vars, dumpVars
<1> QED BY <1>1, <1>2, <1>3, <1>4, <1>5, <1>6, <1>7, <1>8, <1>9 DEF Next

\* ControlInv holds throughout.
THEOREM ControlHolds == Spec => []ControlInv
BY ControlInit, ControlStep, PTL DEF Spec

\* An earlier dump is destroyed only on a machine whose flash can be read.
THEOREM OldDumpStays == Spec => []OldDumpKept
<1>1. ControlInv => OldDumpKept BY DEF ControlInv
<1> QED BY <1>1, ControlHolds, PTL

\* The window mapped is the one RCBA names, whatever its reserved bits are.
THEOREM WindowIsRcba == Spec => []WindowFromRcba
<1>1. ControlInv => WindowFromRcba BY DEF ControlInv
<1> QED BY <1>1, ControlHolds, PTL

\* The class is the only one that supports the device.
THEOREM OneClass == Spec => []ClassUnambiguous
<1>1. ControlInv => ClassUnambiguous
  <2> SUFFICES ASSUME class = Create(machine.id), NEW k \in Supporting(machine.id)
               PROVE  class = Classes[k]
    BY DEF ControlInv, ClassUnambiguous
  <2>1. PICK j \in 1 .. 7 : Supporting(machine.id) = {j} /\ Create(machine.id) = Classes[j]
    BY CreateFinds
  <2> QED BY <2>1
<1> QED BY <1>1, ControlHolds, PTL

-----------------------------------------------------------------------------
(* The stream.                                                             *)

Dumps == [file : Seq(Block), buffer : Seq(Block), faults : 0 .. MaxDiskFaults]

\* What is in the file and after it in the stream.
Blocks(d) == d.file \o d.buffer

\* The address after the last byte of a block.
End(block) == block.address + block.bytes

\* No byte comes twice or before one with a smaller address.
Ascends(s) == \A i, j \in 1 .. Len(s) : i < j => End(s[i]) <= s[j].address

\* All bytes have smaller addresses.
Below(s, address) == \A i \in 1 .. Len(s) : End(s[i]) <= address

\* What has been written as s is in order if t was.
Keeps(s, t) == (Ascends(t) => Ascends(s)) /\ \A a \in Int : Below(t, a) => Below(s, a)

\* The blocks read so far come in the order of the flash, and the dump has them
\* as long as no write has failed.
DumpOrder ==
  /\ Dump \in Dumps /\ Len(buffer) <= BufferBlocks
  /\ arg \in DumpArguments /\ log \in Seq(Block) /\ Len(log) <= FlashBlocks
  /\ pc \notin {"read", "exited"} => log = <<>> /\ buffer = <<>> /\ faults = 0 /\ result = "none"
  /\ pc \notin {"busy", "read", "exited"} => file = <<OldBlock>>
  /\ pc = "busy" => file = <<>>
  /\ \A i \in 1 .. Len(log) : log[i].address = (i - 1) * kBlockSize /\ log[i].bytes = kBlockSize
  /\ pc = "read" => Below(Blocks(Dump), Len(log) * kBlockSize)
  /\ exit = "success" => Len(log) = FlashBlocks /\ (faults = 0 => buffer = <<>>)
  /\ Ascends(Blocks(Dump)) /\ DumpIsPrefix /\ AbortsOnWriteErrors

\* The blocks that could be read are right.
LogExact == \A i \in 1 .. Len(log) : ~log[i].fault => log[i].exact

DumpInv == DumpOrder /\ LogExact

\* A concatenation is determined by its parts.
LEMMA BlocksOf ==
  ASSUME NEW d \in Dumps
  PROVE  /\ Blocks(d) \in Seq(Block) /\ Len(Blocks(d)) = Len(d.file) + Len(d.buffer)
         /\ \A i \in 1 .. Len(Blocks(d)) :
              Blocks(d)[i] = IF i <= Len(d.file) THEN d.file[i] ELSE d.buffer[i - Len(d.file)]
<1>1. d.file \in Seq(Block) /\ d.buffer \in Seq(Block) BY DEF Dumps
<1> QED BY <1>1, ConcatProperties DEF Blocks

\* A flush that succeeds moves the buffer to the file.
LEMMA FlushedEffect ==
  ASSUME NEW d \in Dumps
  PROVE  Flushed(d) \in Dumps /\ Blocks(Flushed(d)) = Blocks(d) /\ Flushed(d).buffer = <<>>
         /\ Flushed(d).faults = d.faults
<1>1. d.file \in Seq(Block) /\ d.buffer \in Seq(Block) /\ d.faults \in 0 .. MaxDiskFaults
      /\ d.file \o d.buffer \in Seq(Block)
  BY ConcatProperties DEF Dumps
<1>2. Flushed(d) = [file |-> d.file \o d.buffer, buffer |-> <<>>, faults |-> d.faults]
  BY DEF Flushed
<1>3. (d.file \o d.buffer) \o <<>> = d.file \o d.buffer BY <1>1, ConcatEmptySeq
<1>4. <<>> \in Seq(Block) BY EmptySeq
<1> QED BY <1>1, <1>2, <1>3, <1>4 DEF Blocks, Dumps

\* If every block of u lies within one of t, the same or the next for the next block,
\* but for a block cut in two after p, u is in order if t was.
LEMMA PartsKeep ==
  ASSUME NEW u \in Seq(Block), NEW t \in Seq(Block), NEW p \in Nat,
         \A i \in 1 .. Len(u) :
           LET j == IF i <= p THEN i ELSE i - 1 IN
           j \in 1 .. Len(t) /\ t[j].address <= u[i].address /\ End(u[i]) <= End(t[j]),
         p \in 1 .. Len(u) /\ p + 1 \in 1 .. Len(u) => End(u[p]) <= u[p + 1].address
  PROVE  Keeps(u, t)
<1> DEFINE j(i) == IF i <= p THEN i ELSE i - 1
<1>0. \A s \in Seq(Block) : \A i \in 1 .. Len(s) :
        s[i].address \in Int /\ End(s[i]) \in Int
  <2>1. \A c \in Block : c.address \in Int /\ End(c) \in Int BY DEF Block, End
  <2> QED BY <2>1, ElementOfSeq
<1>1. \A i \in 1 .. Len(u) :
        j(i) \in 1 .. Len(t) /\ t[j(i)].address <= u[i].address /\ End(u[i]) <= End(t[j(i)])
  OBVIOUS
<1>2. Len(u) \in Nat /\ Len(t) \in Nat BY LenProperties
<1>3. ASSUME Ascends(t), NEW i \in 1 .. Len(u), NEW k \in 1 .. Len(u), i < k
      PROVE  End(u[i]) <= u[k].address
  <2>1. CASE j(i) < j(k)
    <3>1. End(t[j(i)]) <= t[j(k)].address BY <1>1, <1>3, <2>1 DEF Ascends
    <3>2. End(u[i]) <= End(t[j(i)]) /\ t[j(k)].address <= u[k].address BY <1>1
    <3>3. /\ End(u[i]) \in Int /\ End(t[j(i)]) \in Int /\ t[j(k)].address \in Int
          /\ u[k].address \in Int
      BY <1>0, <1>1
    <3> HIDE DEF j
    <3> QED BY <3>1, <3>2, <3>3
  <2>2. CASE ~(j(i) < j(k))
    <3>1. i = p /\ k = p + 1 BY <1>2, <1>3, <2>2
    <3> QED BY <3>1
  <2> QED BY <2>1, <2>2
<1>4. ASSUME NEW a \in Int, Below(t, a), NEW i \in 1 .. Len(u)
      PROVE  End(u[i]) <= a
  <2>1. End(t[j(i)]) <= a BY <1>1, <1>4 DEF Below
  <2>2. End(u[i]) <= End(t[j(i)]) /\ End(u[i]) \in Int /\ End(t[j(i)]) \in Int BY <1>0, <1>1
  <2> HIDE DEF j
  <2> QED BY <2>1, <2>2
<1> QED BY <1>3, <1>4 DEF Keeps, Ascends, Below

\* The elements of a concatenation.
LEMMA ConcatElements ==
  ASSUME NEW s \in Seq(Block), NEW t \in Seq(Block)
  PROVE  /\ s \o t \in Seq(Block) /\ Len(s \o t) = Len(s) + Len(t)
         /\ \A i \in 1 .. Len(s) + Len(t) :
              (s \o t)[i] = IF i <= Len(s) THEN s[i] ELSE t[i - Len(s)]
OBVIOUS

\* The elements of a concatenation of three.
LEMMA ConcatThree ==
  ASSUME NEW f \in Seq(Block), NEW w \in Seq(Block), NEW rest \in Seq(Block)
  PROVE  /\ (f \o w) \o rest \in Seq(Block)
         /\ Len((f \o w) \o rest) = Len(f) + Len(w) + Len(rest)
         /\ \A i \in 1 .. Len(f) + Len(w) + Len(rest) :
              ((f \o w) \o rest)[i] =
                IF i <= Len(f) THEN f[i]
                ELSE IF i <= Len(f) + Len(w) THEN w[i - Len(f)]
                ELSE rest[i - (Len(f) + Len(w))]
<1>1. Len(f) \in Nat /\ Len(w) \in Nat /\ Len(rest) \in Nat BY LenProperties
<1>2. PICK g \in Seq(Block) :
        /\ g = f \o w /\ Len(g) = Len(f) + Len(w)
        /\ \A i \in 1 .. Len(f) + Len(w) : g[i] = IF i <= Len(f) THEN f[i] ELSE w[i - Len(f)]
  BY ConcatElements
<1>3. /\ g \o rest \in Seq(Block) /\ Len(g \o rest) = Len(g) + Len(rest)
      /\ \A i \in 1 .. Len(g) + Len(rest) :
           (g \o rest)[i] = IF i <= Len(g) THEN g[i] ELSE rest[i - Len(g)]
  BY ConcatElements
<1>4. \A i \in 1 .. Len(f) + Len(w) + Len(rest) :
        (g \o rest)[i] =
          IF i <= Len(f) THEN f[i]
          ELSE IF i <= Len(f) + Len(w) THEN w[i - Len(f)]
          ELSE rest[i - (Len(f) + Len(w))]
  BY <1>1, <1>2, <1>3
<1> QED BY <1>2, <1>3, <1>4

\* A write that ends between two blocks.
LEMMA WholeBlocksKeep ==
  ASSUME NEW f \in Seq(Block), NEW b \in Seq(Block), NEW k \in 0 .. Len(b) - 1,
         NEW rest, rest \in {<<>>, SubSeq(b, k + 1, Len(b))}
  PROVE  /\ f \o SubSeq(b, 1, k) \in Seq(Block) /\ rest \in Seq(Block) /\ Len(rest) <= Len(b)
         /\ Keeps((f \o SubSeq(b, 1, k)) \o rest, f \o b)
<1>0. Len(f) \in Nat /\ Len(b) \in Nat /\ k \in Nat /\ k < Len(b) BY LenProperties
<1>1. PICK w \in Seq(Block) :
        w = SubSeq(b, 1, k) /\ Len(w) = k /\ \A i \in 1 .. k : w[i] = b[i]
  <2>1. SubSeq(b, 1, k) \in Seq(Block) /\ Len(SubSeq(b, 1, k)) = k
        /\ \A i \in 1 .. k : SubSeq(b, 1, k)[i] = b[i]
    BY <1>0
  <2> QED BY <2>1
<1>2. /\ rest \in Seq(Block) /\ Len(rest) \in {0, Len(b) - k}
      /\ \A i \in 1 .. Len(rest) : rest[i] = b[k + i]
  <2>1. CASE rest = <<>>
    <3>1. <<>> \in Seq(Block) /\ Len(<<>>) = 0 /\ 1 .. 0 = {} BY EmptySeq
    <3> QED BY <2>1, <3>1
  <2>2. CASE rest = SubSeq(b, k + 1, Len(b))
    <3>1. rest \in Seq(Block) /\ Len(rest) = Len(b) - k
          /\ \A i \in 1 .. Len(b) - k : rest[i] = b[k + i]
      BY <2>2
    <3> QED BY <3>1
  <2> QED BY <2>1, <2>2
<1>3. /\ Len(f) \in Nat /\ Len(b) \in Nat /\ k \in Nat /\ k < Len(b) /\ Len(rest) \in Nat
      /\ Len(w) = k
  BY <1>0, <1>1, <1>2, LenProperties
<1>4. PICK u \in Seq(Block) :
        /\ u = (f \o w) \o rest /\ Len(u) = Len(f) + k + Len(rest)
        /\ \A i \in 1 .. Len(f) + k + Len(rest) :
             u[i] = IF i <= Len(f) THEN f[i] ELSE IF i <= Len(f) + k THEN w[i - Len(f)]
                    ELSE rest[i - (Len(f) + k)]
  <2>1. /\ (f \o w) \o rest \in Seq(Block)
        /\ Len((f \o w) \o rest) = Len(f) + Len(w) + Len(rest)
        /\ \A i \in 1 .. Len(f) + Len(w) + Len(rest) :
             ((f \o w) \o rest)[i] =
               IF i <= Len(f) THEN f[i] ELSE IF i <= Len(f) + Len(w) THEN w[i - Len(f)]
               ELSE rest[i - (Len(f) + Len(w))]
    BY <1>2, ConcatThree
  <2> QED BY <1>3, <2>1
<1>5. PICK t \in Seq(Block) :
        /\ t = f \o b /\ Len(t) = Len(f) + Len(b)
        /\ \A i \in 1 .. Len(t) : t[i] = IF i <= Len(f) THEN f[i] ELSE b[i - Len(f)]
  <2>1. /\ f \o b \in Seq(Block) /\ Len(f \o b) = Len(f) + Len(b)
        /\ \A i \in 1 .. Len(f) + Len(b) :
             (f \o b)[i] = IF i <= Len(f) THEN f[i] ELSE b[i - Len(f)]
    BY ConcatElements
  <2> QED BY <2>1
<1>6. ASSUME NEW i \in 1 .. Len(u) PROVE i \in 1 .. Len(t) /\ u[i] = t[i]
  <2>1. i \in 1 .. Len(t) BY <1>2, <1>3, <1>4, <1>5
  <2>2. CASE i <= Len(f) BY <1>4, <1>5, <2>1, <2>2
  <2>3. CASE Len(f) < i /\ i <= Len(f) + k
    <3>1. u[i] = w[i - Len(f)] /\ i - Len(f) \in 1 .. k BY <1>3, <1>4, <2>3
    <3>2. t[i] = b[i - Len(f)] BY <1>3, <1>5, <2>1, <2>3
    <3> QED BY <1>1, <2>1, <3>1, <3>2
  <2>4. CASE Len(f) + k < i
    <3>1. u[i] = rest[i - (Len(f) + k)] /\ i - (Len(f) + k) \in 1 .. Len(rest) BY <1>3, <1>4, <2>4
    <3>2. t[i] = b[i - Len(f)] BY <1>3, <1>5, <2>1, <2>4
    <3>3. rest[i - (Len(f) + k)] = b[k + (i - (Len(f) + k))] BY <1>2, <3>1
    <3>4. k + (i - (Len(f) + k)) = i - Len(f) BY <1>3, <1>4
    <3> QED BY <2>1, <3>1, <3>2, <3>3, <3>4
  <2> QED BY <1>3, <1>4, <2>2, <2>3, <2>4
<1>7. \A c \in Block : c.address \in Int /\ End(c) \in Int BY DEF Block, End
<1>8. \A i \in 1 .. Len(t) : t[i] \in Block BY ElementOfSeq
<1>9. Len(t) \in Nat /\ Len(u) \in Nat BY LenProperties
<1>10. \A i \in 1 .. Len(u) :
         LET j == IF i <= Len(t) THEN i ELSE i - 1 IN
         j \in 1 .. Len(t) /\ t[j].address <= u[i].address /\ End(u[i]) <= End(t[j])
  <2> TAKE i \in 1 .. Len(u)
  <2>1. i <= Len(t) /\ i \in 1 .. Len(t) /\ u[i] = t[i] BY <1>6, <1>9
  <2>2. t[i].address \in Int /\ End(t[i]) \in Int BY <1>7, <1>8, <2>1
  <2> QED BY <2>1, <2>2
<1>11. ~(Len(t) + 1 \in 1 .. Len(u)) BY <1>6, <1>9
<1>12. Keeps(u, t) BY <1>9, <1>10, <1>11, PartsKeep
<1> QED BY <1>1, <1>2, <1>3, <1>4, <1>5, <1>12, ConcatElements

\* The two parts of a block.
LEMMA PartsOfBlock ==
  ASSUME NEW c \in Block, NEW n \in Nat, n < c.bytes
  PROVE  /\ First(c, n) \in Block /\ Others(c, n) \in Block
         /\ First(c, n).address = c.address /\ End(First(c, n)) = c.address + n
         /\ Others(c, n).address = c.address + n /\ End(Others(c, n)) = End(c)
         /\ c.address \in Int /\ End(c) \in Int /\ c.address + n <= End(c)
<1>1. c.address \in Int /\ c.bytes \in Nat /\ c.address + n \in Int /\ c.bytes - n \in Nat
      /\ c.exact \in BOOLEAN /\ c.fault \in BOOLEAN /\ c.reported \in BOOLEAN
      /\ c = [address |-> c.address, exact |-> c.exact, bytes |-> c.bytes, fault |-> c.fault,
              reported |-> c.reported]
  BY DEF Block
<1>2. First(c, n) = [address |-> c.address, exact |-> c.exact, bytes |-> n,
                     fault |-> c.fault, reported |-> c.reported]
  BY <1>1 DEF First, Block
<1>3. Others(c, n) = [address |-> c.address + n, exact |-> c.exact, bytes |-> c.bytes - n,
                      fault |-> c.fault, reported |-> c.reported]
  <2>1. Others(c, n) = [[c EXCEPT !.address = c.address + n] EXCEPT !.bytes = c.bytes - n]
    BY <1>1 DEF Others
  <2>2. [c EXCEPT !.address = c.address + n]
          = [address |-> c.address + n, exact |-> c.exact, bytes |-> c.bytes,
             fault |-> c.fault, reported |-> c.reported]
    BY <1>1
  <2> QED BY <2>1, <2>2
<1>4. First(c, n) \in Block BY <1>1, <1>2 DEF Block
<1>5. Others(c, n) \in Block BY <1>1, <1>3 DEF Block
<1> QED BY <1>1, <1>2, <1>3, <1>4, <1>5 DEF End

\* A write that ends within block k, after n of its bytes.
LEMMA TornBlockKeeps ==
  ASSUME NEW f \in Seq(Block), NEW b \in Seq(Block), NEW k \in 1 .. Len(b),
         NEW n \in Nat, n < b[k].bytes,
         NEW rest, rest \in {<<>>, SubSeq([b EXCEPT ![k] = Others(@, n)], k, Len(b))}
  PROVE  /\ f \o Append(SubSeq(b, 1, k - 1), First(b[k], n)) \in Seq(Block)
         /\ rest \in Seq(Block) /\ Len(rest) <= Len(b)
         /\ Keeps((f \o Append(SubSeq(b, 1, k - 1), First(b[k], n))) \o rest, f \o b)
<1>0. /\ Len(f) \in Nat /\ Len(b) \in Nat /\ k \in Nat /\ 1 <= k /\ k <= Len(b)
      /\ b[k] \in Block
  BY LenProperties, ElementOfSeq
<1>1. PICK c1 \in Block, c2 \in Block :
        /\ c1 = First(b[k], n) /\ c2 = Others(b[k], n)
        /\ c1.address = b[k].address /\ End(c1) = b[k].address + n
        /\ c2.address = b[k].address + n /\ End(c2) = End(b[k])
        /\ b[k].address \in Int /\ End(b[k]) \in Int /\ b[k].address + n <= End(b[k])
  BY <1>0, PartsOfBlock
<1>2. PICK w \in Seq(Block) :
        /\ w = Append(SubSeq(b, 1, k - 1), c1) /\ Len(w) = k /\ w[k] = c1
        /\ \A i \in 1 .. k - 1 : w[i] = b[i]
  <2>1. PICK h \in Seq(Block) :
          h = SubSeq(b, 1, k - 1) /\ Len(h) = k - 1 /\ \A i \in 1 .. k - 1 : h[i] = b[i]
    <3>1. SubSeq(b, 1, k - 1) \in Seq(Block) /\ Len(SubSeq(b, 1, k - 1)) = k - 1
          /\ \A i \in 1 .. k - 1 : SubSeq(b, 1, k - 1)[i] = b[i]
      BY <1>0
    <3> QED BY <3>1
  <2>2. Append(h, c1) \in Seq(Block) /\ Len(Append(h, c1)) = k /\ Append(h, c1)[k] = c1
        /\ \A i \in 1 .. k - 1 : Append(h, c1)[i] = h[i]
    BY <1>0, <2>1, AppendProperties
  <2> QED BY <2>1, <2>2
<1>3. PICK b2 \in Seq(Block) :
        /\ b2 = [b EXCEPT ![k] = Others(@, n)] /\ Len(b2) = Len(b) /\ b2[k] = c2
        /\ \A i \in 1 .. Len(b) : i # k => b2[i] = b[i]
  <2>1. [b EXCEPT ![k] = Others(@, n)] = [b EXCEPT ![k] = c2] BY <1>1
  <2>2. [b EXCEPT ![k] = c2] \in Seq(Block) /\ Len([b EXCEPT ![k] = c2]) = Len(b)
    BY <1>0, ExceptSeq
  <2>3. [b EXCEPT ![k] = c2][k] = c2
        /\ \A i \in 1 .. Len(b) : i # k => [b EXCEPT ![k] = c2][i] = b[i]
    BY <1>0, ExceptSeq
  <2> QED BY <2>1, <2>2, <2>3
<1>4. /\ rest \in Seq(Block) /\ Len(rest) \in {0, Len(b) - k + 1}
      /\ \A i \in 1 .. Len(rest) : rest[i] = b2[k + i - 1]
  <2>1. CASE rest = <<>>
    <3>1. <<>> \in Seq(Block) /\ Len(<<>>) = 0 /\ 1 .. 0 = {} BY EmptySeq
    <3> QED BY <2>1, <3>1
  <2>2. CASE rest = SubSeq(b2, k, Len(b))
    <3>1. rest \in Seq(Block) /\ Len(rest) = Len(b) - k + 1
          /\ \A i \in 1 .. Len(b) - k + 1 : rest[i] = b2[k + i - 1]
      BY <1>0, <1>3, <2>2
    <3> QED BY <3>1
  <2> QED BY <1>3, <2>1, <2>2
<1>5. Len(rest) \in Nat /\ Len(w) = k BY <1>2, <1>4, LenProperties
<1> DEFINE p == Len(f) + k
<1>6. PICK u \in Seq(Block) :
        /\ u = (f \o w) \o rest /\ Len(u) = p + Len(rest)
        /\ \A i \in 1 .. p + Len(rest) :
             u[i] = IF i <= Len(f) THEN f[i] ELSE IF i <= p THEN w[i - Len(f)] ELSE rest[i - p]
  <2>1. /\ (f \o w) \o rest \in Seq(Block)
        /\ Len((f \o w) \o rest) = Len(f) + Len(w) + Len(rest)
        /\ \A i \in 1 .. Len(f) + Len(w) + Len(rest) :
             ((f \o w) \o rest)[i] =
               IF i <= Len(f) THEN f[i] ELSE IF i <= Len(f) + Len(w) THEN w[i - Len(f)]
               ELSE rest[i - (Len(f) + Len(w))]
    BY <1>4, ConcatThree
  <2> QED BY <1>5, <2>1
<1>7. PICK t \in Seq(Block) :
        /\ t = f \o b /\ Len(t) = Len(f) + Len(b)
        /\ \A i \in 1 .. Len(t) : t[i] = IF i <= Len(f) THEN f[i] ELSE b[i - Len(f)]
  <2>1. /\ f \o b \in Seq(Block) /\ Len(f \o b) = Len(f) + Len(b)
        /\ \A i \in 1 .. Len(f) + Len(b) :
             (f \o b)[i] = IF i <= Len(f) THEN f[i] ELSE b[i - Len(f)]
    BY ConcatElements
  <2> QED BY <2>1
<1>8. p \in 1 .. Len(t) /\ p \in Nat /\ p - Len(f) = k /\ Len(f) < p BY <1>0, <1>7
<1> HIDE DEF p
<1>9. t[p] = b[k] BY <1>7, <1>8
<1>10. p \in 1 .. Len(u) BY <1>5, <1>6, <1>8
<1>11. u[p] = c1 BY <1>2, <1>6, <1>8, <1>10
<1>12. p + 1 \in 1 .. Len(u) => u[p + 1] = c2
  <2> SUFFICES ASSUME p + 1 \in 1 .. Len(u) PROVE u[p + 1] = c2
    OBVIOUS
  <2>1. 1 \in 1 .. Len(rest) /\ ~(p + 1 <= p) /\ ~(p + 1 <= Len(f)) /\ p + 1 - p = 1
    BY <1>5, <1>6, <1>8
  <2>2. u[p + 1] = rest[1] BY <1>5, <1>6, <1>8, <2>1
  <2>3. rest[1] = b2[k + 1 - 1] BY <1>4, <2>1
  <2>4. k + 1 - 1 = k BY <1>0
  <2> QED BY <1>3, <2>2, <2>3, <2>4
<1>13. \A c \in Block : c.address \in Int /\ End(c) \in Int BY DEF Block, End
<1>14. \A i \in 1 .. Len(t) : t[i] \in Block BY ElementOfSeq
<1>15. ASSUME NEW i \in 1 .. Len(u), i < p PROVE i \in 1 .. Len(t) /\ u[i] = t[i]
  <2>1. i \in 1 .. Len(t) BY <1>8, <1>15
  <2>2. CASE i <= Len(f) BY <1>6, <1>7, <2>1, <2>2
  <2>3. CASE ~(i <= Len(f))
    <3>1. u[i] = w[i - Len(f)] BY <1>6, <1>8, <1>15, <2>3
    <3>2. t[i] = b[i - Len(f)] BY <1>7, <2>1, <2>3
    <3>3. i - Len(f) \in 1 .. k - 1 BY <1>0, <1>8, <1>15, <2>3
    <3> QED BY <1>2, <2>1, <3>1, <3>2, <3>3
  <2> QED BY <2>2, <2>3
<1>16. ASSUME NEW i \in 1 .. Len(u), p + 1 < i PROVE i - 1 \in 1 .. Len(t) /\ u[i] = t[i - 1]
  <2>0. i \in Int /\ i \in 1 .. p + Len(rest) BY <1>6
  <2>1. i - p \in 1 .. Len(rest) /\ 1 < i - p BY <1>5, <1>6, <1>8, <1>16
  <2>2. u[i] = rest[i - p]
    <3>1. ~(i <= p) /\ ~(i <= Len(f)) BY <1>0, <1>8, <1>16, <2>0
    <3> QED BY <1>6, <2>0, <3>1
  <2>3. rest[i - p] = b2[k + (i - p) - 1] BY <1>4, <2>1
  <2>4. k + (i - p) - 1 \in 1 .. Len(b) /\ k + (i - p) - 1 # k
    <3>1. Len(rest) = Len(b) - k + 1 BY <1>4, <2>1
    <3>2. PICK m \in 2 .. Len(rest) : m = i - p BY <1>5, <2>1
    <3>3. k + m - 1 \in 1 .. Len(b) /\ k + m - 1 # k BY <1>0, <3>1
    <3> QED BY <3>2, <3>3
  <2>5. b2[k + (i - p) - 1] = b[k + (i - p) - 1] BY <1>3, <2>4
  <2>6. i - 1 \in 1 .. Len(t) /\ ~(i - 1 <= Len(f)) /\ i - 1 - Len(f) = k + (i - p) - 1
    <3>1. i - 1 - Len(f) = k + (i - p) - 1 BY <1>0, <1>8, <2>0
    <3>2. i - 1 \in 1 .. Len(t) BY <1>0, <1>7, <1>8, <2>0, <2>1, <2>4, <3>1
    <3> QED BY <1>0, <1>8, <1>16, <2>0, <3>1, <3>2
  <2>7. t[i - 1] = b[i - 1 - Len(f)] BY <1>7, <2>6
  <2> QED BY <2>2, <2>3, <2>5, <2>6, <2>7
<1>17. \A i \in 1 .. Len(u) :
         LET j == IF i <= p THEN i ELSE i - 1 IN
         j \in 1 .. Len(t) /\ t[j].address <= u[i].address /\ End(u[i]) <= End(t[j])
  <2> TAKE i \in 1 .. Len(u)
  <2>0. i \in Int BY <1>6
  <2>1. CASE i < p
    <3>1. t[i].address \in Int /\ End(t[i]) \in Int BY <1>13, <1>14, <1>15, <2>1
    <3> QED BY <1>8, <1>15, <2>1, <3>1
  <2>2. CASE i = p
    BY <1>1, <1>8, <1>9, <1>11, <2>2
  <2>3. CASE i = p + 1
    <3>1. u[i] = c2 /\ i - 1 = p /\ ~(i <= p) BY <1>8, <1>12, <2>3
    <3>2. t[p].address <= c2.address /\ End(c2) <= End(t[p]) BY <1>1, <1>9
    <3> QED BY <1>8, <3>1, <3>2
  <2>4. CASE p + 1 < i
    <3>1. t[i - 1].address \in Int /\ End(t[i - 1]) \in Int BY <1>13, <1>14, <1>16, <2>4
    <3>2. ~(i <= p) BY <1>8, <2>0, <2>4
    <3>3. t[i - 1].address <= u[i].address /\ End(u[i]) <= End(t[i - 1]) BY <1>16, <2>4, <3>1
    <3>4. i - 1 \in 1 .. Len(t) BY <1>16, <2>4
    <3> QED BY <3>2, <3>3, <3>4
  <2>5. i < p \/ i = p \/ i = p + 1 \/ p + 1 < i
    <3>1. \A x, y \in Int : x < y \/ x = y \/ x = y + 1 \/ y + 1 < x OBVIOUS
    <3>2. p \in Int BY <1>8
    <3> QED BY <2>0, <3>1, <3>2
  <2> QED BY <2>1, <2>2, <2>3, <2>4, <2>5, Zenon
<1>18. p + 1 \in 1 .. Len(u) => End(u[p]) <= u[p + 1].address BY <1>1, <1>11, <1>12
<1>19. Keeps(u, t) BY <1>8, <1>17, <1>18, PartsKeep
<1> QED BY <1>0, <1>1, <1>2, <1>4, <1>6, <1>7, <1>19, ConcatElements

\* A flush that fails loses bytes at the end of the stream, or none.
LEMMA FailedFlushEffect ==
  ASSUME NEW d \in Dumps, d.faults < MaxDiskFaults, NEW e \in FailedFlushes(d)
  PROVE  /\ e \in Dumps /\ Keeps(Blocks(e), Blocks(d)) /\ Len(e.buffer) <= Len(d.buffer)
         /\ e.faults = d.faults + 1
<1>1. d.file \in Seq(Block) /\ d.buffer \in Seq(Block) /\ d.faults + 1 \in 0 .. MaxDiskFaults
  BY MainAssumption DEF Dumps
<1> DEFINE b == d.buffer
<1>2. \/ \E k \in 0 .. Len(b) - 1 : e \in Failed(d, SubSeq(b, 1, k), SubSeq(b, k + 1, Len(b)))
      \/ \E p \in (1 .. Len(b)) \X TornBytes :
           /\ p[2] < b[p[1]].bytes
           /\ e \in Failed(d, Append(SubSeq(b, 1, p[1] - 1), First(b[p[1]], p[2])),
                           SubSeq([b EXCEPT ![p[1]] = Others(@, p[2])], p[1], Len(b)))
  BY DEF FailedFlushes
<1>3. ASSUME NEW written, NEW rest, e \in Failed(d, written, rest),
             \A left \in {<<>>, rest} :
               /\ d.file \o written \in Seq(Block) /\ left \in Seq(Block) /\ Len(left) <= Len(b)
               /\ Keeps((d.file \o written) \o left, d.file \o b)
      PROVE  /\ e \in Dumps /\ Keeps(Blocks(e), Blocks(d)) /\ Len(e.buffer) <= Len(d.buffer)
             /\ e.faults = d.faults + 1
  <2>1. PICK left \in {<<>>, rest} :
          e = [file |-> d.file \o written, buffer |-> left, faults |-> d.faults + 1]
    BY <1>3 DEF Failed
  <2> QED BY <1>1, <1>3, <2>1 DEF Dumps, Blocks
<1>4. CASE \E k \in 0 .. Len(b) - 1 : e \in Failed(d, SubSeq(b, 1, k), SubSeq(b, k + 1, Len(b)))
  <2>1. PICK k \in 0 .. Len(b) - 1 : e \in Failed(d, SubSeq(b, 1, k), SubSeq(b, k + 1, Len(b)))
    BY <1>4
  <2>2. \A left \in {<<>>, SubSeq(b, k + 1, Len(b))} :
          /\ d.file \o SubSeq(b, 1, k) \in Seq(Block) /\ left \in Seq(Block) /\ Len(left) <= Len(b)
          /\ Keeps((d.file \o SubSeq(b, 1, k)) \o left, d.file \o b)
    BY <1>1, WholeBlocksKeep
  <2> HIDE DEF b
  <2> QED BY <1>3, <2>1, <2>2
<1>5. CASE \E p \in (1 .. Len(b)) \X TornBytes :
             /\ p[2] < b[p[1]].bytes
             /\ e \in Failed(d, Append(SubSeq(b, 1, p[1] - 1), First(b[p[1]], p[2])),
                             SubSeq([b EXCEPT ![p[1]] = Others(@, p[2])], p[1], Len(b)))
  <2>1. PICK k \in 1 .. Len(b), n \in TornBytes :
             /\ n < b[k].bytes
             /\ e \in Failed(d, Append(SubSeq(b, 1, k - 1), First(b[k], n)),
                             SubSeq([b EXCEPT ![k] = Others(@, n)], k, Len(b)))
    BY <1>5
  <2>2. n \in Nat BY MainAssumption
  <2>3. \A left \in {<<>>, SubSeq([b EXCEPT ![k] = Others(@, n)], k, Len(b))} :
          /\ d.file \o Append(SubSeq(b, 1, k - 1), First(b[k], n)) \in Seq(Block)
          /\ left \in Seq(Block) /\ Len(left) <= Len(b)
          /\ Keeps((d.file \o Append(SubSeq(b, 1, k - 1), First(b[k], n))) \o left, d.file \o b)
    BY <1>1, <2>1, <2>2, TornBlockKeeps
  <2> HIDE DEF b
  <2> QED BY <1>3, <2>1, <2>3
<1> QED BY <1>2, <1>4, <1>5

\* What a flush can do.
LEMMA FlushEffect ==
  ASSUME NEW d \in Dumps, NEW e \in Flushes(d)
  PROVE  /\ e \in Dumps /\ Keeps(Blocks(e), Blocks(d)) /\ Len(e.buffer) <= Len(d.buffer)
         /\ \/ e.faults = d.faults /\ Blocks(e) = Blocks(d) /\ e.buffer = <<>>
            \/ e.faults = d.faults + 1
<1>1. CASE e = Flushed(d)
  <2>2. Keeps(Blocks(d), Blocks(d)) BY DEF Keeps
  <2>3. Len(d.buffer) \in Nat /\ Len(<<>>) = 0 BY LenProperties DEF Dumps
  <2> QED BY <1>1, <2>2, <2>3, FlushedEffect
<1>2. CASE d.faults < MaxDiskFaults /\ e \in FailedFlushes(d)
  BY <1>2, FailedFlushEffect
<1> QED BY <1>1, <1>2 DEF Flushes

\* Appending to the second part appends to the whole.
LEMMA AppendToConcat ==
  ASSUME NEW S, NEW s \in Seq(S), NEW t \in Seq(S), NEW e \in S
  PROVE  s \o Append(t, e) = Append(s \o t, e)
<1>0. <<e>> \in Seq(S) OBVIOUS
<1>1. PICK u \in Seq(S) : u = <<e>> BY <1>0, Zenon
<1>2. (s \o t) \o u = s \o (t \o u) BY ConcatAssociative
<1>3. Append(t, e) = t \o u BY <1>1, AppendIsConcat
<1>4. s \o t \in Seq(S) BY ConcatProperties
<1>5. Append(s \o t, e) = (s \o t) \o u BY <1>1, <1>4, AppendIsConcat
<1> QED BY <1>2, <1>3, <1>5

\* fwrite to a buffer that is not full.
LEMMA PutEffect ==
  ASSUME NEW d \in Dumps, NEW b \in Block
  PROVE  /\ Put(d, b) \in Dumps /\ Blocks(Put(d, b)) = Append(Blocks(d), b)
         /\ Len(Put(d, b).buffer) = Len(d.buffer) + 1 /\ Put(d, b).faults = d.faults
<1>1. d.file \in Seq(Block) /\ d.buffer \in Seq(Block) /\ d.faults \in 0 .. MaxDiskFaults
  BY DEF Dumps
<1>2. Put(d, b) = [file |-> d.file, buffer |-> Append(d.buffer, b), faults |-> d.faults]
  <2> DEFINE more == Append(d.buffer, b)
  <2>1. Put(d, b) = [d EXCEPT !.buffer = more] BY DEF Put
  <2> HIDE DEF more
  <2>2. [d EXCEPT !.buffer = more] = [file |-> d.file, buffer |-> more, faults |-> d.faults] BY DEF Dumps
  <2> QED BY <2>1, <2>2 DEF more
<1>3. Append(d.buffer, b) \in Seq(Block) /\ Len(Append(d.buffer, b)) = Len(d.buffer) + 1
  BY <1>1, AppendProperties
<1>4. d.file \o Append(d.buffer, b) = Append(d.file \o d.buffer, b)
  <2>1. PICK f \in Seq(Block), g \in Seq(Block) : f = d.file /\ g = d.buffer BY <1>1
  <2>2. f \o Append(g, b) = Append(f \o g, b) BY AppendToConcat
  <2> QED BY <2>1, <2>2
<1> QED BY <1>1, <1>2, <1>3, <1>4 DEF Dumps, Blocks

\* The variables of the dump are the fields of the record.
LEMMA SetDumpEffect ==
  ASSUME NEW d \in Dumps, SetDump(d)
  PROVE  Dump' = d /\ buffer' = d.buffer /\ faults' = d.faults
BY DEF Dump, SetDump, Dumps

\* fwrite takes the block, or a flush fails and bytes at the end of the stream are lost.
LEMMA FwriteEffect ==
  ASSUME NEW d \in Dumps, Len(d.buffer) <= BufferBlocks, NEW b \in Block, NEW e \in Fwrite(d, b)
  PROVE  /\ e \in Dumps /\ Len(e.buffer) <= BufferBlocks
         /\ \/ e.faults = d.faults /\ Blocks(e) = Append(Blocks(d), b)
            \/ e.faults = d.faults + 1 /\ Keeps(Blocks(e), Blocks(d))
<1>0. Len(d.buffer) \in Nat /\ BufferBlocks \in Nat \ {0} /\ d.faults \in Nat
  BY MainAssumption, LenProperties DEF Dumps
<1>1. CASE Len(d.buffer) < BufferBlocks
  <2>1. e = Put(d, b) BY <1>1 DEF Fwrite
  <2>2. Len(e.buffer) = Len(d.buffer) + 1 BY <2>1, PutEffect
  <2> QED BY <1>0, <1>1, <2>1, <2>2, PutEffect
<1>2. CASE ~(Len(d.buffer) < BufferBlocks)
  <2>1. PICK f \in Flushes(d) : e = IF f.faults = d.faults THEN Put(f, b) ELSE f
    BY <1>2 DEF Fwrite
  <2>2. /\ f \in Dumps /\ Keeps(Blocks(f), Blocks(d)) /\ Len(f.buffer) <= Len(d.buffer)
        /\ \/ f.faults = d.faults /\ Blocks(f) = Blocks(d) /\ f.buffer = <<>>
           \/ f.faults = d.faults + 1
    BY FlushEffect
  <2>3. CASE f.faults = d.faults
    <3>1. e = Put(f, b) /\ Blocks(f) = Blocks(d) /\ Len(f.buffer) = 0 BY <1>0, <2>1, <2>2, <2>3
    <3>2. /\ e \in Dumps /\ Blocks(e) = Append(Blocks(f), b) /\ e.faults = f.faults
          /\ Len(e.buffer) = Len(f.buffer) + 1
      BY <2>2, <3>1, PutEffect
    <3> QED BY <1>0, <2>3, <3>1, <3>2
  <2>4. CASE f.faults = d.faults + 1
    <3>1. e = f BY <1>0, <2>1, <2>4
    <3>2. Len(f.buffer) \in Nat BY <2>2, LenProperties DEF Dumps
    <3> QED BY <1>0, <2>2, <2>4, <3>1, <3>2
  <2> QED BY <2>2, <2>3, <2>4
<1> QED BY <1>1, <1>2

\* The block goes to the end of the stream, or the process ends and bytes of the
\* stream are lost at its end.
LEMMA WriteEffect ==
  ASSUME NEW d \in Dumps, Len(d.buffer) <= BufferBlocks, NEW b \in Block, WriteBlock(d, b)
  PROVE  /\ Dump' \in Dumps /\ Len(buffer') <= BufferBlocks
         /\ \/ UNCHANGED <<pc, exit>> /\ faults' = d.faults /\ Blocks(Dump)' = Append(Blocks(d), b)
            \/ Exit("aborted") /\ faults' = d.faults + 1 /\ Keeps(Blocks(Dump)', Blocks(d))
<1>0. d.faults \in Nat BY MainAssumption DEF Dumps
<1>1. PICK e \in Fwrite(d, b) :
        IF e.faults = d.faults THEN SetDump(e) /\ UNCHANGED <<pc, exit>> ELSE WriteFailed(d, e, b)
  BY DEF WriteBlock
<1>2. /\ e \in Dumps /\ Len(e.buffer) <= BufferBlocks
      /\ \/ e.faults = d.faults /\ Blocks(e) = Append(Blocks(d), b)
         \/ e.faults = d.faults + 1 /\ Keeps(Blocks(e), Blocks(d))
  BY FwriteEffect
<1>3. SetDump(e) BY <1>1 DEF WriteFailed
<1>4. Dump' = e /\ buffer' = e.buffer /\ faults' = e.faults BY <1>2, <1>3, SetDumpEffect
<1>5. Blocks(Dump)' = Blocks(e) BY <1>4 DEF Blocks
<1>6. IF e.faults = d.faults THEN UNCHANGED <<pc, exit>> ELSE Exit("aborted")
  BY <1>1 DEF WriteFailed
<1> QED BY <1>0, <1>2, <1>4, <1>5, <1>6

\* BlockReader hands over the next block of the flash.
LEMMA DeliverEffect ==
  ASSUME DumpOrder, Reader!Deliver
  PROVE  \E b \in Block : /\ log' = Append(log, b) /\ arg' = arg /\ Len(log) < FlashBlocks
                          /\ b.address = Len(log) * kBlockSize /\ b.bytes = kBlockSize
                          /\ (~b.fault => b.exact)
<1>1. /\ arg = [flash_address |-> 0, size |-> kMaxFlash, block_size |-> kBlockSize,
                callbacks |-> {"block_read", "block_read_done"}]
      /\ log \in Seq(Block) /\ Len(log) \in Nat
  BY LenProperties DEF DumpOrder, DumpArguments
<1>2. FlashBlocks \in Nat /\ kBlockSize = 64 /\ kMaxFlash = FlashBlocks * 64
  BY MainAssumption DEF kMaxFlash, kBlockSize
<1>3. Reader!Position = Len(log) * 64 BY <1>1, <1>2 DEF Reader!Position
<1>4. Len(log) < FlashBlocks
  BY <1>1, <1>2, <1>3 DEF Reader!Deliver, Reader!Remaining
<1>5. Reader!InRange(arg) BY <1>1, <1>2, MainAssumption DEF Reader!InRange
<1>6. PICK fault \in BOOLEAN, exact \in BOOLEAN :
        /\ Reader!InRange(arg) /\ ~fault => exact
        /\ log' = Append(log, [address |-> Reader!Position, exact |-> exact,
                               bytes |-> 4 * (arg.block_size \div 4), fault |-> fault,
                               reported |-> fault /\ "block_read_error" \in arg.callbacks])
  BY DEF Reader!Deliver
<1> DEFINE b == [address |-> Reader!Position, exact |-> exact, bytes |-> 4 * (arg.block_size \div 4),
                 fault |-> fault, reported |-> fault /\ "block_read_error" \in arg.callbacks]
<1>7. b \in Block
  <2>1. Reader!Position \in Int /\ 4 * (arg.block_size \div 4) \in Nat BY <1>1, <1>2, <1>3
  <2>2. (fault /\ "block_read_error" \in arg.callbacks) \in BOOLEAN OBVIOUS
  <2> QED BY <2>1, <2>2 DEF Block
<1>8. b.address = Len(log) * kBlockSize /\ b.bytes = kBlockSize /\ (~b.fault => b.exact)
  BY <1>1, <1>2, <1>3, <1>5, <1>6
<1>9. log' = Append(log, b) /\ arg' = arg BY <1>6 DEF Reader!Deliver
<1> HIDE DEF b
<1> QED BY <1>4, <1>7, <1>8, <1>9

\* The block_read callback: the flush before a dot of the progress display may lose
\* bytes and is not looked at; then the block follows what is left of the dump.
LEMMA CallbackEffect ==
  ASSUME DumpOrder, SaveBlock(log'[Len(log')]), NEW b \in Block, log' = Append(log, b)
  PROVE  /\ Dump' \in Dumps /\ Len(buffer') <= BufferBlocks
         /\ \E s \in Seq(Block) :
              /\ Keeps(s, Blocks(Dump))
              /\ \/ /\ UNCHANGED <<pc, exit>> /\ faults' >= faults /\ Blocks(Dump)' = Append(s, b)
                    /\ faults' = faults => s = Blocks(Dump)
                 \/ Exit("aborted") /\ faults' > 0 /\ Blocks(Dump)' = s
<1>0. /\ Dump \in Dumps /\ Len(buffer) <= BufferBlocks /\ Dump.faults = faults /\ Dump.buffer = buffer
      /\ faults \in Nat /\ log \in Seq(Block) /\ Len(buffer) \in Nat /\ BufferBlocks \in Nat
  BY MainAssumption, LenProperties DEF DumpOrder, Dump, Dumps
<1>1. log'[Len(log')] = b BY <1>0, AppendProperties
<1>2. PICK d \in Dumps :
        /\ WriteBlock(d, b) /\ Keeps(Blocks(d), Blocks(Dump)) /\ Len(d.buffer) <= BufferBlocks
        /\ d.faults >= faults /\ (d.faults = faults => Blocks(d) = Blocks(Dump))
  <2>1. CASE WriteBlock(Dump, b)
    <3>2. Keeps(Blocks(Dump), Blocks(Dump)) BY DEF Keeps
    <3> QED BY <1>0, <2>1, <3>2
  <2>2. CASE \E d \in Flushes(Dump) : WriteBlock(d, b)
    <3>1. PICK d \in Flushes(Dump) : WriteBlock(d, b) BY <2>2
    <3>2. /\ d \in Dumps /\ Keeps(Blocks(d), Blocks(Dump)) /\ Len(d.buffer) <= Len(Dump.buffer)
          /\ \/ d.faults = Dump.faults /\ Blocks(d) = Blocks(Dump)
             \/ d.faults = Dump.faults + 1
      BY <1>0, FlushEffect
    <3>3. Len(d.buffer) \in Nat BY <3>2, LenProperties DEF Dumps
    <3> QED BY <1>0, <3>1, <3>2, <3>3
  <2> QED BY <1>1, <2>1, <2>2 DEF SaveBlock
<1>3. /\ Dump' \in Dumps /\ Len(buffer') <= BufferBlocks
      /\ \/ UNCHANGED <<pc, exit>> /\ faults' = d.faults /\ Blocks(Dump)' = Append(Blocks(d), b)
         \/ Exit("aborted") /\ faults' = d.faults + 1 /\ Keeps(Blocks(Dump)', Blocks(d))
  BY <1>2, WriteEffect
<1>4. Blocks(d) \in Seq(Block) /\ d.faults \in Nat
  <2>1. d.faults \in Nat BY MainAssumption DEF Dumps
  <2> QED BY <2>1, BlocksOf
<1>5. CASE UNCHANGED <<pc, exit>> /\ faults' = d.faults /\ Blocks(Dump)' = Append(Blocks(d), b)
  BY <1>2, <1>3, <1>4, <1>5
<1>6. CASE Exit("aborted") /\ faults' = d.faults + 1 /\ Keeps(Blocks(Dump)', Blocks(d))
  <2>1. Blocks(Dump)' \in Seq(Block)
    <3>1. PICK e \in Dumps : e = Dump' BY <1>3
    <3> QED BY <3>1, BlocksOf
  <2>2. Keeps(Blocks(Dump)', Blocks(Dump))
    <3>1. PICK after : after = Blocks(Dump)' OBVIOUS
    <3>2. Keeps(after, Blocks(d)) BY <1>6, <3>1
    <3>3. Keeps(after, Blocks(Dump)) BY <1>2, <3>2 DEF Keeps
    <3> QED BY <3>1, <3>3
  <2> QED BY <1>3, <1>4, <1>6, <2>1, <2>2
<1> QED BY <1>3, <1>5, <1>6

\* A block with a greater address may follow.
LEMMA AppendAscends ==
  ASSUME NEW s \in Seq(Block), NEW b \in Block, Ascends(s), Below(s, b.address),
         NEW a \in Int, End(b) <= a
  PROVE  Ascends(Append(s, b)) /\ Below(Append(s, b), a)
<1>1. /\ Len(s) \in Nat /\ Len(Append(s, b)) = Len(s) + 1 /\ Append(s, b)[Len(s) + 1] = b
      /\ \A i \in 1 .. Len(s) : Append(s, b)[i] = s[i] /\ End(s[i]) \in Int
      /\ b.address \in Int /\ End(b) \in Int /\ b.address <= End(b)
  <2>1. /\ Len(s) \in Nat /\ Len(Append(s, b)) = Len(s) + 1 /\ Append(s, b)[Len(s) + 1] = b
        /\ \A i \in 1 .. Len(s) : Append(s, b)[i] = s[i]
    BY LenProperties, AppendProperties
  <2>2. \A i \in 1 .. Len(s) : s[i] \in Block BY ElementOfSeq
  <2>3. \A c \in Block : c.address \in Int /\ End(c) \in Int /\ c.address <= End(c) BY DEF Block, End
  <2> QED BY <2>1, <2>2, <2>3
<1> DEFINE t == Append(s, b)
<1> HIDE DEF t
<1>2. \A i \in 1 .. Len(t) : i \in 1 .. Len(s) \/ i = Len(s) + 1 BY <1>1 DEF t
<1>3. Ascends(t) BY <1>1, <1>2 DEF t, Ascends, Below
<1>4. Below(t, a) BY <1>1, <1>2 DEF t, Below
<1> QED BY <1>3, <1>4 DEF t

\* The old dump is one block.
LEMMA DumpInit == Init => DumpOrder
<1> SUFFICES ASSUME Init PROVE DumpOrder
  OBVIOUS
<1>1. OldBlock \in Block BY DEF OldBlock, Block, kBlockSize
<1>2. /\ file = <<OldBlock>> /\ buffer = <<>> /\ faults = 0 /\ pc = "arguments" /\ exit = "no"
      /\ log = <<>> /\ result = "none" /\ arg \in DumpArguments
  BY DEF Init, Reader!Init
<1>3. file \in Seq(Block) /\ Len(file) = 1 /\ buffer \in Seq(Block) /\ log \in Seq(Block)
      /\ Len(buffer) = 0 /\ Len(log) = 0
  BY <1>1, <1>2
<1>4. Dump \in Dumps BY <1>2, <1>3, MainAssumption DEF Dump, Dumps
<1>5. Len(Blocks(Dump)) = 1
  <2>1. Dump.file = file /\ Dump.buffer = buffer BY DEF Dump
  <2>2. Len(Blocks(Dump)) = Len(Dump.file) + Len(Dump.buffer) BY <1>4, BlocksOf
  <2> QED BY <1>3, <2>1, <2>2
<1>6. Ascends(Blocks(Dump)) BY <1>5 DEF Ascends
<1> QED BY <1>2, <1>3, <1>4, <1>6, MainAssumption DEF DumpOrder, DumpIsPrefix, AbortsOnWriteErrors

\* The steps before the call leave the dump alone but for fopen.
LEMMA EarlyDumpStep ==
  ASSUME ControlInv, DumpOrder,
         \/ ParseArguments \/ CreatePci \/ CreateChipset \/ MapRootComplex
         \/ CheckBootStraps \/ CheckDescriptor \/ CheckCycle \/ UNCHANGED vars
  PROVE  DumpOrder'
<1>1. /\ UNCHANGED <<readerVars, dumpVars>>
      /\ \/ UNCHANGED <<pc, exit>>
         \/ pc # "exited" /\ pc' = "exited" /\ exit' \in {"failed check", "failure"}
         \/ pc \notin {"busy", "read", "exited"} /\ pc' \notin {"busy", "read", "exited"} /\ exit' = exit
         \/ pc = "busy" /\ pc' = "read" /\ exit' = exit
  <2>1. CASE ParseArguments \/ CreatePci \/ CreateChipset
    BY <2>1 DEF ParseArguments, CreatePci, CreateChipset, Goto, Exit
  <2>2. CASE MapRootComplex BY <2>2 DEF MapRootComplex, MapFailed, Goto, Exit
  <2>3. CASE CheckBootStraps \/ CheckDescriptor \/ CheckCycle
    <3>1. window # {} BY <2>3 DEF ControlInv, Probed, WithRcrb, CheckBootStraps, CheckDescriptor, CheckCycle
    <3> QED BY <2>3, <3>1 DEF CheckBootStraps, CheckDescriptor, CheckCycle, InvalidDescriptor,
                              WithRootComplex, Goto, Exit
  <2>4. CASE UNCHANGED vars BY <2>4 DEF vars
  <2> QED BY <2>1, <2>2, <2>3, <2>4
<1>2. exit = "no" <=> pc # "exited" BY DEF ControlInv
<1>3. UNCHANGED <<arg, log, result, file, buffer, faults, Dump, Blocks(Dump)>>
  BY <1>1 DEF readerVars, dumpVars, Dump, Blocks
<1>4. pc = "busy" => file \o buffer = log /\ Below(Blocks(Dump), Len(log) * kBlockSize)
  <2> SUFFICES ASSUME pc = "busy"
               PROVE  file \o buffer = log /\ Below(Blocks(Dump), Len(log) * kBlockSize)
    OBVIOUS
  <2>1. file = <<>> /\ buffer = <<>> /\ log = <<>> BY DEF DumpOrder
  <2>2. file \o buffer = <<>> BY <2>1
  <2>3. Len(Blocks(Dump)) = 0 BY <2>2 DEF Blocks, Dump
  <2> QED BY <2>1, <2>2, <2>3 DEF Below
<1> QED BY <1>1, <1>2, <1>3, <1>4 DEF DumpOrder, DumpIsPrefix, AbortsOnWriteErrors

\* fopen empties the file, or nothing happens.
LEMMA OpenDumpStep ==
  ASSUME ControlInv, DumpOrder, OpenDump
  PROVE  DumpOrder'
<1>1. /\ pc = "open" /\ exit = "no" /\ UNCHANGED <<arg, log, result, buffer, faults>>
      /\ \/ file' = <<>> /\ pc' = "busy" /\ exit' = exit
         \/ file' = file /\ pc' = "exited" /\ exit' = "failure"
  BY DEF ControlInv, OpenDump, Truncate, Goto, Exit, readerVars
<1>2. CASE file' = file /\ pc' = "exited" /\ exit' = "failure"
  <2>1. Dump' = Dump /\ Blocks(Dump)' = Blocks(Dump) BY <1>1, <1>2 DEF Dump, Blocks
  <2> QED BY <1>1, <1>2, <2>1 DEF DumpOrder, DumpIsPrefix, AbortsOnWriteErrors
<1>3. CASE file' = <<>> /\ pc' = "busy" /\ exit' = exit
  <2>1. log = <<>> /\ buffer = <<>> /\ faults = 0 /\ result = "none" BY <1>1 DEF DumpOrder
  <2>2. <<>> \in Seq(Block) BY EmptySeq
  <2>3. Dump' \in Dumps BY <1>1, <1>3, <2>1, <2>2, MainAssumption DEF Dump, Dumps
  <2>4. Blocks(Dump)' = <<>> BY <1>1, <1>3, <2>1 DEF Blocks, Dump
  <2>5. Ascends(Blocks(Dump))' BY <2>4 DEF Ascends
  <2> QED BY <1>1, <1>3, <2>1, <2>3, <2>5 DEF DumpOrder, DumpIsPrefix, AbortsOnWriteErrors
<1> QED BY <1>1, <1>2, <1>3

\* Steps of the call that write nothing: the program goes on or ends.
LEMMA CallStep ==
  ASSUME ControlInv, DumpOrder, pc = "read", UNCHANGED <<arg, log, dumpVars>>,
         \/ UNCHANGED <<pc, exit>>
         \/ Exit("failed check")
  PROVE  DumpOrder'
<1>1. exit = "no" /\ UNCHANGED <<file, buffer, faults>> BY DEF ControlInv, dumpVars
<1>2. Dump' = Dump /\ Blocks(Dump)' = Blocks(Dump) BY <1>1 DEF Dump, Blocks
<1> QED BY <1>1, <1>2 DEF DumpOrder, DumpIsPrefix, AbortsOnWriteErrors, Exit

\* The blocks read, one more of them.
LEMMA LogStep ==
  ASSUME DumpOrder, NEW b \in Block, b.address = Len(log) * kBlockSize, b.bytes = kBlockSize,
         Len(log) < FlashBlocks
  PROVE  /\ Append(log, b) \in Seq(Block) /\ Len(Append(log, b)) = Len(log) + 1
         /\ Len(Append(log, b)) <= FlashBlocks
         /\ \A i \in 1 .. Len(Append(log, b)) :
              Append(log, b)[i].address = (i - 1) * kBlockSize /\ Append(log, b)[i].bytes = kBlockSize
<1> DEFINE more == Append(log, b)
<1>1. log \in Seq(Block) /\ Len(log) \in Nat /\ FlashBlocks \in Nat BY MainAssumption, LenProperties DEF DumpOrder
<1>2. /\ more \in Seq(Block) /\ Len(more) = Len(log) + 1 /\ more[Len(log) + 1] = b
      /\ \A i \in 1 .. Len(log) : more[i] = log[i]
  BY <1>1, AppendProperties
<1> HIDE DEF more
<1>3. ASSUME NEW i \in 1 .. Len(more)
      PROVE  more[i].address = (i - 1) * kBlockSize /\ more[i].bytes = kBlockSize
  <2>1. CASE i \in 1 .. Len(log) BY <1>2, <2>1 DEF DumpOrder
  <2>2. CASE i = Len(log) + 1
    <3>1. i - 1 = Len(log) BY <1>1, <2>2
    <3> QED BY <1>2, <2>2, <3>1
  <2> QED BY <1>1, <1>2, <2>1, <2>2
<1>4. Len(more) <= FlashBlocks BY <1>1, <1>2
<1> QED BY <1>2, <1>3, <1>4 DEF more

\* The callback, given the next block, keeps the dump in order, with the blocks read
\* so far.
LEMMA SaveBlockStep ==
  ASSUME ControlInv, DumpOrder, pc = "read", SaveBlock(log'[Len(log')]),
         NEW b \in Block, log' = Append(log, b), b.address = Len(log) * kBlockSize,
         b.bytes = kBlockSize, Len(log) < FlashBlocks, arg' = arg
  PROVE  DumpOrder'
<1>2. /\ log' \in Seq(Block) /\ Len(log') = Len(log) + 1 /\ Len(log') <= FlashBlocks
      /\ \A i \in 1 .. Len(log') : log'[i].address = (i - 1) * kBlockSize /\ log'[i].bytes = kBlockSize
  BY LogStep
<1>3. /\ Dump' \in Dumps /\ Len(buffer') <= BufferBlocks
      /\ \E s \in Seq(Block) :
           /\ Keeps(s, Blocks(Dump))
           /\ \/ /\ UNCHANGED <<pc, exit>> /\ faults' >= faults /\ Blocks(Dump)' = Append(s, b)
                 /\ faults' = faults => s = Blocks(Dump)
              \/ Exit("aborted") /\ faults' > 0 /\ Blocks(Dump)' = s
  BY CallbackEffect
<1>4. PICK s \in Seq(Block) :
           /\ Keeps(s, Blocks(Dump))
           /\ \/ /\ UNCHANGED <<pc, exit>> /\ faults' >= faults /\ Blocks(Dump)' = Append(s, b)
                 /\ faults' = faults => s = Blocks(Dump)
              \/ Exit("aborted") /\ faults' > 0 /\ Blocks(Dump)' = s
  BY <1>3
<1>5. exit = "no" BY DEF ControlInv
<1>6. /\ Dump \in Dumps /\ Blocks(Dump) \in Seq(Block) /\ faults \in Nat /\ log \in Seq(Block)
      /\ Len(log) \in Nat
  <2>1. Dump \in Dumps /\ log \in Seq(Block) BY DEF DumpOrder
  <2>2. faults \in Nat BY <2>1, MainAssumption DEF Dumps, Dump
  <2> QED BY <2>1, <2>2, BlocksOf, LenProperties
<1>7. /\ Len(log) * kBlockSize \in Int /\ Len(log') * kBlockSize \in Int
      /\ End(b) <= Len(log') * kBlockSize
  BY <1>2, <1>6 DEF kBlockSize, End
<1>8. Ascends(s) /\ Below(s, Len(log) * kBlockSize)
  <2>1. Ascends(Blocks(Dump)) /\ Below(Blocks(Dump), Len(log) * kBlockSize) BY <1>5 DEF DumpOrder
  <2> QED BY <1>4, <1>7, <2>1 DEF Keeps
<1>9. CASE Exit("aborted") /\ faults' > 0 /\ Blocks(Dump)' = s
  <2>1. Ascends(Blocks(Dump))' BY <1>8, <1>9 DEF Ascends
  <2> QED BY <1>2, <1>3, <1>9, <2>1 DEF DumpOrder, DumpIsPrefix, AbortsOnWriteErrors, Exit
<1>10. CASE /\ UNCHANGED <<pc, exit>> /\ faults' >= faults /\ Blocks(Dump)' = Append(s, b)
            /\ faults' = faults => s = Blocks(Dump)
  <2>1. Ascends(Append(s, b)) /\ Below(Append(s, b), Len(log') * kBlockSize)
    BY <1>7, <1>8, AppendAscends
  <2>2. Ascends(Blocks(Dump))' /\ Below(Blocks(Dump), Len(log) * kBlockSize)'
    BY <1>10, <2>1 DEF Ascends, Below
  <2>3. DumpIsPrefix'
    <3> SUFFICES ASSUME faults' = 0 PROVE (file \o buffer)' = log'
      BY DEF DumpIsPrefix
    <3>1. faults' = faults /\ faults = 0 BY <1>6, <1>10
    <3>2. Blocks(Dump) = log BY <1>5, <3>1 DEF DumpOrder, DumpIsPrefix, Blocks, Dump
    <3>3. Blocks(Dump)' = log' BY <1>10, <3>1, <3>2
    <3> QED BY <3>3 DEF Blocks, Dump
  <2> QED BY <1>2, <1>3, <1>5, <1>10, <2>2, <2>3 DEF DumpOrder, AbortsOnWriteErrors
<1> QED BY <1>4, <1>9, <1>10

\* At the end every block was read, and the stream is flushed.
LEMMA FinishStep ==
  ASSUME ControlInv, DumpOrder, pc = "read", ~Reader!Remaining, UNCHANGED <<arg, log>>,
         Exit("success"), AtExit
  PROVE  DumpOrder'
<1>1. pc' = "exited" /\ exit' = "success" BY DEF Exit
<1>2. PICK d \in Flushes(Dump) : SetDump(d) BY DEF AtExit
<1>3. /\ Dump \in Dumps /\ Dump.buffer = buffer /\ Dump.faults = faults /\ Blocks(Dump) \in Seq(Block)
      /\ faults \in Nat
  <2>1. Dump \in Dumps /\ Dump.faults = faults /\ Dump.buffer = buffer BY DEF DumpOrder, Dump
  <2>2. faults \in Nat BY <2>1, MainAssumption DEF Dumps
  <2> QED BY <2>1, <2>2, BlocksOf
<1>4. /\ d \in Dumps /\ Keeps(Blocks(d), Blocks(Dump)) /\ Len(d.buffer) <= Len(Dump.buffer)
      /\ \/ d.faults = Dump.faults /\ Blocks(d) = Blocks(Dump) /\ d.buffer = <<>>
         \/ d.faults = Dump.faults + 1
  BY <1>3, FlushEffect
<1>5. Dump' = d /\ buffer' = d.buffer /\ faults' = d.faults BY <1>2, <1>4, SetDumpEffect
<1>6. Len(log) = FlashBlocks
  <2>1. /\ arg = [flash_address |-> 0, size |-> kMaxFlash, block_size |-> kBlockSize,
                  callbacks |-> {"block_read", "block_read_done"}]
        /\ Len(log) \in Nat /\ Len(log) <= FlashBlocks
    BY LenProperties DEF DumpOrder, DumpArguments
  <2>2. FlashBlocks \in Nat /\ kBlockSize = 64 /\ kMaxFlash = FlashBlocks * 64
    BY MainAssumption DEF kMaxFlash, kBlockSize
  <2>3. ~(0 + Len(log) * 64 < 0 + FlashBlocks * 64)
    BY <1>1, <2>1, <2>2 DEF Reader!Remaining, Reader!Position
  <2> QED BY <2>1, <2>2, <2>3
<1>7. Len(buffer') <= BufferBlocks
  <2>1. Len(buffer) <= BufferBlocks BY DEF DumpOrder
  <2>2. Len(d.buffer) \in Nat /\ Len(Dump.buffer) \in Nat BY <1>3, <1>4, LenProperties DEF Dumps
  <2> QED BY <1>3, <1>4, <1>5, <2>1, <2>2, MainAssumption
<1>8. Ascends(Blocks(Dump))'
  <2>1. Ascends(Blocks(Dump)) BY DEF DumpOrder
  <2>4. Ascends(Blocks(d)) BY <1>4, <2>1 DEF Keeps
  <2> QED BY <1>5, <2>4 DEF Ascends, Blocks
<1>9. faults' = 0 => buffer' = <<>> /\ (file \o buffer)' = log
  <2> SUFFICES ASSUME faults' = 0 PROVE buffer' = <<>> /\ (file \o buffer)' = log
    OBVIOUS
  <2>1. faults = 0 /\ d.faults = Dump.faults BY <1>3, <1>4, <1>5
  <2>2. Blocks(d) = Blocks(Dump) /\ d.buffer = <<>> BY <1>3, <1>4, <2>1
  <2>3. Blocks(Dump) = log BY <1>1, <2>1 DEF DumpOrder, DumpIsPrefix, Blocks, Dump
  <2>4. Blocks(Dump)' = log BY <1>5, <2>2, <2>3 DEF Blocks
  <2> QED BY <1>5, <2>2, <2>4 DEF Blocks, Dump
<1> QED BY <1>1, <1>4, <1>5, <1>6, <1>7, <1>8, <1>9 DEF DumpOrder, DumpIsPrefix, AbortsOnWriteErrors

\* No byte is in the dump twice or out of order.
LEMMA OrderAscends == DumpOrder => BlocksAscend
<1> SUFFICES ASSUME DumpOrder PROVE BlocksAscend
  OBVIOUS
<1>1. Dump \in Dumps /\ Ascends(Blocks(Dump)) BY DEF DumpOrder
<1>2. file \o buffer = Blocks(Dump) BY DEF Blocks, Dump
<1>3. DOMAIN Blocks(Dump) = 1 .. Len(Blocks(Dump)) BY <1>1, BlocksOf, LenProperties
<1> QED BY <1>1, <1>2, <1>3 DEF BlocksAscend, Ascends, End

\* At the end everything read is in the file, unless a write failed.
LEMMA FileIsLog ==
  ASSUME DumpOrder, exit = "success", faults = 0
  PROVE  file = log
<1>1. file \o buffer = log /\ buffer = <<>> /\ file \in Seq(Block)
  BY DEF DumpOrder, DumpIsPrefix, Dump, Dumps
<1> QED BY <1>1, ConcatEmptySeq

\* DumpInv holds throughout.
THEOREM DumpHolds == Spec => []DumpInv
<1>1. Init => DumpInv BY DumpInit DEF DumpInv, LogExact, Init, Reader!Init
<1>2. ControlInv /\ DumpInv /\ [Next]_vars => DumpInv'
  <2> SUFFICES ASSUME ControlInv, DumpInv, [Next]_vars PROVE DumpInv'
    OBVIOUS
  <2> USE DEF DumpInv
  <2>1. CASE \/ ParseArguments \/ CreatePci \/ CreateChipset \/ MapRootComplex
             \/ CheckBootStraps \/ CheckDescriptor \/ CheckCycle \/ UNCHANGED vars
    <3>1. UNCHANGED log
      BY <2>1 DEF ParseArguments, CreatePci, CreateChipset, MapRootComplex, CheckBootStraps,
                  CheckDescriptor, CheckCycle, vars, readerVars
    <3> QED BY <2>1, <3>1, EarlyDumpStep DEF LogExact
  <2>2. CASE OpenDump
    BY <2>2, OpenDumpStep DEF OpenDump, readerVars, LogExact
  <2>3. CASE StartReading \/ ReaderUnavailable
    <3>1. /\ pc = "read" /\ UNCHANGED <<arg, log, dumpVars>>
          /\ UNCHANGED <<pc, exit>> \/ Exit("failed check")
      BY <2>3 DEF StartReading, ReaderUnavailable, Reader!Call, Reader!Unavailable
    <3> QED BY <3>1, CallStep DEF LogExact
  <2>4. CASE BlockRead
    <3>1. PICK b \in Block : /\ log' = Append(log, b) /\ arg' = arg /\ Len(log) < FlashBlocks
                            /\ b.address = Len(log) * kBlockSize /\ b.bytes = kBlockSize
                            /\ (~b.fault => b.exact)
      BY <2>4, DeliverEffect DEF BlockRead
    <3>2. DumpOrder' BY <2>4, <3>1, SaveBlockStep DEF BlockRead
    <3>3. LogExact'
      <4>1. log \in Seq(Block) BY DEF DumpOrder
      <4> QED BY <3>1, <4>1 DEF LogExact
    <3> QED BY <3>2, <3>3
  <2>5. CASE FinishReading
    <3>1. /\ pc = "read" /\ ~Reader!Remaining /\ UNCHANGED <<arg, log>>
          /\ Exit("success") /\ AtExit
      BY <2>5 DEF FinishReading, Reader!Finish
    <3> QED BY <3>1, FinishStep DEF LogExact
  <2> QED BY <2>1, <2>2, <2>3, <2>4, <2>5 DEF Next
<1> QED BY <1>1, <1>2, ControlHolds, PTL DEF Spec

\* The file and the stream hold the blocks read so far, until a write fails.
THEOREM DumpStaysPrefix == Spec => []DumpIsPrefix
<1>1. DumpInv => DumpIsPrefix BY DEF DumpInv, DumpOrder
<1> QED BY <1>1, DumpHolds, PTL

\* No byte of the flash is in the dump twice or out of order, whatever writes fail and
\* wherever they end.
THEOREM BlocksStayAscending == Spec => []BlocksAscend
<1>1. DumpInv => BlocksAscend BY OrderAscends DEF DumpInv
<1> QED BY <1>1, DumpHolds, PTL

\* The program aborts only when the dump cannot be written: rcrb_mem() is never
\* called without a window.
THEOREM AbortsOnlyOnWriteErrors == Spec => []AbortsOnWriteErrors
<1>1. DumpInv => AbortsOnWriteErrors BY DEF DumpInv, DumpOrder
<1> QED BY <1>1, DumpHolds, PTL

\* Success without a failed write means that the file is the whole image, for every
\* size of the flash and of the buffer.
THEOREM ImageIsSaved == Spec => []SavedImage
<1>1. DumpInv => SavedImage
  <2> SUFFICES ASSUME DumpInv, exit = "success", faults = 0 PROVE WholeImage
    BY DEF SavedImage
  <2>1. file = log BY FileIsLog DEF DumpInv
  <2>2. DOMAIN log = 1 .. Len(log) BY LenProperties DEF DumpInv, DumpOrder
  <2> QED BY <2>1, <2>2 DEF DumpInv, DumpOrder, LogExact, WholeImage
<1> QED BY <1>1, DumpHolds, PTL

\* Types of the program's variables.
THEOREM TypeCorrect == Spec => []TypeOK
<1>1. ControlInv /\ DumpInv => TypeOK
  <2> SUFFICES ASSUME ControlInv, DumpInv PROVE TypeOK
    OBVIOUS
  <2>1. class \in {"none", "unsupported"} \cup {Classes[k] : k \in DOMAIN Classes}
    <3>1. CASE class \in {"none", "unsupported"} BY <3>1
    <3>2. CASE class \notin {"none", "unsupported"}
      <4>1. class = Create(machine.id) /\ Supporting(machine.id) # {}
        BY <3>2 DEF ControlInv, Create
      <4>2. PICK k \in 1 .. 7 : class = Classes[k] BY <4>1, CreateFinds
      <4> QED BY <4>2, SevenClasses
    <3> QED BY <3>1, <3>2
  <2>2. file \in Seq(Block) /\ buffer \in Seq(Block) /\ faults \in 0 .. MaxDiskFaults
    BY DEF DumpInv, DumpOrder, Dump, Dumps
  <2>3. \A s \in {file, buffer} : \A i \in DOMAIN s : s[i] \in Block
    BY <2>2, LenProperties, ElementOfSeq
  <2> QED BY <2>1, <2>2, <2>3 DEF TypeOK, ControlInv, DumpInv, DumpOrder, Probed
<1> QED BY <1>1, ControlHolds, DumpHolds, PTL
====
