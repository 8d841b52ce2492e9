---- MODULE SpiRegisters ----
(***************************************************************************)
(* The SPI host registers as IntelIch8Chipset reads and writes them        *)
(* (pawn/chipset_intel_ich8.cc).  Every later chipset class inherits these *)
(* accessors and differs only in SpiBar.                                   *)
(*                                                                         *)
(* The specification lets a caller store any struct in any register that   *)
(* has a Write accessor, in any order, on memory that starts with any      *)
(* contents.  The window behaves as plain memory here: what the hardware   *)
(* makes of a store is the business of module HwSequencing.                *)
(***************************************************************************)
EXTENDS PhysicalMemory, RegisterLayout

CONSTANTS
  SpiBar,    \* base of the SPI registers in the mapped window
  Words,     \* words whose decodings a caller stores
  Contents   \* initial contents of the window

ASSUME SpiBarAssumption == SpiBar \in Nat
ASSUME WordsAssumption == Words \subseteq Word(32) /\ Contents \subseteq SUBSET Nat

VARIABLES
  mem,      \* the mapped window
  stored    \* the struct last stored in each register (what a caller expects)

vars == <<mem, stored>>

-----------------------------------------------------------------------------
(* The accessors.                                                          *)

ReadHsfsRegister  == HsfsOf(ReadUint(16, mem, SpiBar + kHsfsRegisterOffset))
ReadHsfcRegister  == HsfcOf(ReadUint(16, mem, SpiBar + kHsfcRegisterOffset))
ReadFaddrRegister == FaddrOf(ReadUint(32, mem, SpiBar + kFaddrRegisterOffset))
ReadSsfsRegister  == SsfsOf(ReadUint(8, mem, SpiBar + kSsfsRegisterOffset))
ReadSsfcRegister  == SsfcOf(ReadUint(32, mem, SpiBar + kSsfcRegisterOffset))
BfprWord          == ReadUint(32, mem, SpiBar + kBfprRegisterOffset)
ReadBfprRegister  == BfprOf(BfprWord)
FrapWord          == ReadUint(32, mem, SpiBar + kFrapRegisterOffset)
ReadFrapRegister  == FrapOf(FrapWord)
FregNWord(index)  == ReadUint(32, mem, SpiBar + kFreg0RegisterOffset + 4 * index)
ReadFregNRegister(index) == FregNOf(FregNWord(index))
PrNWord(index)    == ReadUint(32, mem, SpiBar + kPr0RegisterOffset + 4 * index)
ReadPrNRegister(index) == PrNOf(PrNWord(index))

\* Everything a caller can write and read back.
Visible == [hsfs |-> ReadHsfsRegister, hsfc |-> ReadHsfcRegister, faddr |-> ReadFaddrRegister,
            ssfs |-> ReadSsfsRegister, ssfc |-> ReadSsfcRegister]

Init ==
  /\ mem \in Contents
  /\ stored = Visible

\* The window after each Write accessor.

\* Mutant of WriteHsfsRegister: a 32-bit store.
WriteHsfsRegister32(h) == WriteUint(32, mem, SpiBar + kHsfsRegisterOffset, HsfsBits(h))

WriteHsfsRegister(h)  == WriteUint(16, mem, SpiBar + kHsfsRegisterOffset, HsfsBits(h))
WriteHsfcRegister(h)  == WriteUint(16, mem, SpiBar + kHsfcRegisterOffset, HsfcBits(h))
WriteFaddrRegister(f) == WriteUint(32, mem, SpiBar + kFaddrRegisterOffset, FaddrBits(f))
WriteSsfsRegister(s)  == WriteUint(8, mem, SpiBar + kSsfsRegisterOffset, SsfsBits(s))

\* Mutant of WriteSsfcRegister: the second store has 32 bits.
WriteSsfcRegister32(s) ==
  WriteUint(32, WriteUint(8, mem, SpiBar + kSsfcRegisterOffset, SsfcByte(s)),
            SpiBar + kSsfcRegisterOffset + 1, SsfcHalf(s))

WriteSsfcRegister(s) ==
  WriteUint(16, WriteUint(8, mem, SpiBar + kSsfcRegisterOffset, SsfcByte(s)),
            SpiBar + kSsfcRegisterOffset + 1, SsfcHalf(s))

\* A caller stores a struct.
StoreHsfs(w)  == mem' = WriteHsfsRegister(HsfsOf(w)) /\ stored' = [stored EXCEPT !.hsfs = HsfsOf(w)]
StoreHsfc(w)  == mem' = WriteHsfcRegister(HsfcOf(w)) /\ stored' = [stored EXCEPT !.hsfc = HsfcOf(w)]
StoreFaddr(w) == mem' = WriteFaddrRegister(FaddrOf(w)) /\ stored' = [stored EXCEPT !.faddr = FaddrOf(w)]
StoreSsfs(w)  == mem' = WriteSsfsRegister(SsfsOf(w)) /\ stored' = [stored EXCEPT !.ssfs = SsfsOf(w)]
StoreSsfc(w)  == mem' = WriteSsfcRegister(SsfcOf(w)) /\ stored' = [stored EXCEPT !.ssfc = SsfcOf(w)]

Next == \E w \in Words : StoreHsfs(w) \/ StoreHsfc(w) \/ StoreFaddr(w) \/ StoreSsfs(w) \/ StoreSsfc(w)

Spec == Init /\ [][Next]_vars

-----------------------------------------------------------------------------
(* Properties.                                                             *)

\* Types: the window is a set of bit positions, and every struct has the field
\* widths chipset.h declares.
TypeOK ==
  /\ mem \in SUBSET Nat
  /\ stored \in [hsfs : Hsfs, hsfc : Hsfc, faddr : Faddr, ssfs : Ssfs, ssfc : Ssfc]

\* Whatever sequence of Write accessors ran, each Read accessor returns the
\* struct last stored in its own register: the encodings invert the decodings,
\* and the stores of HSFS, HSFC, FADDR, SSFS and SSFC, which share words of the
\* window, never disturb each other.  Left out: BERASE in HSFS, and SSFC.
ReadBack ==
  /\ \A f \in DOMAIN stored.hsfs \ {"blocksector_erase_size"} :
        ReadHsfsRegister[f] = stored.hsfs[f]
  /\ ReadHsfcRegister = stored.hsfc
  /\ ReadFaddrRegister = stored.faddr
  /\ ReadSsfsRegister = stored.ssfs

\* The bytes of the registers that have a Write accessor.
Writable == Span(64, SpiBar + kHsfsRegisterOffset) \cup Span(32, SpiBar + kSsfsRegisterOffset)

\* No store reaches a register without a Write accessor (flash data, access
\* permissions, regions, protected ranges, opcodes): the widths and offsets of
\* the stores stay inside the five registers.
NoSpill == [][mem' \ Writable = mem \ Writable]_vars

\* Whatever was stored elsewhere, the structs of BFPR and FRAP tell every bit of
\* these registers: no mask is too short, and none overlaps another.
LosslessReads ==
  /\ LET b == ReadBfprRegister IN
       BfprWord = UNION {Set(31, 29, b.reserved31), Set(15, 13, b.reserved15),
                         Set(28, 16, Value(24, 12, b.bios_flash_primary_region_limit)),
                         Set(12, 0, Value(24, 12, b.bios_flash_primary_region_base))}
  /\ LET f == ReadFrapRegister IN
       FrapWord = UNION {Set(31, 24, f.bios_master_write_access_grant),
                         Set(23, 16, f.bios_master_read_access_grant),
                         Set(15, 8, f.bios_region_write_access), Set(7, 0, f.bios_region_read_access)}

(* What comments and messages of the code say, refuted by the runs that     *)
(* expect a violation.                                                     *)

\* chipset.cc:136 "Copy flash lockdown and read-only bits": storing the HSFS
\* struct gives back every field, BERASE included.
BeraseCopied ==
  ReadHsfsRegister.blocksector_erase_size = stored.hsfs.blocksector_erase_size

\* chipset_intel_ich8.cc:179, 192-195 "RL", "Protected Range Limit", "Protected
\* Range Base": the structs hold the byte addresses the accessors compute from
\* the page numbers of the registers.
RangesKept ==
  \A index \in 0 .. 4 :
    /\ ReadFregNRegister(index).region_limit = PageLimit(Value(28, 16, FregNWord(index)))
    /\ ReadPrNRegister(index).protected_range_limit = PageLimit(Value(28, 16, PrNWord(index)))
    /\ ReadPrNRegister(index).protected_range_base = PageBase(Value(12, 0, PrNWord(index)))
====
