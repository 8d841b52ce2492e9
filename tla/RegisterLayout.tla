---- MODULE RegisterLayout ----
(***************************************************************************)
(* The register structs of pawn/chipset.h and how IntelIch8Chipset         *)
(* (pawn/chipset_intel_ich8.cc) maps them to machine words; every later    *)
(* chipset class inherits these.  An Of operator decodes the word a Read   *)
(* accessor fetches, a Bits operator encodes the struct a Write accessor   *)
(* is given.  Flags are Booleans, numbers are words (module Bits).         *)
(***************************************************************************)
EXTENDS Bits

\* Offsets of the registers from SPIBAR.
kBfprRegisterOffset  == \h00
kHsfsRegisterOffset  == \h04
kHsfcRegisterOffset  == \h06
kFaddrRegisterOffset == \h08
kFdata0RegisterOffset == \h10
kFrapRegisterOffset  == \h50
kFreg0RegisterOffset == \h54
kPr0RegisterOffset   == \h74
kSsfsRegisterOffset  == \h90
kSsfcRegisterOffset  == \h91

\* What the Read accessors fetch; PawnMain reads 5 flash regions and 5 protected
\* ranges.  The data registers are apart.
SpiRegisterSpans ==
  [offset : {kBfprRegisterOffset, kFaddrRegisterOffset, kFrapRegisterOffset, kSsfcRegisterOffset}
              \cup {kFreg0RegisterOffset + 4 * i : i \in 0 .. 4}
              \cup {kPr0RegisterOffset + 4 * i : i \in 0 .. 4}, bytes : {4}]
    \cup [offset : {kHsfsRegisterOffset, kHsfcRegisterOffset}, bytes : {2}]
    \cup [offset : {kSsfsRegisterOffset}, bytes : {1}]

Hsfs == [flash_configuration_lockdown : BOOLEAN, flash_descriptor_valid : BOOLEAN,
         flash_descriptor_override_pinstrap_status : BOOLEAN,
         reserved12 : Word(7), spi_cycle_in_progress : BOOLEAN,
         blocksector_erase_size : Word(2), access_error_log : BOOLEAN,
         flash_cycle_error : BOOLEAN, flash_cycle_done : BOOLEAN]

HsfsOf(w) ==
  [flash_configuration_lockdown |-> Test(15, w), flash_descriptor_valid |-> Test(14, w),
   flash_descriptor_override_pinstrap_status |-> Test(13, w),
   reserved12 |-> Value(12, 6, w), spi_cycle_in_progress |-> Test(5, w),
   blocksector_erase_size |-> Value(4, 3, w), access_error_log |-> Test(2, w),
   flash_cycle_error |-> Test(1, w), flash_cycle_done |-> Test(0, w)]

\* BERASE occupies bits 4:3 but is written with Set<4>, one bit at bit 4.
HsfsBits(h) == UNION {
  Set(15, 15, Bool(h.flash_configuration_lockdown)),
  Set(14, 14, Bool(h.flash_descriptor_valid)),
  Set(13, 13, Bool(h.flash_descriptor_override_pinstrap_status)),
  Set(12, 6, h.reserved12), Set(5, 5, Bool(h.spi_cycle_in_progress)),
  Set(4, 4, h.blocksector_erase_size), Set(2, 2, Bool(h.access_error_log)),
  Set(1, 1, Bool(h.flash_cycle_error)), Set(0, 0, Bool(h.flash_cycle_done))}

Hsfc == [flash_spi_smi_enable : BOOLEAN, reserved14 : BOOLEAN,
         flash_data_byte_count : Word(6), reserved7 : Word(5),
         flash_cycle : Word(2), flash_cycle_go : BOOLEAN]

HsfcOf(w) ==
  [flash_spi_smi_enable |-> Test(15, w), reserved14 |-> Test(14, w),
   flash_data_byte_count |-> Value(13, 8, w), reserved7 |-> Value(7, 3, w),
   flash_cycle |-> Value(2, 1, w), flash_cycle_go |-> Test(0, w)]

HsfcBits(h) == UNION {
  Set(15, 15, Bool(h.flash_spi_smi_enable)), Set(14, 14, Bool(h.reserved14)),
  Set(13, 8, h.flash_data_byte_count), Set(7, 3, h.reserved7),
  Set(2, 1, h.flash_cycle), Set(0, 0, Bool(h.flash_cycle_go))}

Faddr == [reserved25 : Word(7), flash_linear_address : Word(25)]

\* Mutant of FaddrOf: the address keeps the reserved bits.
FaddrOfUnmasked(w) == [reserved25 |-> Value(31, 25, w), flash_linear_address |-> Value(31, 0, w)]

FaddrOf(w) == [reserved25 |-> Value(31, 25, w), flash_linear_address |-> Value(24, 0, w)]

FaddrBits(f) == Set(31, 25, f.reserved25) \cup Set(24, 0, f.flash_linear_address)

Ssfs == [reserved7 : Word(3), access_error_log : BOOLEAN, flash_cycle_error : BOOLEAN,
         cycle_done_status : BOOLEAN, reserved1 : BOOLEAN, spi_cycle_in_progress : BOOLEAN]

SsfsOf(w) ==
  [reserved7 |-> Value(7, 5, w), access_error_log |-> Test(4, w),
   flash_cycle_error |-> Test(3, w), cycle_done_status |-> Test(2, w),
   reserved1 |-> Test(1, w), spi_cycle_in_progress |-> Test(0, w)]

SsfsBits(s) == UNION {
  Set(7, 5, s.reserved7), Set(4, 4, Bool(s.access_error_log)),
  Set(3, 3, Bool(s.flash_cycle_error)), Set(2, 2, Bool(s.cycle_done_status)),
  Set(1, 1, Bool(s.reserved1)), Set(0, 0, Bool(s.spi_cycle_in_progress))}

Ssfc == [reserved23 : Word(5), spi_cycle_frequency : Word(3), spi_smi_enable : BOOLEAN,
         data_cycle : BOOLEAN, data_byte_count : Word(6), reserved7 : BOOLEAN,
         cycle_opcode_pointer : Word(3), sequence_prefix_opcode_pointer : BOOLEAN,
         atomic_cycle_sequence : BOOLEAN, spi_cycle_go : BOOLEAN, reserved0 : BOOLEAN]

SsfcOf(w) ==
  [reserved23 |-> Value(23, 19, w), spi_cycle_frequency |-> Value(18, 16, w),
   spi_smi_enable |-> Test(15, w), data_cycle |-> Test(14, w),
   data_byte_count |-> Value(13, 8, w), reserved7 |-> Test(7, w),
   cycle_opcode_pointer |-> Value(6, 4, w), sequence_prefix_opcode_pointer |-> Test(3, w),
   atomic_cycle_sequence |-> Test(2, w), spi_cycle_go |-> Test(1, w), reserved0 |-> Test(0, w)]

\* The two halves WriteSsfcRegister stores: a byte, then 16 bits.  The byte
\* takes its reserved bits from reserved7, a single bit.
SsfcByte(s) == Set(7, 3, Bool(s.reserved7)) \cup Set(2, 0, s.spi_cycle_frequency)

SsfcHalf(s) == UNION {
  Set(15, 15, Bool(s.spi_smi_enable)), Set(14, 14, Bool(s.data_cycle)),
  Set(13, 8, s.data_byte_count), Set(7, 7, Bool(s.reserved7)),
  Set(6, 4, s.cycle_opcode_pointer), Set(3, 3, Bool(s.sequence_prefix_opcode_pointer)),
  Set(2, 2, Bool(s.atomic_cycle_sequence)), Set(1, 1, Bool(s.spi_cycle_go)),
  Set(0, 0, Bool(s.reserved0))}

\* A 13-bit flash page number as the byte address of its first byte; | 0xFFF
\* gives the last one.
PageBase(pages)  == Set(24, 12, pages)
PageLimit(pages) == Set(24, 12, pages) \cup (0 .. 11)

\* FregN and PrN have 13-bit bit-fields, which keep bits 12:0 of what the
\* accessor computes.  The base of FregN is the bare page number.
FregNOf(w) ==
  [reserved31 |-> Value(31, 29, w), region_limit |-> Field(13, PageLimit(Value(28, 16, w))),
   reserved15 |-> Value(15, 13, w), region_base |-> Field(13, Value(12, 0, w))]

PrNOf(w) ==
  [write_protection_enable |-> Test(31, w), reserved30 |-> Value(30, 29, w),
   protected_range_limit |-> Field(13, PageLimit(Value(28, 16, w))),
   read_protection_enable |-> Test(15, w), reserved14 |-> Value(14, 13, w),
   protected_range_base |-> Field(13, PageBase(Value(12, 0, w)))]

\* The limit of BFPR is the first byte of its last page.
BfprOf(w) ==
  [reserved31 |-> Value(31, 29, w), bios_flash_primary_region_limit |-> PageBase(Value(28, 16, w)),
   reserved15 |-> Value(15, 13, w), bios_flash_primary_region_base |-> PageBase(Value(12, 0, w))]

\* Mutant of FrapOf: the masks of two fields overlap.
FrapOfOverlapping(w) ==
  [bios_master_write_access_grant |-> Value(31, 24, w), bios_master_read_access_grant |-> Value(23, 16, w),
   bios_region_write_access |-> Value(15, 8, w), bios_region_read_access |-> Value(8, 1, w)]

FrapOf(w) ==
  [bios_master_write_access_grant |-> Value(31, 24, w), bios_master_read_access_grant |-> Value(23, 16, w),
   bios_region_write_access |-> Value(15, 8, w), bios_region_read_access |-> Value(7, 0, w)]
====
