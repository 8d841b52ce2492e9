---- MODULE Chipset ----
(***************************************************************************)
(* What the chipset classes of pawn/chipset_intel_*.{h,cc} decide from the *)
(* PCI ids of the LPC device and from the RCBA and GCS registers, and the  *)
(* order in which Chipset::Create (pawn/chipset.cc) tries the classes.     *)
(* Registers are words (module Bits).                                      *)
(***************************************************************************)
EXTENDS Bits

\* The classes, in the order Create tries them; each derives from the one before.
Classes == <<"ICH8", "ICH9", "ICH10", "6 Series", "7 Series", "8 Series", "9 Series">>

\* The devices whose I/O is on the processor (IsIntegratedIo).
Series8IntegratedIo == {\h9C41, \h9C43, \h9C45}
Series9IntegratedIo == {\h9CC1, \h9CC2, \h9CC3, \h9CC5, \h9CC6, \h9CC7, \h9CC9}

\* The device ids in SupportsDevice of each class.
Ich8Devices  == {\h2810, \h2811, \h2812, \h2814}
Ich9Devices  == {\h2912, \h2914, \h2916, \h2917, \h2918, \h2919}
Ich10Devices == {\h3A14, \h3A16, \h3A18, \h3A1A}
Series6Devices == {\h1C44, \h1C46, \h1C47, \h1C49, \h1C4A, \h1C4B, \h1C4C, \h1C4D, \h1C4E, \h1C4F,
                   \h1C50, \h1C52, \h1C54, \h1C56, \h1C5C, \h1D40, \h1D41}
Series7Devices == {\h1E44, \h1E46, \h1E47, \h1E48, \h1E49, \h1E4A, \h1E53, \h1E55, \h1E56, \h1E57,
                   \h1E58, \h1E59, \h1E5D, \h1E5E, \h1E5F}
\* Mutant of Series8Devices: the list contains devices of the next class.
Series8DevicesOverlapping == Series8IntegratedIo \cup Series9IntegratedIo
Series8Devices == Series8IntegratedIo \cup
                  {\h8C41, \h8C42, \h8C44, \h8C46, \h8C49, \h8C4A, \h8C4B, \h8C4C, \h8C4E, \h8C4F,
                   \h8C50, \h8C52, \h8C54, \h8C56, \h8C5C}
Series9Devices == Series9IntegratedIo \cup {\h8CC2, \h8CC4, \h8CC6}

Devices == <<Ich8Devices, Ich9Devices, Ich10Devices, Series6Devices, Series7Devices,
             Series8Devices, Series9Devices>>

\* The classes, by their place in Classes, whose SupportsDevice is true.
Supporting(id) == {k \in DOMAIN Classes : id.vendor = \h8086 /\ id.device \in Devices[k]}

\* Chipset::Create: the first class that supports the device, if any.
Create(id) ==
  IF Supporting(id) = {} THEN "unsupported"
  ELSE Classes[CHOOSE k \in Supporting(id) : \A j \in Supporting(id) : k <= j]

\* Mutant of RcbaOf: the bits below the base address are not masked.
RcbaOfUnmasked(w) == [base_address |-> w, enable |-> Test(0, w)]

\* ReadRcbaRegister.
RcbaOf(w) == [base_address |-> Raw(31, 14, w), enable |-> Test(0, w)]

\* Mutant of HasSmmBwp: the ICH classes report a reserved bit.
HasSmmBwpAlways(class) == TRUE

\* ICH has no SMM_BWP in BIOS_CNTL.
HasSmmBwp(class) == class \notin {"ICH8", "ICH9", "ICH10"}

\* ReadBiosCntlRegister, of ICH8 and of the 6 Series.
BiosCntlOf(class, w) ==
  [smm_bios_write_protect_disable |-> HasSmmBwp(class) /\ Test(5, w),
   top_swap_status |-> Test(4, w), spi_read_configuration |-> Value(3, 2, w),
   bios_lock_enable |-> Test(1, w), bios_write_enable |-> Test(0, w)]

\* The base of the SPI registers, a uint16_t.
SpiBar(class, offset) == ((IF class = "ICH8" THEN \h3020 ELSE \h3800) + offset) % 2 ^ 16

kGcsRegister == \h3410

\* The index in a table of a word of two bits.
Index(w) == (IF 0 \in w THEN 2 ELSE 1) + (IF 1 \in w THEN 2 ELSE 0)

\* ReadGcsRegister of ICH8, of the 6 Series and of the 8 Series: where the
\* machine boots from (BBS).
Ich8Straps(gcs) == <<"SPI", "SPI", "PCI", "LPC">>[Index(Value(11, 10, gcs))]

Series6Straps(gcs) == <<"LPC", "Reserved", "PCI", "SPI">>[Index(Value(11, 10, gcs))]

Series8Straps(integrated, gcs) ==
  IF integrated THEN <<"SPI", "LPC">>[Index(Value(10, 10, gcs))]
  ELSE <<"LPC", "Reserved", "Reserved", "SPI">>[Index(Value(11, 10, gcs))]

BootBiosStraps(class, device, gcs) ==
  CASE class \in {"ICH8", "ICH9", "ICH10"} -> Ich8Straps(gcs)
    [] class \in {"6 Series", "7 Series"} -> Series6Straps(gcs)
    [] class = "8 Series" -> Series8Straps(device \in Series8IntegratedIo, gcs)
    [] class = "9 Series" -> Series8Straps(device \in Series9IntegratedIo, gcs)
====
