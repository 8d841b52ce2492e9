---- MODULE SpiRegistersProofs ----
(***************************************************************************)
(* Proofs about the register accessors (module SpiRegisters), for any      *)
(* SPIBAR, any initial contents of the window and any words stored.        *)
(***************************************************************************)
EXTENDS SpiRegisters, TLAPS

-----------------------------------------------------------------------------
(* The window (pawn/physical_memory.cc).                                   *)

\* A store of n bits at offset o from SPIBAR does not change what a load of k
\* bits at offset p returns.
Apart(n, o, k, p) ==
  \A m, v : ReadUint(k, WriteUint(n, m, SpiBar + o, v), SpiBar + p) = ReadUint(k, m, SpiBar + p)

\* A load of what was stored returns the value, cut to n bits.
Returned(n, o) ==
  \A m, v : ReadUint(n, WriteUint(n, m, SpiBar + o, v), SpiBar + o) = Field(n, v)

\* Accesses of the window that share no bit are independent.
LEMMA DisjointApart ==
  ASSUME NEW n \in Nat, NEW o \in Nat, NEW k \in Nat, NEW p \in Nat,
         8 * p + k <= 8 * o \/ 8 * o + n <= 8 * p
  PROVE  Apart(n, o, k, p)
BY SpiBarAssumption DEF Apart, ReadUint, WriteUint, Span

\* A load of the width and at the offset of the store before it returns the
\* value stored.
LEMMA ReadAfterWrite ==
  ASSUME NEW n \in Nat, NEW o \in Nat
  PROVE  Returned(n, o)
BY SpiBarAssumption DEF Returned, ReadUint, WriteUint, Span, Field

\* A store leaves a window of bit positions.
LEMMA WriteType ==
  ASSUME NEW n \in Nat, NEW m \in SUBSET Nat, NEW offset \in Nat, NEW value
  PROVE  WriteUint(n, m, offset, value) \in SUBSET Nat
<1> SUFFICES ASSUME NEW i \in WriteUint(n, m, offset, value) PROVE i \in Nat
  OBVIOUS
<1>1. CASE i \in m BY <1>1
<1>2. CASE i \in 8 * offset .. 8 * offset + n - 1 BY <1>2
<1> QED BY <1>1, <1>2 DEF WriteUint, Span

-----------------------------------------------------------------------------
(* The codecs (pawn/chipset_intel_ich8.cc).                                *)

\* Every word decodes to structs of the declared field widths.
LEMMA DecodeTypes ==
  ASSUME NEW w
  PROVE  /\ HsfsOf(w) \in Hsfs /\ HsfcOf(w) \in Hsfc /\ FaddrOf(w) \in Faddr
         /\ SsfsOf(w) \in Ssfs /\ SsfcOf(w) \in Ssfc
<1>1. HsfsOf(w) \in Hsfs BY DEF HsfsOf, Hsfs, Value, Word, Test
<1>2. HsfcOf(w) \in Hsfc BY DEF HsfcOf, Hsfc, Value, Word, Test
<1>3. FaddrOf(w) \in Faddr BY DEF FaddrOf, Faddr, Value, Word
<1>4. SsfsOf(w) \in Ssfs BY DEF SsfsOf, Ssfs, Value, Word, Test
<1>5. SsfcOf(w) \in Ssfc BY DEF SsfcOf, Ssfc, Value, Word, Test
<1> QED BY <1>1, <1>2, <1>3, <1>4, <1>5

\* What WriteHsfcRegister stores, ReadHsfcRegister decodes to the same struct.
LEMMA HsfcRoundTrip ==
  ASSUME NEW h \in Hsfc
  PROVE  HsfcOf(Field(16, HsfcBits(h))) = h
BY DEF HsfcOf, HsfcBits, Hsfc, Field, Value, Set, Test, Bool, Word

\* The same for FADDR, whose two fields fill the word.
LEMMA FaddrRoundTrip ==
  ASSUME NEW f \in Faddr
  PROVE  FaddrOf(Field(32, FaddrBits(f))) = f
BY DEF FaddrOf, FaddrBits, Faddr, Field, Value, Set, Word

\* The status byte of software sequencing likewise: SSFS is decoded and encoded by
\* the same layout.
LEMMA SsfsRoundTrip ==
  ASSUME NEW s \in Ssfs
  PROVE  SsfsOf(Field(8, SsfsBits(s))) = s
BY DEF SsfsOf, SsfsBits, Ssfs, Field, Value, Set, Test, Bool, Word

\* For HSFS every field but BERASE comes back.
LEMMA HsfsRoundTrip ==
  ASSUME NEW h \in Hsfs
  PROVE  LET r == HsfsOf(Field(16, HsfsBits(h))) IN
         /\ r.flash_configuration_lockdown = h.flash_configuration_lockdown
         /\ r.flash_descriptor_valid = h.flash_descriptor_valid
         /\ r.flash_descriptor_override_pinstrap_status = h.flash_descriptor_override_pinstrap_status
         /\ r.reserved12 = h.reserved12
         /\ r.spi_cycle_in_progress = h.spi_cycle_in_progress
         /\ r.access_error_log = h.access_error_log
         /\ r.flash_cycle_error = h.flash_cycle_error
         /\ r.flash_cycle_done = h.flash_cycle_done
<1> DEFINE w == Field(16, HsfsBits(h))
<1> USE DEF HsfsBits, Hsfs, Field, Set, Bool, Test
<1>1. Test(15, w) = h.flash_configuration_lockdown OBVIOUS
<1>2. Test(14, w) = h.flash_descriptor_valid OBVIOUS
<1>3. Test(13, w) = h.flash_descriptor_override_pinstrap_status OBVIOUS
<1>4. Value(12, 6, w) = h.reserved12 BY DEF Value, Word
<1>5. Test(5, w) = h.spi_cycle_in_progress OBVIOUS
<1>6. Test(2, w) = h.access_error_log OBVIOUS
<1>7. Test(1, w) = h.flash_cycle_error OBVIOUS
<1>8. Test(0, w) = h.flash_cycle_done OBVIOUS
<1> HIDE DEF w
<1> QED BY <1>1, <1>2, <1>3, <1>4, <1>5, <1>6, <1>7, <1>8 DEF HsfsOf, w

-----------------------------------------------------------------------------
(* Types.                                                                  *)

\* The type invariant of the specification.
THEOREM TypeCorrect == Spec => []TypeOK
<1>1. Init => TypeOK
  BY WordsAssumption, DecodeTypes
  DEF Init, TypeOK, Visible, ReadHsfsRegister, ReadHsfcRegister, ReadFaddrRegister,
      ReadSsfsRegister, ReadSsfcRegister
<1>2. TypeOK /\ [Next]_vars => TypeOK'
  <2> SUFFICES ASSUME TypeOK, [Next]_vars PROVE TypeOK'
    OBVIOUS
  <2>0. mem \in SUBSET Nat /\ SpiBar \in Nat BY SpiBarAssumption DEF TypeOK
  <2>1. ASSUME NEW w \in Words, StoreHsfs(w) PROVE TypeOK'
    <3>0. WriteUint(16, mem, SpiBar + 4, HsfsBits(HsfsOf(w))) \in SUBSET Nat BY WriteType, <2>0
    <3>1. mem' \in SUBSET Nat BY <2>1, <3>0 DEF StoreHsfs, WriteHsfsRegister, kHsfsRegisterOffset
    <3>2. HsfsOf(w) \in Hsfs BY DecodeTypes
    <3> QED BY <3>1, <3>2, <2>1 DEF StoreHsfs, WriteHsfsRegister, TypeOK
  <2>2. ASSUME NEW w \in Words, StoreHsfc(w) PROVE TypeOK'
    <3>0. WriteUint(16, mem, SpiBar + 6, HsfcBits(HsfcOf(w))) \in SUBSET Nat BY WriteType, <2>0
    <3>1. mem' \in SUBSET Nat BY <2>2, <3>0 DEF StoreHsfc, WriteHsfcRegister, kHsfcRegisterOffset
    <3>2. HsfcOf(w) \in Hsfc BY DecodeTypes
    <3> QED BY <3>1, <3>2, <2>2 DEF StoreHsfc, WriteHsfcRegister, TypeOK
  <2>3. ASSUME NEW w \in Words, StoreFaddr(w) PROVE TypeOK'
    <3>0. WriteUint(32, mem, SpiBar + 8, FaddrBits(FaddrOf(w))) \in SUBSET Nat BY WriteType, <2>0
    <3>1. mem' \in SUBSET Nat BY <2>3, <3>0 DEF StoreFaddr, WriteFaddrRegister, kFaddrRegisterOffset
    <3>2. FaddrOf(w) \in Faddr BY DecodeTypes
    <3> QED BY <3>1, <3>2, <2>3 DEF StoreFaddr, WriteFaddrRegister, TypeOK
  <2>4. ASSUME NEW w \in Words, StoreSsfs(w) PROVE TypeOK'
    <3>0. WriteUint(8, mem, SpiBar + 144, SsfsBits(SsfsOf(w))) \in SUBSET Nat BY WriteType, <2>0
    <3>1. mem' \in SUBSET Nat BY <2>4, <3>0 DEF StoreSsfs, WriteSsfsRegister, kSsfsRegisterOffset
    <3>2. SsfsOf(w) \in Ssfs BY DecodeTypes
    <3> QED BY <3>1, <3>2, <2>4 DEF StoreSsfs, WriteSsfsRegister, TypeOK
  <2>5. ASSUME NEW w \in Words, StoreSsfc(w) PROVE TypeOK'
    <3>0. WriteUint(8, mem, SpiBar + 145, SsfcByte(SsfcOf(w))) \in SUBSET Nat
      BY WriteType, <2>0
    <3>1. mem' \in SUBSET Nat
      BY WriteType, <2>0, <2>5, <3>0 DEF StoreSsfc, WriteSsfcRegister, kSsfcRegisterOffset
    <3>2. SsfcOf(w) \in Ssfc BY DecodeTypes
    <3> QED BY <3>1, <3>2, <2>5 DEF StoreSsfc, WriteSsfcRegister, TypeOK
  <2>6. CASE UNCHANGED vars
    BY <2>6 DEF vars, TypeOK
  <2> QED BY <2>1, <2>2, <2>3, <2>4, <2>5, <2>6 DEF Next
<1> QED BY <1>1, <1>2, PTL DEF Spec

-----------------------------------------------------------------------------
(* The stores stay apart.                                                  *)

\* No store reaches a register without a Write accessor.
THEOREM StoresStayInside == Spec => NoSpill
<1>1. ASSUME NEW n \in Nat, NEW o \in Nat, NEW m, NEW v, Span(n, o) \subseteq Writable
      PROVE  WriteUint(n, m, o, v) \ Writable = m \ Writable
  BY <1>1 DEF WriteUint
<1>2. [Next]_vars => [mem' \ Writable = mem \ Writable]_vars
  <2> SUFFICES ASSUME Next PROVE mem' \ Writable = mem \ Writable
    OBVIOUS
  <2>1. /\ Span(16, SpiBar + 4) \subseteq Writable
        /\ Span(16, SpiBar + 6) \subseteq Writable
        /\ Span(32, SpiBar + 8) \subseteq Writable
        /\ Span(8, SpiBar + 144) \subseteq Writable
        /\ Span(8, SpiBar + 145) \subseteq Writable
        /\ Span(16, SpiBar + 145 + 1) \subseteq Writable
    BY SpiBarAssumption DEF Span, Writable, kHsfsRegisterOffset, kSsfsRegisterOffset
  <2>2. ASSUME NEW w, StoreHsfs(w) PROVE mem' \ Writable = mem \ Writable
    <3>1. SpiBar + 4 \in Nat BY SpiBarAssumption
    <3>2. WriteUint(16, mem, SpiBar + 4, HsfsBits(HsfsOf(w))) \ Writable = mem \ Writable
      BY <1>1, <2>1, <3>1
    <3> QED BY <2>2, <3>2 DEF StoreHsfs, WriteHsfsRegister, kHsfsRegisterOffset
  <2>3. ASSUME NEW w, StoreHsfc(w) PROVE mem' \ Writable = mem \ Writable
    <3>1. SpiBar + 6 \in Nat BY SpiBarAssumption
    <3>2. WriteUint(16, mem, SpiBar + 6, HsfcBits(HsfcOf(w))) \ Writable = mem \ Writable
      BY <1>1, <2>1, <3>1
    <3> QED BY <2>3, <3>2 DEF StoreHsfc, WriteHsfcRegister, kHsfcRegisterOffset
  <2>4. ASSUME NEW w, StoreFaddr(w) PROVE mem' \ Writable = mem \ Writable
    <3>1. SpiBar + 8 \in Nat BY SpiBarAssumption
    <3>2. WriteUint(32, mem, SpiBar + 8, FaddrBits(FaddrOf(w))) \ Writable = mem \ Writable
      BY <1>1, <2>1, <3>1
    <3> QED BY <2>4, <3>2 DEF StoreFaddr, WriteFaddrRegister, kFaddrRegisterOffset
  <2>5. ASSUME NEW w, StoreSsfs(w) PROVE mem' \ Writable = mem \ Writable
    <3>1. SpiBar + 144 \in Nat BY SpiBarAssumption
    <3>2. WriteUint(8, mem, SpiBar + 144, SsfsBits(SsfsOf(w))) \ Writable = mem \ Writable
      BY <1>1, <2>1, <3>1
    <3> QED BY <2>5, <3>2 DEF StoreSsfs, WriteSsfsRegister, kSsfsRegisterOffset
  <2>6. ASSUME NEW w, StoreSsfc(w) PROVE mem' \ Writable = mem \ Writable
    <3> DEFINE half == WriteUint(8, mem, SpiBar + 145, SsfcByte(SsfcOf(w)))
    <3>1. SpiBar + 145 \in Nat /\ SpiBar + 145 + 1 \in Nat BY SpiBarAssumption
    <3>2. half \ Writable = mem \ Writable
      BY <1>1, <2>1, <3>1
    <3> HIDE DEF half
    <3>3. WriteUint(16, half, SpiBar + 145 + 1, SsfcHalf(SsfcOf(w))) \ Writable = half \ Writable
      BY <1>1, <2>1, <3>1
    <3> QED BY <2>6, <3>2, <3>3 DEF half, StoreSsfc, WriteSsfcRegister, kSsfcRegisterOffset
  <2> QED BY <2>2, <2>3, <2>4, <2>5, <2>6 DEF Next
<1> QED BY <1>2, PTL DEF Spec, NoSpill

\* The stores of HSFS, HSFC, FADDR and SSFS leave each other's words alone, and
\* so do the two stores of SSFC.
LEMMA RegistersApart ==
  /\ Apart(16, 4, 16, 6)   /\ Apart(16, 4, 32, 8)   /\ Apart(16, 4, 8, 144)
  /\ Apart(16, 6, 16, 4)   /\ Apart(16, 6, 32, 8)   /\ Apart(16, 6, 8, 144)
  /\ Apart(32, 8, 16, 4)   /\ Apart(32, 8, 16, 6)   /\ Apart(32, 8, 8, 144)
  /\ Apart(8, 144, 16, 4)  /\ Apart(8, 144, 16, 6)  /\ Apart(8, 144, 32, 8)
  /\ Apart(8, 145, 16, 4)  /\ Apart(8, 145, 16, 6)  /\ Apart(8, 145, 32, 8)  /\ Apart(8, 145, 8, 144)
  /\ Apart(16, 146, 16, 4) /\ Apart(16, 146, 16, 6) /\ Apart(16, 146, 32, 8) /\ Apart(16, 146, 8, 144)
BY DisjointApart

\* Whatever is stored, in whatever order, each Read accessor returns the struct
\* last stored in its register.
THEOREM StructsReadBack == Spec => []ReadBack
<1> DEFINE Kept(k, p) == ReadUint(k, mem', SpiBar + p) = ReadUint(k, mem, SpiBar + p)
<1> DEFINE Agree(a, b) == \A f \in DOMAIN b \ {"blocksector_erase_size"} : a[f] = b[f]
<1> USE DEF kHsfsRegisterOffset, kHsfcRegisterOffset, kFaddrRegisterOffset,
            kSsfsRegisterOffset, kSsfcRegisterOffset
<1>1. Init => ReadBack
  BY DEF Init, ReadBack, Visible
<1>2. TypeOK /\ ReadBack /\ [Next]_vars => ReadBack'
  <2> SUFFICES ASSUME TypeOK, ReadBack, [Next]_vars PROVE ReadBack'
    OBVIOUS
  <2>1. ASSUME NEW w \in Words, StoreHsfs(w) PROVE ReadBack'
    <3>1. mem' = WriteUint(16, mem, SpiBar + 4, HsfsBits(HsfsOf(w)))
      BY <2>1 DEF StoreHsfs, WriteHsfsRegister
    <3>2. Kept(16, 6) /\ Kept(32, 8) /\ Kept(8, 144)
      BY <3>1, RegistersApart DEF Apart
    <3>3. ReadUint(16, mem', SpiBar + 4) = Field(16, HsfsBits(HsfsOf(w)))
      BY <3>1, ReadAfterWrite DEF Returned
    <3>4. Agree(HsfsOf(Field(16, HsfsBits(HsfsOf(w)))), HsfsOf(w))
      BY DecodeTypes, HsfsRoundTrip DEF Hsfs
    <3>5. /\ stored'.hsfs = HsfsOf(w) /\ stored'.hsfc = stored.hsfc
          /\ stored'.faddr = stored.faddr /\ stored'.ssfs = stored.ssfs
      BY <2>1 DEF StoreHsfs, WriteHsfsRegister, TypeOK
    <3> QED BY <3>2, <3>3, <3>4, <3>5
        DEF ReadBack, ReadHsfsRegister, ReadHsfcRegister, ReadFaddrRegister, ReadSsfsRegister
  <2>2. ASSUME NEW w \in Words, StoreHsfc(w) PROVE ReadBack'
    <3>1. mem' = WriteUint(16, mem, SpiBar + 6, HsfcBits(HsfcOf(w)))
      BY <2>2 DEF StoreHsfc, WriteHsfcRegister
    <3>2. Kept(16, 4) /\ Kept(32, 8) /\ Kept(8, 144)
      BY <3>1, RegistersApart DEF Apart
    <3>3. ReadUint(16, mem', SpiBar + 6) = Field(16, HsfcBits(HsfcOf(w)))
      BY <3>1, ReadAfterWrite DEF Returned
    <3>4. HsfcOf(Field(16, HsfcBits(HsfcOf(w)))) = HsfcOf(w)
      BY DecodeTypes, HsfcRoundTrip
    <3>5. /\ stored'.hsfc = HsfcOf(w) /\ stored'.hsfs = stored.hsfs
          /\ stored'.faddr = stored.faddr /\ stored'.ssfs = stored.ssfs
      BY <2>2 DEF StoreHsfc, WriteHsfcRegister, TypeOK
    <3> QED BY <3>2, <3>3, <3>4, <3>5
        DEF ReadBack, ReadHsfsRegister, ReadHsfcRegister, ReadFaddrRegister, ReadSsfsRegister
  <2>3. ASSUME NEW w \in Words, StoreFaddr(w) PROVE ReadBack'
    <3>1. mem' = WriteUint(32, mem, SpiBar + 8, FaddrBits(FaddrOf(w)))
      BY <2>3 DEF StoreFaddr, WriteFaddrRegister
    <3>2. Kept(16, 4) /\ Kept(16, 6) /\ Kept(8, 144)
      BY <3>1, RegistersApart DEF Apart
    <3>3. ReadUint(32, mem', SpiBar + 8) = Field(32, FaddrBits(FaddrOf(w)))
      BY <3>1, ReadAfterWrite DEF Returned
    <3>4. FaddrOf(Field(32, FaddrBits(FaddrOf(w)))) = FaddrOf(w)
      BY DecodeTypes, FaddrRoundTrip
    <3>5. /\ stored'.faddr = FaddrOf(w) /\ stored'.hsfs = stored.hsfs
          /\ stored'.hsfc = stored.hsfc /\ stored'.ssfs = stored.ssfs
      BY <2>3 DEF StoreFaddr, WriteFaddrRegister, TypeOK
    <3> QED BY <3>2, <3>3, <3>4, <3>5
        DEF ReadBack, ReadHsfsRegister, ReadHsfcRegister, ReadFaddrRegister, ReadSsfsRegister
  <2>4. ASSUME NEW w \in Words, StoreSsfs(w) PROVE ReadBack'
    <3>1. mem' = WriteUint(8, mem, SpiBar + 144, SsfsBits(SsfsOf(w)))
      BY <2>4 DEF StoreSsfs, WriteSsfsRegister
    <3>2. Kept(16, 4) /\ Kept(16, 6) /\ Kept(32, 8)
      BY <3>1, RegistersApart DEF Apart
    <3>3. ReadUint(8, mem', SpiBar + 144) = Field(8, SsfsBits(SsfsOf(w)))
      BY <3>1, ReadAfterWrite DEF Returned
    <3>4. SsfsOf(Field(8, SsfsBits(SsfsOf(w)))) = SsfsOf(w)
      BY DecodeTypes, SsfsRoundTrip
    <3>5. /\ stored'.ssfs = SsfsOf(w) /\ stored'.hsfs = stored.hsfs
          /\ stored'.hsfc = stored.hsfc /\ stored'.faddr = stored.faddr
      BY <2>4 DEF StoreSsfs, WriteSsfsRegister, TypeOK
    <3> QED BY <3>2, <3>3, <3>4, <3>5
        DEF ReadBack, ReadHsfsRegister, ReadHsfcRegister, ReadFaddrRegister, ReadSsfsRegister
  <2>5. ASSUME NEW w \in Words, StoreSsfc(w) PROVE ReadBack'
    <3> DEFINE first == WriteUint(8, mem, SpiBar + 145, SsfcByte(SsfcOf(w)))
    <3>1. mem' = WriteUint(16, first, SpiBar + 146, SsfcHalf(SsfcOf(w)))
      BY <2>5, SpiBarAssumption DEF StoreSsfc, WriteSsfcRegister
    <3>2. Kept(16, 4) /\ Kept(16, 6) /\ Kept(32, 8) /\ Kept(8, 144)
      BY <3>1, RegistersApart DEF Apart
    <3>3. /\ stored'.hsfs = stored.hsfs /\ stored'.hsfc = stored.hsfc
          /\ stored'.faddr = stored.faddr /\ stored'.ssfs = stored.ssfs
      BY <2>5 DEF StoreSsfc, WriteSsfcRegister, TypeOK
    <3> QED BY <3>2, <3>3
        DEF ReadBack, ReadHsfsRegister, ReadHsfcRegister, ReadFaddrRegister, ReadSsfsRegister
  <2>6. CASE UNCHANGED vars
    BY <2>6 DEF vars, ReadBack, ReadHsfsRegister, ReadHsfcRegister, ReadFaddrRegister, ReadSsfsRegister
  <2> QED BY <2>1, <2>2, <2>3, <2>4, <2>5, <2>6 DEF Next
<1> QED BY <1>1, <1>2, TypeCorrect, PTL DEF Spec

-----------------------------------------------------------------------------
(* The registers that are only read.                                       *)

\* A field that is extracted and put back is the field in its place.
LEMMA FieldInPlace ==
  ASSUME NEW msb \in Nat, NEW lsb \in Nat, lsb <= msb, NEW w
  PROVE  Set(msb, lsb, Value(msb, lsb, w)) = w \cap (lsb .. msb)
<1>1. ASSUME NEW i \in lsb .. msb PROVE i - lsb \in 0 .. msb - lsb /\ i - lsb + lsb = i
  OBVIOUS
<1> QED BY <1>1 DEF Set, Value

\* The word of BFPR follows from its struct.
LEMMA BfprRebuilt ==
  ASSUME NEW w \in Word(32)
  PROVE  w = UNION {Set(31, 29, BfprOf(w).reserved31), Set(15, 13, BfprOf(w).reserved15),
                    Set(28, 16, Value(24, 12, BfprOf(w).bios_flash_primary_region_limit)),
                    Set(12, 0, Value(24, 12, BfprOf(w).bios_flash_primary_region_base))}
<1>1. Value(24, 12, PageBase(Value(28, 16, w))) = Value(28, 16, w)
  BY DEF PageBase, Value, Set
<1>2. Value(24, 12, PageBase(Value(12, 0, w))) = Value(12, 0, w)
  BY DEF PageBase, Value, Set
<1>3. w = UNION {Set(31, 29, Value(31, 29, w)), Set(15, 13, Value(15, 13, w)),
                 Set(28, 16, Value(28, 16, w)), Set(12, 0, Value(12, 0, w))}
  <2>1. /\ Set(31, 29, Value(31, 29, w)) = w \cap (29 .. 31)
        /\ Set(15, 13, Value(15, 13, w)) = w \cap (13 .. 15)
        /\ Set(28, 16, Value(28, 16, w)) = w \cap (16 .. 28)
        /\ Set(12, 0, Value(12, 0, w)) = w \cap (0 .. 12)
    BY FieldInPlace
  <2>2. w = UNION {w \cap (29 .. 31), w \cap (13 .. 15), w \cap (16 .. 28), w \cap (0 .. 12)}
    <3>1. \A i \in w : i \in 29 .. 31 \/ i \in 13 .. 15 \/ i \in 16 .. 28 \/ i \in 0 .. 12
      BY DEF Word
    <3> QED BY <3>1, Zenon
  <2> QED BY <2>1, <2>2
<1> QED BY <1>1, <1>2, <1>3 DEF BfprOf

\* The word of FRAP follows from its struct.
LEMMA FrapRebuilt ==
  ASSUME NEW w \in Word(32)
  PROVE  w = UNION {Set(31, 24, FrapOf(w).bios_master_write_access_grant),
                    Set(23, 16, FrapOf(w).bios_master_read_access_grant),
                    Set(15, 8, FrapOf(w).bios_region_write_access),
                    Set(7, 0, FrapOf(w).bios_region_read_access)}
<1>1. /\ Set(31, 24, Value(31, 24, w)) = w \cap (24 .. 31)
      /\ Set(23, 16, Value(23, 16, w)) = w \cap (16 .. 23)
      /\ Set(15, 8, Value(15, 8, w)) = w \cap (8 .. 15)
      /\ Set(7, 0, Value(7, 0, w)) = w \cap (0 .. 7)
  BY FieldInPlace
<1>2. w = UNION {w \cap (24 .. 31), w \cap (16 .. 23), w \cap (8 .. 15), w \cap (0 .. 7)}
  <2>1. \A i \in w : i \in 24 .. 31 \/ i \in 16 .. 23 \/ i \in 8 .. 15 \/ i \in 0 .. 7
    BY DEF Word
  <2> QED BY <2>1, Zenon
<1> QED BY <1>1, <1>2 DEF FrapOf

\* Whatever the window holds, ReadBfprRegister and ReadFrapRegister lose no bit of
\* their registers.
THEOREM ReadsLoseNothing == Spec => []LosslessReads
<1>1. BfprWord \in Word(32) /\ FrapWord \in Word(32)
  BY DEF BfprWord, FrapWord, ReadUint, Word
<1>2. LosslessReads
  BY <1>1, BfprRebuilt, FrapRebuilt DEF LosslessReads, ReadBfprRegister, ReadFrapRegister
<1> QED BY <1>2, PTL
====
