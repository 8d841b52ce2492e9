---- MODULE Pci ----
(***************************************************************************)
(* Class Pci (pawn/pci.h, pawn/pci.cc): who owns the process's I/O         *)
(* privilege, and how a register of PCI configuration space is read        *)
(* through the address port CF8 and the data port CFC.                     *)
(*                                                                         *)
(* A read is three port accesses, and the address port is shared with the  *)
(* kernel and every other process with the privilege.  What a read returns *)
(* is represented by the place in configuration space it comes from.       *)
(* Module Session composes this component with its client.                 *)
(***************************************************************************)
EXTENDS Bits, Sequences

CONSTANTS
  PciObjects,     \* names of Pci objects a client has
  Requests,       \* configuration reads a client makes itself
  ForeignWords,   \* what other users store in the address port
  MaxCreates, MaxForeign

VARIABLES
  live, owners,   \* the Pci objects that exist, those with iopl_done_ set
  level,          \* the I/O privilege level of the process
  creates,        \* successful calls of Pci::Create
  lost,           \* an assignment overwrote the flag of an owner (history)
  port,           \* the address port, a word
  pc,             \* the next port access of the read in progress, or "idle"
  via,            \* the Pci object it was called on
  reads,          \* the requests of the call in progress
  got,            \* where their answers came from
  reserved_bits,  \* the local variable
  raced,          \* the requests another user got in between of (history)
  foreign         \* stores of other users so far

ownerVars == <<live, owners, level, creates, lost>>
portVars  == <<port, pc, via, reads, got, reserved_bits, raced, foreign>>

Place == [bus : Word(8), device : Word(5), function : Word(3), offset : Word(8), bytes : {1, 2, 4}]

ASSUME PciAssumption ==
  /\ "local" \notin PciObjects
  /\ Requests \subseteq Place /\ ForeignWords \subseteq Word(32)
  /\ MaxCreates \in Nat /\ MaxForeign \in Nat

PciInit ==
  /\ live = {} /\ owners = {} /\ level = 0 /\ creates = 0 /\ lost = FALSE
  /\ port \in ForeignWords /\ pc = "idle" /\ via = "local" /\ reads = <<>> /\ got = <<>>
  /\ reserved_bits = {} /\ raced = {} /\ foreign = 0

-----------------------------------------------------------------------------
(* The privilege: s is [live, owners, level].                              *)

\* Mutant of Assigned: the source keeps the flag.
AssignedCopies(s, o, p) == [s EXCEPT !.owners = IF p \in @ THEN @ \cup {o} ELSE @ \ {o}]

\* o = std::move(p): o takes over the flag of p, then p loses it, o being p or not.
Assigned(s, o, p) == [s EXCEPT !.owners = (IF p \in @ THEN @ \cup {o} ELSE @ \ {o}) \ {p}]

\* The move constructor is an assignment to a new object.
Constructed(s, o, p) == Assigned([s EXCEPT !.live = @ \cup {o}], o, p)

\* Mutant of Destroyed: the privilege is kept.
DestroyedKeeps(s, o) == [s EXCEPT !.live = @ \ {o}, !.owners = @ \ {o}]

\* The destructor: iopl(0) by an owner.
Destroyed(s, o) ==
  [live |-> s.live \ {o}, owners |-> s.owners \ {o}, level |-> IF o \in s.owners THEN 0 ELSE s.level]

Privilege == [live |-> live, owners |-> owners, level |-> level]
SetPrivilege(s) == live' = s.live /\ owners' = s.owners /\ level' = s.level

\* Pci::Create: iopl(3), then a local object that is moved to the one returned
\* and destroyed.
CreatePci(o) ==
  /\ pc = "idle" /\ o \notin live /\ creates < MaxCreates
  /\ LET granted == [live |-> live \cup {"local"}, owners |-> owners \cup {"local"}, level |-> 3]
     IN  SetPrivilege(Destroyed(Constructed(granted, o, "local"), "local"))
  /\ creates' = creates + 1
  /\ UNCHANGED <<lost, portVars>>

MoveConstruct(o, p) ==
  /\ pc = "idle" /\ p \in live /\ o \notin live
  /\ SetPrivilege(Constructed(Privilege, o, p))
  /\ UNCHANGED <<creates, lost, portVars>>

MoveAssign(o, p) ==
  /\ pc = "idle" /\ {o, p} \subseteq live
  /\ SetPrivilege(Assigned(Privilege, o, p))
  /\ lost' = (lost \/ (o \in owners /\ (o = p \/ p \notin owners)))
  /\ UNCHANGED <<creates, portVars>>

DestroyPci(o) ==
  /\ pc = "idle" /\ o \in live
  /\ SetPrivilege(Destroyed(Privilege, o))
  /\ UNCHANGED <<creates, lost, portVars>>

-----------------------------------------------------------------------------
(* Reading configuration space.                                            *)

\* Mutant of MakeConfigAddress: the device number is one bit short.
MakeConfigAddressShort(bus, device, function, offset) ==
  UNION {Set(31, 31, {0}), Set(23, 16, bus), Set(14, 11, device), Set(10, 8, function), Set(7, 0, offset)}

MakeConfigAddress(bus, device, function, offset) ==
  UNION {Set(31, 31, {0}), Set(23, 16, bus), Set(15, 11, device), Set(10, 8, function), Set(7, 0, offset)}

Address(r) == MakeConfigAddress(r.bus, r.device, r.function, r.offset)

\* A register of B0:D31:F0, the LPC device.
Lpc(offset, bytes) ==
  [bus |-> {}, device |-> 0 .. 4, function |-> {}, offset |-> offset, bytes |-> bytes]

kVidRegister      == Lpc({}, 2)
kDidRegister      == Lpc({1}, 2)                  \* 0x02
kRidRegister      == Lpc({3}, 1)                  \* 0x08
kBiosCntlRegister == Lpc({2, 3, 4, 6, 7}, 1)      \* 0xDC
kRcbaRegister     == Lpc({4, 5, 6, 7}, 4)         \* 0xF0

\* config_address & (sizeof(uint32_t) - sizeof(int_type)).
LaneMask(bytes) == CASE bytes = 1 -> {0, 1} [] bytes = 2 -> {1} [] bytes = 4 -> {}
Lane(r) == Address(r) \cap LaneMask(r.bytes)

\* The bridge: bits 23:2 of the address port select a double word, the data port
\* used selects bytes of it.  Without bit 31 there is no configuration cycle.
Answer(lane, bytes) ==
  IF Test(31, port)
  THEN <<[bus |-> Value(23, 16, port), device |-> Value(15, 11, port), function |-> Value(10, 8, port),
          offset |-> Set(7, 2, Value(7, 2, port)) \cup lane, bytes |-> bytes]>>
  ELSE <<>>

\* A call on o that makes these reads, one after the other.
StartReads(o, requests) ==
  /\ pc = "idle" /\ o \in live
  /\ pc' = "inl" /\ via' = o /\ reads' = requests
  /\ UNCHANGED <<port, got, reserved_bits, raced, foreign>>

Current == reads[Len(got) + 1]

\* Mutant of Reserved: the mask is missing.
ReservedUnmasked(word) == word

Reserved(word) == word \cap 24 .. 30

\* The first port access dies of a signal unless the process has the privilege.
InAddress ==
  /\ pc = "inl" /\ level = 3
  /\ reserved_bits' = Reserved(port)
  /\ pc' = "outl"
  /\ UNCHANGED <<ownerVars, port, via, reads, got, raced, foreign>>

Denied == pc = "inl" /\ level # 3

\* Mutant of Selected: the reserved bits are cleared.
SelectedClears(address, reserved) == address

Selected(address, reserved) == address \cup reserved

OutAddress ==
  /\ pc = "outl"
  /\ port' = Selected(Address(Current), reserved_bits)
  /\ pc' = "in"
  /\ UNCHANGED <<ownerVars, via, reads, got, reserved_bits, raced, foreign>>

InData ==
  /\ pc = "in"
  /\ got' = Append(got, Answer(Lane(Current), Current.bytes))
  /\ pc' = IF Len(got') = Len(reads) THEN "return" ELSE "inl"
  /\ UNCHANGED <<ownerVars, port, via, reads, reserved_bits, raced, foreign>>

\* The call returns.
EndReads ==
  /\ pc = "return" /\ pc' = "idle"
  /\ via' = "local" /\ reads' = <<>> /\ got' = <<>> /\ reserved_bits' = {} /\ raced' = {}
  /\ UNCHANGED <<port, foreign>>

\* The kernel or another process selects a register of its own.
ForeignSelect ==
  /\ foreign < MaxForeign /\ foreign' = foreign + 1
  /\ port' \in ForeignWords
  /\ raced' = raced \cup (IF pc \in {"outl", "in"} THEN {<<pc, Len(got) + 1>>} ELSE {})
  /\ UNCHANGED <<ownerVars, pc, via, reads, got, reserved_bits>>
====
