---- MODULE Session ----
(***************************************************************************)
(* A client of the classes Pci and Chipset (the usage at the head of       *)
(* pawn/chipset.h): it gets the I/O privilege, has the chipset probed,     *)
(* reads RCBA, maps the root complex and reads registers, in any order and *)
(* as often as the classes permit.  Other users of the machine store in    *)
(* the PCI address port meanwhile.                                         *)
(*                                                                         *)
(* The client keeps the rules of C++: it uses and destroys objects only    *)
(* while they exist, and a Pci object outlives the Chipset made with it,   *)
(* which keeps a pointer to it.  It may move from it, though.              *)
(***************************************************************************)
EXTENDS Pci, RootComplex, Chipset, RegisterLayout

CONSTANTS
  Machines,       \* the hardware: ids, RCBA and BIOS_CNTL
  Garbage,        \* what a register of another device may hold, by register
  RegisterNums    \* arguments of ReadFdataNRegister

ASSUME SessionAssumption ==
  /\ \A m \in Machines : m.rcba \in Word(32)
  /\ Garbage.rcba \subseteq Word(32)
  /\ RegisterNums \subseteq Int

VARIABLES
  machine,    \* the machine the session runs on
  chipset,    \* the Chipset object, none or one
  purpose,    \* the call the configuration reads belong to
  result,     \* what the last call returned: <<call, value, raced>>
  process     \* "running", or how it ended

clientVars == <<chipset, purpose, result, process>>
vars == <<ownerVars, portVars, rootVars, machine, clientVars>>

Init ==
  /\ PciInit /\ RootInit
  /\ machine \in Machines
  /\ chipset = {} /\ purpose = "none" /\ result = <<>> /\ process = "running"

Idle == process = "running" /\ pc = "idle"

-----------------------------------------------------------------------------
(* Pci objects.                                                            *)

ManagePci ==
  /\ Idle
  /\ \E o, p \in PciObjects :
       \/ CreatePci(o) \/ MoveConstruct(o, p) \/ MoveAssign(o, p)
       \/ DestroyPci(o) /\ \A c \in chipset : c.pci # o
  /\ UNCHANGED <<rootVars, machine, clientVars>>

\* A call that reads configuration space.
Begin(what, o, requests) ==
  /\ process = "running"
  /\ StartReads(o, requests)
  /\ purpose' = what
  /\ UNCHANGED <<ownerVars, rootVars, machine, chipset, result, process>>

ReadConfigUint == \E o \in PciObjects, r \in Requests : Begin("config", o, <<r>>)

CreateChipset ==
  /\ chipset = {}
  /\ \E o \in PciObjects : Begin("probe", o, <<kVidRegister, kDidRegister, kRidRegister>>)

ReadBiosCntl == \E c \in chipset : Begin("bios_cntl", c.pci, <<kBiosCntlRegister>>)

ReadRcba == \E c \in chipset : Begin("rcba", c.pci, <<kRcbaRegister>>)

PortAccess ==
  /\ process = "running"
  /\ InAddress \/ OutAddress \/ InData
  /\ UNCHANGED <<rootVars, machine, clientVars>>

\* SIGSEGV.
PortDenied ==
  /\ process = "running" /\ Denied
  /\ process' = "killed"
  /\ UNCHANGED <<ownerVars, portVars, rootVars, machine, chipset, purpose, result>>

OtherUser == ForeignSelect /\ UNCHANGED <<rootVars, machine, clientVars>>

\* What the k-th read of a call may have found, if it was meant for this register.
Found(k, register) == IF got[k] = <<reads[k]>> THEN {machine[register]} ELSE Garbage[register]

Returning(what) == process = "running" /\ pc = "return" /\ purpose = what

Return(value) ==
  /\ result' = <<purpose, value, raced>> /\ purpose' = "none"
  /\ EndReads
  /\ UNCHANGED <<ownerVars, rootVars, machine, process>>

ReturnConfig == Returning("config") /\ Return(got[1]) /\ UNCHANGED chipset

\* Chipset::Create: an object only if a class supports what was read.
ReturnChipset ==
  /\ Returning("probe")
  /\ \E vendor \in Found(1, "vendor"), device \in Found(2, "device"), revision \in Found(3, "revision") :
       LET id == [vendor |-> vendor, device |-> device, revision |-> revision] IN
       /\ Return(id)
       /\ chipset' = IF Create(id) = "unsupported" THEN {}
                     ELSE {[id |-> id, class |-> Create(id), pci |-> via, raced |-> raced]}

\* The chipset the call was made on.
This == CHOOSE c \in chipset : TRUE

ReturnBiosCntl ==
  /\ Returning("bios_cntl")
  /\ \E w \in Found(1, "bios_cntl") : Return(BiosCntlOf(This.class, w))
  /\ UNCHANGED chipset

ReturnRcba ==
  /\ Returning("rcba")
  /\ \E w \in Found(1, "rcba") : Return(RcbaOf(w))
  /\ UNCHANGED chipset

-----------------------------------------------------------------------------
(* The root complex.                                                       *)

Map ==
  /\ Idle /\ chipset # {} /\ result # <<>> /\ result[1] = "rcba"
  /\ MapRootComplex(result[2])
  /\ UNCHANGED <<ownerVars, portVars, machine, clientVars>>

UnMap ==
  /\ Idle /\ chipset # {}
  /\ UnMapRootComplex
  /\ UNCHANGED <<ownerVars, portVars, machine, clientVars>>

DestroyChipset ==
  /\ Idle /\ chipset # {}
  /\ UnMapRootComplex /\ chipset' = {}
  /\ UNCHANGED <<ownerVars, portVars, machine, purpose, result, process>>

\* An accessor of the chipset reads from the window; it dies with "Call
\* MapRootComplex() first." or, if it leaves the window, of a signal.
Access(offset, bytes) ==
  /\ Idle /\ chipset # {}
  /\ process' = IF rcrb_mem = {} THEN "aborted"
                ELSE IF offset + bytes > MapLength \/ Mapped(rcrb_mem) \cap maps = {} THEN "killed"
                ELSE process
  /\ UNCHANGED <<ownerVars, portVars, rootVars, machine, chipset, purpose, result>>

\* The Read accessors of GCS and of the SPI registers.
ReadRegister ==
  \/ Access(kGcsRegister, 4)
  \/ \E r \in SpiRegisterSpans : Access(SpiBar(This.class, r.offset), r.bytes)

\* Mutant of FdataChecked: the argument is not checked.
FdataUnchecked(register_num) == TRUE

FdataChecked(register_num) == ~(register_num < 0 \/ register_num > 16)

ReadFdataNRegister ==
  \E n \in RegisterNums :
    IF FdataChecked(n) THEN Access(SpiBar(This.class, kFdata0RegisterOffset + 4 * n), 4)
    ELSE /\ Idle /\ chipset # {}
         /\ process' = "aborted"
         /\ UNCHANGED <<ownerVars, portVars, rootVars, machine, chipset, purpose, result>>

Next == \/ ManagePci \/ ReadConfigUint \/ CreateChipset \/ ReadBiosCntl \/ ReadRcba
        \/ PortAccess \/ PortDenied \/ OtherUser
        \/ ReturnConfig \/ ReturnChipset \/ ReturnBiosCntl \/ ReturnRcba
        \/ Map \/ UnMap \/ DestroyChipset \/ ReadRegister \/ ReadFdataNRegister

Spec == Init /\ [][Next]_vars

-----------------------------------------------------------------------------
(* Properties.                                                             *)

\* Types of the variables.
TypeOK ==
  /\ live \subseteq PciObjects /\ owners \subseteq live /\ level \in {0, 3}
  /\ creates \in 0 .. MaxCreates /\ lost \in BOOLEAN
  /\ port \in Word(32) /\ pc \in {"idle", "inl", "outl", "in", "return"}
  /\ via \in PciObjects \cup {"local"} /\ reads \in Seq(Place) /\ Len(got) <= Len(reads)
  /\ \A k \in DOMAIN got : got[k] = <<>> \/ got[k][1] \in Place
  /\ reserved_bits \in SUBSET (24 .. 30) /\ foreign \in 0 .. MaxForeign
  /\ raced \subseteq {"outl", "in"} \X Nat
  /\ fds \subseteq 1 .. MaxFds /\ leaked \subseteq fds /\ maps \subseteq Windows
  /\ rcrb_mem \subseteq Objects
  /\ process \in {"running", "killed", "aborted"}

\* As long as Pci::Create was called once, an owner has the privilege: neither the
\* destructor of the local object Create moves from, nor that of any other object
\* that was moved from, takes it away.
OwnerHasPrivilege == creates <= 1 /\ owners # {} => level = 3

\* The privilege is not left behind: when no object owns it any more the process
\* does not have it, unless an assignment (from an object that does not own it, or
\* to itself) has overwritten the flag of an owner.
PrivilegeReturned == level = 3 /\ owners = {} => lost

\* Another user stored in the address port after the k-th read of a call did.
Disturbed(k) == <<"in", k>> \in raced

\* The bits of an offset that are 0 in a naturally aligned one.
Unaligned(bytes) == CASE bytes = 1 -> {} [] bytes = 2 -> {0} [] bytes = 4 -> {0, 1}

\* A configuration read returns the bytes of the bus, device and function it was
\* asked for, from the naturally aligned unit that holds the offset, unless another
\* user selected a register of its own between the last two port accesses; one that
\* did so before makes no difference.
ReadsExact ==
  \A k \in DOMAIN got : ~Disturbed(k) =>
    got[k] = <<[reads[k] EXCEPT !.offset = @ \ Unaligned(reads[k].bytes)]>>

\* "Do not touch reserved bits": a read gives bits 30:24 of the address port back as
\* they were, unless another user has changed them since it looked.
ReservedKept ==
  [][pc = "outl" /\ pc' = "in" /\ <<"outl", Len(got) + 1>> \notin raced =>
       port' \cap 24 .. 30 = port \cap 24 .. 30]_vars

\* BIOS_CNTL again from its struct.
BiosCntlBits(b) == UNION {
  Set(5, 5, Bool(b.smm_bios_write_protect_disable)), Set(4, 4, Bool(b.top_swap_status)),
  Set(3, 2, b.spi_read_configuration), Set(1, 1, Bool(b.bios_lock_enable)),
  Set(0, 0, Bool(b.bios_write_enable))}

\* A chipset object is made for the machine's ids, of a class that lists them, and
\* BIOS_CNTL tells what the register holds, SMM_BWP only where it exists, unless
\* another user disturbed one of the reads of that call.
RegistersExact ==
  /\ \A c \in chipset : \/ \E k \in 1 .. 3 : <<"in", k>> \in c.raced
                        \/ /\ c.id = [f \in {"vendor", "device", "revision"} |-> machine[f]]
                           /\ \A k \in DOMAIN Classes : c.class = Classes[k] => c.id.device \in Devices[k]
  /\ \A c \in chipset :
       result # <<>> /\ result[1] = "bios_cntl" /\ <<"in", 1>> \notin result[3] =>
         BiosCntlBits(result[2]) =
           machine.bios_cntl \cap (IF c.class \in {"ICH8", "ICH9", "ICH10"} THEN 0 .. 4 ELSE 0 .. 5)

\* A window that is newly mapped is the one RCBA names, unless the read of RCBA
\* was disturbed, and in any case the register said it was enabled.
WindowTrusted ==
  [][\A m \in rcrb_mem' \ rcrb_mem :
       /\ result[1] = "rcba" /\ result[2].enable
       /\ <<"in", 1>> \in result[3] \/ m.mem_.base = machine.rcba \cap 14 .. 31]_vars

\* Whatever was mapped, mapped again, failed to map or unmapped: the process has the
\* window of the chipset mapped and no other, and the descriptors open are the one
\* of that window and those of the objects whose mmap failed.
WindowsAccounted ==
  /\ maps = Mapped(rcrb_mem)
  /\ fds = leaked \cup Held(rcrb_mem) /\ leaked \cap Held(rcrb_mem) = {}

\* Nothing dies of a signal as long as the privilege was requested once and the
\* Pci object used owns it; in particular no register, for no argument of
\* ReadFdataNRegister, lies outside the 16 KiB mapped.
NoSignal == process = "killed" => pc = "inl" /\ (creates > 1 \/ via \notin owners)
====
