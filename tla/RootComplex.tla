---- MODULE RootComplex ----
(***************************************************************************)
(* The mapped configuration space of the chipset: rcrb_mem_ of class       *)
(* Chipset (pawn/chipset.cc:77-96, 177-182) and the life of the            *)
(* PhysicalMemory object it holds (pawn/physical_memory.cc:33-66), with    *)
(* the descriptors and mappings the process has.  Module Session composes  *)
(* this component with its client.                                         *)
(***************************************************************************)
EXTENDS Bits

CONSTANT MaxFds   \* descriptors the process may have open
ASSUME MaxFdsAssumption == MaxFds \in Nat

VARIABLES
  fds,        \* open descriptors of /dev/mem
  maps,       \* windows mapped into the process
  rcrb_mem,   \* the PhysicalMemory object of the chipset, none or one
  leaked      \* descriptors of objects whose mmap failed (history)

\* The bytes of a window.
MapLength == \h4000

rootVars == <<fds, maps, rcrb_mem, leaked>>

\* Virtual addresses of mappings: the old window and the one about to replace it.
Slots == 1 .. 2
Windows == [mem : Slots, base : Word(32)]
Objects == [mem_fd_ : 1 .. MaxFds, mem_ : Windows]

RootInit == fds = {} /\ maps = {} /\ rcrb_mem = {} /\ leaked = {}

Held(obj) == {m.mem_fd_ : m \in obj}
Mapped(obj) == {m.mem_ : m \in obj}

\* Mutant of Closed: the destructor only unmaps.
ClosedNot(open, obj) == open

Closed(open, obj) == open \ Held(obj)

\* rcrb_mem_ becomes obj (none or one): the object it held is destroyed, after
\* the new one was made.  The destructor unmaps and closes.
Install(obj) ==
  /\ rcrb_mem' = obj
  /\ maps' = (maps \cup Mapped(obj)) \ Mapped(rcrb_mem)
  /\ fds' = Closed(fds \cup Held(obj), rcrb_mem)

\* PhysicalMemory::Create.  open may fail, and does when no descriptor is left:
\* nothing changes.
OpenFails == UNCHANGED rootVars

\* mmap fails: mem_ is null again, and the destructor of the object that was to
\* be returned leaves the descriptor alone.
MmapFails ==
  \E fd \in 1 .. MaxFds \ fds :
    /\ fds' = fds \cup {fd} /\ leaked' = leaked \cup {fd}
    /\ UNCHANGED <<maps, rcrb_mem>>

MapSucceeds(base) ==
  \E fd \in 1 .. MaxFds \ fds, at \in Slots \ {w.mem : w \in maps} :
    /\ Install({[mem_fd_ |-> fd, mem_ |-> [mem |-> at, base |-> base]]})
    /\ UNCHANGED leaked

\* Chipset::MapRootComplex.
MapRootComplex(rcba) ==
  IF rcba.enable THEN OpenFails \/ MmapFails \/ MapSucceeds(rcba.base_address)
  ELSE UNCHANGED rootVars

\* Chipset::UnMapRootComplex, and the destructor of Chipset.
UnMapRootComplex == Install({}) /\ UNCHANGED leaked
====
