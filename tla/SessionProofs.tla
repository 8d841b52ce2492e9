---- MODULE SessionProofs ----
(***************************************************************************)
(* Proofs about sessions (module Session), for any number of Pci objects,  *)
(* calls of Pci::Create, descriptors and stores of other users.            *)
(***************************************************************************)
EXTENDS Session, ChipsetProofs

-----------------------------------------------------------------------------
(* The steps of a session that matter here.                                *)

\* Every step manages Pci objects, or changes the root complex, or neither.
LEMMA Steps ==
  Next => \/ \E o, p \in PciObjects : /\ \/ CreatePci(o) \/ MoveConstruct(o, p)
                                         \/ MoveAssign(o, p) \/ DestroyPci(o)
                                      /\ UNCHANGED rootVars
          \/ UNCHANGED ownerVars /\ (UNCHANGED rootVars \/ UnMapRootComplex
                                       \/ \E rcba : MapRootComplex(rcba))
<1> SUFFICES ASSUME Next
             PROVE  \/ \E o, p \in PciObjects : /\ \/ CreatePci(o) \/ MoveConstruct(o, p)
                                                   \/ MoveAssign(o, p) \/ DestroyPci(o)
                                                /\ UNCHANGED rootVars
                    \/ UNCHANGED ownerVars /\ (UNCHANGED rootVars \/ UnMapRootComplex
                                                 \/ \E rcba : MapRootComplex(rcba))
  OBVIOUS
<1>1. CASE ManagePci BY <1>1 DEF ManagePci
<1>2. CASE ReadConfigUint \/ CreateChipset \/ ReadBiosCntl \/ ReadRcba
  BY <1>2 DEF ReadConfigUint, CreateChipset, ReadBiosCntl, ReadRcba, Begin
<1>3. CASE PortAccess \/ PortDenied \/ OtherUser
  BY <1>3 DEF PortAccess, InAddress, OutAddress, InData, PortDenied, OtherUser, ForeignSelect
<1>4. CASE ReturnConfig \/ ReturnChipset \/ ReturnBiosCntl \/ ReturnRcba
  BY <1>4 DEF ReturnConfig, ReturnChipset, ReturnBiosCntl, ReturnRcba, Return
<1>5. CASE Map BY <1>5 DEF Map
<1>6. CASE UnMap \/ DestroyChipset BY <1>6 DEF UnMap, DestroyChipset
<1>7. CASE ReadRegister \/ ReadFdataNRegister
  BY <1>7 DEF ReadRegister, ReadFdataNRegister, Access
<1> QED BY <1>1, <1>2, <1>3, <1>4, <1>5, <1>6, <1>7 DEF Next

-----------------------------------------------------------------------------
(* The I/O privilege.                                                      *)

\* The flags of moved objects add up: at most one object owns the privilege as long
\* as it was requested once, and owners exist.
PrivilegeInv ==
  /\ owners \subseteq live /\ live \subseteq PciObjects
  /\ creates \in Nat /\ (creates = 0 => owners = {})
  /\ creates <= 1 => \A o, p \in owners : o = p
  /\ OwnerHasPrivilege /\ PrivilegeReturned

\* Pci::Create: the object returned owns the privilege, the local one does not
\* take it away.
LEMMA CreateEffect ==
  ASSUME NEW o, o # "local", "local" \notin live, CreatePci(o), owners \subseteq live
  PROVE  live' = live \cup {o} /\ owners' = owners \cup {o} /\ level' = 3 /\ creates' = creates + 1
BY PciAssumption DEF CreatePci, SetPrivilege, Destroyed, Constructed, Assigned

\* The move constructor hands the flag of p, if set, to the new object.
LEMMA ConstructEffect ==
  ASSUME NEW o, NEW p, MoveConstruct(o, p), owners \subseteq live
  PROVE  /\ live' = live \cup {o} /\ level' = level /\ creates' = creates /\ lost' = lost
         /\ o \notin owners /\ o # p
         /\ owners' = IF p \in owners THEN (owners \ {p}) \cup {o} ELSE owners
BY DEF MoveConstruct, SetPrivilege, Constructed, Assigned, Privilege

\* Move assignment: o takes over the flag of p, which may lose the one of o.
LEMMA AssignEffect ==
  ASSUME NEW o, NEW p, MoveAssign(o, p)
  PROVE  /\ live' = live /\ level' = level /\ creates' = creates /\ {o, p} \subseteq live
         /\ owners' = (IF p \in owners THEN owners \cup {o} ELSE owners \ {o}) \ {p}
         /\ lost' = (lost \/ (o \in owners /\ (o = p \/ p \notin owners)))
BY DEF MoveAssign, SetPrivilege, Assigned, Privilege

\* The destructor of an owner gives the privilege back.
LEMMA DestroyEffect ==
  ASSUME NEW o, DestroyPci(o)
  PROVE  /\ live' = live \ {o} /\ owners' = owners \ {o} /\ creates' = creates /\ lost' = lost
         /\ level' = IF o \in owners THEN 0 ELSE level
BY DEF DestroyPci, SetPrivilege, Destroyed, Privilege

\* The initial state has no object.
LEMMA PrivilegeInit == Init => PrivilegeInv
BY DEF Init, PciInit, PrivilegeInv, OwnerHasPrivilege, PrivilegeReturned

\* Every step keeps PrivilegeInv.
LEMMA PrivilegeStep == PrivilegeInv /\ [Next]_vars => PrivilegeInv'
<1> SUFFICES ASSUME PrivilegeInv, [Next]_vars PROVE PrivilegeInv'
  OBVIOUS
<1> USE DEF PrivilegeInv, OwnerHasPrivilege, PrivilegeReturned
<1>0. "local" \notin live BY PciAssumption
<1>1. CASE UNCHANGED ownerVars BY <1>1 DEF ownerVars
<1>2. ASSUME NEW o \in PciObjects, CreatePci(o) PROVE PrivilegeInv'
  <2>1. live' = live \cup {o} /\ owners' = owners \cup {o} /\ level' = 3 /\ creates' = creates + 1
    BY <1>0, <1>2, PciAssumption, CreateEffect
  <2>2. creates' <= 1 => creates = 0 BY <2>1
  <2> QED BY <1>2, <2>1, <2>2
<1>3. ASSUME NEW o \in PciObjects, NEW p \in PciObjects, MoveConstruct(o, p) PROVE PrivilegeInv'
  BY <1>3, ConstructEffect
<1>4. ASSUME NEW o \in PciObjects, NEW p \in PciObjects, MoveAssign(o, p) PROVE PrivilegeInv'
  <2>1. /\ live' = live /\ level' = level /\ creates' = creates /\ o \in live /\ p \in live
        /\ owners' = (IF p \in owners THEN owners \cup {o} ELSE owners \ {o}) \ {p}
        /\ lost' = (lost \/ (o \in owners /\ (o = p \/ p \notin owners)))
    BY <1>4, AssignEffect
  <2>2. owners' \subseteq live' /\ (owners = {} => owners' = {}) BY <2>1
  <2>3. ASSUME creates' <= 1 PROVE \A x, y \in owners' : x = y BY <2>1, <2>3
  <2>4. OwnerHasPrivilege' BY <2>1, <2>2
  <2>5. PrivilegeReturned'
    <3>1. CASE owners = {} BY <2>1, <3>1
    <3>2. CASE owners # {} /\ owners' = {}
      <4>1. o \in owners /\ (o = p \/ p \notin owners) BY <2>1, <3>2
      <4> QED BY <2>1, <4>1
    <3> QED BY <3>1, <3>2
  <2> QED BY <2>1, <2>2, <2>3, <2>4, <2>5
<1>5. ASSUME NEW o \in PciObjects, DestroyPci(o) PROVE PrivilegeInv'
  BY <1>5, DestroyEffect
<1> QED BY <1>1, <1>2, <1>3, <1>4, <1>5, Steps DEF vars

\* As long as Pci::Create was called once, no move and no destructor takes the
\* privilege from its owner: however many objects there are.
THEOREM OwnerKeepsPrivilege == Spec => []OwnerHasPrivilege
<1>1. PrivilegeInv => OwnerHasPrivilege BY DEF PrivilegeInv
<1> QED BY <1>1, PrivilegeInit, PrivilegeStep, PTL DEF Spec

\* The destructor of the last owner gives the privilege back, unless an assignment
\* has overwritten the flag of an owner.
THEOREM PrivilegeGivenBack == Spec => []PrivilegeReturned
<1>1. PrivilegeInv => PrivilegeReturned BY DEF PrivilegeInv
<1> QED BY <1>1, PrivilegeInit, PrivilegeStep, PTL DEF Spec

-----------------------------------------------------------------------------
(* Descriptors and windows.                                                *)

\* Nothing is open or mapped at first.
LEMMA WindowsInit == Init => WindowsAccounted
BY DEF Init, RootInit, WindowsAccounted, Mapped, Held

\* A window that is mapped takes the place of the old one, descriptor and all.
LEMMA MapStep ==
  ASSUME WindowsAccounted, NEW base, MapSucceeds(base)
  PROVE  WindowsAccounted'
<1>1. PICK fd \in 1 .. MaxFds \ fds, at \in Slots \ {w.mem : w \in maps} :
        Install({[mem_fd_ |-> fd, mem_ |-> [mem |-> at, base |-> base]]})
  BY DEF MapSucceeds
<1> DEFINE w == [mem |-> at, base |-> base]
<1> DEFINE m == [mem_fd_ |-> fd, mem_ |-> w]
<1>2. leaked' = leaked /\ rcrb_mem' = {m} BY <1>1 DEF MapSucceeds, Install
<1>3. Held({m}) = {fd} /\ Mapped({m}) = {w} BY DEF Held, Mapped
<1>4. w \notin maps BY <1>1
<1>5. fds' = (fds \cup {fd}) \ Held(rcrb_mem) /\ maps' = (maps \cup {w}) \ Mapped(rcrb_mem)
  BY <1>1, <1>3 DEF Install, Closed
<1>6. maps' = {w} BY <1>4, <1>5 DEF WindowsAccounted
<1>7. fds' = leaked \cup {fd} /\ fd \notin leaked BY <1>1, <1>5 DEF WindowsAccounted
<1>8. Held(rcrb_mem') = {fd} /\ Mapped(rcrb_mem') = {w} BY <1>2, <1>3
<1> QED BY <1>2, <1>6, <1>7, <1>8 DEF WindowsAccounted, Held, Mapped

\* Every step keeps the account.
LEMMA WindowsStep == WindowsAccounted /\ [Next]_vars => WindowsAccounted'
<1> SUFFICES ASSUME WindowsAccounted, [Next]_vars PROVE WindowsAccounted'
  OBVIOUS
<1>1. CASE UNCHANGED rootVars BY <1>1 DEF rootVars, WindowsAccounted, Held, Mapped
<1>2. CASE UnMapRootComplex
  BY <1>2 DEF UnMapRootComplex, Install, Closed, WindowsAccounted, Held, Mapped
<1>3. CASE MmapFails
  <2>1. PICK fd \in 1 .. MaxFds \ fds : fds' = fds \cup {fd} /\ leaked' = leaked \cup {fd}
    BY <1>3 DEF MmapFails
  <2>2. UNCHANGED <<maps, rcrb_mem>> BY <1>3 DEF MmapFails
  <2> QED BY <2>1, <2>2 DEF WindowsAccounted, Held, Mapped
<1>4. ASSUME NEW rcba, MapRootComplex(rcba) PROVE WindowsAccounted'
  BY <1>1, <1>3, <1>4, MapStep DEF MapRootComplex, OpenFails
<1>5. CASE UNCHANGED vars BY <1>1, <1>5 DEF vars
<1> QED BY <1>1, <1>2, <1>4, <1>5, Steps

\* However often the root complex was mapped, mapped again, unmapped or failed to
\* map, the process has one window and its descriptor, or none, besides the
\* descriptors of failed calls of mmap.
THEOREM WindowsBalance == Spec => []WindowsAccounted
BY WindowsInit, WindowsStep, PTL DEF Spec

-----------------------------------------------------------------------------
(* Reads of configuration space.                                           *)

\* Every step takes one step of a read, or one of another user, or none.
LEMMA PortSteps ==
  ASSUME Next
  PROVE  \/ UNCHANGED portVars \/ InAddress \/ OutAddress \/ InData \/ EndReads \/ ForeignSelect
         \/ \E o, requests : StartReads(o, requests) /\ requests \in Seq(Place) /\ requests # <<>>
<1>1. CASE ManagePci
  BY <1>1 DEF ManagePci, CreatePci, MoveConstruct, MoveAssign, DestroyPci
<1>2. CASE ReadConfigUint
  <2>1. PICK o \in PciObjects, r \in Requests : StartReads(o, <<r>>)
    BY <1>2 DEF ReadConfigUint, Begin
  <2>2. <<r>> \in Seq(Place) /\ <<r>> # <<>> BY PciAssumption
  <2> QED BY <2>1, <2>2
<1>3. kVidRegister \in Place /\ kDidRegister \in Place /\ kRidRegister \in Place
  BY DEF kVidRegister, kDidRegister, kRidRegister, Lpc, Place, Word
<1>4. kBiosCntlRegister \in Place /\ kRcbaRegister \in Place
  BY DEF kBiosCntlRegister, kRcbaRegister, Lpc, Place, Word
<1>5. CASE CreateChipset
  <2> DEFINE requests == <<kVidRegister, kDidRegister, kRidRegister>>
  <2>1. PICK o \in PciObjects : StartReads(o, requests) BY <1>5 DEF CreateChipset, Begin
  <2>2. requests \in Seq(Place) /\ requests # <<>> BY <1>3
  <2> QED BY <2>1, <2>2
<1>6. CASE ReadBiosCntl
  <2>1. PICK o : StartReads(o, <<kBiosCntlRegister>>) BY <1>6 DEF ReadBiosCntl, Begin
  <2>2. <<kBiosCntlRegister>> \in Seq(Place) /\ <<kBiosCntlRegister>> # <<>> BY <1>4
  <2> QED BY <2>1, <2>2
<1>7. CASE ReadRcba
  <2>1. PICK o : StartReads(o, <<kRcbaRegister>>) BY <1>7 DEF ReadRcba, Begin
  <2>2. <<kRcbaRegister>> \in Seq(Place) /\ <<kRcbaRegister>> # <<>> BY <1>4
  <2> QED BY <2>1, <2>2
<1>8. CASE PortAccess \/ OtherUser BY <1>8 DEF PortAccess, OtherUser
<1>9. CASE ReturnConfig \/ ReturnChipset \/ ReturnBiosCntl \/ ReturnRcba
  BY <1>9 DEF ReturnConfig, ReturnChipset, ReturnBiosCntl, ReturnRcba, Return
<1>10. CASE PortDenied \/ Map \/ UnMap \/ DestroyChipset \/ ReadRegister \/ ReadFdataNRegister
  BY <1>10 DEF PortDenied, Map, UnMap, DestroyChipset, ReadRegister, ReadFdataNRegister, Access
<1> QED BY <1>1, <1>2, <1>5, <1>6, <1>7, <1>8, <1>9, <1>10 DEF Next

\* The reserved bits of the address port are not part of an address.
LEMMA AddressBits ==
  ASSUME NEW r
  PROVE  Address(r) \cap (24 .. 30) = {}
BY DEF Address, MakeConfigAddress, Set

\* The bridge, given the address of r with any reserved bits, answers with the
\* aligned unit r asks for.
LEMMA BridgeAnswers ==
  ASSUME NEW r \in Place, NEW reserved \in SUBSET (24 .. 30), port = Address(r) \cup reserved
  PROVE  Answer(Lane(r), r.bytes) = <<[r EXCEPT !.offset = @ \ Unaligned(r.bytes)]>>
<1>0. /\ r.bus \in SUBSET (0 .. 7) /\ r.device \in SUBSET (0 .. 4) /\ r.function \in SUBSET (0 .. 2)
      /\ r.offset \in SUBSET (0 .. 7) /\ r.bytes \in {1, 2, 4}
      /\ r = [bus |-> r.bus, device |-> r.device, function |-> r.function,
              offset |-> r.offset, bytes |-> r.bytes]
  BY DEF Place, Word
<1>1. /\ port \cap (16 .. 23) = Set(23, 16, r.bus) /\ port \cap (11 .. 15) = Set(15, 11, r.device)
      /\ port \cap (8 .. 10) = Set(10, 8, r.function) /\ 31 \in port
  BY DEF Address, MakeConfigAddress, Set
<1>2. port \cap (0 .. 7) = r.offset /\ Address(r) \cap (0 .. 7) = r.offset
  BY <1>0 DEF Address, MakeConfigAddress, Set
<1>3. Value(23, 16, port) = r.bus
  <2>1. ASSUME NEW i \in 0 .. 7 PROVE i + 16 \in port <=> i \in r.bus
    <3>1. i + 16 \in 16 .. 23 /\ (i + 16) - 16 = i OBVIOUS
    <3>2. i + 16 \in port <=> i + 16 \in Set(23, 16, r.bus) BY <1>1, <3>1
    <3> QED BY <3>1, <3>2 DEF Set
  <2>2. Value(23, 16, port) = {i \in 0 .. 7 : i + 16 \in port} BY DEF Value
  <2> QED BY <1>0, <2>1, <2>2
<1>4. Value(15, 11, port) = r.device
  <2>1. ASSUME NEW i \in 0 .. 4 PROVE i + 11 \in port <=> i \in r.device
    <3>1. i + 11 \in 11 .. 15 /\ (i + 11) - 11 = i OBVIOUS
    <3>2. i + 11 \in port <=> i + 11 \in Set(15, 11, r.device) BY <1>1, <3>1
    <3> QED BY <3>1, <3>2 DEF Set
  <2>2. Value(15, 11, port) = {i \in 0 .. 4 : i + 11 \in port} BY DEF Value
  <2> QED BY <1>0, <2>1, <2>2
<1>5. Value(10, 8, port) = r.function
  <2>1. ASSUME NEW i \in 0 .. 2 PROVE i + 8 \in port <=> i \in r.function
    <3>1. i + 8 \in 8 .. 10 /\ (i + 8) - 8 = i OBVIOUS
    <3>2. i + 8 \in port <=> i + 8 \in Set(10, 8, r.function) BY <1>1, <3>1
    <3> QED BY <3>1, <3>2 DEF Set
  <2>2. Value(10, 8, port) = {i \in 0 .. 2 : i + 8 \in port} BY DEF Value
  <2> QED BY <1>0, <2>1, <2>2
<1>6. Set(7, 2, Value(7, 2, port)) = r.offset \cap (2 .. 7)
  BY <1>2 DEF Set, Value
<1>7. Lane(r) = r.offset \cap LaneMask(r.bytes)
  BY <1>0, <1>2 DEF Lane, LaneMask
<1>8. (r.offset \cap (2 .. 7)) \cup (r.offset \cap LaneMask(r.bytes)) = r.offset \ Unaligned(r.bytes)
  BY <1>0 DEF LaneMask, Unaligned
<1>9. Answer(Lane(r), r.bytes) =
        <<[bus |-> r.bus, device |-> r.device, function |-> r.function,
           offset |-> (r.offset \cap (2 .. 7)) \cup (r.offset \cap LaneMask(r.bytes)), bytes |-> r.bytes]>>
  BY <1>1, <1>3, <1>4, <1>5, <1>6, <1>7 DEF Answer, Test
<1>10. [r EXCEPT !.offset = @ \ Unaligned(r.bytes)] =
        [bus |-> r.bus, device |-> r.device, function |-> r.function,
         offset |-> r.offset \ Unaligned(r.bytes), bytes |-> r.bytes]
  BY <1>0 DEF Place
<1> QED BY <1>8, <1>9, <1>10

\* Whatever the address port holds, the answer is nothing or a place.
LEMMA AnswerIsPlace ==
  ASSUME NEW r \in Place
  PROVE  Answer(Lane(r), r.bytes) \in Seq(Place)
<1>0. r.bytes \in {1, 2, 4} BY DEF Place
<1>1. /\ Value(23, 16, port) \in SUBSET (0 .. 7) /\ Value(15, 11, port) \in SUBSET (0 .. 4)
      /\ Value(10, 8, port) \in SUBSET (0 .. 2)
  BY DEF Value
<1>2. Set(7, 2, Value(7, 2, port)) \in SUBSET (0 .. 7) BY DEF Set, Value
<1>3. Lane(r) \in SUBSET (0 .. 7) BY <1>0 DEF Lane, LaneMask
<1>4. [bus |-> Value(23, 16, port), device |-> Value(15, 11, port), function |-> Value(10, 8, port),
       offset |-> Set(7, 2, Value(7, 2, port)) \cup Lane(r), bytes |-> r.bytes] \in Place
  BY <1>0, <1>1, <1>2, <1>3 DEF Place, Word
<1> QED BY <1>4 DEF Answer

\* The reads of a call: which port access comes next, what the address port and
\* the local variable hold unless another user stored in the port since, and that
\* the answers so far are exact.
PortInv ==
  /\ reads \in Seq(Place) /\ got \in Seq(Seq(Place)) /\ Len(got) <= Len(reads)
  /\ reserved_bits \in SUBSET (24 .. 30)
  /\ pc = "idle" => got = <<>>
  /\ pc \in {"inl", "outl", "in"} => Len(got) < Len(reads)
  /\ pc = "outl" /\ <<"outl", Len(got) + 1>> \notin raced => reserved_bits = port \cap 24 .. 30
  /\ pc = "in" /\ <<"in", Len(got) + 1>> \notin raced => port = Address(Current) \cup reserved_bits
  /\ ReadsExact

\* No read is in progress at first.
LEMMA PortInit == Init => PortInv
BY DEF Init, PciInit, PortInv, ReadsExact

\* A read that was not disturbed adds an exact answer.
LEMMA InDataStep == PortInv /\ InData => PortInv'
<1> SUFFICES ASSUME PortInv, InData PROVE PortInv'
  OBVIOUS
<1> DEFINE n == Len(got) + 1
<1> DEFINE a == Answer(Lane(Current), Current.bytes)
<1>1. /\ reads \in Seq(Place) /\ got \in Seq(Seq(Place)) /\ Len(got) < Len(reads)
      /\ Current \in Place
  BY DEF PortInv, InData, Current
<1>2. /\ got' = Append(got, a) /\ pc' = (IF Len(got') = Len(reads) THEN "return" ELSE "inl")
      /\ UNCHANGED <<port, reads, reserved_bits, raced>> /\ pc = "in"
  BY DEF InData
<1>3. a \in Seq(Place) BY <1>1, AnswerIsPlace
<1> HIDE DEF a
<1>4. got' \in Seq(Seq(Place)) /\ Len(got') = n /\ DOMAIN got' = DOMAIN got \cup {n} /\ got'[n] = a
      /\ (\A k \in DOMAIN got : got'[k] = got[k] /\ k # n)
  BY <1>1, <1>2, <1>3
<1>5. <<"in", n>> \notin raced => a = <<[reads[n] EXCEPT !.offset = @ \ Unaligned(reads[n].bytes)]>>
  <2> SUFFICES ASSUME <<"in", n>> \notin raced
               PROVE  a = <<[reads[n] EXCEPT !.offset = @ \ Unaligned(reads[n].bytes)]>>
    OBVIOUS
  <2>1. port = Address(Current) \cup reserved_bits /\ reserved_bits \in SUBSET (24 .. 30)
    BY <1>2 DEF PortInv
  <2>2. a = <<[Current EXCEPT !.offset = @ \ Unaligned(Current.bytes)]>>
    BY <1>1, <2>1, BridgeAnswers DEF a
  <2> QED BY <2>2 DEF Current
<1>6. ReadsExact' BY <1>2, <1>4, <1>5 DEF ReadsExact, Disturbed, PortInv
<1>7. Len(got') <= Len(reads') /\ (pc' = "inl" => Len(got') < Len(reads')) BY <1>1, <1>2, <1>4
<1>8. pc' \in {"return", "inl"} BY <1>2
<1> QED BY <1>1, <1>2, <1>4, <1>6, <1>7, <1>8 DEF PortInv

\* Every step keeps PortInv.
LEMMA PortStep == PortInv /\ [Next]_vars => PortInv'
<1> SUFFICES ASSUME PortInv, [Next]_vars PROVE PortInv'
  OBVIOUS
<1>1. CASE UNCHANGED portVars BY <1>1 DEF portVars, PortInv, ReadsExact, Disturbed, Current
<1>2. CASE UNCHANGED vars BY <1>1, <1>2 DEF vars
<1>3. CASE InAddress
  BY <1>3 DEF InAddress, Reserved, PortInv, ReadsExact, Disturbed
<1>4. CASE OutAddress
  BY <1>4 DEF OutAddress, Selected, PortInv, ReadsExact, Disturbed, Current
<1>5. CASE InData BY <1>5, InDataStep
<1>6. CASE EndReads BY <1>6 DEF EndReads, PortInv, ReadsExact
<1>7. CASE ForeignSelect
  BY <1>7 DEF ForeignSelect, PortInv, ReadsExact, Disturbed, Current
<1>8. ASSUME NEW o, NEW requests \in Seq(Place), requests # <<>>, StartReads(o, requests)
      PROVE  PortInv'
  <2>1. got = <<>> /\ got' = <<>> /\ pc' = "inl" /\ reads' = requests /\ reserved_bits' = reserved_bits
    BY <1>8 DEF StartReads, PortInv
  <2>2. 0 < Len(requests) /\ Len(<<>>) = 0 BY <1>8
  <2> QED BY <2>1, <2>2 DEF PortInv, ReadsExact
<1> QED BY <1>1, <1>2, <1>3, <1>4, <1>5, <1>6, <1>7, <1>8, PortSteps

\* A configuration read returns the bytes it was asked for, unless another user
\* selected a register between its last two port accesses: for every request.
THEOREM ReadsAreExact == Spec => []ReadsExact
<1>1. PortInv => ReadsExact BY DEF PortInv
<1> QED BY <1>1, PortInit, PortStep, PTL DEF Spec

\* "Do not touch reserved bits": a read stores the reserved bits of the address
\* port as it found them.
THEOREM ReservedBitsKept == Spec => ReservedKept
<1>1. PortInv /\ [Next]_vars =>
        [pc = "outl" /\ pc' = "in" /\ <<"outl", Len(got) + 1>> \notin raced =>
           port' \cap 24 .. 30 = port \cap 24 .. 30]_vars
  <2> SUFFICES ASSUME PortInv, Next, pc = "outl", pc' = "in", <<"outl", Len(got) + 1>> \notin raced
               PROVE  port' \cap 24 .. 30 = port \cap 24 .. 30
    OBVIOUS
  <2>1. OutAddress
    BY PortSteps DEF portVars, InAddress, InData, EndReads, ForeignSelect, StartReads
  <2>2. port' = Address(Current) \cup reserved_bits BY <2>1 DEF OutAddress, Selected
  <2>3. reserved_bits = port \cap 24 .. 30 BY DEF PortInv
  <2> QED BY <2>2, <2>3, AddressBits
<1> QED BY <1>1, PortInit, PortStep, PTL DEF Spec, ReservedKept

-----------------------------------------------------------------------------
(* Signals.                                                                *)

\* No register lies outside the window, in no class.
LEMMA RegisterInside ==
  ASSUME NEW class, NEW offset \in 0 .. \h91, NEW bytes \in 1 .. 4
  PROVE  ~(SpiBar(class, offset) + bytes > MapLength)
BY DEF SpiBar, MapLength

\* An access inside the window finds it mapped.
LEMMA AccessSafe ==
  ASSUME WindowsAccounted, NEW offset, NEW bytes, ~(offset + bytes > MapLength), Access(offset, bytes)
  PROVE  process' # "killed"
BY DEF Access, Idle, WindowsAccounted, Mapped

\* Only a port access without the privilege dies of a signal, and after that there
\* are only steps of other users.
LEMMA SignalStep ==
  ASSUME PrivilegeInv, WindowsAccounted, NoSignal, [Next]_vars
  PROVE  NoSignal'
<1>1. CASE process = "killed"
  <2>1. UNCHANGED <<process, pc, creates, via, owners>>
    BY <1>1 DEF Next, vars, ManagePci, ReadConfigUint, CreateChipset, ReadBiosCntl, ReadRcba, Begin,
                PortAccess, PortDenied, OtherUser, ForeignSelect, ReturnConfig, ReturnChipset,
                ReturnBiosCntl, ReturnRcba, Returning, Map, UnMap, DestroyChipset, ReadRegister,
                ReadFdataNRegister, Access, Idle, ownerVars, portVars, clientVars
  <2> QED BY <2>1 DEF NoSignal
<1>2. CASE process # "killed" /\ PortDenied
  <2>1. pc = "inl" /\ level # 3 /\ UNCHANGED <<pc, creates, via, owners>>
    BY <1>2 DEF PortDenied, Denied, ownerVars, portVars
  <2>2. creates \in Nat /\ (creates > 1 \/ via \notin owners)
    BY <2>1 DEF PrivilegeInv, OwnerHasPrivilege
  <2> QED BY <2>1, <2>2 DEF NoSignal
<1>3. CASE process # "killed" /\ ReadRegister
  <2>1. process' # "killed"
    <3>1. CASE Access(kGcsRegister, 4)
      <4>1. ~(kGcsRegister + 4 > MapLength) BY DEF kGcsRegister, MapLength
      <4> QED BY <3>1, <4>1, AccessSafe
    <3>2. CASE \E r \in SpiRegisterSpans : Access(SpiBar(This.class, r.offset), r.bytes)
      <4>1. PICK r \in SpiRegisterSpans : Access(SpiBar(This.class, r.offset), r.bytes) BY <3>2
      <4>2. r.offset \in 0 .. \h91 /\ r.bytes \in 1 .. 4
        BY DEF SpiRegisterSpans, kBfprRegisterOffset, kFaddrRegisterOffset, kFrapRegisterOffset,
               kSsfcRegisterOffset, kFreg0RegisterOffset, kPr0RegisterOffset, kHsfsRegisterOffset,
               kHsfcRegisterOffset, kSsfsRegisterOffset
      <4>3. ~(SpiBar(This.class, r.offset) + r.bytes > MapLength) BY <4>2, RegisterInside
      <4> QED BY <4>1, <4>3, AccessSafe
    <3> QED BY <1>3, <3>1, <3>2 DEF ReadRegister
  <2> QED BY <2>1 DEF NoSignal
<1>4. CASE process # "killed" /\ ReadFdataNRegister
  <2>1. PICK n \in RegisterNums :
          IF FdataChecked(n) THEN Access(SpiBar(This.class, kFdata0RegisterOffset + 4 * n), 4)
          ELSE process' = "aborted"
    BY <1>4 DEF ReadFdataNRegister
  <2>2. CASE FdataChecked(n)
    <3> DEFINE offset == kFdata0RegisterOffset + 4 * n
    <3>1. n \in 0 .. 16 BY <2>2, SessionAssumption DEF FdataChecked
    <3>2. offset \in 0 .. \h91 BY <3>1 DEF kFdata0RegisterOffset
    <3> HIDE DEF offset
    <3>3. 4 \in 1 .. 4 OBVIOUS
    <3>4. ~(SpiBar(This.class, offset) + 4 > MapLength) BY <3>2, <3>3, RegisterInside
    <3>5. Access(SpiBar(This.class, offset), 4) BY <2>1, <2>2 DEF offset
    <3> QED BY <3>4, <3>5, AccessSafe DEF NoSignal
  <2> QED BY <2>1, <2>2 DEF NoSignal
<1>5. CASE process # "killed" /\ UNCHANGED process BY <1>5 DEF NoSignal
<1>6. ASSUME process # "killed", Next, ~PortDenied, ~ReadRegister, ~ReadFdataNRegister
      PROVE  UNCHANGED process
  BY <1>6 DEF Next, ManagePci, ReadConfigUint, CreateChipset, ReadBiosCntl, ReadRcba, Begin,
              PortAccess, OtherUser, ReturnConfig, ReturnChipset, ReturnBiosCntl, ReturnRcba, Return,
              Map, UnMap, DestroyChipset, clientVars
<1> QED BY <1>1, <1>2, <1>3, <1>4, <1>5, <1>6 DEF vars, clientVars

\* Nothing dies of a signal while the Pci object used owns a privilege that was
\* requested once: no register, for no argument, lies outside the window.
THEOREM NoSignals == Spec => []NoSignal
<1>1. Init => NoSignal BY DEF Init, NoSignal
<1>2. Spec => []PrivilegeInv BY PrivilegeInit, PrivilegeStep, PTL DEF Spec
<1>3. PrivilegeInv /\ WindowsAccounted /\ NoSignal /\ [Next]_vars => NoSignal' BY SignalStep
<1> QED BY <1>1, <1>2, <1>3, WindowsBalance, PTL DEF Spec

-----------------------------------------------------------------------------
(* What a call returns.                                                    *)

\* The call in progress: its reads are those of the registers it is meant for, and
\* it returns when all are done.
CallInv ==
  /\ pc = "idle" <=> purpose = "none"
  /\ purpose = "probe" => reads = <<kVidRegister, kDidRegister, kRidRegister>>
  /\ purpose = "bios_cntl" => reads = <<kBiosCntlRegister>>
  /\ purpose = "rcba" => reads = <<kRcbaRegister>>
  /\ pc = "return" => Len(got) = Len(reads)

\* The identification of the machine.
MachineId == [f \in {"vendor", "device", "revision"} |-> machine[f]]

\* The chipset object and the result of the last call: where they came from,
\* unless the reads were disturbed.
ResultInv ==
  /\ machine \in Machines
  /\ \A c, d \in chipset : c = d
  /\ \A c \in chipset : /\ c.class = Create(c.id) /\ c.class # "unsupported"
                        /\ (\E k \in 1 .. 3 : <<"in", k>> \in c.raced) \/ c.id = MachineId
  /\ \A c \in chipset :
       result # <<>> /\ result[1] = "bios_cntl" /\ <<"in", 1>> \notin result[3] =>
         result[2] = BiosCntlOf(c.class, machine.bios_cntl)
  /\ result # <<>> /\ result[1] = "rcba" =>
       \E w \in Word(32) : result[2] = RcbaOf(w) /\ (<<"in", 1>> \in result[3] \/ w = machine.rcba)

\* No call has been made at first.
LEMMA ResultInit == Init => CallInv /\ ResultInv
BY DEF Init, PciInit, CallInv, ResultInv

\* A call begins with no answer yet and with the reads of its purpose.
LEMMA BeginCall ==
  ASSUME PortInv, NEW what \in {"config", "probe", "bios_cntl", "rcba"}, NEW o, NEW requests,
         Begin(what, o, requests),
         what = "probe" => requests = <<kVidRegister, kDidRegister, kRidRegister>>,
         what = "bios_cntl" => requests = <<kBiosCntlRegister>>,
         what = "rcba" => requests = <<kRcbaRegister>>
  PROVE  CallInv'
BY DEF Begin, StartReads, CallInv

\* Every step keeps CallInv.
LEMMA CallStep == PortInv /\ CallInv /\ [Next]_vars => CallInv'
<1> SUFFICES ASSUME PortInv, CallInv, [Next]_vars PROVE CallInv'
  OBVIOUS
<1>1. ASSUME UNCHANGED <<pc, reads, got, purpose>> PROVE CallInv' BY <1>1 DEF CallInv
<1>2. CASE ReadConfigUint BY <1>2, BeginCall DEF ReadConfigUint
<1>3. CASE CreateChipset BY <1>3, BeginCall DEF CreateChipset
<1>4. CASE ReadBiosCntl BY <1>4, BeginCall DEF ReadBiosCntl
<1>5. CASE ReadRcba BY <1>5, BeginCall DEF ReadRcba
<1>6. CASE PortAccess
  BY <1>6 DEF PortAccess, InAddress, OutAddress, InData, clientVars, CallInv
<1>7. CASE ReturnConfig \/ ReturnChipset \/ ReturnBiosCntl \/ ReturnRcba
  <2>1. purpose' = "none" /\ pc' = "idle"
    BY <1>7 DEF ReturnConfig, ReturnChipset, ReturnBiosCntl, ReturnRcba, Return, EndReads
  <2> QED BY <2>1 DEF CallInv
<1>8. CASE ManagePci
  BY <1>1, <1>8 DEF ManagePci, CreatePci, MoveConstruct, MoveAssign, DestroyPci, portVars, clientVars
<1>9. CASE PortDenied \/ OtherUser \/ Map \/ UnMap \/ DestroyChipset \/ ReadRegister \/ ReadFdataNRegister
  BY <1>1, <1>9 DEF PortDenied, OtherUser, ForeignSelect, Map, UnMap, DestroyChipset, ReadRegister,
                    ReadFdataNRegister, Access, portVars, clientVars
<1>10. CASE UNCHANGED vars BY <1>1, <1>10 DEF vars, portVars, clientVars
<1> QED BY <1>2, <1>3, <1>4, <1>5, <1>6, <1>7, <1>8, <1>9, <1>10 DEF Next

\* The registers the classes read are naturally aligned.
LEMMA RegistersAligned ==
  \A r \in {kVidRegister, kDidRegister, kRidRegister, kBiosCntlRegister, kRcbaRegister} :
    [r EXCEPT !.offset = @ \ Unaligned(r.bytes)] = r
BY DEF kVidRegister, kDidRegister, kRidRegister, kBiosCntlRegister, kRcbaRegister, Lpc, Unaligned

\* A read of a register of the LPC device that was not disturbed finds it.
LEMMA FoundExact ==
  ASSUME PortInv, NEW k \in 1 .. Len(got), NEW register, ~Disturbed(k),
         reads[k] \in {kVidRegister, kDidRegister, kRidRegister, kBiosCntlRegister, kRcbaRegister}
  PROVE  Found(k, register) = {machine[register]}
<1>1. k \in DOMAIN got BY DEF PortInv
<1>2. got[k] = <<[reads[k] EXCEPT !.offset = @ \ Unaligned(reads[k].bytes)]>>
  BY <1>1 DEF PortInv, ReadsExact
<1>3. [reads[k] EXCEPT !.offset = @ \ Unaligned(reads[k].bytes)] = reads[k] BY RegistersAligned
<1> QED BY <1>2, <1>3 DEF Found

\* Chipset::Create makes an object for what it read.
LEMMA ChipsetReturned ==
  ASSUME PortInv, CallInv, ResultInv, ReturnChipset
  PROVE  ResultInv'
<1>1. PICK vendor \in Found(1, "vendor"), device \in Found(2, "device"), revision \in Found(3, "revision") :
        LET id == [vendor |-> vendor, device |-> device, revision |-> revision] IN
        /\ Return(id)
        /\ chipset' = IF Create(id) = "unsupported" THEN {}
                      ELSE {[id |-> id, class |-> Create(id), pci |-> via, raced |-> raced]}
  BY DEF ReturnChipset
<1> DEFINE id == [vendor |-> vendor, device |-> device, revision |-> revision]
<1>2. reads = <<kVidRegister, kDidRegister, kRidRegister>> /\ Len(got) = 3 /\ purpose = "probe"
  BY DEF ReturnChipset, Returning, CallInv
<1>3. result' = <<"probe", id, raced>> /\ machine' = machine BY <1>1, <1>2 DEF Return
<1>4. (\A k \in 1 .. 3 : <<"in", k>> \notin raced) => id = MachineId
  <2> SUFFICES ASSUME \A k \in 1 .. 3 : <<"in", k>> \notin raced PROVE id = MachineId
    OBVIOUS
  <2>1. 1 \in 1 .. Len(got) /\ 2 \in 1 .. Len(got) /\ 3 \in 1 .. Len(got) BY <1>2
  <2>2. ~Disturbed(1) /\ ~Disturbed(2) /\ ~Disturbed(3) BY DEF Disturbed
  <2>3. reads[1] = kVidRegister /\ reads[2] = kDidRegister /\ reads[3] = kRidRegister BY <1>2
  <2>4. vendor = machine["vendor"] BY <2>1, <2>2, <2>3, FoundExact
  <2>5. device = machine["device"] BY <2>1, <2>2, <2>3, FoundExact
  <2>6. revision = machine["revision"] BY <2>1, <2>2, <2>3, FoundExact
  <2> QED BY <2>4, <2>5, <2>6 DEF MachineId
<1>5. MachineId' = MachineId BY <1>3 DEF MachineId
<1>6. chipset' = IF Create(id) = "unsupported" THEN {}
                 ELSE {[id |-> id, class |-> Create(id), pci |-> via, raced |-> raced]}
  BY <1>1
<1> HIDE DEF id
<1>7. \A c \in chipset' : c.class = Create(id) /\ c.class # "unsupported" /\ c.id = id /\ c.raced = raced
  BY <1>6
<1>8. \A c, d \in chipset' : c = d BY <1>6
<1>9. result'[1] = "probe" BY <1>3
<1> QED BY <1>3, <1>4, <1>5, <1>7, <1>8, <1>9 DEF ResultInv

\* ReadBiosCntlRegister decodes the register it read, for the class of the object.
LEMMA BiosCntlReturned ==
  ASSUME PortInv, CallInv, ResultInv, ReturnBiosCntl
  PROVE  ResultInv'
<1>1. PICK w \in Found(1, "bios_cntl") : Return(BiosCntlOf(This.class, w)) BY DEF ReturnBiosCntl
<1>2. reads = <<kBiosCntlRegister>> /\ Len(got) = 1 /\ purpose = "bios_cntl"
  BY DEF ReturnBiosCntl, Returning, CallInv
<1>3. /\ result' = <<"bios_cntl", BiosCntlOf(This.class, w), raced>>
      /\ machine' = machine /\ chipset' = chipset
  BY <1>1, <1>2 DEF Return, ReturnBiosCntl
<1>4. <<"in", 1>> \notin raced => w = machine["bios_cntl"]
  BY <1>2, FoundExact DEF Disturbed
<1>5. \A c \in chipset : This = c BY DEF This, ResultInv
<1>6. /\ result'[1] = "bios_cntl" /\ result'[2] = BiosCntlOf(This.class, w) /\ result'[3] = raced
  BY <1>3
<1>7. \A c \in chipset' : <<"in", 1>> \notin result'[3] => result'[2] = BiosCntlOf(c.class, machine'.bios_cntl)
  BY <1>3, <1>4, <1>5, <1>6
<1> QED BY <1>3, <1>6, <1>7 DEF ResultInv, MachineId

\* ReadRcbaRegister decodes the register it read.
LEMMA RcbaReturned ==
  ASSUME PortInv, CallInv, ResultInv, ReturnRcba
  PROVE  ResultInv'
<1>1. PICK w \in Found(1, "rcba") : Return(RcbaOf(w)) BY DEF ReturnRcba
<1>2. reads = <<kRcbaRegister>> /\ Len(got) = 1 /\ purpose = "rcba"
  BY DEF ReturnRcba, Returning, CallInv
<1>3. result' = <<"rcba", RcbaOf(w), raced>> /\ machine' = machine /\ chipset' = chipset
  BY <1>1, <1>2 DEF Return, ReturnRcba
<1>4. <<"in", 1>> \notin raced => w = machine["rcba"] BY <1>2, FoundExact DEF Disturbed
<1>5. w \in Word(32)
  <2>1. machine.rcba \in Word(32) /\ Garbage.rcba \subseteq Word(32)
    BY SessionAssumption DEF ResultInv
  <2> QED BY <2>1 DEF Found
<1>6. result'[1] = "rcba" /\ result'[2] = RcbaOf(w) /\ result'[3] = raced BY <1>3
<1>7. \E v \in Word(32) : result'[2] = RcbaOf(v) /\ (<<"in", 1>> \in result'[3] \/ v = machine'.rcba)
  BY <1>3, <1>4, <1>5, <1>6
<1> QED BY <1>3, <1>6, <1>7 DEF ResultInv, MachineId

\* Every step keeps ResultInv.
LEMMA ResultStep == PortInv /\ CallInv /\ ResultInv /\ [Next]_vars => ResultInv'
<1> SUFFICES ASSUME PortInv, CallInv, ResultInv, [Next]_vars PROVE ResultInv'
  OBVIOUS
<1>1. ASSUME UNCHANGED <<machine, chipset, result>> PROVE ResultInv' BY <1>1 DEF ResultInv, MachineId
<1>2. CASE ManagePci \/ PortAccess \/ PortDenied \/ OtherUser
  BY <1>1, <1>2 DEF ManagePci, PortAccess, PortDenied, OtherUser, clientVars
<1>3. CASE ReadConfigUint \/ CreateChipset \/ ReadBiosCntl \/ ReadRcba
  BY <1>1, <1>3 DEF ReadConfigUint, CreateChipset, ReadBiosCntl, ReadRcba, Begin
<1>4. CASE Map \/ UnMap \/ ReadRegister \/ ReadFdataNRegister
  BY <1>1, <1>4 DEF Map, UnMap, ReadRegister, ReadFdataNRegister, Access, clientVars
<1>5. CASE DestroyChipset BY <1>5 DEF DestroyChipset, ResultInv
<1>6. CASE ReturnConfig
  <2>1. machine' = machine /\ chipset' = chipset /\ result' = <<"config", got[1], raced>>
    BY <1>6 DEF ReturnConfig, Return, Returning
  <2> QED BY <2>1 DEF ResultInv, MachineId
<1>7. CASE UNCHANGED vars BY <1>1, <1>7 DEF vars, clientVars
<1> QED BY <1>2, <1>3, <1>4, <1>5, <1>6, <1>7, ChipsetReturned, BiosCntlReturned, RcbaReturned DEF Next

\* All three invariants hold.
LEMMA ResultHolds == Spec => [](PortInv /\ CallInv /\ ResultInv)
BY PortInit, ResultInit, PortStep, CallStep, ResultStep, PTL DEF Spec

\* A flag as a word of one bit, shifted to its place.
LEMMA FlagBit ==
  ASSUME NEW t \in Nat, NEW flag \in BOOLEAN
  PROVE  Set(t, t, Bool(flag)) = IF flag THEN {t} ELSE {}
<1>1. t .. t = {t} /\ t - t = 0 OBVIOUS
<1>2. CASE flag
  <2>1. Bool(flag) = {0} BY <1>2 DEF Bool
  <2> QED BY <1>1, <1>2, <2>1 DEF Set
<1>3. CASE ~flag
  <2>1. Bool(flag) = {} BY <1>3 DEF Bool
  <2> QED BY <1>3, <2>1 DEF Set
<1> QED BY <1>2, <1>3

\* The struct of BIOS_CNTL holds the bits the class has.
LEMMA BiosCntlDecoded ==
  ASSUME NEW class, NEW w
  PROVE  BiosCntlBits(BiosCntlOf(class, w)) =
           w \cap (IF class \in {"ICH8", "ICH9", "ICH10"} THEN 0 .. 4 ELSE 0 .. 5)
<1> DEFINE b == BiosCntlOf(class, w)
<1>0. /\ b.smm_bios_write_protect_disable = (HasSmmBwp(class) /\ 5 \in w) /\ b.top_swap_status = (4 \in w)
      /\ b.bios_lock_enable = (1 \in w) /\ b.bios_write_enable = (0 \in w)
  BY DEF BiosCntlOf, Test
<1>1. Set(5, 5, Bool(b.smm_bios_write_protect_disable)) = IF HasSmmBwp(class) THEN w \cap {5} ELSE {}
  <2>1. Set(5, 5, Bool(HasSmmBwp(class) /\ 5 \in w)) = IF HasSmmBwp(class) /\ 5 \in w THEN {5} ELSE {}
    BY FlagBit
  <2> QED BY <1>0, <2>1
<1>2. Set(4, 4, Bool(b.top_swap_status)) = w \cap {4}
  <2>0. (4 \in w) \in BOOLEAN /\ 4 \in Nat OBVIOUS
  <2>1. Set(4, 4, Bool(4 \in w)) = IF 4 \in w THEN {4} ELSE {} BY <2>0, FlagBit, Zenon
  <2> QED BY <1>0, <2>1
<1>3. Set(3, 2, b.spi_read_configuration) = w \cap {2, 3} BY DEF BiosCntlOf, Set, Value
<1>4. Set(1, 1, Bool(b.bios_lock_enable)) = w \cap {1}
  <2>0. (1 \in w) \in BOOLEAN /\ 1 \in Nat OBVIOUS
  <2>1. Set(1, 1, Bool(1 \in w)) = IF 1 \in w THEN {1} ELSE {} BY <2>0, FlagBit, Zenon
  <2> QED BY <1>0, <2>1
<1>5. Set(0, 0, Bool(b.bios_write_enable)) = w \cap {0}
  <2>0. (0 \in w) \in BOOLEAN /\ 0 \in Nat OBVIOUS
  <2>1. Set(0, 0, Bool(0 \in w)) = IF 0 \in w THEN {0} ELSE {} BY <2>0, FlagBit, Zenon
  <2> QED BY <1>0, <2>1
<1> HIDE DEF b
<1>6. BiosCntlBits(b) = (IF HasSmmBwp(class) THEN w \cap {5} ELSE {}) \cup (w \cap {4})
                          \cup (w \cap {2, 3}) \cup (w \cap {1}) \cup (w \cap {0})
  BY <1>1, <1>2, <1>3, <1>4, <1>5 DEF BiosCntlBits
<1>7. 0 .. 4 = {0, 1, 2, 3, 4} /\ 0 .. 5 = {0, 1, 2, 3, 4, 5} OBVIOUS
<1> QED BY <1>6, <1>7 DEF b, HasSmmBwp

\* A chipset object is the one for the machine, and BIOS_CNTL is reported as it
\* is, unless another user got in between: on every machine.
THEOREM RegistersAreExact == Spec => []RegistersExact
<1>1. ResultInv => RegistersExact
  <2> SUFFICES ASSUME ResultInv, NEW c \in chipset
               PROVE  /\ \/ \E k \in 1 .. 3 : <<"in", k>> \in c.raced
                         \/ /\ c.id = [f \in {"vendor", "device", "revision"} |-> machine[f]]
                            /\ \A k \in DOMAIN Classes : c.class = Classes[k] => c.id.device \in Devices[k]
                      /\ result # <<>> /\ result[1] = "bios_cntl" /\ <<"in", 1>> \notin result[3] =>
                           BiosCntlBits(result[2]) =
                             machine.bios_cntl \cap (IF c.class \in {"ICH8", "ICH9", "ICH10"} THEN 0 .. 4 ELSE 0 .. 5)
    BY DEF RegistersExact
  <2>1. c.class = Create(c.id) /\ c.class # "unsupported" BY DEF ResultInv
  <2>2. \A k \in DOMAIN Classes : c.class = Classes[k] => c.id.device \in Devices[k]
    BY <2>1, CreateLists
  <2>3. (\E k \in 1 .. 3 : <<"in", k>> \in c.raced) \/ c.id = MachineId BY DEF ResultInv
  <2>4. ASSUME result # <<>>, result[1] = "bios_cntl", <<"in", 1>> \notin result[3]
        PROVE  BiosCntlBits(result[2]) =
                 machine.bios_cntl \cap (IF c.class \in {"ICH8", "ICH9", "ICH10"} THEN 0 .. 4 ELSE 0 .. 5)
    <3>1. result[2] = BiosCntlOf(c.class, machine.bios_cntl) BY <2>4 DEF ResultInv
    <3> QED BY <3>1, BiosCntlDecoded
  <2> QED BY <2>2, <2>3, <2>4 DEF MachineId
<1> QED BY <1>1, ResultHolds, PTL

\* Which window a step may map.
LEMMA WindowStep ==
  ASSUME ResultInv, [Next]_vars, NEW m \in rcrb_mem' \ rcrb_mem
  PROVE  /\ Map /\ result # <<>> /\ result[1] = "rcba" /\ result[2].enable
         /\ MapSucceeds(result[2].base_address) /\ m.mem_.base = result[2].base_address
<1>1. CASE Map
  <2>1. result # <<>> /\ result[1] = "rcba" /\ MapRootComplex(result[2]) BY <1>1 DEF Map
  <2>2. result[2].enable /\ MapSucceeds(result[2].base_address)
    BY <2>1 DEF MapRootComplex, OpenFails, MmapFails, rootVars
  <2>3. PICK fd, at : rcrb_mem' = {[mem_fd_ |-> fd, mem_ |-> [mem |-> at, base |-> result[2].base_address]]}
    BY <2>2 DEF MapSucceeds, Install
  <2> QED BY <1>1, <2>1, <2>2, <2>3
<1>2. CASE ~Map
  <2>1. rcrb_mem' = rcrb_mem \/ rcrb_mem' = {}
    BY <1>2 DEF Next, vars, rootVars, ManagePci, ReadConfigUint, CreateChipset, ReadBiosCntl, ReadRcba,
                Begin, PortAccess, PortDenied, OtherUser, ReturnConfig, ReturnChipset, ReturnBiosCntl,
                ReturnRcba, Return, UnMap, DestroyChipset, UnMapRootComplex, Install, ReadRegister,
                ReadFdataNRegister, Access
  <2> QED BY <2>1
<1> QED BY <1>1, <1>2

\* A window that is mapped is the one RCBA names, enabled, unless the read of RCBA
\* was disturbed.
THEOREM WindowIsTrusted == Spec => WindowTrusted
<1>1. ResultInv /\ [Next]_vars =>
        [\A m \in rcrb_mem' \ rcrb_mem :
           /\ result[1] = "rcba" /\ result[2].enable
           /\ <<"in", 1>> \in result[3] \/ m.mem_.base = machine.rcba \cap 14 .. 31]_vars
  <2> SUFFICES ASSUME ResultInv, [Next]_vars, NEW m \in rcrb_mem' \ rcrb_mem
               PROVE  /\ result[1] = "rcba" /\ result[2].enable
                      /\ <<"in", 1>> \in result[3] \/ m.mem_.base = machine.rcba \cap 14 .. 31
    OBVIOUS
  <2>1. result # <<>> /\ result[1] = "rcba" /\ result[2].enable /\ m.mem_.base = result[2].base_address
    BY WindowStep
  <2>2. PICK w \in Word(32) : result[2] = RcbaOf(w) /\ (<<"in", 1>> \in result[3] \/ w = machine.rcba)
    BY <2>1 DEF ResultInv
  <2>3. RcbaOf(w).base_address = w \cap 14 .. 31 BY RcbaBase
  <2> QED BY <2>1, <2>2, <2>3
<1> QED BY <1>1, ResultHolds, PTL DEF Spec, WindowTrusted

-----------------------------------------------------------------------------
(* Types.                                                                  *)

\* The types of the privilege, of the ports and of the root complex.
OwnerTypes == level \in {0, 3} /\ creates \in 0 .. MaxCreates /\ lost \in BOOLEAN
PortTypes ==
  /\ port \in Word(32) /\ pc \in {"idle", "inl", "outl", "in", "return"}
  /\ via \in PciObjects \cup {"local"} /\ foreign \in 0 .. MaxForeign
  /\ raced \subseteq {"outl", "in"} \X Nat
RootTypes == fds \subseteq 1 .. MaxFds /\ rcrb_mem \subseteq Objects

\* The step of the privilege.
LEMMA OwnerTypesStep ==
  ASSUME PrivilegeInv, OwnerTypes, [Next]_vars
  PROVE  OwnerTypes'
<1>0. "local" \notin live /\ owners \subseteq live BY PciAssumption DEF PrivilegeInv
<1>1. CASE UNCHANGED ownerVars BY <1>1 DEF ownerVars, OwnerTypes
<1>2. ASSUME NEW o \in PciObjects, CreatePci(o) PROVE OwnerTypes'
  <2>1. level' = 3 /\ creates' = creates + 1 BY <1>0, <1>2, PciAssumption, CreateEffect
  <2>2. creates < MaxCreates /\ lost' = lost BY <1>2 DEF CreatePci
  <2> QED BY <2>1, <2>2, PciAssumption DEF OwnerTypes
<1>3. ASSUME NEW o \in PciObjects, NEW p \in PciObjects, MoveConstruct(o, p) PROVE OwnerTypes'
  BY <1>0, <1>3, ConstructEffect DEF OwnerTypes
<1>4. ASSUME NEW o \in PciObjects, NEW p \in PciObjects, MoveAssign(o, p) PROVE OwnerTypes'
  <2>1. level' = level /\ creates' = creates BY <1>4, AssignEffect
  <2>2. lost' \in BOOLEAN BY <1>4, Zenon DEF MoveAssign, OwnerTypes
  <2> QED BY <2>1, <2>2 DEF OwnerTypes
<1>5. ASSUME NEW o \in PciObjects, DestroyPci(o) PROVE OwnerTypes'
  BY <1>5, DestroyEffect DEF OwnerTypes
<1> QED BY <1>1, <1>2, <1>3, <1>4, <1>5, Steps DEF vars

\* The step of the ports.
LEMMA PortTypesStep ==
  ASSUME PrivilegeInv, PortInv, PortTypes, [Next]_vars
  PROVE  PortTypes'
<1>1. CASE UNCHANGED portVars BY <1>1 DEF portVars, PortTypes
<1>2. CASE InAddress BY <1>2 DEF InAddress, PortTypes
<1>3. CASE OutAddress
  <2>1. Address(Current) \subseteq 0 .. 31 BY DEF Address, MakeConfigAddress, Set
  <2>2. port' = Address(Current) \cup reserved_bits BY <1>3 DEF OutAddress, Selected
  <2>3. reserved_bits \subseteq 24 .. 30 BY DEF PortInv
  <2>4. \A i \in 24 .. 30 : i \in 0 .. 31 OBVIOUS
  <2>5. port' \subseteq 0 .. 31 BY <2>1, <2>2, <2>3, <2>4
  <2>6. 32 - 1 = 31 OBVIOUS
  <2>7. port' \in Word(32) BY <2>5, <2>6 DEF Word
  <2> QED BY <1>3, <2>7 DEF OutAddress, PortTypes
<1>4. CASE InData BY <1>4 DEF InData, PortTypes
<1>5. CASE EndReads BY <1>5 DEF EndReads, PortTypes
<1>6. CASE ForeignSelect
  <2>1. foreign' \in 0 .. MaxForeign /\ port' \in Word(32)
    BY <1>6, PciAssumption DEF ForeignSelect, PortTypes
  <2>2. Len(got) + 1 \in Nat BY DEF PortInv
  <2>3. raced' \subseteq {"outl", "in"} \X Nat BY <1>6, <2>2 DEF ForeignSelect, PortTypes
  <2> QED BY <1>6, <2>1, <2>3 DEF ForeignSelect, PortTypes
<1>7. ASSUME NEW o, NEW requests, StartReads(o, requests) PROVE PortTypes'
  BY <1>7 DEF StartReads, PrivilegeInv, PortTypes
<1> QED BY <1>1, <1>2, <1>3, <1>4, <1>5, <1>6, <1>7, PortSteps DEF vars

\* The step of the root complex: a window that is mapped has an address.
LEMMA RootTypesStep ==
  ASSUME ResultInv, RootTypes, [Next]_vars
  PROVE  RootTypes'
<1>1. CASE UNCHANGED rootVars BY <1>1 DEF rootVars, RootTypes
<1>2. CASE UnMapRootComplex
  BY <1>2 DEF UnMapRootComplex, Install, Closed, Held, RootTypes
<1>3. CASE MmapFails BY <1>3 DEF MmapFails, RootTypes
<1>4. CASE Map /\ MapSucceeds(result[2].base_address) /\ result # <<>> /\ result[1] = "rcba"
  <2>1. PICK w \in Word(32) : result[2] = RcbaOf(w) BY <1>4 DEF ResultInv
  <2>2. result[2].base_address \in Word(32) BY <2>1, RcbaBase
  <2>3. PICK fd \in 1 .. MaxFds \ fds, at \in Slots \ {v.mem : v \in maps} :
          Install({[mem_fd_ |-> fd, mem_ |-> [mem |-> at, base |-> result[2].base_address]]})
    BY <1>4 DEF MapSucceeds
  <2> DEFINE m == [mem_fd_ |-> fd, mem_ |-> [mem |-> at, base |-> result[2].base_address]]
  <2>4. m \in Objects BY <2>2, <2>3 DEF Objects, Windows
  <2>5. rcrb_mem' = {m} /\ fds' \subseteq fds \cup {fd} BY <2>3 DEF Install, Closed, Held
  <2> QED BY <2>3, <2>4, <2>5 DEF RootTypes
<1>5. CASE Map
  BY <1>1, <1>3, <1>4, <1>5 DEF Map, MapRootComplex, OpenFails
<1>6. CASE ~Map /\ ~UNCHANGED rootVars
  BY <1>2, <1>6 DEF Next, vars, ManagePci, ReadConfigUint, CreateChipset, ReadBiosCntl, ReadRcba,
                    Begin, PortAccess, PortDenied, OtherUser, ReturnConfig, ReturnChipset,
                    ReturnBiosCntl, ReturnRcba, Return, UnMap, DestroyChipset, ReadRegister,
                    ReadFdataNRegister, Access
<1> QED BY <1>1, <1>5, <1>6

\* The process runs, or ended of a signal or in abort().
LEMMA ProcessStep ==
  ASSUME process \in {"running", "killed", "aborted"}, [Next]_vars
  PROVE  process' \in {"running", "killed", "aborted"}
BY DEF Next, vars, clientVars, ManagePci, ReadConfigUint, CreateChipset, ReadBiosCntl, ReadRcba, Begin,
       PortAccess, PortDenied, OtherUser, ReturnConfig, ReturnChipset, ReturnBiosCntl, ReturnRcba,
       Return, Map, UnMap, DestroyChipset, ReadRegister, ReadFdataNRegister, Access

\* The variables keep their types: in particular every window has an address of 32
\* bits, and a read no more answers than requests.
THEOREM TypeCorrect == Spec => []TypeOK
<1> DEFINE Process == process \in {"running", "killed", "aborted"}
<1> DEFINE Types == OwnerTypes /\ PortTypes /\ RootTypes /\ Process
<1>1. Init => Types
  <2> SUFFICES ASSUME Init PROVE Types
    OBVIOUS
  <2>0. lost \in BOOLEAN BY Zenon DEF Init, PciInit
  <2>1. OwnerTypes BY <2>0, PciAssumption DEF Init, PciInit, OwnerTypes
  <2>2. PortTypes BY PciAssumption DEF Init, PciInit, PortTypes
  <2>3. RootTypes BY DEF Init, RootInit, RootTypes
  <2> QED BY <2>1, <2>2, <2>3 DEF Init
<1>2. PrivilegeInv /\ PortInv /\ ResultInv /\ Types /\ [Next]_vars => Types'
  BY OwnerTypesStep, PortTypesStep, RootTypesStep, ProcessStep
<1>3. PrivilegeInv /\ PortInv /\ WindowsAccounted /\ Types => TypeOK
  <2> SUFFICES ASSUME PrivilegeInv, PortInv, WindowsAccounted, Types PROVE TypeOK
    OBVIOUS
  <2>1. \A k \in DOMAIN got : got[k] = <<>> \/ got[k][1] \in Place BY DEF PortInv
  <2>2. maps \subseteq Windows BY DEF WindowsAccounted, Mapped, RootTypes, Objects
  <2>3. leaked \subseteq fds BY DEF WindowsAccounted
  <2> QED BY <2>1, <2>2, <2>3 DEF TypeOK, PrivilegeInv, PortInv, OwnerTypes, PortTypes, RootTypes
<1>4. Spec => []PrivilegeInv BY PrivilegeInit, PrivilegeStep, PTL DEF Spec
<1> QED BY <1>1, <1>2, <1>3, <1>4, ResultHolds, WindowsBalance, PTL DEF Spec
====
