---- MODULE MCSession ----
(***************************************************************************)
(* A small instance of Session: an ICH8 and an 8 Series machine, two Pci   *)
(* objects, reads of every width on and off their natural alignment, and   *)
(* another user who selects a register of another device, with reserved    *)
(* bits of its own, or disables configuration cycles.                      *)
(***************************************************************************)
EXTENDS Session, TLC

\* The Pci objects are interchangeable.
Symmetry == Permutations(PciObjects)

MCMachines ==
  { [vendor |-> \h8086, device |-> \h2810, revision |-> 1,
     rcba |-> {0, 5, 14, 31}, bios_cntl |-> {0, 3, 5}],
    [vendor |-> \h8086, device |-> \h8C44, revision |-> 2,
     rcba |-> {14, 15, 31}, bios_cntl |-> {1, 4, 5, 7}] }

MCGarbage ==
  [vendor |-> {\h8086}, device |-> {\h3A14, \hFFFF}, revision |-> {1},
   rcba |-> {{0, 20}}, bios_cntl |-> {{}}]

\* A 16-bit read at offset 3 of 00:1F.0 and a 32-bit read at offset 0xFE of FF:00.7.
MCRequests ==
  { Lpc({0, 1}, 2), [bus |-> 0 .. 7, device |-> {}, function |-> 0 .. 2, offset |-> 1 .. 7, bytes |-> 4] }

MCForeignWords == { {}, {31, 24, 16, 3} }

MCRegisterNums == {-1, 0, 15, 16, 17, 512}
====
