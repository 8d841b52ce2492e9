---- MODULE MCHwSequencing ----
(***************************************************************************)
(* A small instance of HwSequencing: 2 data registers, so blocks of 4 to 8 *)
(* bytes, and a flash of 24 bytes.  The arguments include block sizes just *)
(* outside the limits and off the 4-byte grid, sizes that are negative,    *)
(* zero or not a multiple of the block size, and a range that leaves the   *)
(* flash.  The run with another user has fewer arguments, but still calls  *)
(* of none, one and two blocks.                                            *)
(***************************************************************************)
EXTENDS HwSequencing

MCAddresses  == {0, 8, 16}
MCSizes      == {-8, 0, 12, 16}
MCBlockSizes == {3, 4, 6, 8, 9}

SharedAddresses  == {8}
SharedSizes      == {0, 8, 12}
SharedBlockSizes == {6, 8}
====
