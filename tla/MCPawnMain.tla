---- MODULE MCPawnMain ----
(***************************************************************************)
(* A small instance of PawnMain: every device the code knows, two it does  *)
(* not, and a flash of 5 blocks.  The buffer holds 2 blocks and every 3rd  *)
(* block flushes, so that flushes of both kinds meet full, half full and   *)
(* empty buffers.                                                          *)
(***************************************************************************)
EXTENDS PawnMain

MCHardwareIds ==
  [vendor : {\h8086}, device : UNION {Devices[k] : k \in DOMAIN Classes} \cup {\h2813}]
    \cup {[vendor |-> \h1022, device |-> \h2810]}

MCRcbaWords == {{}, {14, 20, 31}, {0, 14, 20, 31}, {0, 5, 13, 15, 29}}
MCGcsWords == SUBSET {10, 11}
====
