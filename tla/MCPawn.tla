---- MODULE MCPawn ----
(***************************************************************************)
(* A small instance of the whole program: a machine it supports and one it *)
(* does not, a flash of 2 blocks, a buffer of 1.                           *)
(***************************************************************************)
EXTENDS Pawn

MCHardwareIds == [vendor : {\h8086, \h1022}, device : {\h2810}]
MCRcbaWords == {{}, {0, 14, 20, 31}}
MCGcsWords == {{10}}
====
