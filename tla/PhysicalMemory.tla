---- MODULE PhysicalMemory ----
(***************************************************************************)
(* The accessors of pawn/physical_memory.cc on the mapped window.          *)
(*                                                                         *)
(* The window is the set of the positions of its 1 bits: bit b of the byte *)
(* at offset o is position 8 * o + b, which is the little-endian layout of *)
(* the x86 machines the tool runs on.  An access of n bits at offset o     *)
(* touches exactly the positions Span(n, o).                               *)
(***************************************************************************)
EXTENDS Bits

Span(n, offset) == 8 * offset .. 8 * offset + n - 1

\* ReadUint8, ReadUint16, ReadUint32 and ReadUint64, for n = 8, 16, 32, 64.
ReadUint(n, mem, offset) == {i \in 0 .. n - 1 : 8 * offset + i \in mem}

\* WriteUint8 .. WriteUint64: the value is converted to n bits and replaces
\* the bits of the span.
WriteUint(n, mem, offset, value) ==
  (mem \ Span(n, offset)) \cup {i \in Span(n, offset) : i - 8 * offset \in value}
====
