---- MODULE MCSpiRegisters ----
(***************************************************************************)
(* A small instance of SpiRegisters: words with no bit, every bit, every   *)
(* second bit and every second pair of bits, on a window with no bit,      *)
(* every bit, the low half of every 32-bit register or every third bit.    *)
(***************************************************************************)
EXTENDS SpiRegisters

MCSpiBar == 14336  \* 0x3800, ICH9 and later

MCWords == { {}, 0 .. 31, {i \in 0 .. 31 : i % 2 = 0}, {i \in 0 .. 31 : i % 4 \in {1, 2}} }

MCContents == { {}, Span(8 * 160, MCSpiBar), {i \in Span(8 * 160, MCSpiBar) : i % 32 < 16},
                {i \in Span(8 * 160, MCSpiBar) : i % 3 = 0} }
====
