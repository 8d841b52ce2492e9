---- MODULE Bits ----
(***************************************************************************)
(* The bit-twiddling templates of pawn/bits.h.                             *)
(*                                                                         *)
(* A machine word is the set of the positions of its 1 bits, so that       *)
(* "a & b" is intersection, "a | b" is union and "a << n" adds n to every  *)
(* position.  A word of any width is a finite set, which keeps the 32-bit  *)
(* registers within reach of TLC and of the provers.  Template parameters  *)
(* are ordinary parameters.                                                *)
(***************************************************************************)
EXTENDS Integers

\* The values of an unsigned integer type of w bits.
Word(w) == SUBSET (0 .. w - 1)

\* A bool converted to an integer.
Bool(b) == IF b THEN {0} ELSE {}

\* Raw<kMsb, kLsb>: the mask is (1 << (kMsb - 1)) - 1 shifted to kLsb, that is
\* kMsb - 1 ones, whatever kLsb is.
Raw(msb, lsb, bits) == bits \cap (lsb .. lsb + msb - 2)

\* Mutant of Value: the mask is one bit short.
ValueShort(msb, lsb, bits) == {i \in 0 .. msb - lsb - 1 : i + lsb \in bits}

\* Value<kMsb, kLsb>: shift down, then mask msb - lsb + 1 bits.
\* The mask is (1 << (kMsb - kLsb + 1)) - 1 in int: for fields of 31 or more bits C++
\* leaves it undefined.  The code has no such use: its widest field has 25 bits.
Value(msb, lsb, bits) == {i \in 0 .. msb - lsb : i + lsb \in bits}

\* Test<kTest>.
Test(t, bits) == t \in bits

\* Set<kMsb, kLsb>: mask msb - lsb + 1 bits, then shift up.
Set(msb, lsb, value) == {i \in lsb .. msb : i - lsb \in value}

\* Assignment to an unsigned bit-field of w bits drops the higher bits.
Field(w, value) == value \cap (0 .. w - 1)
====
