---- MODULE BitsSpec ----
(***************************************************************************)
(* The templates of pawn/bits.h, called once on any argument of Width      *)
(* bits, against what their comments say, stated in integer arithmetic.    *)
(***************************************************************************)
EXTENDS Bits, FiniteSetsExt

CONSTANT Width
ASSUME WidthAssumption == Width \in 1 .. 16

VARIABLES call, result
vars == <<call, result>>

\* Raw<0> would shift by -1, which is undefined; the code never uses it.
Calls == {c \in [op : {"Raw", "Value", "Test", "Set"}, msb : 0 .. Width - 1,
                 lsb : 0 .. Width - 1, bits : Word(Width)] :
            c.lsb <= c.msb /\ (c.op = "Raw" => c.msb >= 1)}

Init == call \in Calls /\ result = <<>>

Return(op, word) == call.op = op /\ result = <<>> /\ result' = <<word>> /\ UNCHANGED call

Next ==
  \/ Return("Raw", Raw(call.msb, call.lsb, call.bits))
  \/ Return("Value", Value(call.msb, call.lsb, call.bits))
  \/ Return("Test", Bool(Test(call.msb, call.bits)))
  \/ Return("Set", Set(call.msb, call.lsb, call.bits))

Spec == Init /\ [][Next]_vars

-----------------------------------------------------------------------------
\* The number a word stands for.
Num(word) == MapThenSumSet(LAMBDA i : 2 ^ i, word)

\* The number whose bits msb .. lsb are ones and whose other bits are zeros, cut
\* out of n.
Between(msb, lsb, n) == ((n \div 2 ^ lsb) % 2 ^ (msb - lsb + 1)) * 2 ^ lsb

Returned(op) == call.op = op /\ result # <<>>

\* Value extracts "the value of the bit pattern between" msb and lsb, Test tells
\* whether the bit is set, and Set places a value between msb and lsb and cuts
\* off what does not fit (bits.h:39-69), for every pair of positions and every
\* argument: no off-by-one in a mask or a shift.  The mask of Raw has msb - 1 ones
\* whatever lsb is; it gives the bits between msb and lsb at least if msb is the
\* highest bit of the type and lsb is 2 or more, as in its only use, Raw<31, 14>.
MatchesReference ==
  /\ Returned("Raw") /\ call.msb = Width - 1 /\ call.lsb >= 2 =>
       Num(result[1]) = Between(call.msb, call.lsb, Num(call.bits))
  /\ Returned("Value") =>
       Num(result[1]) * 2 ^ call.lsb = Between(call.msb, call.lsb, Num(call.bits))
  /\ Returned("Test") =>
       (Num(result[1]) = 1) = (Between(call.msb, call.msb, Num(call.bits)) # 0)
  /\ Returned("Set") =>
       Num(result[1]) = Between(call.msb, call.lsb, Num(call.bits) * 2 ^ call.lsb)
====
