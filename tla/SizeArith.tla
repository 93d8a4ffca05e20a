------------------------------ MODULE SizeArith ------------------------------
(***************************************************************************)
(* The unsigned arithmetic of the code: size_t and uint64_t values wrap    *)
(* around at 2^64.  The width is a constant, so that the wrap-around can   *)
(* be reached with the small numbers TLC works on.                         *)
(***************************************************************************)
EXTENDS Integers

CONSTANT SizeMax      \* numeric_limits<size_t>::max(), 2^64 - 1 in the build

ASSUME SizeMaxAssumption == SizeMax \in Nat

\* a + b and a - b on size_t operands
SizeAdd(a, b) == IF a + b > SizeMax THEN a + b - (SizeMax + 1) ELSE a + b
SizeSub(a, b) == IF a >= b THEN a - b ELSE a - b + SizeMax + 1

\* std::min and std::max
MinOf(a, b) == IF a <= b THEN a ELSE b
MaxOf(a, b) == IF a >= b THEN a ELSE b

\* 2 to the power of n
Pow2[n \in Nat] == IF n = 0 THEN 1 ELSE 2 * Pow2[n - 1]
==============================================================================
