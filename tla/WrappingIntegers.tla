--------------------------- MODULE WrappingIntegers ---------------------------
(***************************************************************************)
(* libsponge/wrapping_integers.{hh,cc}: 32-bit sequence numbers relative   *)
(* to an initial sequence number, and the absolute 64-bit ones.            *)
(***************************************************************************)
EXTENDS SizeArith

CONSTANT SeqMod        \* 2^32 in the build

\* The modulus is even and divides that of the 64-bit numbers.
ASSUME SeqModAssumption ==
    /\ SeqMod \in Nat \ {0}
    /\ SeqMod % 2 = 0
    /\ (SizeMax + 1) % SeqMod = 0

HalfMod == SeqMod \div 2        \* 1l << 31

WrappingInt32 == 0 .. SeqMod - 1

\* Variants: the ISN is left out; the sum does not wrap around.
wrap_from_zero(n, isn) == n % SeqMod

wrap_unbounded(n, isn) == n + isn

wrap(n, isn) == (n + isn) % SeqMod

\* Variant: the rank is rounded up.
unwrap_up(n, isn, checkpoint) ==
    LET num == (n - isn) % SeqMod
    IN  IF checkpoint > num
          THEN num + ((checkpoint - num + SeqMod - 1) \div SeqMod) * SeqMod ELSE num

unwrap(n, isn, checkpoint) ==
    LET num  == (n - isn) % SeqMod
        rank == SizeAdd(checkpoint - num, HalfMod) \div SeqMod
    IN  IF checkpoint > num THEN (num + rank * SeqMod) % (SizeMax + 1) ELSE num
===============================================================================
