------------------------------ MODULE SeqnoSystem ------------------------------
(***************************************************************************)
(* wrap and unwrap as the receiver and the sender use them: a 64-bit       *)
(* number moves along the stream, only its 32-bit form is transmitted, and *)
(* the other side recovers it relative to the number it recovered last.    *)
(* The numbers cross the 32-bit boundary several times.                    *)
(***************************************************************************)
EXTENDS WrappingIntegers

VARIABLES
    isn,           \* the initial sequence number, chosen at the start
    actual,        \* the absolute number at the side that wraps
    checkpoint     \* the absolute number last recovered by the side that unwraps

vars == <<isn, actual, checkpoint>>

Init == isn \in WrappingInt32 /\ actual = 0 /\ checkpoint = 0

\* The next number is less than half the sequence space away from the last one,
\* in either direction, and 64-bit sums do not overflow.
Transmit(n) ==
    /\ n - actual < HalfMod /\ actual - n < HalfMod
    /\ n + HalfMod <= SizeMax
    /\ actual' = n
    /\ checkpoint' = unwrap(wrap(n, isn), isn, checkpoint)
    /\ UNCHANGED isn

Next == \E n \in 0 .. SizeMax : Transmit(n)

Spec == Init /\ [][Next]_vars
-------------------------------------------------------------------------------
\* unwrap returns a number that the seqno stands for, and no other number it may
\* stand for is nearer to the checkpoint.
Closest ==
    \A s \in WrappingInt32 :
        LET n == unwrap(s, isn, checkpoint)
            StandsFor(x) == (isn + x) % SeqMod = s
            Distance(x) == MaxOf(x - checkpoint, checkpoint - x)
        IN  /\ n \in 0 .. SizeMax /\ StandsFor(n)
            /\ \A x \in 0 .. SizeMax : StandsFor(x) => Distance(n) <= Distance(x)

\* However many times the 32-bit number wraps around, forwards or backwards, the
\* side that unwraps recovers the absolute number: errors do not build up from one
\* checkpoint to the next.
Tracks == checkpoint = actual
===============================================================================
