------------------------------ MODULE VarInts -------------------------------
(***************************************************************************)
(* Bytes and VarInts (packets/ioutils.go, and the part of encoding/binary  *)
(* that it uses).  A byte is a number below 2 * Base, where Base stands    *)
(* for 128.                                                                *)
(***************************************************************************)
EXTENDS Integers, Sequences, FiniteSetsExt

CONSTANTS
    Base,           \* values of the digit in a VarInt's byte (128)
    Digits,         \* bytes of the longest VarInt written (5)
    Modulus         \* 2^32

Bytes == 0 .. 2 * Base - 1

\* Base^n: what the digit that is n digits up counts.
Place(n) ==
    LET p[i \in 0 .. n] == IF i = 0 THEN 1 ELSE Base * p[i - 1]
    IN  p[n]

VarIntsAssumption ==
    Base \in Nat \ {0, 1} /\ Digits \in Nat \ {0} /\ Modulus \in 1 .. Place(Digits)

\* x of PutUvarint when it writes its i-th byte.
Shifted(n) ==
    LET x[i \in 1 .. Digits] == IF i = 1 THEN n ELSE x[i - 1] \div Base
    IN  x

\* WriteVarInt: the low digit first, and Base added to every byte but the last.
VarInt(n) ==
    LET x == Shifted(n)
        size == Min({i \in 1 .. Digits : x[i] < Base})
    IN  [i \in 1 .. size |-> (x[i] % Base) + (IF i < size THEN Base ELSE 0)]

Short == [st |-> "short"]
Bad == [st |-> "bad"]

\* x of ReadUvarint after the i-th of the bytes s.
Gathered(s) ==
    LET x[i \in 0 .. Len(s)] == IF i = 0 THEN 0 ELSE x[i - 1] + (s[i] % Base) * Place(i - 1)
    IN  x

\* ReadVarInt of the bytes s: its value and how many bytes it took.  ReadUvarint
\* takes up to twice the digits that are ever written; what exceeds 32 bits is cut off.
ReadVarInt(s) ==
    LET ends == {i \in 1 .. Len(s) : s[i] < Base}
    IN  IF ends # {} /\ Min(ends) <= 2 * Digits
        THEN [st |-> "ok", size |-> Min(ends), n |-> Gathered(s)[Min(ends)] % Modulus]
        ELSE IF Len(s) < 2 * Digits THEN Short ELSE Bad

\* A VarInt is an int32.
Negative(n) == n >= Modulus \div 2

Drop(s, n) == SubSeq(s, n + 1, Len(s))
=============================================================================
