------------------------------ MODULE JavaUTF -------------------------------
(***************************************************************************)
(* filters/bungeecord/javautf.go: strings in plugin messages, between the  *)
(* proxy and a server that uses Java's DataInput and DataOutput.           *)
(***************************************************************************)
EXTENDS Integers, SequencesExt

CONSTANTS
    Chars,      \* code points that texts are made of
    MaxText,    \* bound: characters of a text
    MaxSize     \* greatest length of an encoded string (65535)

\* The halves of two that UTF-16 writes a character above 0xFFFF as.
Surrogate(c) == 55296 <= c /\ c <= 57343

JavaUTFAssumption ==
    /\ \A c \in Chars : c \in Nat /\ c <= 1114111 /\ ~Surrogate(c)
    /\ MaxText \in Nat /\ MaxSize \in Nat

VARIABLES
    text,       \* the text to be sent
    at,         \* "text", "proxy" or "java": being made, or written by one of them
    wire        \* its encoding without the length, or Error

vars == <<text, at, wire>>

Init == text = <<>> /\ at = "text" /\ wire = <<>>

One(c) == <<c>>
Two(c) == <<192 + ((c \div 64) % 32), 128 + (c % 64)>>
Three(c) == <<224 + ((c \div 4096) % 16), 128 + ((c \div 64) % 64), 128 + (c % 64)>>

Error == <<-1>>

WriteChar(c) == IF c <= 127 /\ c # 0 THEN One(c) ELSE IF c <= 2047 THEN Two(c) ELSE Three(c)

WriteJavaUTF(s) ==
    LET buf == FlattenSeq([i \in DOMAIN s |-> WriteChar(s[i])])
    IN  IF (\E i \in DOMAIN s : s[i] > 65535) \/ Len(buf) > MaxSize THEN Error ELSE buf

\* Mutant of CharSize: the mask of the two-byte form takes the three-byte form, too.
CharSizeLoose(b) == IF b < 128 THEN 1 ELSE IF b \div 64 = 3 THEN 2 ELSE 0

\* How many bytes a character has that begins with b; 0 for an invalid first byte.
CharSize(b) ==
    IF b < 128 THEN 1 ELSE IF b \div 32 = 6 THEN 2 ELSE IF b \div 16 = 14 THEN 3 ELSE 0

\* A rune in a Go string: surrogates become the replacement character.
Rune(c) == IF Surrogate(c) THEN 65533 ELSE c

ReadJavaUTF(buf) ==
    LET read[i \in 1 .. Len(buf) + 1] ==
            LET n == CharSize(buf[i])
            IN  IF i > Len(buf) THEN <<>>
                ELSE IF n = 0 \/ i + n - 1 > Len(buf) THEN Error
                ELSE <<Rune(CASE n = 1 -> buf[i]
                              [] n = 2 -> (buf[i] % 32) * 64 + (buf[i + 1] % 64)
                              [] n = 3 -> (buf[i] % 16) * 4096 + (buf[i + 1] % 64) * 64
                                            + (buf[i + 2] % 64))>> \o read[i + n]
    IN  read[1]

-----------------------------------------------------------------------------
\* Java's strings are UTF-16, and writeUTF encodes each unit on its own (external).
Units(c) ==
    IF c < 65536 THEN <<c>>
    ELSE <<55296 + (c - 65536) \div 1024, 56320 + ((c - 65536) % 1024)>>

JavaWriteUTF(s) ==
    LET units == FlattenSeq([i \in DOMAIN s |-> Units(s[i])])
        buf == FlattenSeq([i \in DOMAIN units |->
                    IF 1 <= units[i] /\ units[i] <= 127 THEN One(units[i])
                    ELSE IF units[i] > 2047 THEN Three(units[i])
                    ELSE Two(units[i])])
    IN  IF Len(buf) > MaxSize THEN Error ELSE buf

Type(c) == at = "text" /\ Len(text) < MaxText /\ text' = Append(text, c) /\ UNCHANGED <<at, wire>>
ProxyWrites == at = "text" /\ at' = "proxy" /\ wire' = WriteJavaUTF(text) /\ UNCHANGED text
JavaWrites == at = "text" /\ at' = "java" /\ wire' = JavaWriteUTF(text) /\ UNCHANGED text
Again == at # "text" /\ text' = <<>> /\ at' = "text" /\ wire' = <<>>

Next == (\E c \in Chars : Type(c)) \/ ProxyWrites \/ JavaWrites \/ Again

Spec == Init /\ [][Next]_vars

-----------------------------------------------------------------------------
\* A string that a server wrote in Java's encoding is read as the same text, whatever
\* the sizes of its characters, as long as they are below 0x10000.
ReadsJava ==
    (at = "java" /\ wire # Error /\ \A i \in DOMAIN text : text[i] <= 65535) =>
        ReadJavaUTF(wire) = text

\* What WriteJavaUTF writes is exactly what Java would write, the limit on its length
\* included: the server reads the text that the proxy meant.  It only refuses the
\* characters that Java writes as two.
WritesJava ==
    at = "proxy" =>
        \/ wire = JavaWriteUTF(text)
        \/ wire = Error /\ \E i \in DOMAIN text : text[i] > 65535

\* Servers and proxy mean the same text, in both directions.
AgreesWithJava == ReadsJava /\ WritesJava
=============================================================================
