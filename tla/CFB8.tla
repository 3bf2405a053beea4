-------------------------------- MODULE CFB8 --------------------------------
(***************************************************************************)
(* The stream cipher of the client's connection (packets/encryption.go),   *)
(* one XORKeyStream iteration per step.  The shift register cf.iv is a     *)
(* window that slides through the array iv_real and is copied back to its  *)
(* start when it reaches the end.  An encryptedWriter and an               *)
(* encryptedReader with the same secret are joined by a connection that    *)
(* delivers bytes in order; the reader gets them in chunks of any size.    *)
(*                                                                         *)
(* The first byte of an AES encryption is an arbitrary function of the     *)
(* register, the key; a secret also is the initial register, which is      *)
(* chosen apart from the key here.                                         *)
(***************************************************************************)
EXTENDS Integers, Sequences

CONSTANTS
    Byte,       \* the values of a byte
    Zero,       \* the byte a new array is filled with
    Xor(_, _),  \* ^ on bytes
    Block,      \* the register's length (16)
    Size,       \* the length of iv_real (256)
    MaxBytes    \* bound: bytes encrypted in one behaviour

ASSUME ByteAssumption ==
    /\ Zero \in Byte
    /\ \A a, b \in Byte : Xor(a, b) \in Byte /\ Xor(Xor(a, b), b) = a
ASSUME SizeAssumption ==
    Block \in Nat \ {0} /\ Size \in Nat /\ Size >= Block /\ MaxBytes \in Nat

VARIABLES
    key,        \* register -> first byte of its encryption
    enc,        \* the writer's cfb8: the array and where cf.iv starts in it
    dec,        \* the reader's cfb8
    stream,     \* history: the initial register, then every encrypted byte
    written,    \* encrypted bytes handed to the connection
    read,       \* encrypted bytes taken from the connection
    plain,      \* history: the bytes given to Write
    deciphered  \* history: the bytes Read has decrypted

cipherVars == <<key, enc, dec, stream, written, read, plain, deciphered>>

Registers == [0 .. Block - 1 -> Byte]

newCFB8(iv) ==
    [iv_real |-> [i \in 0 .. Size - 1 |-> IF i < Block THEN iv[i] ELSE Zero],
     off |-> 0]

\* cf.iv
Window(cf) == [i \in 0 .. Block - 1 |-> cf.iv_real[cf.off + i]]

\* Mutant of Slide: the register is copied back without being shifted.
SlideUnshifted(cf) ==
    IF Size - cf.off >= Block + 1
    THEN [cf EXCEPT !.off = @ + 1]
    ELSE [iv_real |-> [i \in 0 .. Size - 1 |->
                         IF i < Block THEN cf.iv_real[cf.off + i] ELSE cf.iv_real[i]],
          off |-> 0]

\* cap(cf.iv) is what is left of the array from the window's start on.
Slide(cf) ==
    IF Size - cf.off >= Block + 1
    THEN [cf EXCEPT !.off = @ + 1]
    ELSE [iv_real |-> [i \in 0 .. Size - 1 |->
                         IF i < Block - 1 THEN cf.iv_real[cf.off + 1 + i] ELSE cf.iv_real[i]],
          off |-> 0]

\* cf.iv[15] = b, after the window has moved.
Feed(cf, b) ==
    LET s == Slide(cf)
    IN  [s EXCEPT !.iv_real = [@ EXCEPT ![s.off + Block - 1] = b]]

\* One iteration: the byte put out and the cipher after it.
XORKeyStream(cf, b, de) ==
    LET val == Xor(b, key[Window(cf)])
    IN  [val |-> val, cf |-> Feed(cf, IF de THEN b ELSE val)]

CipherInit ==
    /\ key \in [Registers -> Byte]
    /\ \E iv \in Registers :
          /\ enc = newCFB8(iv) /\ dec = newCFB8(iv)
          /\ stream = [i \in 1 .. Block |-> iv[i - 1]]
    /\ written = 0 /\ read = 0
    /\ plain = <<>> /\ deciphered = <<>>

\* encryptedWriter.Write, one byte of XORKeyStream(p, p).
EncryptByte(b) ==
    /\ Len(plain) < MaxBytes
    /\ LET r == XORKeyStream(enc, b, FALSE)
       IN  enc' = r.cf /\ stream' = Append(stream, r.val)
    /\ plain' = Append(plain, b)
    /\ UNCHANGED <<key, dec, written, read, deciphered>>

\* encryptedWriter.Write, w.Write(p).
WriteOut ==
    /\ written < Len(plain)
    /\ written' = Len(plain)
    /\ UNCHANGED <<key, enc, dec, stream, read, plain, deciphered>>

\* encryptedReader.Read, r.Read(p): a chunk of what has arrived, once the bytes
\* of the Read before are decrypted.
ReadIn ==
    /\ Len(deciphered) = read
    /\ read' \in read + 1 .. written
    /\ UNCHANGED <<key, enc, dec, stream, written, plain, deciphered>>

\* encryptedReader.Read, one byte of XORKeyStream(p[:n], p[:n]).
DecryptByte ==
    /\ Len(deciphered) < read
    /\ LET r == XORKeyStream(dec, stream[Block + Len(deciphered) + 1], TRUE)
       IN  dec' = r.cf /\ deciphered' = Append(deciphered, r.val)
    /\ UNCHANGED <<key, enc, stream, written, read, plain>>

CipherNext ==
    \/ \E b \in Byte : EncryptByte(b)
    \/ WriteOut \/ ReadIn \/ DecryptByte

CipherSpec == CipherInit /\ [][CipherNext]_cipherVars

-----------------------------------------------------------------------------
Cipher == [iv_real : [0 .. Size - 1 -> Byte], off : 0 .. Size - Block]

\* The shape of the state; the window never leaves the array.
TypeOK ==
    /\ key \in [Registers -> Byte]
    /\ enc \in Cipher /\ dec \in Cipher
    /\ stream \in Seq(Byte) /\ plain \in Seq(Byte) /\ deciphered \in Seq(Byte)
    /\ written \in Nat /\ read \in Nat

\* CFB8's register before the j-th byte: the Block bytes before it.
Register(j) == [i \in 0 .. Block - 1 |-> stream[j + i]]

\* The writer computes CFB8 as any Minecraft client defines it: each byte is
\* combined with the encryption of the Block encrypted bytes before it, however
\* often the window has been copied back.
EncryptsCFB8 ==
    \A j \in 1 .. Len(plain) : stream[Block + j] = Xor(plain[j], key[Register(j)])

\* The reader gives back what was written, in order, whatever chunks it reads in
\* and however reads and writes interleave.
Deciphers == \A j \in 1 .. Len(deciphered) : deciphered[j] = plain[j]

\* Both ends compute CFB8: a proxy whose two ends were wrong in the same way would still
\* decipher its own bytes, and one that enciphers rightly may yet garble what it reads.
CipherCorrect == EncryptsCFB8 /\ Deciphers
=============================================================================
