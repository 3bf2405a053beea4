----------------------------- MODULE WireProofs -----------------------------
(***************************************************************************)
(* Proofs about a connection: the cipher (CFB8), for every block length,   *)
(* array length and key, and the way of packets from an upstream to the    *)
(* client (Framing, Relay), for every packet, threshold and size.          *)
(*                                                                         *)
(* Cipher: both windows show a stretch of the history stream, the writer's *)
(* its last Block bytes, the reader's the Block bytes before the next one  *)
(* to decrypt.  That, with the counters in order, is inductive.            *)
(*                                                                         *)
(* Framing: a VarInt in front of any bytes is read back, whichever of its  *)
(* bytes have arrived.  PutUvarint and ReadUvarint are loops; what they    *)
(* compute follows from the lemma Recursion, which rests on Induction over *)
(* a set of numbers.  With it, ReadPacket on the front of a stream that    *)
(* starts with a packet waits, refuses it for its length, or reads it.     *)
(*                                                                         *)
(* Relay: the stream before each reader, wherever it is cut, is the rest   *)
(* of the dialogue and then the packets that are still to be read (InOrder).*)
(*                                                                         *)
(* Fields: a field that was written is read back from the bytes in front   *)
(* of a reader, or the read fails and takes all of them.  A reader is in   *)
(* step with what the peer wrote until it meets what is missing (CodecInv).*)
(***************************************************************************)
EXTENDS CFB8, Relay, Codec, FiniteSetTheorems, SequenceTheorems, TLAPS

-----------------------------------------------------------------------------
(* The cipher.                                                             *)

Counts ==
    /\ Len(stream) = Block + Len(plain)
    /\ Len(deciphered) <= read /\ read <= written /\ written <= Len(plain)

EncWindow == Window(enc) = Register(Len(plain) + 1)
DecWindow == Window(dec) = Register(Len(deciphered) + 1)

CipherInv == TypeOK /\ Counts /\ EncWindow /\ DecWindow /\ EncryptsCFB8 /\ Deciphers

\* Sliding keeps a cipher well formed and shifts its register by one place,
\* leaving the last place to be written.
LEMMA SlideShifts ==
    ASSUME NEW cf \in Cipher
    PROVE  /\ Slide(cf) \in Cipher
           /\ \A i \in 0 .. Block - 2 :
                 Slide(cf).iv_real[Slide(cf).off + i] = cf.iv_real[cf.off + 1 + i]
<1> USE SizeAssumption
<1>0. /\ cf.iv_real \in [0 .. Size - 1 -> Byte]
      /\ cf.off \in Int /\ 0 <= cf.off /\ cf.off <= Size - Block
  BY DEF Cipher
<1>1. CASE Size - cf.off >= Block + 1
  <2>1. Slide(cf) = [cf EXCEPT !.off = cf.off + 1]
    BY <1>1 DEF Slide
  <2>2. Slide(cf).iv_real = cf.iv_real /\ Slide(cf).off = cf.off + 1
    BY <2>1 DEF Cipher
  <2>3. Slide(cf).off \in 0 .. Size - Block
    BY <1>0, <1>1, <2>2
  <2>4. Slide(cf) \in Cipher
    BY <2>1, <2>3, <1>0 DEF Cipher
  <2> QED  BY <2>2, <2>4, <1>0
<1>2. CASE ~(Size - cf.off >= Block + 1)
  <2> DEFINE a == [i \in 0 .. Size - 1 |->
                     IF i < Block - 1 THEN cf.iv_real[cf.off + 1 + i] ELSE cf.iv_real[i]]
  <2>1. Slide(cf) = [iv_real |-> a, off |-> 0]
    BY <1>2 DEF Slide
  <2>2. a \in [0 .. Size - 1 -> Byte]
    <3> SUFFICES ASSUME NEW i \in 0 .. Size - 1 PROVE a[i] \in Byte
      OBVIOUS
    <3> QED  BY <1>0
  <2>3. \A i \in 0 .. Block - 2 : a[i] = cf.iv_real[cf.off + 1 + i]
    BY <1>0
  <2>4. 0 \in 0 .. Size - Block
    BY <1>0
  <2> HIDE DEF a
  <2>5. Slide(cf) \in Cipher
    BY <2>1, <2>2, <2>4 DEF Cipher
  <2>6. \A i \in 0 .. Block - 2 : 0 + i = i
    OBVIOUS
  <2> QED  BY <2>1, <2>3, <2>5, <2>6
<1> QED  BY <1>1, <1>2

\* Feeding a byte shifts the register and puts the byte at its end.
LEMMA FeedShifts ==
    ASSUME NEW cf \in Cipher, NEW b \in Byte
    PROVE  /\ Feed(cf, b) \in Cipher
           /\ \A i \in 0 .. Block - 2 : Window(Feed(cf, b))[i] = Window(cf)[i + 1]
           /\ Window(Feed(cf, b))[Block - 1] = b
<1> USE SizeAssumption
<1> DEFINE s == Slide(cf)
           f == Feed(cf, b)
<1>1. /\ s \in Cipher
      /\ \A i \in 0 .. Block - 2 : s.iv_real[s.off + i] = cf.iv_real[cf.off + 1 + i]
  BY SlideShifts
<1>2. f = [s EXCEPT !.iv_real = [s.iv_real EXCEPT ![s.off + Block - 1] = b]]
  BY DEF Feed
<1> HIDE DEF s
<1>3. /\ s.iv_real \in [0 .. Size - 1 -> Byte]
      /\ s.off \in Int /\ 0 <= s.off /\ s.off <= Size - Block
  BY <1>1 DEF Cipher
<1>4. f.off = s.off /\ f.iv_real = [s.iv_real EXCEPT ![s.off + Block - 1] = b]
  BY <1>1, <1>2 DEF Cipher
<1>5. f \in Cipher
  BY <1>1, <1>2, <1>3 DEF Cipher
<1> HIDE DEF f
<1>6. ASSUME NEW i \in 0 .. Block - 2 PROVE Window(f)[i] = Window(cf)[i + 1]
  <2>1. i \in 0 .. Block - 1 /\ i + 1 \in 0 .. Block - 1
    OBVIOUS
  <2>2. Window(f)[i] = f.iv_real[s.off + i]
    BY <2>1, <1>4 DEF Window
  <2>3. s.off + i \in 0 .. Size - 1 /\ s.off + i # s.off + Block - 1
    BY <1>3
  <2>4. f.iv_real[s.off + i] = s.iv_real[s.off + i]
    BY <2>3, <1>3, <1>4
  <2>5. Window(cf)[i + 1] = cf.iv_real[cf.off + (i + 1)]
    BY <2>1 DEF Window
  <2>6. cf.off + (i + 1) = cf.off + 1 + i
    BY DEF Cipher
  <2> QED  BY <2>2, <2>4, <2>5, <2>6, <1>1
<1>7. Window(f)[Block - 1] = b
  <2>1. Window(f)[Block - 1] = f.iv_real[s.off + (Block - 1)]
    BY <1>4 DEF Window
  <2>2. s.off + (Block - 1) = s.off + Block - 1 /\ s.off + Block - 1 \in 0 .. Size - 1
    BY <1>3
  <2> QED  BY <2>1, <2>2, <1>3, <1>4
<1> QED  BY <1>5, <1>6, <1>7 DEF f

\* A well-formed cipher's window is a register.
LEMMA WindowType == ASSUME NEW cf \in Cipher PROVE Window(cf) \in Registers
<1> USE SizeAssumption
<1> SUFFICES ASSUME NEW i \in 0 .. Block - 1 PROVE cf.iv_real[cf.off + i] \in Byte
  BY DEF Window, Registers
<1>1. cf.off + i \in 0 .. Size - 1
  BY DEF Cipher
<1> QED  BY <1>1 DEF Cipher

\* Both ciphers start with the same register.
LEMMA CipherInvInit == CipherInit => CipherInv
<1> SUFFICES ASSUME CipherInit PROVE CipherInv  OBVIOUS
<1> USE SizeAssumption, ByteAssumption
<1>1. PICK iv \in Registers :
         /\ enc = newCFB8(iv) /\ dec = newCFB8(iv)
         /\ stream = [i \in 1 .. Block |-> iv[i - 1]]
  BY DEF CipherInit
<1>2. newCFB8(iv) \in Cipher
  <2>1. [i \in 0 .. Size - 1 |-> IF i < Block THEN iv[i] ELSE Zero] \in [0 .. Size - 1 -> Byte]
    BY DEF Registers
  <2>2. 0 \in 0 .. Size - Block
    OBVIOUS
  <2> QED  BY <2>1, <2>2 DEF newCFB8, Cipher
<1>3. stream \in Seq(Byte) /\ Len(stream) = Block
  <2>1. \A i \in 1 .. Block : iv[i - 1] \in Byte
    BY DEF Registers
  <2> QED  BY <1>1, <2>1
<1>4. plain = <<>> /\ deciphered = <<>> /\ Len(plain) = 0 /\ Len(deciphered) = 0
  BY DEF CipherInit
<1>5. TypeOK
  BY <1>1, <1>2, <1>3, <1>4 DEF TypeOK, CipherInit
<1>6. Window(newCFB8(iv)) = Register(1)
  <2> SUFFICES ASSUME NEW i \in 0 .. Block - 1
               PROVE  newCFB8(iv).iv_real[newCFB8(iv).off + i] = stream[1 + i]
    BY DEF Window, Register
  <2>1. newCFB8(iv).off + i = i /\ i \in 0 .. Size - 1 /\ i < Block
    BY DEF newCFB8
  <2>2. newCFB8(iv).iv_real[i] = iv[i]
    BY <2>1 DEF newCFB8
  <2>3. stream[1 + i] = iv[i]
    BY <1>1
  <2> QED  BY <2>1, <2>2, <2>3
<1>7. EncWindow /\ DecWindow
  BY <1>1, <1>4, <1>6 DEF EncWindow, DecWindow
<1>8. Counts
  BY <1>3, <1>4 DEF Counts, CipherInit
<1>9. EncryptsCFB8 /\ Deciphers
  BY <1>4 DEF EncryptsCFB8, Deciphers
<1> QED  BY <1>5, <1>7, <1>8, <1>9 DEF CipherInv

\* A longer history has the same registers.
LEMMA RegisterKept ==
    ASSUME CipherInv, NEW c \in Byte, stream' = Append(stream, c),
           NEW j \in 1 .. Len(plain) + 1
    PROVE  Register(j)' = Register(j)
<1> USE SizeAssumption
<1> SUFFICES ASSUME NEW i \in 0 .. Block - 1 PROVE stream'[j + i] = stream[j + i]
  BY DEF Register
<1>1. /\ stream \in Seq(Byte) /\ plain \in Seq(Byte)
      /\ Len(stream) = Block + Len(plain) /\ Len(plain) \in Nat
  BY DEF CipherInv, TypeOK, Counts
<1>2. j + i \in 1 .. Len(stream)
  BY <1>1
<1> QED  BY <1>1, <1>2

\* A history with one entry more.
LEMMA Appended ==
    ASSUME NEW S, NEW q \in Seq(S), NEW e \in S
    PROVE  /\ Append(q, e) \in Seq(S) /\ Len(Append(q, e)) = Len(q) + 1
           /\ Append(q, e)[Len(q) + 1] = e
           /\ \A k \in 1 .. Len(q) : Append(q, e)[k] = q[k]
<1> QED  OBVIOUS

\* A byte is encrypted.
LEMMA EncryptStep == ASSUME CipherInv, NEW b \in Byte, EncryptByte(b) PROVE CipherInv'
<1> USE SizeAssumption
<1> DEFINE n == Len(plain)
           val == Xor(b, key[Window(enc)])
<1>0. /\ enc \in Cipher /\ key \in [Registers -> Byte]
      /\ stream \in Seq(Byte) /\ plain \in Seq(Byte) /\ n \in Nat
      /\ deciphered \in Seq(Byte) /\ Len(deciphered) \in Nat
      /\ Len(stream) = Block + n /\ Len(deciphered) <= n
  BY DEF CipherInv, TypeOK, Counts
<1>1. val \in Byte
  BY <1>0, WindowType, ByteAssumption
<1>2. /\ enc' = Feed(enc, val) /\ stream' = Append(stream, val)
      /\ plain' = Append(plain, b)
      /\ UNCHANGED <<key, dec, written, read, deciphered>>
  BY DEF EncryptByte, XORKeyStream
<1> HIDE DEF val
<1>3. /\ stream' \in Seq(Byte) /\ Len(stream') = Block + n + 1
      /\ plain' \in Seq(Byte) /\ Len(plain') = n + 1
      /\ stream'[Block + n + 1] = val /\ plain'[n + 1] = b
      /\ \A k \in 1 .. n : plain'[k] = plain[k]
      /\ \A k \in 1 .. Block + n : stream'[k] = stream[k]
  <2>1. /\ plain' \in Seq(Byte) /\ Len(plain') = n + 1 /\ plain'[n + 1] = b
        /\ \A k \in 1 .. n : plain'[k] = plain[k]
    BY <1>0, <1>2
  <2>2. /\ stream' \in Seq(Byte) /\ Len(stream') = Len(stream) + 1
        /\ stream'[Len(stream) + 1] = val
        /\ \A k \in 1 .. Len(stream) : stream'[k] = stream[k]
    <3>1. stream \in Seq(Byte)
      BY <1>0
    <3> QED  BY ONLY <3>1, <1>1, <1>2, Appended
  <2> QED  BY <2>1, <2>2, <1>0
<1>4. TypeOK'
  <2>1. enc' \in Cipher
    BY <1>0, <1>1, <1>2, FeedShifts
  <2> QED  BY <2>1, <1>2, <1>3 DEF CipherInv, TypeOK
<1>5. Counts'
  <2>1. Counts /\ written \in Nat /\ read \in Nat
    BY DEF CipherInv, TypeOK
  <2>2. written <= n + 1 /\ Len(stream') = Block + (n + 1)
    <3>1. written \in Nat /\ n \in Nat /\ written <= n /\ Block \in Nat
      BY <2>1, <1>0 DEF Counts
    <3>2. Len(stream') = Block + n + 1
      BY <1>3
    <3> HIDE DEF n
    <3> QED  BY <3>1, <3>2
  <2>3. (Len(stream) = Block + Len(plain))'
    BY <2>2, <1>3
  <2>4. (Len(deciphered) <= read /\ read <= written)'
    BY <2>1, <1>2 DEF Counts
  <2>5. (written <= Len(plain))'
    BY <2>2, <1>2, <1>3
  <2> QED  BY <2>3, <2>4, <2>5 DEF Counts
<1>6. EncWindow'
  <2> DEFINE w == Window(enc)
             w2 == Window(enc')
  <2>1. /\ \A i \in 0 .. Block - 2 : w2[i] = w[i + 1]
        /\ w2[Block - 1] = val
    BY <1>0, <1>1, <1>2, FeedShifts
  <2>2. \A i \in 0 .. Block - 1 : w[i] = stream[n + 1 + i]
    BY DEF CipherInv, EncWindow, Register
  <2>3. w2 = [i \in 0 .. Block - 1 |-> w2[i]]
    BY DEF Window
  <2> HIDE DEF w, w2
  <2>4. ASSUME NEW i \in 0 .. Block - 1 PROVE w2[i] = stream'[n + 2 + i]
    <3>1. CASE i = Block - 1
      <4>1. n + 2 + i = Block + n + 1
        BY <1>0, <3>1
      <4> QED  BY <4>1, <3>1, <2>1, <1>3
    <3>2. CASE i # Block - 1
      <4>1. i \in 0 .. Block - 2 /\ i + 1 \in 0 .. Block - 1
        BY <3>2
      <4>2. n + 1 + (i + 1) = n + 2 + i /\ n + 2 + i \in 1 .. Block + n
        BY <1>0, <4>1
      <4> QED  BY <4>1, <4>2, <2>1, <2>2, <1>3
    <3> QED  BY <3>1, <3>2
  <2>6. Window(enc)' = w2
    BY DEF w2, Window
  <2>7. Len(plain') + 1 = n + 2
    BY <1>0, <1>3
  <2>8. w2 = [i \in 0 .. Block - 1 |-> stream'[n + 2 + i]]
    BY <2>3, <2>4
  <2>9. Register(Len(plain) + 1)' = [i \in 0 .. Block - 1 |-> stream'[n + 2 + i]]
    BY <2>7 DEF Register
  <2> QED  BY <2>6, <2>8, <2>9 DEF EncWindow
<1>7. DecWindow'
  <2>1. Len(deciphered) + 1 \in 1 .. n + 1
    BY <1>0
  <2>2. Register(Len(deciphered) + 1)' = [i \in 0 .. Block - 1 |-> stream'[Len(deciphered) + 1 + i]]
    BY <1>2 DEF Register
  <2>3. Register(Len(deciphered) + 1) = [i \in 0 .. Block - 1 |-> stream'[Len(deciphered) + 1 + i]]
    <3>1. \A i \in 0 .. Block - 1 : Len(deciphered) + 1 + i \in 1 .. Block + n
      BY <1>0
    <3>2. \A i \in 0 .. Block - 1 : stream[Len(deciphered) + 1 + i] = stream'[Len(deciphered) + 1 + i]
      BY <3>1, <1>3
    <3> QED  BY <3>2 DEF Register
  <2>4. Window(dec)' = Window(dec)
    BY <1>2 DEF Window
  <2> QED  BY <2>2, <2>3, <2>4 DEF CipherInv, DecWindow
<1>8. EncryptsCFB8'
  <2> SUFFICES ASSUME NEW j \in 1 .. n + 1
               PROVE  stream'[Block + j] = Xor(plain'[j], key[Register(j)'])
    BY <1>2, <1>3 DEF EncryptsCFB8, Register
  <2>1. Register(j)' = Register(j)
    BY <1>1, <1>2, RegisterKept
  <2>2. CASE j = n + 1
    <3>1. Register(j) = Window(enc)
      BY <2>2 DEF CipherInv, EncWindow
    <3>2. Block + j = Block + n + 1
      BY <1>0, <2>2
    <3> QED  BY <3>1, <3>2, <2>1, <2>2, <1>3 DEF val
  <2>3. CASE j # n + 1
    <3>1. j \in 1 .. n /\ Block + j \in 1 .. Block + n
      BY <1>0, <2>3
    <3> QED  BY <3>1, <2>1, <1>3 DEF CipherInv, EncryptsCFB8
  <2> QED  BY <2>2, <2>3
<1>9. Deciphers'
  <2>1. \A j \in 1 .. Len(deciphered) : j \in 1 .. n
    BY <1>0
  <2> QED  BY <2>1, <1>2, <1>3 DEF CipherInv, Deciphers
<1> QED  BY <1>4, <1>5, <1>6, <1>7, <1>8, <1>9 DEF CipherInv

\* A byte is decrypted, in the register it was encrypted in.
LEMMA DecryptStep == ASSUME CipherInv, DecryptByte PROVE CipherInv'
<1> USE SizeAssumption
<1> DEFINE n == Len(deciphered)
           src == stream[Block + n + 1]
           val == Xor(src, key[Window(dec)])
<1>0. /\ dec \in Cipher /\ key \in [Registers -> Byte]
      /\ stream \in Seq(Byte) /\ plain \in Seq(Byte) /\ Len(plain) \in Nat
      /\ deciphered \in Seq(Byte) /\ n \in Nat /\ read \in Nat /\ written \in Nat
      /\ Len(stream) = Block + Len(plain)
      /\ n < read /\ read <= written /\ written <= Len(plain)
  BY DEF CipherInv, TypeOK, Counts, DecryptByte
<1>1. Block + n + 1 \in 1 .. Len(stream) /\ n + 1 \in 1 .. Len(plain)
  BY <1>0
<1>2. src \in Byte /\ val \in Byte
  BY <1>0, <1>1, WindowType, ByteAssumption
<1>3. /\ dec' = Feed(dec, src) /\ deciphered' = Append(deciphered, val)
      /\ UNCHANGED <<key, enc, stream, written, read, plain>>
  BY DEF DecryptByte, XORKeyStream
<1>4. /\ deciphered' \in Seq(Byte) /\ Len(deciphered') = n + 1 /\ deciphered'[n + 1] = val
      /\ \A k \in 1 .. n : deciphered'[k] = deciphered[k]
  BY <1>0, <1>2, <1>3
<1>5. val = plain[n + 1]
  <2>1. Window(dec) = Register(n + 1)
    BY DEF CipherInv, DecWindow
  <2>2. stream[Block + (n + 1)] = Xor(plain[n + 1], key[Register(n + 1)])
    BY <1>1 DEF CipherInv, EncryptsCFB8
  <2>3. Block + (n + 1) = Block + n + 1
    BY <1>0
  <2>4. plain[n + 1] \in Byte /\ key[Window(dec)] \in Byte
    BY <1>0, <1>1, WindowType
  <2> QED  BY <2>1, <2>2, <2>3, <2>4, ByteAssumption
<1> HIDE DEF val
<1>6. TypeOK'
  BY <1>0, <1>2, <1>3, <1>4, FeedShifts DEF CipherInv, TypeOK
<1>7. Counts'
  BY <1>0, <1>3, <1>4 DEF Counts
<1>8. EncWindow' /\ EncryptsCFB8'
  <2>1. EncWindow /\ EncryptsCFB8
    BY DEF CipherInv
  <2>2. EncWindow'
    BY <2>1, <1>3 DEF EncWindow, Window, Register
  <2>3. EncryptsCFB8'
    BY <2>1, <1>3 DEF EncryptsCFB8, Register
  <2> QED  BY <2>2, <2>3
<1>9. DecWindow'
  <2> DEFINE w == Window(dec)
             w2 == Window(dec')
  <2>1. /\ \A i \in 0 .. Block - 2 : w2[i] = w[i + 1]
        /\ w2[Block - 1] = src
    BY <1>0, <1>2, <1>3, FeedShifts
  <2>2. \A i \in 0 .. Block - 1 : w[i] = stream[n + 1 + i]
    BY DEF CipherInv, DecWindow, Register
  <2>3. w2 = [i \in 0 .. Block - 1 |-> w2[i]]
    BY DEF Window
  <2>4. Window(dec)' = w2
    BY DEF Window
  <2> HIDE DEF w, w2
  <2>5. ASSUME NEW i \in 0 .. Block - 1 PROVE w2[i] = stream[n + 2 + i]
    <3>1. CASE i = Block - 1
      <4>1. n + 2 + i = Block + n + 1
        BY <1>0, <3>1
      <4> QED  BY <4>1, <3>1, <2>1
    <3>2. CASE i # Block - 1
      <4>1. i \in 0 .. Block - 2 /\ i + 1 \in 0 .. Block - 1
        BY <3>2
      <4>2. n + 1 + (i + 1) = n + 2 + i
        BY <1>0, <4>1
      <4> QED  BY <4>1, <4>2, <2>1, <2>2
    <3> QED  BY <3>1, <3>2
  <2>6. w2 = [i \in 0 .. Block - 1 |-> stream[n + 2 + i]]
    BY <2>3, <2>5
  <2>7. Len(deciphered') + 1 = n + 2
    BY <1>0, <1>4
  <2>8. Register(Len(deciphered) + 1)' = [i \in 0 .. Block - 1 |-> stream[n + 2 + i]]
    BY <2>7, <1>3 DEF Register
  <2> QED  BY <2>4, <2>6, <2>8 DEF DecWindow
<1>10. Deciphers'
  <2> SUFFICES ASSUME NEW j \in 1 .. n + 1 PROVE deciphered'[j] = plain[j]
    BY <1>3, <1>4 DEF Deciphers
  <2>1. CASE j = n + 1
    BY <2>1, <1>4, <1>5
  <2>2. CASE j # n + 1
    <3>1. j \in 1 .. n
      BY <1>0, <2>2
    <3> QED  BY <3>1, <1>4 DEF CipherInv, Deciphers
  <2> QED  BY <2>1, <2>2
<1> QED  BY <1>6, <1>7, <1>8, <1>9, <1>10 DEF CipherInv

\* The invariant is inductive.
LEMMA CipherInvStep == CipherInv /\ [CipherNext]_cipherVars => CipherInv'
<1> SUFFICES ASSUME CipherInv, [CipherNext]_cipherVars PROVE CipherInv'  OBVIOUS
<1>1. CASE \E b \in Byte : EncryptByte(b)
  BY <1>1, EncryptStep
<1>2. CASE WriteOut \/ ReadIn
  <2>1. /\ UNCHANGED <<key, enc, dec, stream, plain, deciphered>>
        /\ TypeOK /\ Counts
    BY <1>2 DEF WriteOut, ReadIn, CipherInv
  <2>2. TypeOK' /\ Counts'
    <3>1. CASE WriteOut
      BY <3>1, <2>1 DEF WriteOut, TypeOK, Counts
    <3>2. CASE ReadIn
      BY <3>2, <2>1 DEF ReadIn, TypeOK, Counts
    <3> QED  BY <1>2, <3>1, <3>2
  <2>3. EncWindow' /\ DecWindow' /\ EncryptsCFB8' /\ Deciphers'
    BY <2>1 DEF CipherInv, EncWindow, DecWindow, EncryptsCFB8, Deciphers, Window, Register
  <2> QED  BY <2>2, <2>3 DEF CipherInv
<1>3. CASE DecryptByte
  BY <1>3, DecryptStep
<1>4. CASE UNCHANGED cipherVars
  BY <1>4 DEF cipherVars, CipherInv, TypeOK, Counts, EncWindow, DecWindow, EncryptsCFB8, Deciphers,
              Window, Register
<1> QED  BY <1>1, <1>2, <1>3, <1>4 DEF CipherNext

\* The invariant in every state.
LEMMA CipherInvAlways == CipherSpec => []CipherInv
<1> QED  BY CipherInvInit, CipherInvStep, PTL DEF CipherSpec

\* packets/encryption.go: the window stays inside the 256-byte array.
THEOREM CipherTypeCorrect == CipherSpec => []TypeOK
<1>1. CipherInv => TypeOK
  BY DEF CipherInv
<1> QED  BY <1>1, CipherInvAlways, PTL

\* packets/encryption.go: what an encryptedWriter sends is CFB8 of what it was
\* given, and an encryptedReader with the same secret gives that back, byte for
\* byte, for every register length, array length and key.
THEOREM CipherCorrectAlways == CipherSpec => []CipherCorrect
<1>1. CipherInv => CipherCorrect
  BY DEF CipherInv, CipherCorrect
<1> QED  BY <1>1, CipherInvAlways, PTL

-----------------------------------------------------------------------------
(* Numbers and recursive functions.                                        *)

\* A set of numbers has a least one.
LEMMA Least ==
    ASSUME NEW T \in SUBSET Nat, T # {}
    PROVE  \E x \in T : \A y \in T : x <= y
<1> DEFINE Segments == {1 .. x : x \in T}
<1>1. Segments \subseteq FiniteSubsetsOf(Nat) /\ Segments # {}
  <2>1. ASSUME NEW x \in T
        PROVE  1 .. x \in FiniteSubsetsOf(Nat)
    BY FS_Interval DEF FiniteSubsetsOf
  <2>2. QED BY <2>1
<1>2. \E d \in Segments : \A e \in Segments : <<e, d>> \notin StrictSubsetOrdering(Nat)
  <2>1. IsWellFoundedOn(StrictSubsetOrdering(Nat), FiniteSubsetsOf(Nat))
    BY FS_StrictSubsetOrderingWellFounded
  <2>2. QED BY <1>1, <2>1, WFMin, Zenon
<1>3. PICK x \in T : \A y \in T : <<1 .. y, 1 .. x>> \notin StrictSubsetOrdering(Nat)
  BY <1>2
<1>4. ASSUME NEW y \in T, y < x
      PROVE  FALSE
  <2>1. x \in 1 .. x /\ x \notin 1 .. y
    BY <1>4
  <2>2. 1 .. y \subseteq 1 .. x /\ 1 .. y # 1 .. x
    BY <2>1, <1>4
  <2>3. 1 .. y \in SUBSET Nat /\ 1 .. x \in SUBSET Nat
    OBVIOUS
  <2>4. QED BY <2>2, <2>3, <1>3 DEF StrictSubsetOrdering
<1>5. QED BY <1>4

\* Induction, with the property as a set.
LEMMA Induction ==
    ASSUME NEW P \in SUBSET Nat, 0 \in P, \A n \in P : n + 1 \in P
    PROVE  \A n \in Nat : n \in P
<1> DEFINE T == Nat \ P
<1>1. SUFFICES ASSUME T # {} PROVE FALSE
  OBVIOUS
<1>2. PICK x \in T : \A y \in T : x <= y
  BY <1>1, Least
<1>3. x \in Nat /\ x # 0
  OBVIOUS
<1>4. x - 1 \in P
  BY <1>2, <1>3
<1>5. QED BY <1>4, <1>3

\* step gives the i-th value of a function from the one before it.
Steps(step, S) == step \in [Nat -> [S -> S]]
\* f is the function on 0 .. n that has it as its step.
Follows(f, n, start, step) == f[0] = start /\ \A i \in 1 .. n : f[i] = step[i][f[i - 1]]

\* A function on 0 .. n can be defined by recursion: by its value at 0 and by a step that
\* gives a value from the one before it.
LEMMA Recursion ==
    ASSUME NEW S, NEW start \in S, NEW step, Steps(step, S), NEW n \in Nat
    PROVE  \E f \in [0 .. n -> S] : Follows(f, n, start, step)
<1> DEFINE Fits(f, k) == f[0] = start /\ \A i \in 1 .. k : f[i] = step[i][f[i - 1]]
           P == {k \in Nat : \E f \in [0 .. k -> S] : Fits(f, k)}
<1>1. 0 \in P
  <2>1. [i \in 0 .. 0 |-> start] \in [0 .. 0 -> S] /\ Fits([i \in 0 .. 0 |-> start], 0)
    OBVIOUS
  <2>2. QED BY <2>1
<1>2. ASSUME NEW k \in P PROVE k + 1 \in P
  <2>1. PICK f \in [0 .. k -> S] : Fits(f, k)
    OBVIOUS
  <2>2. f[k] \in S /\ step[k + 1][f[k]] \in S
    BY DEF Steps
  <2> DEFINE g == [i \in 0 .. k + 1 |-> IF i = k + 1 THEN step[k + 1][f[k]] ELSE f[i]]
  <2>3. g \in [0 .. k + 1 -> S]
    BY <2>2
  <2>4. g[0] = start
    BY <2>1
  <2>5. ASSUME NEW i \in 1 .. k + 1 PROVE g[i] = step[i][g[i - 1]]
    <3>1. CASE i = k + 1
      BY <3>1
    <3>2. CASE i # k + 1
      <4>1. i \in 1 .. k /\ i - 1 \in 0 .. k /\ i \in 0 .. k + 1 /\ i - 1 \in 0 .. k + 1 /\ i - 1 # k + 1
        BY <3>2
      <4>2. g[i] = f[i] /\ g[i - 1] = f[i - 1]
        BY <4>1, <3>2
      <4>3. QED BY <4>1, <4>2, <2>1
    <3>3. QED BY <3>1, <3>2
  <2> HIDE DEF g
  <2>6. Fits(g, k + 1)
    BY <2>4, <2>5
  <2> HIDE DEF Fits
  <2>7. QED BY <2>3, <2>6
<1> HIDE DEF P
<1>3. P \in SUBSET Nat
  BY DEF P
<1>4. n \in P
  BY <1>1, <1>2, <1>3, Induction
<1>5. QED BY <1>4 DEF P, Follows

\* Place is what its definition says.
LEMMA PlaceFunction ==
    ASSUME VarIntsAssumption, NEW n \in Nat
    PROVE  \E p \in [0 .. n -> Nat \ {0}] :
              p[0] = 1 /\ (\A i \in 1 .. n : p[i] = Base * p[i - 1]) /\ Place(n) = p[n]
<1> DEFINE F(p) == [i \in 0 .. n |-> IF i = 0 THEN 1 ELSE Base * p[i - 1]]
           step == [i \in Nat |-> [x \in Nat \ {0} |-> Base * x]]
<1>1. Base \in Nat /\ Base > 1
  BY DEF VarIntsAssumption
<1>2. /\ step \in [Nat -> [Nat \ {0} -> Nat \ {0}]]
      /\ \A i \in Nat, x \in Nat \ {0} : step[i][x] = Base * x
  BY <1>1
<1> HIDE DEF step
<1>3. PICK f \in [0 .. n -> Nat \ {0}] : f[0] = 1 /\ \A i \in 1 .. n : f[i] = step[i][f[i - 1]]
  <2> DEFINE Pos == Nat \ {0}
             one == 1
  <2>2. Steps(step, Pos) /\ one \in Pos
    BY <1>2 DEF Steps
  <2> HIDE DEF Pos, one
  <2>3. \E f \in [0 .. n -> Pos] : Follows(f, n, one, step)
    BY <2>2, Recursion
  <2>4. QED BY <2>3 DEF Pos, one, Follows
<1>4. ASSUME NEW i \in 1 .. n PROVE f[i] = Base * f[i - 1]
  <2>1. i \in Nat /\ i - 1 \in 0 .. n
    OBVIOUS
  <2>2. f[i - 1] \in Nat \ {0}
    BY <2>1, <1>3
  <2>3. QED BY <2>1, <2>2, <1>2, <1>3
<1>5. f = F(f)
  BY <1>3, <1>4
<1> DEFINE p == CHOOSE q : q = F(q)
<1>6. p = F(p)
  <2> HIDE DEF F
  <2>1. QED BY <1>5
<1>7. Place(n) = p[n]
  BY DEF Place
<1> HIDE DEF p
<1>8. p[0] = 1 /\ \A i \in 1 .. n : p[i] = Base * p[i - 1]
  BY <1>6
<1> HIDE DEF F
<1> DEFINE P == {i \in Nat : i \in 0 .. n => p[i] = f[i]}
<1>9. \A i \in Nat : i \in P
  <2>1. P \in SUBSET Nat /\ 0 \in P
    BY <1>3, <1>8
  <2>2. ASSUME NEW k \in P PROVE k + 1 \in P
    <3>1. CASE k + 1 \in 0 .. n
      <4>1. k + 1 \in 1 .. n /\ k \in 0 .. n /\ k + 1 - 1 = k
        BY <3>1
      <4>2. QED BY <4>1, <1>4, <1>8
    <3>2. QED BY <3>1
  <2> HIDE DEF P
  <2>3. QED BY <2>1, <2>2, Induction
<1>10. DOMAIN p = 0 .. n
  BY <1>6 DEF F
<1>11. \A i \in 0 .. n : p[i] \in Nat \ {0}
  BY <1>9
<1>12. p \in [0 .. n -> Nat \ {0}]
  <2>1. p = [i \in 0 .. n |-> p[i]]
    BY <1>6 DEF F
  <2>2. QED BY <2>1, <1>11
<1>13. QED BY <1>12, <1>8, <1>7

\* Places multiply by Base.
LEMMA PlaceSteps ==
    ASSUME VarIntsAssumption
    PROVE  /\ Place(0) = 1
           /\ \A n \in Nat : Place(n) \in Nat \ {0} /\ Place(n + 1) = Base * Place(n)
<1>1. Place(0) = 1
  BY PlaceFunction
<1>2. ASSUME NEW n \in Nat PROVE Place(n) \in Nat \ {0} /\ Place(n + 1) = Base * Place(n)
  <2>1. PICK p \in [0 .. n -> Nat \ {0}] :
              p[0] = 1 /\ (\A i \in 1 .. n : p[i] = Base * p[i - 1]) /\ Place(n) = p[n]
    BY PlaceFunction
  <2>2. PICK q \in [0 .. n + 1 -> Nat \ {0}] :
              q[0] = 1 /\ (\A i \in 1 .. n + 1 : q[i] = Base * q[i - 1]) /\ Place(n + 1) = q[n + 1]
    BY PlaceFunction, n + 1 \in Nat
  <2> DEFINE P == {i \in Nat : i \in 0 .. n => p[i] = q[i]}
  <2>3. \A i \in Nat : i \in P
    <3>1. P \in SUBSET Nat /\ 0 \in P
      BY <2>1, <2>2
    <3>2. ASSUME NEW k \in P PROVE k + 1 \in P
      <4>1. CASE k + 1 \in 0 .. n
        <5>1. k + 1 \in 1 .. n /\ k + 1 \in 1 .. n + 1 /\ k \in 0 .. n /\ k + 1 - 1 = k
          BY <4>1
        <5>2. QED BY <5>1, <2>1, <2>2
      <4>2. QED BY <4>1
    <3> HIDE DEF P
    <3>3. QED BY <3>1, <3>2, Induction
  <2>4. p[n] = q[n] /\ q[n + 1] = Base * q[n]
    <3>1. n \in 0 .. n /\ n + 1 \in 1 .. n + 1 /\ n + 1 - 1 = n
      OBVIOUS
    <3>2. QED BY <3>1, <2>3, <2>2
  <2>5. QED BY <2>1, <2>2, <2>4
<1>3. QED BY <1>1, <1>2

\* PutUvarint's x is a function, and what its loop makes of it.
LEMMA ShiftedFunction ==
    ASSUME VarIntsAssumption, NEW n \in Nat
    PROVE  /\ Shifted(n) \in [1 .. Digits -> Nat]
           /\ Shifted(n)[1] = n
           /\ \A i \in 2 .. Digits : Shifted(n)[i] = Shifted(n)[i - 1] \div Base
<1> DEFINE F(p) == [i \in 1 .. Digits |-> IF i = 1 THEN n ELSE p[i - 1] \div Base]
           step == [i \in Nat |-> [x \in Nat |-> x \div Base]]
<1>1. Base \in Nat /\ Base > 1 /\ Digits \in Nat /\ Digits >= 1 /\ Digits - 1 \in Nat
  BY DEF VarIntsAssumption
<1>2. Steps(step, Nat) /\ \A i \in Nat, x \in Nat : step[i][x] = x \div Base
  BY <1>1 DEF Steps
<1> HIDE DEF step
<1>3. PICK f \in [0 .. Digits - 1 -> Nat] : Follows(f, Digits - 1, n, step)
  BY <1>1, <1>2, Recursion
<1> DEFINE g == [i \in 1 .. Digits |-> f[i - 1]]
<1>4. g = F(g)
  <2>1. ASSUME NEW i \in 1 .. Digits PROVE g[i] = IF i = 1 THEN n ELSE g[i - 1] \div Base
    <3>1. CASE i = 1
      BY <3>1, <1>3 DEF Follows
    <3>2. CASE i # 1
      <4>1. i - 1 \in 1 .. Digits - 1 /\ i - 1 \in 1 .. Digits /\ i - 1 \in Nat /\ i - 1 - 1 \in 0 .. Digits - 1
        BY <3>2, <1>1
      <4>2. f[i - 1] = step[i - 1][f[i - 1 - 1]] /\ f[i - 1 - 1] \in Nat
        BY <4>1, <1>3 DEF Follows
      <4>3. g[i] = f[i - 1] /\ g[i - 1] = f[i - 1 - 1]
        BY <4>1
      <4>4. QED BY <4>1, <4>2, <4>3, <1>2, <3>2
    <3>3. QED BY <3>1, <3>2
  <2>2. QED BY <2>1
<1> DEFINE p == CHOOSE q : q = F(q)
<1>5. p = F(p)
  <2> HIDE DEF F, g
  <2>1. QED BY <1>4
<1>6. Shifted(n) = p
  BY DEF Shifted
<1> HIDE DEF p
<1>7. p[1] = n /\ \A i \in 2 .. Digits : p[i] = p[i - 1] \div Base
  <2>1. \A i \in 1 .. Digits : p[i] = IF i = 1 THEN n ELSE p[i - 1] \div Base
    BY <1>5
  <2>2. QED BY <2>1, <1>1
<1> DEFINE P == {i \in Nat : i \in 0 .. Digits - 1 => p[i + 1] \in Nat}
<1>8. \A i \in Nat : i \in P
  <2>1. P \in SUBSET Nat /\ 0 \in P
    BY <1>7
  <2>2. ASSUME NEW k \in P PROVE k + 1 \in P
    <3>1. CASE k + 1 \in 0 .. Digits - 1
      <4>1. k + 2 \in 2 .. Digits /\ k + 2 - 1 = k + 1 /\ k \in 0 .. Digits - 1 /\ k + 1 + 1 = k + 2
        BY <3>1, <1>1
      <4>2. p[k + 1] \in Nat
        BY <4>1
      <4>3. p[k + 2] = p[k + 1] \div Base
        BY <4>1, <1>7
      <4>4. p[k + 2] \in Nat
        BY <4>2, <4>3, <1>1
      <4>5. QED BY <4>1, <4>4
    <3>2. QED BY <3>1
  <2> HIDE DEF P
  <2>3. QED BY <2>1, <2>2, Induction
<1>9. \A i \in 1 .. Digits : p[i] \in Nat
  <2>1. ASSUME NEW i \in 1 .. Digits PROVE p[i] \in Nat
    <3>1. i - 1 \in Nat /\ i - 1 \in 0 .. Digits - 1 /\ i - 1 + 1 = i
      BY <1>1
    <3>2. QED BY <3>1, <1>8
  <2>2. QED BY <2>1
<1>10. p \in [1 .. Digits -> Nat]
  <2>1. p = [i \in 1 .. Digits |-> p[i]]
    BY <1>5
  <2>2. QED BY <2>1, <1>9
<1>11. QED BY <1>6, <1>7, <1>10

\* So is ReadUvarint's.
LEMMA GatheredFunction ==
    ASSUME VarIntsAssumption, NEW s \in Seq(Bytes)
    PROVE  /\ Gathered(s) \in [0 .. Len(s) -> Nat]
           /\ Gathered(s)[0] = 0
           /\ \A i \in 1 .. Len(s) : Gathered(s)[i] = Gathered(s)[i - 1] + (s[i] % Base) * Place(i - 1)
<1> DEFINE F(p) == [i \in 0 .. Len(s) |-> IF i = 0 THEN 0 ELSE p[i - 1] + (s[i] % Base) * Place(i - 1)]
           add == [i \in Nat |-> IF i \in 1 .. Len(s) THEN (s[i] % Base) * Place(i - 1) ELSE 0]
           step == [i \in Nat |-> [x \in Nat |-> x + add[i]]]
<1>1. Base \in Nat /\ Base > 1 /\ Len(s) \in Nat
  BY DEF VarIntsAssumption
<1>2. ASSUME NEW i \in 1 .. Len(s)
      PROVE  add[i] = (s[i] % Base) * Place(i - 1) /\ add[i] \in Nat
  <2>1. s[i] \in Nat /\ i - 1 \in Nat /\ i \in Nat
    BY <1>1, ElementOfSeq DEF Bytes
  <2>2. s[i] % Base \in Nat
    BY <2>1, <1>1
  <2>3. Place(i - 1) \in Nat
    BY <2>1, PlaceSteps
  <2>4. (s[i] % Base) * Place(i - 1) \in Nat
    BY <2>2, <2>3
  <2>5. QED BY <2>1, <2>4
<1>3. \A i \in Nat : add[i] \in Nat
  <2>1. ASSUME NEW i \in Nat PROVE add[i] \in Nat
    <3>1. CASE i \in 1 .. Len(s)
      BY <3>1, <1>2
    <3>2. CASE i \notin 1 .. Len(s)
      BY <3>2
    <3>3. QED BY <3>1, <3>2
  <2>2. QED BY <2>1
<1> HIDE DEF add
<1>4. Steps(step, Nat) /\ \A i \in Nat, x \in Nat : step[i][x] = x + add[i]
  BY <1>3 DEF Steps
<1> HIDE DEF step
<1>5. PICK f \in [0 .. Len(s) -> Nat] : Follows(f, Len(s), 0, step)
  BY <1>1, <1>4, Recursion
<1>6. f = F(f)
  <2>1. ASSUME NEW i \in 0 .. Len(s), i # 0
        PROVE  f[i] = f[i - 1] + (s[i] % Base) * Place(i - 1)
    <3>1. i \in 1 .. Len(s) /\ i \in Nat /\ i - 1 \in 0 .. Len(s)
      BY <2>1, <1>1
    <3>2. f[i - 1] \in Nat
      BY <3>1, <1>5
    <3>3. f[i] = step[i][f[i - 1]]
      BY <3>1, <1>5 DEF Follows
    <3>4. QED BY <3>1, <3>2, <3>3, <1>2, <1>4
  <2>2. f[0] = 0
    BY <1>5 DEF Follows
  <2>3. QED BY <2>1, <2>2
<1> DEFINE p == CHOOSE q : q = F(q)
<1>7. p = F(p)
  <2> HIDE DEF F
  <2>1. QED BY <1>6
<1>8. Gathered(s) = p
  BY DEF Gathered
<1> HIDE DEF p
<1>9. p[0] = 0 /\ \A i \in 1 .. Len(s) : p[i] = p[i - 1] + (s[i] % Base) * Place(i - 1)
  BY <1>1, <1>7
<1> DEFINE P == {i \in Nat : i \in 0 .. Len(s) => p[i] \in Nat}
<1>10. \A i \in Nat : i \in P
  <2>1. P \in SUBSET Nat /\ 0 \in P
    BY <1>9
  <2>2. ASSUME NEW k \in P PROVE k + 1 \in P
    <3>1. CASE k + 1 \in 0 .. Len(s)
      <4>1. k + 1 \in 1 .. Len(s) /\ k + 1 - 1 = k /\ k \in 0 .. Len(s)
        BY <3>1, <1>1
      <4>2. p[k] \in Nat /\ add[k + 1] \in Nat
        BY <4>1, <1>3
      <4>3. p[k + 1] = p[k] + add[k + 1]
        BY <4>1, <1>9, <1>2
      <4>4. QED BY <4>2, <4>3
    <3>2. QED BY <3>1
  <2> HIDE DEF P
  <2>3. QED BY <2>1, <2>2, Induction
<1>11. p \in [0 .. Len(s) -> Nat]
  <2>1. p = [i \in 0 .. Len(s) |-> p[i]]
    BY <1>7
  <2>2. \A i \in 0 .. Len(s) : p[i] \in Nat
    BY <1>10
  <2>3. QED BY <2>1, <2>2
<1>12. QED BY <1>8, <1>9, <1>11

\* Division with a remainder, for a positive divisor.
LEMMA DivMod ==
    ASSUME NEW a \in Nat, NEW b \in Nat \ {0}
    PROVE  /\ a \div b \in Nat /\ a % b \in Nat /\ a % b < b
           /\ a = b * (a \div b) + (a % b)
           /\ a < b => a % b = a
<1>1. a \div b \in Int /\ a % b \in Int /\ 0 <= a % b /\ a % b < b
  OBVIOUS
<1>2. a = b * (a \div b) + (a % b)
  OBVIOUS
<1> DEFINE q == a \div b
           r == a % b
<1>3. q \in Int /\ r \in Int /\ 0 <= r /\ r < b /\ a = b * q + r
  BY <1>1, <1>2
<1> HIDE DEF q, r
<1>4. q >= 0
  <2>1. SUFFICES ASSUME q <= -1 PROVE FALSE
    BY <1>3
  <2>2. b * q <= b * (-1)
    BY <1>3, <2>1
  <2>3. QED BY <1>3, <2>2
<1>5. ASSUME a < b PROVE r = a
  <2>1. q >= 1 => b * q >= b
    BY <1>3
  <2>2. q = 0
    BY <1>3, <1>4, <1>5, <2>1
  <2>3. QED BY <1>3, <2>2
<1>6. QED BY <1>3, <1>4, <1>5 DEF q, r

\* A number below the divisor is its own remainder.
LEMMA SmallMod ==
    \A a \in Nat : \A b \in Nat \ {0} : a < b => a % b = a
BY DivMod

\* Min is the least element.
LEMMA MinIsLeast ==
    ASSUME NEW T \in SUBSET Nat, T # {}
    PROVE  Min(T) \in T /\ \A y \in T : Min(T) <= y
BY Least DEF Min

\* Each shift brings x below one place less.
LEMMA ShiftedBound ==
    ASSUME VarIntsAssumption, NEW n \in Nat, NEW i \in 1 .. Digits
    PROVE  Shifted(n)[i] * Place(i - 1) <= n
<1> DEFINE x == Shifted(n)
           P == {j \in Nat : j \in 0 .. Digits - 1 => x[j + 1] * Place(j) <= n}
<1>1. Base \in Nat /\ Base > 1 /\ Digits \in Nat /\ Digits >= 1 /\ Digits - 1 \in Nat
  BY DEF VarIntsAssumption
<1>2. /\ x \in [1 .. Digits -> Nat] /\ x[1] = n
      /\ \A j \in 2 .. Digits : x[j] = x[j - 1] \div Base
  BY ShiftedFunction
<1> HIDE DEF x
<1>3. \A j \in Nat : j \in P
  <2>1. P \in SUBSET Nat /\ 0 \in P
    <3>1. x[1] * Place(0) <= n
      <4>1. x[1] = n /\ Place(0) = 1 /\ n * 1 = n
        BY <1>2, PlaceSteps
      <4>2. QED BY <4>1
    <3>2. 0 + 1 = 1
      OBVIOUS
    <3>3. QED BY <3>1, <3>2
  <2>2. ASSUME NEW k \in P PROVE k + 1 \in P
    <3>1. CASE k + 1 \in 0 .. Digits - 1
      <4>1. k + 2 \in 2 .. Digits /\ k + 2 - 1 = k + 1 /\ k \in 0 .. Digits - 1 /\ k + 1 \in 1 .. Digits
        BY <3>1, <1>1
      <4>2. PICK a \in Nat : a = x[k + 1]
        BY <4>1, <1>2
      <4>3. PICK p \in Nat \ {0} : p = Place(k) /\ Place(k + 1) = Base * p
        BY PlaceSteps
      <4>4. a * p <= n
        BY <4>1, <4>2, <4>3
      <4>5. x[k + 2] = a \div Base
        BY <4>1, <4>2, <1>2
      <4>6. PICK q \in Nat : q = a \div Base /\ Base * q <= a
        BY <1>1
      <4>7. (Base * q) * p <= a * p
        BY <4>6, <1>1
      <4>8. q * (Base * p) = (Base * q) * p
        BY <1>1
      <4>9. Base * q \in Nat /\ (Base * q) * p \in Nat /\ a * p \in Nat /\ q * (Base * p) \in Nat
        BY <1>1
      <4>10. q * (Base * p) <= n
        BY <4>4, <4>7, <4>8, <4>9
      <4>11. x[k + 2] * Place(k + 1) <= n
        BY <4>3, <4>5, <4>6, <4>10
      <4>12. k + 1 + 1 = k + 2
        OBVIOUS
      <4>13. QED BY <4>11, <4>12
    <3>2. QED BY <3>1
  <2> HIDE DEF P
  <2>3. QED BY <2>1, <2>2, Induction
<1>4. i - 1 \in P /\ i - 1 \in 0 .. Digits - 1 /\ i - 1 + 1 = i
  BY <1>1, <1>3
<1>5. QED BY <1>4 DEF x

\* PutUvarint stops: an int32 has a last byte within Digits, and only this is below Base.
LEMMA VarIntShape ==
    ASSUME VarIntsAssumption, NEW n \in 0 .. Modulus - 1
    PROVE  \E k \in 1 .. Digits :
              /\ VarInt(n) \in Seq(Bytes) /\ Len(VarInt(n)) = k
              /\ \A i \in 1 .. k - 1 : VarInt(n)[i] = (Shifted(n)[i] % Base) + Base
              /\ VarInt(n)[k] = Shifted(n)[k] /\ Shifted(n)[k] < Base
<1> DEFINE x == Shifted(n)
           T == {i \in 1 .. Digits : x[i] < Base}
           k == Min(T)
           v == [i \in 1 .. k |-> (x[i] % Base) + (IF i < k THEN Base ELSE 0)]
<1>1. /\ Base \in Nat /\ Base > 1 /\ Digits \in Nat /\ Digits >= 1 /\ Digits - 1 \in Nat
      /\ Modulus \in Nat /\ Modulus <= Place(Digits) /\ n \in Nat /\ n < Modulus
  <2>1. Digits \in Nat /\ Place(Digits) \in Nat
    BY PlaceSteps DEF VarIntsAssumption
  <2>2. QED BY <2>1 DEF VarIntsAssumption
<1>2. x \in [1 .. Digits -> Nat]
  BY <1>1, ShiftedFunction
<1>3. x[Digits] < Base
  <2>1. PICK p \in Nat \ {0} : p = Place(Digits - 1) /\ Place(Digits) = Base * p
    <3>1. Digits - 1 + 1 = Digits
      BY <1>1
    <3>2. QED BY <3>1, <1>1, PlaceSteps
  <2>2. PICK a \in Nat : a = x[Digits]
    BY <1>1, <1>2
  <2>3. a * p <= n
    BY <1>1, <2>1, <2>2, ShiftedBound
  <2>4. a >= Base => a * p >= Base * p
    BY <1>1
  <2>5. a * p \in Nat /\ Base * p \in Nat
    BY <1>1
  <2>6. QED BY <2>1, <2>2, <2>3, <2>4, <2>5, <1>1
<1> HIDE DEF x
<1>4. T \in SUBSET Nat /\ T # {}
  BY <1>1, <1>3
<1>5. k \in 1 .. Digits /\ x[k] < Base /\ \A i \in 1 .. Digits : x[i] < Base => k <= i
  <2>1. k \in T /\ \A i \in T : k <= i
    <3> HIDE DEF T
    <3>1. QED BY <1>4, MinIsLeast
  <2>2. QED BY <2>1
<1>6. VarInt(n) = v
  BY DEF VarInt, x
<1> HIDE DEF T, k
<1>7. ASSUME NEW i \in 1 .. k
      PROVE  /\ x[i] \in Nat /\ x[i] % Base \in 0 .. Base - 1 /\ v[i] \in Bytes
             /\ i < k => v[i] = (x[i] % Base) + Base
  <2>1. i \in 1 .. Digits /\ x[i] \in Nat
    BY <1>1, <1>5, <1>2
  <2>2. PICK r \in 0 .. Base - 1 : r = x[i] % Base
    BY <2>1, <1>1
  <2>3. CASE i < k
    BY <2>1, <2>2, <2>3, <1>1 DEF Bytes
  <2>4. CASE ~(i < k)
    BY <2>1, <2>2, <2>4, <1>1 DEF Bytes
  <2>5. QED BY <2>3, <2>4
<1>8. v[k] = x[k]
  <2>1. k \in 1 .. k /\ k \in 1 .. Digits
    BY <1>5
  <2>2. PICK a \in Nat : a = x[k] /\ a < Base
    BY <2>1, <1>2, <1>5
  <2>3. a % Base = a
    BY <2>2, <1>1
  <2>4. v[k] = (x[k] % Base) + 0
    BY <2>1
  <2>5. QED BY <2>2, <2>3, <2>4
<1>9. v \in Seq(Bytes) /\ Len(v) = k
  <2>1. k \in Nat /\ v \in [1 .. k -> Bytes]
    BY <1>5, <1>7
  <2> HIDE DEF v
  <2>2. QED BY <2>1
<1>10. \A i \in 1 .. k - 1 : v[i] = (x[i] % Base) + Base
  BY <1>5, <1>7
<1> HIDE DEF v
<1>11. QED BY <1>5, <1>6, <1>8, <1>9, <1>10 DEF x

\* Every place where a byte of a VarInt stands has its digit, and only the last one has no
\* successor.
LEMMA GatherVarInt ==
    ASSUME VarIntsAssumption, NEW n \in 0 .. Modulus - 1, NEW s \in Seq(Bytes),
           Len(VarInt(n)) <= Len(s), \A i \in 1 .. Len(VarInt(n)) : s[i] = VarInt(n)[i]
    PROVE  Gathered(s)[Len(VarInt(n))] = n
<1> DEFINE x == Shifted(n)
           g == Gathered(s)
<1>1. /\ Base \in Nat /\ Base > 1 /\ Digits \in Nat /\ Digits >= 1 /\ Len(s) \in Nat /\ n \in Nat
  BY DEF VarIntsAssumption
<1>2. PICK k \in 1 .. Digits :
              /\ VarInt(n) \in Seq(Bytes) /\ Len(VarInt(n)) = k
              /\ \A i \in 1 .. k - 1 : VarInt(n)[i] = (Shifted(n)[i] % Base) + Base
              /\ VarInt(n)[k] = Shifted(n)[k] /\ Shifted(n)[k] < Base
  BY VarIntShape
<1>3. /\ x \in [1 .. Digits -> Nat] /\ x[1] = n
      /\ \A i \in 2 .. Digits : x[i] = x[i - 1] \div Base
  BY <1>1, ShiftedFunction
<1>4. /\ g \in [0 .. Len(s) -> Nat] /\ g[0] = 0
      /\ \A i \in 1 .. Len(s) : g[i] = g[i - 1] + (s[i] % Base) * Place(i - 1)
  BY GatheredFunction
<1>5. /\ \A i \in 1 .. k - 1 : s[i] = (x[i] % Base) + Base
      /\ s[k] = x[k] /\ x[k] < Base /\ k \in 1 .. Len(s)
  BY <1>1, <1>2
<1> HIDE DEF x, g
<1>6. ASSUME NEW i \in 1 .. k PROVE s[i] % Base = x[i] % Base
  <2>1. PICK a \in Nat : a = x[i]
    BY <1>1, <1>3
  <2>2. CASE i = k
    BY <2>2, <1>5
  <2>3. CASE i # k
    <3>1. s[i] = (a % Base) + Base
      BY <2>1, <2>3, <1>5
    <3>2. ((a % Base) + Base) % Base = a % Base
      BY <1>1
    <3>3. QED BY <2>1, <3>1, <3>2
  <2>4. QED BY <2>2, <2>3
<1> DEFINE P == {j \in Nat : j \in 0 .. k - 1 => g[j] + x[j + 1] * Place(j) = n}
<1>7. \A j \in Nat : j \in P
  <2>1. P \in SUBSET Nat /\ 0 \in P
    <3>1. g[0] + x[0 + 1] * Place(0) = n
      BY <1>1, <1>3, <1>4, PlaceSteps
    <3>2. QED BY <3>1
  <2>2. ASSUME NEW j \in P PROVE j + 1 \in P
    <3>1. CASE j + 1 \in 0 .. k - 1
      <4>1. /\ j \in 0 .. k - 1 /\ j + 1 \in 1 .. k /\ j + 1 \in 1 .. Digits /\ j + 2 \in 2 .. Digits
            /\ j + 1 \in 1 .. Len(s) /\ j + 2 - 1 = j + 1 /\ j + 1 - 1 = j /\ j \in 0 .. Len(s)
        BY <3>1, <1>1, <1>5
      <4>2. PICK a \in Nat : a = x[j + 1]
        BY <4>1, <1>3
      <4>3. PICK p \in Nat \ {0} : p = Place(j) /\ Place(j + 1) = Base * p
        BY PlaceSteps
      <4>4. PICK b \in Nat : b = g[j] /\ b + a * p = n
        BY <4>1, <4>2, <4>3, <1>4
      <4>5. g[j + 1] = b + (a % Base) * p
        BY <4>1, <4>2, <4>3, <4>4, <1>4, <1>6
      <4>6. x[j + 2] = a \div Base
        BY <4>1, <4>2, <1>3
      <4>7. PICK q \in Nat, r \in Nat : q = a \div Base /\ r = a % Base /\ a = Base * q + r
        <5>1. Base \in Nat \ {0}
          BY <1>1
        <5>2. a \div Base \in Nat /\ a % Base \in Nat /\ a = Base * (a \div Base) + (a % Base)
          BY <5>1, DivMod
        <5>3. QED BY <5>2
      <4>8. b + r * p + q * (Base * p) = b + (Base * q + r) * p
        <5>1. Base \in Nat
          BY <1>1
        <5>2. q * (Base * p) = (Base * q) * p
          BY <5>1
        <5> DEFINE c == Base * q
        <5>3. c \in Nat
          BY <5>1
        <5> HIDE DEF c
        <5>4. (c + r) * p = c * p + r * p /\ c * p \in Nat /\ r * p \in Nat
          BY <5>3
        <5>5. q * (Base * p) = c * p /\ b + (Base * q + r) * p = b + (c + r) * p
          BY <5>2 DEF c
        <5>6. b + r * p + c * p = b + (c + r) * p
          BY <5>4
        <5>7. QED BY <5>5, <5>6
      <4>9. j + 1 + 1 = j + 2
        OBVIOUS
      <4>10. g[j + 1] + x[j + 2] * Place(j + 1) = n
        BY <4>3, <4>4, <4>5, <4>6, <4>7, <4>8
      <4>11. QED BY <4>9, <4>10
    <3>2. QED BY <3>1
  <2> HIDE DEF P
  <2>3. QED BY <2>1, <2>2, Induction
<1>8. g[k - 1] + x[k] * Place(k - 1) = n
  <2>1. k - 1 \in Nat /\ k - 1 \in 0 .. k - 1 /\ k - 1 + 1 = k
    BY <1>1
  <2>2. QED BY <2>1, <1>7
<1>9. g[k] = g[k - 1] + (x[k] % Base) * Place(k - 1)
  BY <1>4, <1>5, <1>6
<1>10. x[k] % Base = x[k]
  <2>1. PICK a \in Nat : a = x[k] /\ a < Base
    BY <1>1, <1>3, <1>5
  <2>2. QED BY <2>1, <1>1, DivMod
<1>11. QED BY <1>2, <1>8, <1>9, <1>10 DEF g

\* What ReadVarInt finds on a stream that goes on with a VarInt: all of it, or nothing yet.
LEMMA ReadVarIntBack ==
    ASSUME VarIntsAssumption, NEW n \in 0 .. Modulus - 1,
           NEW s \in Seq(Bytes), NEW t \in Seq(Bytes), NEW u \in Seq(Bytes),
           s \o t = VarInt(n) \o u
    PROVE  IF Len(s) < Len(VarInt(n)) THEN ReadVarInt(s) = Short
           ELSE ReadVarInt(s) = [st |-> "ok", size |-> Len(VarInt(n)), n |-> n]
<1>1. /\ Base \in Nat /\ Base > 1 /\ Digits \in Nat /\ Digits >= 1 /\ Len(s) \in Nat /\ n \in Nat
      /\ Modulus \in Nat /\ n < Modulus
  <2>1. Digits \in Nat /\ Place(Digits) \in Nat
    BY PlaceSteps DEF VarIntsAssumption
  <2>2. QED BY <2>1 DEF VarIntsAssumption
<1>2. PICK k \in 1 .. Digits :
              /\ VarInt(n) \in Seq(Bytes) /\ Len(VarInt(n)) = k
              /\ \A i \in 1 .. k - 1 : VarInt(n)[i] = (Shifted(n)[i] % Base) + Base
              /\ VarInt(n)[k] = Shifted(n)[k] /\ Shifted(n)[k] < Base
  BY VarIntShape
<1>3. ASSUME NEW i \in 1 .. k, i <= Len(s) PROVE s[i] = VarInt(n)[i]
  <2>1. (s \o t)[i] = s[i]
    BY <1>1, <1>3, ConcatProperties
  <2>2. (VarInt(n) \o u)[i] = VarInt(n)[i]
    BY <1>1, <1>2, ConcatProperties
  <2>3. QED BY <2>1, <2>2
<1>4. ASSUME NEW i \in 1 .. k - 1 PROVE ~(VarInt(n)[i] < Base)
  <2>1. i \in 1 .. Digits
    BY <1>1
  <2>2. PICK a \in Nat : a = Shifted(n)[i]
    BY <2>1, <1>1, ShiftedFunction
  <2>3. a % Base \in Nat
    BY <1>1
  <2>4. VarInt(n)[i] = (a % Base) + Base
    BY <1>2, <2>2
  <2>5. QED BY <2>3, <2>4, <1>1
<1> DEFINE ends == {i \in 1 .. Len(s) : s[i] < Base}
<1>5. CASE Len(s) < k
  <2>1. ends = {}
    <3>1. ASSUME NEW i \in ends PROVE FALSE
      <4>1. i \in 1 .. k - 1 /\ i \in 1 .. k /\ i <= Len(s) /\ s[i] < Base
        BY <1>1, <1>5
      <4>2. QED BY <4>1, <1>3, <1>4
    <3>2. QED BY <3>1
  <2>2. Len(s) < 2 * Digits
    BY <1>1, <1>5
  <2>3. ReadVarInt(s) = Short
    BY <2>1, <2>2 DEF ReadVarInt
  <2>4. QED BY <2>3, <1>2, <1>5
<1>6. CASE ~(Len(s) < k)
  <2>1. k \in ends
    <3>1. k \in 1 .. k /\ k <= Len(s) /\ k \in 1 .. Len(s)
      BY <1>1, <1>6
    <3>2. QED BY <3>1, <1>2, <1>3
  <2>2. \A i \in ends : k <= i
    <3>1. ASSUME NEW i \in ends, i < k PROVE FALSE
      <4>1. i \in 1 .. k - 1 /\ i \in 1 .. k /\ i <= Len(s) /\ s[i] < Base
        BY <1>1, <3>1
      <4>2. QED BY <4>1, <1>3, <1>4
    <3>2. QED BY <3>1
  <2>3. Min(ends) = k
    <3>1. ends \in SUBSET Nat
      BY <1>1
    <3>2. Min(ends) \in ends /\ Min(ends) <= k
      <4> HIDE DEF ends
      <4>1. QED BY <2>1, <3>1, MinIsLeast
    <3>3. k <= Min(ends)
      BY <3>2, <2>2
    <3>4. QED BY <3>1, <3>2, <3>3
  <2>4. Gathered(s)[k] = n
    BY <1>1, <1>2, <1>3, <1>6, GatherVarInt
  <2>5. n % Modulus = n
    <3>1. Modulus \in Nat \ {0} /\ n \in Nat /\ n < Modulus
      BY <1>1
    <3>2. QED BY <3>1, SmallMod, Zenon
  <2>6. k <= 2 * Digits /\ ends # {}
    BY <1>1, <2>1
  <2> HIDE DEF ends
  <2>7. ReadVarInt(s) = [st |-> "ok", size |-> k, n |-> n]
    <3>1. ReadVarInt(s) = [st |-> "ok", size |-> Min(ends), n |-> Gathered(s)[Min(ends)] % Modulus]
      BY <2>3, <2>6 DEF ReadVarInt, ends
    <3>2. QED BY <3>1, <2>3, <2>4, <2>5
  <2>8. QED BY <2>7, <1>2, <1>6
<1>7. QED BY <1>5, <1>6

\* s, which t follows, holds all of f, which u follows.
Holds(s, t, f, u) ==
    /\ s \in Seq(Bytes) /\ t \in Seq(Bytes) /\ f \in Seq(Bytes) /\ u \in Seq(Bytes)
    /\ s \o t = f \o u /\ Len(f) <= Len(s)

\* What is all there can be taken from the front.
LEMMA TakeFirst ==
    ASSUME NEW s, NEW t, NEW f, NEW u, Holds(s, t, f, u)
    PROVE  /\ SubSeq(s, 1, Len(f)) = f
           /\ Drop(s, Len(f)) \in Seq(Bytes) /\ Len(Drop(s, Len(f))) = Len(s) - Len(f)
           /\ Drop(s, Len(f)) \o t = u
           /\ \A i \in 1 .. Len(f) : s[i] = f[i]
           /\ \A i \in 1 .. Len(s) - Len(f) : s[Len(f) + i] = u[i]
<1>0. /\ s \in Seq(Bytes) /\ t \in Seq(Bytes) /\ f \in Seq(Bytes) /\ u \in Seq(Bytes)
      /\ s \o t = f \o u /\ Len(f) <= Len(s)
  BY DEF Holds
<1>1. Len(s) \in Nat /\ Len(t) \in Nat /\ Len(f) \in Nat /\ Len(u) \in Nat
  BY <1>0
<1>2. Len(s) + Len(t) = Len(f) + Len(u)
  BY <1>0, ConcatProperties
<1>3. \A i \in 1 .. Len(f) : s[i] = f[i]
  <2>1. ASSUME NEW i \in 1 .. Len(f) PROVE s[i] = f[i]
    <3>1. (s \o t)[i] = s[i]
      BY <1>0, <1>1, ConcatProperties
    <3>2. (f \o u)[i] = f[i]
      BY <1>0, <1>1, ConcatProperties
    <3>3. QED BY <1>0, <3>1, <3>2
  <2>2. QED BY <2>1
<1>4. \A i \in 1 .. Len(u) : u[i] = (s \o t)[Len(f) + i]
  <2>1. ASSUME NEW i \in 1 .. Len(u) PROVE u[i] = (f \o u)[Len(f) + i]
    BY <1>0, <1>1, ConcatProperties
  <2>2. QED BY <1>0, <2>1
<1> DEFINE d == Drop(s, Len(f))
<1>5. /\ d \in Seq(Bytes) /\ Len(d) = Len(s) - Len(f)
      /\ \A i \in 1 .. Len(s) - Len(f) : d[i] = s[Len(f) + i]
  <2>1. d = SubSeq(s, Len(f) + 1, Len(s))
    BY DEF Drop
  <2>2. \A i \in Len(f) + 1 .. Len(s) : s[i] \in Bytes
    BY <1>0, <1>1
  <2>3. /\ d \in Seq(Bytes)
        /\ Len(d) = IF Len(f) + 1 <= Len(s) THEN Len(s) - (Len(f) + 1) + 1 ELSE 0
        /\ \A i \in 1 .. Len(s) - (Len(f) + 1) + 1 : d[i] = s[Len(f) + 1 + i - 1]
    BY <2>1, <2>2, <1>1, SubSeqProperties
  <2> HIDE DEF d
  <2>4. QED BY <2>3, <1>0, <1>1
<1> HIDE DEF d
<1>6. d \o t = u
  <2>1. d \o t \in Seq(Bytes) /\ Len(d \o t) = Len(u)
    BY <1>0, <1>1, <1>2, <1>5, ConcatProperties
  <2>2. ASSUME NEW i \in 1 .. Len(u) PROVE (d \o t)[i] = u[i]
    <3>1. CASE i <= Len(d)
      <4>1. (d \o t)[i] = s[Len(f) + i]
        BY <1>0, <3>1, <1>1, <1>2, <1>5, ConcatProperties
      <4>2. (s \o t)[Len(f) + i] = s[Len(f) + i]
        BY <1>0, <3>1, <1>1, <1>5, ConcatProperties
      <4>3. QED BY <4>1, <4>2, <1>4
    <3>2. CASE ~(i <= Len(d))
      <4>1. (d \o t)[i] = t[i - Len(d)]
        BY <1>0, <3>2, <1>1, <1>2, <1>5, ConcatProperties
      <4>2. (s \o t)[Len(f) + i] = t[Len(f) + i - Len(s)]
        <5>1. Len(f) + i \in 1 .. Len(s) + Len(t) /\ ~(Len(f) + i <= Len(s))
          BY <3>2, <1>1, <1>2, <1>5
        <5>2. QED BY <1>0, <5>1, ConcatProperties
      <4>3. i - Len(d) = Len(f) + i - Len(s)
        BY <1>1, <1>5
      <4>4. QED BY <4>1, <4>2, <4>3, <1>4
    <3>3. QED BY <3>1, <3>2
  <2>3. QED BY <2>1, <2>2, <1>0, SeqEqual
<1>7. \A i \in 1 .. Len(s) - Len(f) : s[Len(f) + i] = u[i]
  <2>1. ASSUME NEW i \in 1 .. Len(s) - Len(f) PROVE s[Len(f) + i] = u[i]
    <3>1. (s \o t)[Len(f) + i] = s[Len(f) + i] /\ i \in 1 .. Len(u)
      BY <1>0, <1>1, <1>2, ConcatProperties
    <3>2. QED BY <3>1, <1>4
  <2>2. QED BY <2>1
<1>8. SubSeq(s, 1, Len(f)) = f
  <2>1. \A i \in 1 .. Len(f) : s[i] \in Bytes
    BY <1>0, <1>1
  <2>2. /\ SubSeq(s, 1, Len(f)) \in Seq(Bytes)
        /\ Len(SubSeq(s, 1, Len(f))) = IF 1 <= Len(f) THEN Len(f) - 1 + 1 ELSE 0
        /\ \A i \in 1 .. Len(f) - 1 + 1 : SubSeq(s, 1, Len(f))[i] = s[1 + i - 1]
    BY <2>1, <1>1, SubSeqProperties
  <2>3. Len(SubSeq(s, 1, Len(f))) = Len(f)
    BY <2>2, <1>1
  <2>4. \A i \in 1 .. Len(f) : SubSeq(s, 1, Len(f))[i] = f[i]
    BY <2>2, <1>1, <1>3
  <2>5. QED BY <2>2, <2>3, <2>4, <1>0, SeqEqual
<1>9. QED BY <1>3, <1>5, <1>6, <1>7, <1>8 DEF d

\* A VarInt is a few bytes.
LEMMA VarIntLen ==
    ASSUME VarIntsAssumption, NEW n \in 0 .. Modulus - 1
    PROVE  VarInt(n) \in Seq(Bytes) /\ Len(VarInt(n)) \in 1 .. Digits
BY VarIntShape

\* zlib gives back what it was given.
LEMMA InflateBack ==
    ASSUME FramingAssumption, NEW s \in Seq(Bytes)
    PROVE  /\ Deflate(s) \in Seq(Bytes) /\ Len(Deflate(s)) = Len(s) + 2
           /\ Inflate(Deflate(s)) = [st |-> "ok", data |-> s]
<1> USE DEF FramingAssumption
<1>1. Base \in Bytes /\ Len(s) \in Nat
  BY DEF FramingAssumption, VarIntsAssumption, Bytes
<1> DEFINE h == <<Base>>
           z == Deflate(s)
<1>2. h \in Seq(Bytes) /\ Len(h) = 1 /\ h[1] = Base
  BY <1>1
<1>3. z = (h \o s) \o h
  BY DEF Deflate
<1> HIDE DEF h, z
<1>4. /\ h \o s \in Seq(Bytes) /\ Len(h \o s) = Len(s) + 1
      /\ \A i \in 1 .. Len(s) + 1 : (h \o s)[i] = IF i <= 1 THEN h[i] ELSE s[i - 1]
  <2>1. /\ h \o s \in Seq(Bytes) /\ Len(h \o s) = Len(h) + Len(s)
        /\ \A i \in 1 .. Len(h) + Len(s) : (h \o s)[i] = IF i <= Len(h) THEN h[i] ELSE s[i - Len(h)]
    BY <1>2, ConcatProperties
  <2>2. Len(h) + Len(s) = Len(s) + 1
    BY <1>1, <1>2
  <2>3. QED BY <2>1, <2>2, <1>2
<1>5. /\ z \in Seq(Bytes) /\ Len(z) = Len(s) + 2
      /\ \A i \in 1 .. Len(s) + 2 :
            z[i] = IF i <= Len(s) + 1 THEN (h \o s)[i] ELSE h[i - (Len(s) + 1)]
  BY <1>1, <1>2, <1>3, <1>4, ConcatProperties
<1>6. z[1] = Base /\ z[Len(z)] = Base
  <2>1. 1 \in 1 .. Len(s) + 1 /\ 1 \in 1 .. Len(s) + 2 /\ Len(s) + 2 \in 1 .. Len(s) + 2
        /\ Len(s) + 2 - (Len(s) + 1) = 1 /\ ~(Len(s) + 2 <= Len(s) + 1)
    BY <1>1
  <2>2. QED BY <2>1, <1>1, <1>2, <1>4, <1>5
<1>7. SubSeq(z, 2, Len(z) - 1) = s
  <2>1. \A i \in 2 .. Len(z) - 1 : z[i] \in Bytes
    BY <1>1, <1>5
  <2>2. /\ SubSeq(z, 2, Len(z) - 1) \in Seq(Bytes)
        /\ Len(SubSeq(z, 2, Len(z) - 1)) = IF 2 <= Len(z) - 1 THEN Len(z) - 1 - 2 + 1 ELSE 0
        /\ \A i \in 1 .. Len(z) - 1 - 2 + 1 : SubSeq(z, 2, Len(z) - 1)[i] = z[2 + i - 1]
    BY <2>1, <1>1, <1>5, SubSeqProperties
  <2>3. Len(SubSeq(z, 2, Len(z) - 1)) = Len(s)
    BY <2>2, <1>1, <1>5
  <2>4. ASSUME NEW i \in 1 .. Len(s) PROVE SubSeq(z, 2, Len(z) - 1)[i] = s[i]
    <3>1. i \in 1 .. Len(z) - 1 - 2 + 1 /\ 2 + i - 1 = i + 1 /\ i + 1 \in 1 .. Len(s) + 1
          /\ i + 1 \in 1 .. Len(s) + 2 /\ ~(i + 1 <= 1) /\ i + 1 - 1 = i
      BY <1>1, <1>5
    <3>2. QED BY <3>1, <2>2, <1>4, <1>5
  <2>5. QED BY <2>2, <2>3, <2>4, SeqEqual
<1>8. Len(z) >= 2
  BY <1>1, <1>5
<1>9. Inflate(z) = [st |-> "ok", data |-> s]
  BY <1>6, <1>7, <1>8 DEF Inflate
<1>10. QED BY <1>5, <1>9 DEF z

\* Without its first part a concatenation is its second.
LEMMA DropConcat ==
    ASSUME NEW f \in Seq(Bytes), NEW u \in Seq(Bytes)
    PROVE  Drop(f \o u, Len(f)) = u
<1> DEFINE w == f \o u
           e == <<>>
<1>1. f \o u \in Seq(Bytes) /\ Len(f) <= Len(f \o u) /\ e \in Seq(Bytes)
  BY ConcatProperties
<1>2. w \o e = f \o u
  BY <1>1, ConcatEmptySeq
<1>3. Holds(w, e, f, u)
  BY <1>1, <1>2 DEF Holds
<1>4. Drop(w, Len(f)) \in Seq(Bytes) /\ Drop(w, Len(f)) \o e = u
  <2> HIDE DEF w, e
  <2>1. QED BY <1>3, TakeFirst
<1>5. QED BY <1>4, ConcatEmptySeq

\* Bytes behind bytes behind bytes.
LEMMA Associative ==
    \A a, b, c \in Seq(Bytes) : (a \o b) \o c = a \o (b \o c)
BY ConcatAssociative

\* Constants in range.
LEMMA SmallNumbers ==
    ASSUME VarIntsAssumption
    PROVE  /\ Base \in Nat /\ Base > 1 /\ Digits \in Nat /\ Digits >= 1
           /\ Modulus \in Nat /\ Modulus >= 1
           /\ Modulus \div 2 \in Nat /\ Modulus \div 2 <= Modulus - Modulus \div 2
<1>1. Digits \in Nat /\ Place(Digits) \in Nat
  BY PlaceSteps DEF VarIntsAssumption
<1>2. Modulus \in Nat /\ Modulus >= 1
  BY <1>1 DEF VarIntsAssumption
<1>3. QED BY <1>2 DEF VarIntsAssumption

\* Constants in range, those of packets too.
LEMMA Numbers ==
    ASSUME FramingAssumption
    PROVE  /\ Base \in Nat /\ Base > 1 /\ Digits \in Nat /\ Digits >= 1
           /\ Modulus \in Nat /\ Modulus >= 1 /\ MaxPacketSize \in Nat /\ MaxPacketID \in Nat
           /\ Modulus \div 2 \in Nat /\ Modulus \div 2 <= Modulus - Modulus \div 2
BY SmallNumbers DEF FramingAssumption

\* A serialised packet's length, with any header, is an int32.
LEMMA SerialisedBounds ==
    ASSUME FramingAssumption, NEW p, Serialised(p)
    PROVE  /\ p \in Seq(Bytes) /\ Len(p) \in Nat /\ Len(p) + Digits + 2 < Modulus
           /\ Len(p) \in 0 .. Modulus - 1 /\ 0 \in 0 .. Modulus - 1 /\ ~Negative(Len(p))
BY Numbers DEF Serialised, Negative

\* A packet is written as its length and a payload of that length, in which Data finds it.
LEMMA SerialisedId ==
    ASSUME FramingAssumption, NEW p, Serialised(p)
    PROVE  ReadVarInt(p).st = "ok" /\ ~(ReadVarInt(p).n > MaxPacketID)
<1> USE DEF FramingAssumption
<1> DEFINE ends == {i \in 1 .. Len(p) : p[i] < Base}
           k == Min(ends)
           g == Gathered(p)
<1>1. p \in Seq(Bytes) /\ ReadVarInt(p).st = "ok" /\ ReadVarInt(p).n <= MaxPacketID
  BY DEF Serialised
<1>2. ends # {} /\ k <= 2 * Digits
  <2>1. SUFFICES ASSUME ~(ends # {} /\ k <= 2 * Digits) PROVE FALSE
    OBVIOUS
  <2>2. ReadVarInt(p) = IF Len(p) < 2 * Digits THEN Short ELSE Bad
    <3> HIDE DEF k
    <3>1. QED BY <2>1 DEF ReadVarInt, k
  <2>3. QED BY <2>2, <1>1 DEF Short, Bad
<1>3. ReadVarInt(p).n = g[k] % Modulus
  <2>1. ReadVarInt(p) = [st |-> "ok", size |-> k, n |-> g[k] % Modulus]
    BY <1>2 DEF ReadVarInt
  <2>2. QED BY <2>1
<1>4. k \in 1 .. Len(p)
  <2>1. ends \in SUBSET Nat
    OBVIOUS
  <2>2. k \in ends
    <3> HIDE DEF ends
    <3>1. QED BY <2>1, <1>2, MinIsLeast
  <2>3. QED BY <2>2
<1>5. g[k] \in Nat
  <2>1. g \in [0 .. Len(p) -> Nat] /\ Len(p) \in Nat
    BY <1>1, GatheredFunction
  <2> HIDE DEF g, k
  <2>2. QED BY <2>1, <1>4
<1>6. g[k] % Modulus \in Nat
  <2> HIDE DEF g, k
  <2>1. QED BY <1>5, Numbers
<1>7. QED BY <1>1, <1>3, <1>6, Numbers

\* WritePacket puts the length of a body before it, in which Data finds the packet.
LEMMA FrameShape ==
    ASSUME FramingAssumption, NEW thr \in Nat, NEW p, Serialised(p)
    PROVE  \E body \in Seq(Bytes) :
              /\ Len(body) \in 0 .. Modulus - 1
              /\ WritePacket(thr, p) = VarInt(Len(body)) \o body
              /\ Data(thr, body) = [st |-> "ok", data |-> p]
<1> USE DEF FramingAssumption
<1>1. /\ p \in Seq(Bytes) /\ Len(p) \in Nat /\ Len(p) + Digits + 2 < Modulus
      /\ Len(p) \in 0 .. Modulus - 1 /\ 0 \in 0 .. Modulus - 1 /\ ~Negative(Len(p))
  BY SerialisedBounds
<1>2. Modulus \in Nat /\ Digits \in Nat
  BY Numbers
<1>3. CASE thr < 1
  <2>1. WritePacket(thr, p) = VarInt(Len(p)) \o p
    BY <1>3 DEF WritePacket
  <2>2. Data(thr, p) = [st |-> "ok", data |-> p]
    BY <1>3 DEF Data
  <2>3. QED BY <2>1, <2>2, <1>1
<1>4. CASE ~(thr < 1)
  <2> DEFINE n == IF Len(p) >= thr THEN Len(p) ELSE 0
             v == VarInt(n)
             z == IF Len(p) >= thr THEN Deflate(p) ELSE p
             body == v \o z
  <2>1. n \in 0 .. Modulus - 1
    BY <1>1
  <2> HIDE DEF n
  <2>2. v \in Seq(Bytes) /\ Len(v) \in Nat /\ Len(v) <= Digits
    BY <2>1, <1>2, VarIntLen
  <2>3. z \in Seq(Bytes) /\ Len(z) \in Nat /\ Len(z) <= Len(p) + 2
    <3>1. Deflate(p) \in Seq(Bytes) /\ Len(Deflate(p)) = Len(p) + 2
      BY <1>1, InflateBack
    <3>2. QED BY <3>1, <1>1
  <2>4. WritePacket(thr, p) = VarInt(Len(body)) \o body
    <3>1. CASE Len(p) >= thr
      BY <1>4, <3>1 DEF WritePacket, n
    <3>2. CASE ~(Len(p) >= thr)
      BY <1>4, <3>2 DEF WritePacket, n
    <3>3. QED BY <3>1, <3>2
  <2> HIDE DEF z
  <2>5. body \in Seq(Bytes) /\ Len(body) = Len(v) + Len(z)
    <3> HIDE DEF v
    <3>1. QED BY <2>2, <2>3, ConcatProperties
  <2>6. Len(body) \in 0 .. Modulus - 1
    BY <1>1, <1>2, <2>2, <2>3, <2>5
  <2>7. ReadVarInt(body) = [st |-> "ok", size |-> Len(v), n |-> n]
    <3>1. <<>> \in Seq(Bytes) /\ body \o <<>> = v \o z
      BY <2>5, ConcatEmptySeq
    <3>2. ~(Len(body) < Len(v))
      BY <2>2, <2>3, <2>5
    <3>3. IF Len(body) < Len(VarInt(n)) THEN ReadVarInt(body) = Short
          ELSE ReadVarInt(body) = [st |-> "ok", size |-> Len(VarInt(n)), n |-> n]
      <4> HIDE DEF body
      <4>1. QED BY <3>1, <2>1, <2>3, <2>5, ReadVarIntBack
    <3>4. QED BY <3>2, <3>3
  <2>8. Drop(body, Len(v)) = z
    BY <2>2, <2>3, DropConcat
  <2> HIDE DEF body, v
  <2>9. Data(thr, body) = [st |-> "ok", data |-> p]
    <3> DEFINE d == ReadVarInt(body)
    <3>1. d.st = "ok" /\ d.n = n /\ d.size = Len(v)
      BY <2>7
    <3> HIDE DEF d
    <3>2. CASE Len(p) >= thr
      <4>1. n = Len(p) /\ n > 0 /\ ~(n < thr) /\ ~Negative(n) /\ z = Deflate(p)
        BY <3>2, <1>1, <1>4 DEF n, z
      <4>2. Data(thr, body) = Inflate(Drop(body, Len(v)))
        BY <3>1, <4>1, <1>4 DEF Data, d
      <4>3. QED BY <4>1, <4>2, <2>8, <1>1, InflateBack
    <3>3. CASE ~(Len(p) >= thr)
      <4>1. n = 0 /\ z = p
        BY <3>3 DEF n, z
      <4>2. Data(thr, body) = [st |-> "ok", data |-> Drop(body, Len(v))]
        BY <3>1, <4>1, <1>4 DEF Data, d
      <4>3. QED BY <4>1, <4>2, <2>8
    <3>4. QED BY <3>2, <3>3
  <2>10. QED BY <2>4, <2>5, <2>6, <2>9
<1>5. QED BY <1>3, <1>4

\* s, which t follows, begins with the packet p of threshold thr, which u follows.
InFront(thr, p, s, t, u) ==
    /\ thr \in Nat /\ Serialised(p)
    /\ s \in Seq(Bytes) /\ t \in Seq(Bytes) /\ u \in Seq(Bytes)
    /\ s \o t = WritePacket(thr, p) \o u

\* What ReadPacket makes of a stream that goes on with a packet, of which s is there: it
\* waits for all of it, or refuses it for its length, or has it with nothing of what follows.
THEOREM ReadPacketReturns ==
    ASSUME FramingAssumption, NEW thr, NEW p, NEW s, NEW t, NEW u, InFront(thr, p, s, t, u)
    PROVE  \/ /\ ReadPacket(thr, s).st = "short"
              /\ Len(s) < Len(WritePacket(thr, p))
           \/ ReadPacket(thr, s).st = "bad" /\ TooBig(thr, p)
           \/ /\ ReadPacket(thr, s).st = "ok" /\ ReadPacket(thr, s).data = p
              /\ ReadPacket(thr, s).size = Len(WritePacket(thr, p))
              /\ Len(WritePacket(thr, p)) <= Len(s) /\ ~TooBig(thr, p)
              /\ ReadPacket(thr, s).payload \in Seq(Bytes)
              /\ WriteRaw(ReadPacket(thr, s).payload) = WritePacket(thr, p)
<1> USE DEF FramingAssumption
<1>0. /\ thr \in Nat /\ Serialised(p)
      /\ s \in Seq(Bytes) /\ t \in Seq(Bytes) /\ u \in Seq(Bytes)
      /\ s \o t = WritePacket(thr, p) \o u
  BY DEF InFront
<1> USE <1>0
<1>1. PICK body \in Seq(Bytes) :
              /\ Len(body) \in 0 .. Modulus - 1
              /\ WritePacket(thr, p) = VarInt(Len(body)) \o body
              /\ Data(thr, body) = [st |-> "ok", data |-> p]
  BY FrameShape
<1> DEFINE n == Len(body)
           v == VarInt(n)
           f == v \o body
           l == ReadVarInt(s)
           r == ReadPacket(thr, s)
<1>2. n \in 0 .. Modulus - 1 /\ n \in Nat /\ Len(s) \in Nat
  BY <1>1
<1>3. v \in Seq(Bytes) /\ Len(v) \in Nat /\ Len(v) >= 1
  BY <1>2, VarIntLen, Numbers
<1>4. WritePacket(thr, p) = f
  BY <1>1
<1>5. f \in Seq(Bytes) /\ Len(f) = Len(v) + n
  <2> HIDE DEF v
  <2>1. QED BY <1>3, ConcatProperties
<1>6. s \o t = v \o (body \o u) /\ body \o u \in Seq(Bytes)
  <2>1. s \o t = (v \o body) \o u
    BY <1>4
  <2> HIDE DEF v
  <2>2. (v \o body) \o u = v \o (body \o u)
    BY <1>1, <1>3, Associative
  <2>3. body \o u \in Seq(Bytes)
    BY ConcatProperties
  <2>4. QED BY <2>1, <2>2, <2>3
<1>7. IF Len(s) < Len(v) THEN l = Short ELSE l = [st |-> "ok", size |-> Len(v), n |-> n]
  BY <1>2, <1>6, ReadVarIntBack
<1>8. ReadVarInt(f).n = n
  <2>1. <<>> \in Seq(Bytes) /\ f \o <<>> = v \o body
    BY <1>5, ConcatEmptySeq
  <2>2. IF Len(f) < Len(VarInt(n)) THEN ReadVarInt(f) = Short
          ELSE ReadVarInt(f) = [st |-> "ok", size |-> Len(VarInt(n)), n |-> n]
    <3> HIDE DEF f, n
    <3>1. QED BY <2>1, <1>2, <1>5, ReadVarIntBack DEF n
  <2>3. ~(Len(f) < Len(v))
    BY <1>2, <1>3, <1>5
  <2>4. QED BY <2>2, <2>3
<1>9. TooBig(thr, p) <=> n > MaxPacketSize
  BY <1>4, <1>8 DEF TooBig
<1>10. CASE Len(s) < Len(v)
  <2>1. l = Short
    BY <1>7, <1>10
  <2>2. r = l
    BY <2>1 DEF ReadPacket, Short
  <2>3. r.st = "short"
    BY <2>1, <2>2 DEF Short
  <2>4. Len(s) < Len(f)
    BY <1>2, <1>3, <1>5, <1>10
  <2>5. QED BY <2>3, <2>4, <1>4
<1>11. CASE ~(Len(s) < Len(v))
  <2>1. l = [st |-> "ok", size |-> Len(v), n |-> n]
    BY <1>7, <1>11
  <2>2. l.st = "ok" /\ l.size = Len(v) /\ l.n = n
    BY <2>1
  <2>3. CASE n > MaxPacketSize
    <3>1. r = Bad
      <4> HIDE DEF n, v, f
      <4>1. QED BY <2>2, <2>3 DEF ReadPacket
    <3>2. r.st = "bad"
      BY <3>1 DEF Bad
    <3>3. QED BY <3>2, <2>3, <1>9
  <2>4. CASE ~(n > MaxPacketSize) /\ Len(s) < Len(f)
    <3>1. Len(s) < l.size + l.n
      BY <2>2, <2>4, <1>5
    <3>2. r = Short
      <4> HIDE DEF n, v, f
      <4>1. QED BY <2>2, <2>4, <3>1 DEF ReadPacket
    <3>3. r.st = "short"
      BY <3>2 DEF Short
    <3>4. QED BY <3>3, <2>4, <1>4
  <2>5. CASE ~(n > MaxPacketSize) /\ ~(Len(s) < Len(f))
    <3>1. SubSeq(s, 1, Len(f)) = f /\ \A i \in 1 .. Len(f) : s[i] = f[i]
      <4>1. s \o t = f \o u
        BY <1>4
      <4>2. Len(f) <= Len(s)
        BY <2>5, <1>2, <1>3, <1>5
      <4>3. Holds(s, t, f, u)
        BY <4>1, <4>2, <1>5 DEF Holds
      <4> HIDE DEF f
      <4>4. QED BY <4>3, TakeFirst
    <3>2. SubSeq(s, Len(v) + 1, Len(v) + n) = body
      <4> DEFINE b == SubSeq(s, Len(v) + 1, Len(v) + n)
      <4>1. ASSUME NEW i \in 1 .. n PROVE s[Len(v) + i] = body[i]
        <5>1. Len(v) + i \in 1 .. Len(f) /\ Len(v) + i \in 1 .. Len(v) + Len(body) /\ ~(Len(v) + i <= Len(v))
              /\ Len(v) + i - Len(v) = i
          BY <1>2, <1>3, <1>5
        <5>2. s[Len(v) + i] = f[Len(v) + i]
          BY <5>1, <3>1
        <5>3. f[Len(v) + i] = body[i]
          <6> HIDE DEF v
          <6>1. QED BY <5>1, <1>3, ConcatProperties
        <5>4. QED BY <5>2, <5>3
      <4>2. \A i \in Len(v) + 1 .. Len(v) + n : s[i] \in Bytes
        <5>1. ASSUME NEW i \in Len(v) + 1 .. Len(v) + n PROVE s[i] \in Bytes
          <6>1. i - Len(v) \in 1 .. n /\ Len(v) + (i - Len(v)) = i
            BY <1>2, <1>3
          <6>2. s[i] = body[i - Len(v)]
            BY <6>1, <4>1
          <6>3. QED BY <6>1, <6>2, ElementOfSeq
        <5>2. QED BY <5>1
      <4>3. /\ b \in Seq(Bytes)
            /\ Len(b) = IF Len(v) + 1 <= Len(v) + n THEN Len(v) + n - (Len(v) + 1) + 1 ELSE 0
            /\ \A i \in 1 .. Len(v) + n - (Len(v) + 1) + 1 : b[i] = s[Len(v) + 1 + i - 1]
        BY <4>2, <1>2, <1>3, SubSeqProperties
      <4>4. Len(b) = n
        BY <4>3, <1>2, <1>3
      <4>5. ASSUME NEW i \in 1 .. n PROVE b[i] = body[i]
        <5>1. i \in 1 .. Len(v) + n - (Len(v) + 1) + 1 /\ Len(v) + 1 + i - 1 = Len(v) + i
          BY <1>2, <1>3
        <5>2. QED BY <5>1, <4>1, <4>3
      <4> HIDE DEF b
      <4>6. b = body
        BY <4>3, <4>4, <4>5, SeqEqual
      <4>7. QED BY <4>6 DEF b
    <3>3. ReadVarInt(p).st = "ok" /\ ~(ReadVarInt(p).n > MaxPacketID)
      BY Numbers, SerialisedId
    <3>4. ~(Len(s) < l.size + l.n)
      BY <2>2, <2>5, <1>5
    <3>5. r = [st |-> "ok", size |-> Len(v) + n, payload |-> body, data |-> p, id |-> ReadVarInt(p).n]
      <4> HIDE DEF n, v, f
      <4> DEFINE d == Data(thr, body)
      <4>1. d.st = "ok" /\ d.data = p
        BY <1>1
      <4>2. r = [st |-> "ok", size |-> l.size + l.n, payload |-> body, data |-> d.data, id |-> ReadVarInt(d.data).n]
        <5> HIDE DEF d
        <5>1. SubSeq(s, l.size + 1, l.size + l.n) = body
          BY <2>2, <3>2
        <5>2. QED BY <2>2, <2>5, <3>3, <3>4, <4>1, <5>1 DEF ReadPacket, d
      <4>3. QED BY <4>1, <4>2, <2>2
    <3>6. r.st = "ok" /\ r.size = Len(f) /\ r.data = p /\ r.payload = body
      BY <3>5, <1>5
    <3>7. WriteRaw(body) = f
      BY DEF WriteRaw
    <3>8. Len(f) <= Len(s)
      BY <2>5, <1>2, <1>3, <1>5
    <3>9. QED BY <2>5, <3>6, <3>7, <3>8, <1>4, <1>9
  <2>6. QED BY <2>3, <2>4, <2>5
<1>12. QED BY <1>10, <1>11

\* What WritePacket writes are bytes.
LEMMA FrameBytes ==
    ASSUME FramingAssumption, NEW thr \in Nat, NEW p, Serialised(p)
    PROVE  WritePacket(thr, p) \in Seq(Bytes) /\ Len(WritePacket(thr, p)) >= 1
<1> USE DEF FramingAssumption
<1>1. PICK body \in Seq(Bytes) :
              /\ Len(body) \in 0 .. Modulus - 1
              /\ WritePacket(thr, p) = VarInt(Len(body)) \o body
  BY FrameShape
<1> DEFINE v == VarInt(Len(body))
<1>2. v \in Seq(Bytes) /\ Len(v) \in Nat /\ Len(v) >= 1
  BY <1>1, VarIntLen, Numbers
<1> HIDE DEF v
<1>3. v \o body \in Seq(Bytes) /\ Len(v \o body) = Len(v) + Len(body) /\ Len(body) \in Nat
  BY <1>1, <1>2, ConcatProperties
<1>4. QED BY <1>1, <1>2, <1>3 DEF v

-----------------------------------------------------------------------------
(* Bytes that are packets of a sequence, one behind the other.             *)

\* s is the packets of q after the first i, up to the j-th, written with threshold thr.
Carries(s, thr, q, i, j) ==
    \E after \in [i .. j -> Seq(Bytes)] :
       /\ after[i] = s /\ after[j] = <<>>
       /\ \A k \in i + 1 .. j : after[k - 1] = WritePacket(thr, q[k]) \o after[k]

\* No packets are no bytes,
LEMMA CarriesNothing ==
    ASSUME NEW thr, NEW q, NEW i \in Nat
    PROVE  Carries(<<>>, thr, q, i, i)
<1> DEFINE after == [k \in i .. i |-> <<>>]
<1>1. after \in [i .. i -> Seq(Bytes)] /\ after[i] = <<>>
  OBVIOUS
<1>2. i + 1 .. i = {}
  OBVIOUS
<1>3. QED BY <1>1, <1>2 DEF Carries

\* and the other way round.
LEMMA CarriesEnd ==
    ASSUME NEW s, NEW thr, NEW q, NEW i \in Nat, Carries(s, thr, q, i, i)
    PROVE  s = <<>>
BY DEF Carries

\* Only the packets in question matter.
LEMMA CarriesSame ==
    ASSUME NEW s, NEW thr, NEW q, NEW r, NEW i \in Nat, NEW j \in Nat, Carries(s, thr, q, i, j),
           \A k \in i + 1 .. j : r[k] = q[k]
    PROVE  Carries(s, thr, r, i, j)
BY DEF Carries

\* The first packet, and the rest behind it.
LEMMA CarriesFirst ==
    ASSUME NEW s, NEW thr, NEW q, NEW i \in Nat, NEW j \in Nat, i < j, Carries(s, thr, q, i, j)
    PROVE  \E t \in Seq(Bytes) :
              s = WritePacket(thr, q[i + 1]) \o t /\ Carries(t, thr, q, i + 1, j)
<1>1. PICK after \in [i .. j -> Seq(Bytes)] :
       /\ after[i] = s /\ after[j] = <<>>
       /\ \A k \in i + 1 .. j : after[k - 1] = WritePacket(thr, q[k]) \o after[k]
  BY DEF Carries
<1> DEFINE left == [k \in i + 1 .. j |-> after[k]]
<1>2. left \in [i + 1 .. j -> Seq(Bytes)] /\ left[i + 1] = after[i + 1] /\ left[j] = <<>>
  BY <1>1
<1>3. ASSUME NEW k \in i + 1 + 1 .. j PROVE left[k - 1] = WritePacket(thr, q[k]) \o left[k]
  <2>1. k \in i + 1 .. j /\ k - 1 \in i + 1 .. j
    OBVIOUS
  <2>2. left[k - 1] = after[k - 1] /\ left[k] = after[k]
    BY <2>1
  <2>3. QED BY <2>1, <2>2, <1>1
<1>4. Carries(after[i + 1], thr, q, i + 1, j)
  <2> HIDE DEF left
  <2>1. QED BY <1>2, <1>3 DEF Carries
<1>5. after[i + 1] \in Seq(Bytes) /\ s = WritePacket(thr, q[i + 1]) \o after[i + 1]
  <2>1. i + 1 \in i + 1 .. j /\ i + 1 - 1 = i /\ i + 1 \in i .. j
    OBVIOUS
  <2>2. PICK k \in i + 1 .. j : k = i + 1 /\ k - 1 = i
    BY <2>1
  <2>3. after[k - 1] = WritePacket(thr, q[k]) \o after[k]
    BY <1>1
  <2>4. QED BY <2>1, <2>2, <2>3, <1>1
<1>6. QED BY <1>4, <1>5

\* Packets are bytes.
LEMMA CarriesBytes ==
    ASSUME NEW s, NEW thr, NEW q, NEW i \in Nat, NEW j \in Nat, i <= j, Carries(s, thr, q, i, j)
    PROVE  s \in Seq(Bytes)
BY DEF Carries

\* One packet more at the end.
LEMMA CarriesMore ==
    ASSUME NEW s, NEW thr, NEW q, NEW r, NEW i \in Nat, NEW j \in Nat, i <= j,
           Carries(s, thr, q, i, j), \A k \in i + 1 .. j : r[k] = q[k],
           \A k \in i + 1 .. j + 1 : WritePacket(thr, r[k]) \in Seq(Bytes)
    PROVE  Carries(s \o WritePacket(thr, r[j + 1]), thr, r, i, j + 1)
<1>1. PICK after \in [i .. j -> Seq(Bytes)] :
       /\ after[i] = s /\ after[j] = <<>>
       /\ \A k \in i + 1 .. j : after[k - 1] = WritePacket(thr, q[k]) \o after[k]
  BY DEF Carries
<1> DEFINE f == WritePacket(thr, r[j + 1])
           all == [k \in i .. j + 1 |-> IF k = j + 1 THEN <<>> ELSE after[k] \o f]
<1>2. f \in Seq(Bytes)
  OBVIOUS
<1> HIDE DEF f
<1>3. all \in [i .. j + 1 -> Seq(Bytes)]
  <2>1. ASSUME NEW k \in i .. j + 1 PROVE all[k] \in Seq(Bytes)
    <3>1. CASE k = j + 1
      BY <3>1
    <3>2. CASE k # j + 1
      <4>1. k \in i .. j
        BY <3>2
      <4>2. after[k] \in Seq(Bytes)
        BY <4>1, <1>1
      <4>3. after[k] \o f \in Seq(Bytes)
        BY <4>2, <1>2, ConcatProperties
      <4>4. QED BY <3>2, <4>3
    <3>3. QED BY <3>1, <3>2
  <2>2. QED BY <2>1
<1>4. all[i] = s \o f /\ all[j + 1] = <<>>
  BY <1>1
<1>5. ASSUME NEW k \in i + 1 .. j + 1 PROVE all[k - 1] = WritePacket(thr, r[k]) \o all[k]
  <2>1. k - 1 \in i .. j + 1 /\ k \in i .. j + 1 /\ k - 1 # j + 1 /\ k - 1 \in i .. j
    OBVIOUS
  <2>2. all[k - 1] = after[k - 1] \o f
    BY <2>1
  <2>3. CASE k = j + 1
    <3>1. all[k - 1] = <<>> \o f /\ all[k] = <<>> /\ WritePacket(thr, r[k]) = f
      BY <2>1, <2>2, <2>3, <1>1 DEF f
    <3>2. <<>> \o f = f /\ f \o <<>> = f
      BY <1>2, ConcatEmptySeq
    <3>3. QED BY <3>1, <3>2
  <2>4. CASE k # j + 1
    <3>1. k \in i + 1 .. j /\ k \in i .. j
      BY <2>4
    <3>2. after[k - 1] = WritePacket(thr, r[k]) \o after[k] /\ after[k] \in Seq(Bytes)
      BY <3>1, <1>1
    <3>3. (WritePacket(thr, r[k]) \o after[k]) \o f = WritePacket(thr, r[k]) \o (after[k] \o f)
      <4>1. WritePacket(thr, r[k]) \in Seq(Bytes)
        OBVIOUS
      <4>2. QED BY <4>1, <3>2, <1>2, Associative
    <3>4. all[k] = after[k] \o f
      BY <2>1, <2>4
    <3>5. QED BY <2>2, <3>2, <3>3, <3>4
  <2>5. QED BY <2>3, <2>4
<1> HIDE DEF all
<1>6. Carries(s \o f, thr, r, i, j + 1)
  BY <1>3, <1>4, <1>5 DEF Carries
<1>7. QED BY <1>6 DEF f

-----------------------------------------------------------------------------
(* The invariant of Relay.                                                 *)

\* What the reader has still to read: what it has read ahead, then what has arrived, then
\* what has not.
Stream == rd.ahead \o (sock \o net)

\* pkt is the packet number k of the upstream: parsed, or in a buffer nobody else can get.
IsPacket(pkt, k) ==
    \/ pkt = [raw |-> FALSE, data |-> sent[k]]
    \/ \E b \in Buffers \ free :
          /\ pkt = [raw |-> TRUE, buffer |-> b]
          /\ WriteRaw(heap[b]) = WritePacket(CompressThreshold, sent[k])

Held(pkt) == IF pkt = None THEN 0 ELSE 1

\* The dialogue of connectUpstream and the bytes behind it, by the reader's place.
AtCompression ==
    rd.pc = "compression" =>
        /\ rd.thr = 0 /\ ~rd.buffered /\ rd.ahead = <<>>
        /\ upstream.next = "compression" => Stream = <<>> /\ sent = <<>>
        /\ upstream.next = "end" => Stream = WritePacket(0, LoginKick) /\ sent = <<>>
        /\ upstream.next = "success" =>
              Stream = WritePacket(0, LoginCompression(upstream.thr)) /\ sent = <<>>
        /\ upstream.next = "play" =>
              \E u, t \in Seq(Bytes) :
                 /\ Stream = WritePacket(0, LoginCompression(upstream.thr)) \o u
                 /\ u = WritePacket(upstream.thr, LoginSuccess) \o t
                 /\ Carries(t, upstream.thr, sent, 0, Len(sent))

AtSuccess ==
    rd.pc = "success" =>
        /\ rd.thr = CompressThreshold /\ rd.buffered /\ upstream.thr = CompressThreshold
        /\ upstream.next \in {"success", "play"}
        /\ upstream.next = "success" => Stream = <<>> /\ sent = <<>>
        /\ upstream.next = "play" =>
              \E t \in Seq(Bytes) :
                 /\ Stream = WritePacket(CompressThreshold, LoginSuccess) \o t
                 /\ Carries(t, CompressThreshold, sent, 0, Len(sent))

AtPlay(r) ==
    rd.pc = "play" =>
        /\ rd.thr = CompressThreshold /\ rd.buffered /\ upstream.thr = CompressThreshold
        /\ upstream.next = "play"
        /\ Carries(Stream, CompressThreshold, sent, r, Len(sent))

\* read_packets has read r packets and the client has been written w: the ones between are
\* with the main goroutine and in the channel, in this order and in different buffers.
Order(w, r) ==
    /\ r = w + Held(cur) + Held(rd.packet) /\ Len(got) <= w
    /\ rd.pc \notin {"play", "broken"} => r = 0
    /\ cur # None => IsPacket(cur, w + 1)
    /\ rd.packet # None => rd.pc = "play" /\ IsPacket(rd.packet, r)
    /\ cur # None /\ rd.packet # None /\ cur.raw /\ rd.packet.raw => cur.buffer # rd.packet.buffer
    /\ \A k \in 1 .. r : ~TooBig(CompressThreshold, sent[k])
    /\ Carries(out, CompressThreshold, sent, Len(got), w)
    /\ \A k \in 1 .. Len(got) : got[k] = sent[k]

Broken ==
    rd.pc = "broken" =>
        upstream.next = "play" /\ \E i \in 1 .. Len(sent) : TooBig(CompressThreshold, sent[i])

InOrder ==
    AtCompression /\ AtSuccess /\ Broken /\ \E w, r \in 0 .. Len(sent) : Order(w, r) /\ AtPlay(r)

Packet == [raw : {FALSE}, data : Packets] \cup [raw : {TRUE}, buffer : Buffers]

Shape ==
    /\ upstream \in [thr : Thresholds, next : {"compression", "success", "play", "end"}]
    /\ sent \in Seq(Packets) /\ got \in Seq(Packets)
    /\ net \in Seq(Bytes) /\ sock \in Seq(Bytes) /\ out \in Seq(Bytes)
    /\ rd \in [pc : {"compression", "success", "play", "broken", "failed"}, thr : Nat,
               buffered : BOOLEAN, ahead : Seq(Bytes), packet : Packet \cup {None}]
    /\ heap \in [Buffers -> Seq(Bytes)] /\ free \subseteq Buffers
    /\ cur \in Packet \cup {None}

Reader == [pc : {"compression", "success", "play", "broken", "failed"}, thr : Nat,
           buffered : BOOLEAN, ahead : Seq(Bytes), packet : Packet \cup {None}]

RelayInv == Shape /\ InOrder

Constants == FramingAssumption /\ RelayAssumption

-----------------------------------------------------------------------------
\* What the assumptions say of each packet.
LEMMA ConstantFacts ==
    ASSUME Constants
    PROVE  /\ CompressThreshold \in Nat /\ CompressThreshold \in 0 .. Modulus - 1
           /\ \A t \in Thresholds : t \in Nat /\ t \in 0 .. Modulus - 1 /\ Serialised(LoginCompression(t))
           /\ \A p \in Packets : Serialised(p)
           /\ Serialised(LoginKick) /\ Serialised(LoginSuccess)
           /\ ~TooBig(CompressThreshold, LoginSuccess)
<1>1. CompressThreshold \in Nat /\ CompressThreshold \in 0 .. Modulus - 1
  BY Numbers DEF Constants, RelayAssumption
<1>2. \A t \in Thresholds : t \in Nat /\ t \in 0 .. Modulus - 1
  BY Numbers DEF Constants, RelayAssumption
<1>3. \A p \in Packets \cup Dialogue : Serialised(p)
  BY DEF Constants, RelayAssumption
<1>4. /\ \A t \in Thresholds : LoginCompression(t) \in Dialogue
      /\ LoginKick \in Dialogue /\ LoginSuccess \in Dialogue
  BY DEF Dialogue
<1>5. QED BY <1>1, <1>2, <1>3, <1>4 DEF Constants, RelayAssumption

\* The packets of the dialogue are told apart by what they say.
LEMMA DialogueDiffers ==
    ASSUME Constants, NEW t \in Thresholds
    PROVE  /\ LoginCompression(t) = LoginCompression(CompressThreshold) => t = CompressThreshold
           /\ LoginKick # LoginCompression(t) /\ LoginKick # LoginSuccess
           /\ LoginSuccess # LoginCompression(t)
           /\ LoginKick # LoginCompression(CompressThreshold)
<1>0. FramingAssumption /\ VarIntsAssumption
  BY DEF Constants, FramingAssumption
<1>1. 0 \in 0 .. Modulus - 1 /\ 2 \in 0 .. Modulus - 1 /\ 3 \in 0 .. Modulus - 1
  <2>1. Len(LoginKick) \in Nat /\ Len(LoginKick) + Digits + 2 < Modulus
    BY <1>0, ConstantFacts, SerialisedBounds
  <2>2. QED BY <2>1, <1>0, Numbers
<1>2. ASSUME NEW n \in 0 .. Modulus - 1, NEW u \in Seq(Bytes)
      PROVE  ReadVarInt(VarInt(n) \o u).n = n /\ VarInt(n) \o u \in Seq(Bytes)
  <2> DEFINE v == VarInt(n)
             s == v \o u
             e == <<>>
  <2>1. v \in Seq(Bytes) /\ e \in Seq(Bytes) /\ Len(v) \in Nat /\ Len(u) \in Nat
    BY <1>0, VarIntLen, Numbers
  <2>2. s \in Seq(Bytes) /\ Len(s) = Len(v) + Len(u)
    <3> HIDE DEF v
    <3>1. QED BY <2>1, ConcatProperties
  <2>3. s \o e = v \o u
    BY <2>2, ConcatEmptySeq
  <2>4. ~(Len(s) < Len(v))
    BY <2>1, <2>2
  <2> HIDE DEF s, e
  <2>5. IF Len(s) < Len(VarInt(n)) THEN ReadVarInt(s) = Short
          ELSE ReadVarInt(s) = [st |-> "ok", size |-> Len(VarInt(n)), n |-> n]
    BY <2>1, <2>2, <2>3, <1>0, ReadVarIntBack
  <2>6. QED BY <2>2, <2>4, <2>5 DEF s
<1>3. ASSUME NEW n \in 0 .. Modulus - 1
      PROVE  ReadVarInt(VarInt(n)).n = n /\ VarInt(n) \in Seq(Bytes)
  <2>1. VarInt(n) \in Seq(Bytes) /\ <<>> \in Seq(Bytes)
    BY <1>0, VarIntLen
  <2>2. VarInt(n) \o <<>> = VarInt(n)
    BY <2>1, ConcatEmptySeq
  <2>3. ReadVarInt(VarInt(n) \o <<>>).n = n
    BY <2>1, <1>2
  <2>4. QED BY <2>1, <2>2, <2>3
<1>4. /\ ReadVarInt(LoginKick).n = 0 /\ ReadVarInt(LoginSuccess).n = 2
      /\ \A k \in 0 .. Modulus - 1 : ReadVarInt(LoginCompression(k)).n = 3
  BY <1>1, <1>2, <1>3 DEF LoginKick, LoginSuccess, LoginCompression
<1>5. t \in 0 .. Modulus - 1 /\ CompressThreshold \in 0 .. Modulus - 1
  BY ConstantFacts
<1>6. ASSUME LoginCompression(t) = LoginCompression(CompressThreshold)
      PROVE  t = CompressThreshold
  <2>1. Drop(LoginCompression(t), Len(VarInt(3))) = VarInt(t)
    BY <1>1, <1>3, <1>5, DropConcat DEF LoginCompression
  <2>2. Drop(LoginCompression(CompressThreshold), Len(VarInt(3))) = VarInt(CompressThreshold)
    BY <1>1, <1>3, <1>5, DropConcat DEF LoginCompression
  <2>3. VarInt(t) = VarInt(CompressThreshold)
    BY <2>1, <2>2, <1>6
  <2>4. QED BY <2>3, <1>3, <1>5
<1>7. QED BY <1>4, <1>5, <1>6

\* There is nothing to read in no bytes.
LEMMA NothingToRead ==
    ASSUME FramingAssumption, NEW thr
    PROVE  ReadPacket(thr, <<>>).st = "short"
<1> USE DEF FramingAssumption
<1>1. {i \in 1 .. Len(<<>>) : <<>>[i] < Base} = {}
  OBVIOUS
<1>2. Len(<<>>) < 2 * Digits
  BY Numbers
<1>3. ReadVarInt(<<>>) = Short
  BY <1>1, <1>2 DEF ReadVarInt
<1>4. QED BY <1>3 DEF ReadPacket, Short

\* The reader's stream are bytes; when there are none, the reader can get at none.
LEMMA StreamBytes ==
    ASSUME Shape
    PROVE  /\ sock \o net \in Seq(Bytes) /\ Stream \in Seq(Bytes) /\ rd.ahead \in Seq(Bytes)
           /\ rd.ahead = <<>> => Stream = sock \o net
           /\ Stream = <<>> => Input = <<>>
<1>1. rd.ahead \in Seq(Bytes) /\ sock \in Seq(Bytes) /\ net \in Seq(Bytes)
  BY DEF Shape
<1> DEFINE a == rd.ahead
           x == sock \o net
<1>2. x \in Seq(Bytes)
  BY <1>1, ConcatProperties
<1>3. a \o x \in Seq(Bytes) /\ (a = <<>> => a \o x = x)
  <2> HIDE DEF x, a
  <2>1. a \in Seq(Bytes)
    BY <1>1 DEF a
  <2>2. QED BY <2>1, <1>2, ConcatProperties, ConcatEmptySeq
<1>4. ASSUME Stream = <<>> PROVE a = <<>> /\ sock = <<>>
  <2>1. a = <<>> /\ x = <<>>
    <3>1. a \o x = <<>>
      BY <1>4 DEF Stream
    <3> HIDE DEF x
    <3>2. QED BY <1>1, <1>2, <3>1, ConcatEqualIffEmpty
  <2>2. QED BY <2>1, <1>1, ConcatEqualIffEmpty
<1>5. QED BY <1>1, <1>2, <1>3, <1>4 DEF Stream, Input

\* A reader in front of a packet of its threshold waits for it, refuses it for its length, or
\* reads it and has what follows it before it.
LEMMA ReadsNext ==
    ASSUME FramingAssumption, Shape, rd.buffered \/ rd.ahead = <<>>,
           NEW p, Serialised(p), NEW u \in Seq(Bytes), Stream = WritePacket(rd.thr, p) \o u
    PROVE  LET r == ReadPacket(rd.thr, Input) IN
           \/ r.st = "short"
           \/ r.st = "bad" /\ TooBig(rd.thr, p)
           \/ /\ r.st = "ok" /\ r.data = p /\ ~TooBig(rd.thr, p)
              /\ r.payload \in Seq(Bytes) /\ WriteRaw(r.payload) = WritePacket(rd.thr, p)
              /\ IF rd.buffered
                 THEN Drop(rd.ahead, r.size) \in Seq(Bytes) /\ Drop(rd.ahead, r.size) \o (sock \o net) = u
                 ELSE Drop(sock, r.size) \in Seq(Bytes) /\ Drop(sock, r.size) \o net = u
<1> USE DEF FramingAssumption
<1> DEFINE f == WritePacket(rd.thr, p)
           t == IF rd.buffered THEN sock \o net ELSE net
           r == ReadPacket(rd.thr, Input)
<1>1. rd.thr \in Nat /\ f \in Seq(Bytes)
  BY FrameBytes DEF Shape
<1>2. Input \in Seq(Bytes) /\ t \in Seq(Bytes) /\ Input \o t = f \o u
  <2>1. CASE rd.buffered
    BY <2>1, StreamBytes DEF Input, Stream
  <2>2. CASE ~rd.buffered
    BY <2>2, StreamBytes DEF Input, Shape
  <2>3. QED BY <2>1, <2>2
<1> HIDE DEF t
<1>3. \/ r.st = "short"
      \/ r.st = "bad" /\ TooBig(rd.thr, p)
      \/ /\ r.st = "ok" /\ r.data = p /\ r.size = Len(f)
         /\ Len(f) <= Len(Input) /\ ~TooBig(rd.thr, p)
         /\ r.payload \in Seq(Bytes) /\ WriteRaw(r.payload) = f
  <2>1. InFront(rd.thr, p, Input, t, u)
    BY <1>1, <1>2 DEF InFront
  <2>2. QED BY <2>1, ReadPacketReturns
<1>4. ASSUME Len(f) <= Len(Input)
      PROVE  Drop(Input, Len(f)) \in Seq(Bytes) /\ Drop(Input, Len(f)) \o t = u
  <2>1. Holds(Input, t, f, u)
    BY <1>1, <1>2, <1>4 DEF Holds
  <2> HIDE DEF f
  <2>2. QED BY <2>1, TakeFirst
<1> HIDE DEF f, r
<1>5. ASSUME r.st = "ok", r.size = Len(f), Len(f) <= Len(Input)
      PROVE  IF rd.buffered
                 THEN Drop(rd.ahead, r.size) \in Seq(Bytes) /\ Drop(rd.ahead, r.size) \o (sock \o net) = u
                 ELSE Drop(sock, r.size) \in Seq(Bytes) /\ Drop(sock, r.size) \o net = u
  <2>1. CASE rd.buffered
    BY <2>1, <1>4, <1>5 DEF t, Input
  <2>2. CASE ~rd.buffered
    BY <2>2, <1>4, <1>5 DEF t, Input
  <2>3. QED BY <2>1, <2>2
<1>6. QED BY <1>3, <1>5 DEF f, r

-----------------------------------------------------------------------------
(* The steps.                                                              *)

\* What has been read stays in order while the reader reads something else.
LEMMA OrderKept ==
    ASSUME Shape, NEW w \in Nat, NEW r \in 0 .. Len(sent), Order(w, r),
           \A k \in 1 .. Len(sent) : sent'[k] = sent[k],
           UNCHANGED <<heap, free, cur, out, got>>, rd'.packet = rd.packet,
           rd'.pc \notin {"play", "broken"} => r = 0, rd.packet # None => rd'.pc = "play"
    PROVE  Order(w, r)'
<1> USE DEF Order
<1>1. r = w + Held(cur) + Held(rd.packet) /\ Len(got) <= w
  OBVIOUS
<1>2. Held(cur) \in 0 .. 1 /\ Held(rd.packet) \in 0 .. 1
  BY DEF Held
<1>3. w <= r /\ \A k \in 1 .. r : k \in 1 .. Len(sent)
  BY <1>1, <1>2
<1>4. ASSUME NEW pkt, NEW k \in 1 .. r, IsPacket(pkt, k)
      PROVE  IsPacket(pkt, k)'
  <2>1. sent'[k] = sent[k]
    BY <1>3
  <2>2. CASE pkt = [raw |-> FALSE, data |-> sent[k]]
    BY <2>1, <2>2 DEF IsPacket
  <2>3. CASE \E b \in Buffers \ free :
          /\ pkt = [raw |-> TRUE, buffer |-> b]
          /\ WriteRaw(heap[b]) = WritePacket(CompressThreshold, sent[k])
    BY <2>1, <2>3 DEF IsPacket
  <2>4. QED BY <1>4, <2>2, <2>3 DEF IsPacket
<1>5. (r = w + Held(cur) + Held(rd.packet) /\ Len(got) <= w)'
  BY <1>1 DEF Held
<1>6. (cur # None => IsPacket(cur, w + 1))'
  <2>1. cur # None => w + 1 \in 1 .. r
    BY <1>1, <1>2 DEF Held
  <2>2. QED BY <2>1, <1>4
<1>7. (rd.packet # None => rd.pc = "play" /\ IsPacket(rd.packet, r))'
  <2>1. rd.packet # None => r \in 1 .. r
    BY <1>1, <1>2 DEF Held
  <2>2. QED BY <2>1, <1>4
<1>8. (\A k \in 1 .. r : ~TooBig(CompressThreshold, sent[k]))'
  BY <1>3
<1>9. Carries(out, CompressThreshold, sent, Len(got), w)'
  <2>1. Carries(out, CompressThreshold, sent, Len(got), w)
    OBVIOUS
  <2>2. out' = out /\ got' = got
    OBVIOUS
  <2>3. Carries(out, CompressThreshold, sent', Len(got), w)
    <3> DEFINE g == Len(got)
    <3>1. \A k \in g + 1 .. w : sent'[k] = sent[k]
      <4>1. ASSUME g \in Nat, NEW k \in g + 1 .. w PROVE k \in 1 .. r
        BY <4>1, <1>3
      <4>2. g \in Nat
        BY DEF Shape
      <4>3. QED BY <4>1, <4>2, <1>3
    <3>2. QED BY <2>1, <3>1, CarriesSame
  <2>4. QED BY <2>2, <2>3
<1>10. (\A k \in 1 .. Len(got) : got[k] = sent[k])'
  <2>1. \A k \in 1 .. Len(got) : k \in 1 .. r
    BY <1>1, <1>3 DEF Shape
  <2>2. QED BY <2>1, <1>3
<1>11. QED BY <1>5, <1>6, <1>7, <1>8, <1>9, <1>10

\* The stages do not change while the reader's stream is the same.
LEMMA StageKept ==
    ASSUME AtCompression, AtSuccess, Broken, Stream' = Stream, UNCHANGED <<upstream, sent>>,
           rd'.pc = rd.pc, rd'.thr = rd.thr, rd'.buffered = rd.buffered,
           ~rd.buffered => rd'.ahead = rd.ahead
    PROVE  /\ AtCompression' /\ AtSuccess' /\ Broken'
           /\ \A r : AtPlay(r) => AtPlay(r)'
<1>1. AtCompression'
  BY DEF AtCompression
<1>2. AtSuccess'
  BY DEF AtSuccess
<1>3. Broken'
  BY DEF Broken
<1>4. ASSUME NEW r, AtPlay(r) PROVE AtPlay(r)'
  BY <1>4 DEF AtPlay
<1>5. QED BY <1>1, <1>2, <1>3, <1>4

\* The parts of the invariant.
LEMMA RelayInvParts ==
    ASSUME RelayInv
    PROVE  /\ Shape /\ AtCompression /\ AtSuccess /\ Broken /\ Len(sent) \in Nat
           /\ \E w, r \in 0 .. Len(sent) : Order(w, r) /\ AtPlay(r)
BY DEF RelayInv, InOrder, Shape

\* Nothing has been sent at first.
LEMMA RelayInvInit ==
    ASSUME Constants, Init
    PROVE  RelayInv
<1>1. /\ upstream \in [thr : Thresholds, next : {"compression"}]
      /\ sent = <<>> /\ net = <<>> /\ sock = <<>> /\ rd = NewReader
      /\ heap = [b \in Buffers |-> <<>>] /\ free = Buffers /\ cur = None /\ out = <<>> /\ got = <<>>
  BY DEF Init
<1>2. upstream.next = "compression" /\ rd.pc = "compression" /\ rd.thr = 0 /\ rd.buffered = FALSE
      /\ rd.ahead = <<>> /\ rd.packet = None
  BY <1>1 DEF NewReader
<1>3. Shape
  <2>1. upstream \in [thr : Thresholds, next : {"compression", "success", "play", "end"}]
    BY <1>1
  <2>2. rd \in [pc : {"compression", "success", "play", "broken", "failed"}, thr : Nat,
                buffered : BOOLEAN, ahead : Seq(Bytes), packet : Packet \cup {None}]
    BY <1>1 DEF NewReader
  <2>3. heap \in [Buffers -> Seq(Bytes)]
    BY <1>1
  <2>4. QED BY <1>1, <2>1, <2>2, <2>3 DEF Shape
<1>4. Stream = <<>>
  BY <1>1, <1>2 DEF Stream
<1>5. AtCompression /\ AtSuccess /\ Broken
  BY <1>1, <1>2, <1>4 DEF AtCompression, AtSuccess, Broken
<1>6. Order(0, 0) /\ AtPlay(0)
  <2>1. Carries(<<>>, CompressThreshold, <<>>, 0, 0)
    BY CarriesNothing
  <2>2. Len(got) = 0 /\ Held(cur) = 0 /\ Held(rd.packet) = 0
    BY <1>1, <1>2 DEF Held
  <2>3. Order(0, 0)
    BY <2>1, <2>2, <1>1, <1>2 DEF Order
  <2>4. QED BY <2>3, <1>2 DEF AtPlay
<1>7. 0 \in 0 .. Len(sent)
  BY <1>1
<1>8. QED BY <1>3, <1>5, <1>6, <1>7 DEF RelayInv, InOrder

\* What the upstream sends comes after all that is on its way.
LEMMA SendsBehind ==
    ASSUME Shape, NEW bytes \in Seq(Bytes), NEW next, UpstreamSends(bytes, next)
    PROVE  Stream' = Stream \o bytes /\ net' \in Seq(Bytes)
<1>1. net' = net \o bytes /\ sock' = sock /\ rd' = rd
  BY DEF UpstreamSends
<1>2. net \in Seq(Bytes) /\ sock \in Seq(Bytes) /\ rd.ahead \in Seq(Bytes)
  BY DEF Shape
<1>3. sock \o (net \o bytes) = (sock \o net) \o bytes
  BY <1>2, Associative
<1>4. rd.ahead \o ((sock \o net) \o bytes) = (rd.ahead \o (sock \o net)) \o bytes
  BY <1>2, StreamBytes, Associative
<1>5. net \o bytes \in Seq(Bytes)
  BY <1>2, ConcatProperties
<1>6. QED BY <1>1, <1>3, <1>4, <1>5 DEF Stream

\* No bytes before or behind others.
LEMMA EmptyBefore ==
    \A s \in Seq(Bytes) : <<>> \o s = s /\ s \o <<>> = s
BY ConcatEmptySeq

\* The dialogue goes on where the reader expects it.
LEMMA UpstreamLoginStep ==
    ASSUME Constants, RelayInv, UpstreamLogin
    PROVE  RelayInv'
<1>0. FramingAssumption
  BY DEF Constants
<1>1. PICK w \in 0 .. Len(sent), r \in 0 .. Len(sent) : Order(w, r) /\ AtPlay(r)
  BY RelayInvParts
<1> DEFINE thr == upstream.thr
<1>2. Shape /\ AtCompression /\ AtSuccess /\ Broken /\ thr \in Thresholds /\ thr \in Nat
  BY RelayInvParts, ConstantFacts DEF Shape
<1>3. /\ WritePacket(0, LoginCompression(thr)) \in Seq(Bytes) /\ WritePacket(0, LoginKick) \in Seq(Bytes)
      /\ WritePacket(thr, LoginSuccess) \in Seq(Bytes)
  BY <1>0, <1>2, ConstantFacts, FrameBytes
<1>4. PICK bytes \in Seq(Bytes), next \in {"compression", "success", "play", "end"} :
         /\ UpstreamSends(bytes, next) /\ sent' = sent
         /\ \/ upstream.next = "compression" /\ next = "success" /\ bytes = WritePacket(0, LoginCompression(thr))
            \/ upstream.next = "compression" /\ next = "end" /\ bytes = WritePacket(0, LoginKick)
            \/ upstream.next = "success" /\ next = "play" /\ bytes = WritePacket(thr, LoginSuccess)
  <2>1. CASE /\ upstream.next = "compression"
             /\ UpstreamSends(WritePacket(0, LoginCompression(upstream.thr)), "success")
             /\ UNCHANGED sent
    BY <2>1, <1>3
  <2>2. CASE /\ upstream.next = "compression"
             /\ UpstreamSends(WritePacket(0, LoginKick), "end")
             /\ UNCHANGED sent
    BY <2>2, <1>3
  <2>3. CASE /\ upstream.next = "success"
             /\ UpstreamSends(WritePacket(upstream.thr, LoginSuccess), "play")
             /\ UNCHANGED sent
    BY <2>3, <1>3
  <2>4. QED BY <2>1, <2>2, <2>3 DEF UpstreamLogin
<1>5. /\ upstream'.thr = thr /\ upstream'.next = next
      /\ UNCHANGED <<sent, sock, rd, heap, free, cur, out, got>>
  BY <1>2, <1>4 DEF UpstreamSends, Shape
<1>6. Stream' = Stream \o bytes /\ net' \in Seq(Bytes)
  BY <1>2, <1>4, SendsBehind
<1>7. Shape'
  <2>1. upstream' \in [thr : Thresholds, next : {"compression", "success", "play", "end"}]
    BY <1>2, <1>4 DEF UpstreamSends, Shape
  <2>2. QED BY <2>1, <1>2, <1>5, <1>6 DEF Shape
<1>8. Carries(<<>>, thr, <<>>, 0, 0)
  BY CarriesNothing
<1>9. AtCompression'
  <2>1. SUFFICES ASSUME rd.pc = "compression" PROVE AtCompression'
    BY <1>5 DEF AtCompression
  <2>2. rd.thr = 0 /\ ~rd.buffered /\ rd.ahead = <<>>
    BY <1>2, <2>1 DEF AtCompression
  <2>3. CASE upstream.next = "compression"
    <3>1. Stream' = bytes /\ sent = <<>>
      BY <2>1, <2>3, <1>2, <1>6, EmptyBefore DEF AtCompression
    <3>2. QED BY <2>2, <2>3, <3>1, <1>4, <1>5 DEF AtCompression
  <2>4. CASE upstream.next = "success"
    <3>1. Stream = WritePacket(0, LoginCompression(thr)) /\ sent = <<>>
          /\ next = "play" /\ bytes = WritePacket(thr, LoginSuccess)
      BY <2>1, <2>4, <1>2, <1>4 DEF AtCompression
    <3>2. bytes = WritePacket(thr, LoginSuccess) \o <<>>
      BY <3>1, EmptyBefore
    <3>3. Carries(<<>>, thr, sent, 0, Len(sent)) /\ <<>> \in Seq(Bytes)
      BY <3>1, <1>8
    <3>4. \E u, t \in Seq(Bytes) :
                 /\ Stream' = WritePacket(0, LoginCompression(thr)) \o u
                 /\ u = WritePacket(thr, LoginSuccess) \o t
                 /\ Carries(t, thr, sent, 0, Len(sent))
      BY <3>1, <3>2, <3>3, <1>6
    <3>5. QED BY <2>2, <3>1, <3>4, <1>5 DEF AtCompression
  <2>5. QED BY <2>3, <2>4, <1>4
<1>10. AtSuccess'
  <2>1. SUFFICES ASSUME rd.pc = "success" PROVE AtSuccess'
    BY <1>5 DEF AtSuccess
  <2>2. rd.thr = CompressThreshold /\ rd.buffered /\ thr = CompressThreshold
        /\ upstream.next = "success" /\ Stream = <<>> /\ sent = <<>>
    BY <1>2, <1>4, <2>1 DEF AtSuccess
  <2>3. next = "play" /\ bytes = WritePacket(thr, LoginSuccess)
    BY <2>2, <1>4
  <2>4. Stream' = WritePacket(CompressThreshold, LoginSuccess) \o <<>>
    BY <2>2, <2>3, <1>6, EmptyBefore
  <2>5. Carries(<<>>, CompressThreshold, sent, 0, Len(sent)) /\ <<>> \in Seq(Bytes)
    BY <2>2, <1>8
  <2>6. QED BY <2>2, <2>3, <2>4, <2>5, <1>5 DEF AtSuccess
<1>11. rd.pc # "play" /\ Broken'
  BY <1>2, <1>4, <1>5, <1>1 DEF Broken, AtPlay
<1>12. AtPlay(r)'
  BY <1>11, <1>5 DEF AtPlay
<1>13. Order(w, r)'
  <2>1. w \in Nat /\ r \in 0 .. Len(sent) /\ (rd.packet # None => rd.pc = "play")
        /\ (rd.pc \notin {"play", "broken"} => r = 0)
    BY <1>1 DEF Order
  <2>2. QED BY <2>1, <1>1, <1>2, <1>5, OrderKept
<1>14. w \in 0 .. Len(sent') /\ r \in 0 .. Len(sent')
  BY <1>5
<1>15. QED BY <1>7, <1>9, <1>10, <1>11, <1>12, <1>13, <1>14 DEF RelayInv, InOrder

\* The packet that the upstream adds comes last.
LEMMA CarriesSent ==
    ASSUME Constants, NEW q \in Seq(Packets), NEW p \in Packets, NEW thr \in Nat,
           NEW i \in 0 .. Len(q), NEW t, Carries(t, thr, q, i, Len(q))
    PROVE  /\ t \in Seq(Bytes) /\ WritePacket(thr, p) \in Seq(Bytes)
           /\ Carries(t \o WritePacket(thr, p), thr, Append(q, p), i, Len(Append(q, p)))
<1> DEFINE a == Append(q, p)
<1>1. /\ Len(a) = Len(q) + 1 /\ a[Len(q) + 1] = p /\ Len(q) \in Nat
      /\ \A k \in 1 .. Len(q) : a[k] = q[k]
  BY AppendProperties
<1>2. \A k \in 1 .. Len(q) + 1 : a[k] \in Packets
  <2>1. a \in Seq(Packets)
    BY AppendProperties
  <2> HIDE DEF a
  <2>2. QED BY <1>1, <2>1
<1> HIDE DEF a
<1>3. FramingAssumption
  BY DEF Constants
<1>4. \A k \in 1 .. Len(q) + 1 : WritePacket(thr, a[k]) \in Seq(Bytes)
  BY <1>2, <1>3, ConstantFacts, FrameBytes
<1>5. i \in Nat /\ i <= Len(q)
  BY <1>1
<1>6. (\A k \in i + 1 .. Len(q) : a[k] = q[k])
      /\ (\A k \in i + 1 .. Len(q) + 1 : WritePacket(thr, a[k]) \in Seq(Bytes))
  <2>1. \A k \in i + 1 .. Len(q) : k \in 1 .. Len(q)
    BY <1>1, <1>5
  <2>2. \A k \in i + 1 .. Len(q) + 1 : k \in 1 .. Len(q) + 1
    BY <1>1, <1>5
  <2>3. QED BY <2>1, <2>2, <1>1, <1>4
<1>7. Carries(t \o WritePacket(thr, a[Len(q) + 1]), thr, a, i, Len(q) + 1)
  BY <1>1, <1>5, <1>6, CarriesMore
<1>8. t \in Seq(Bytes)
  BY <1>1, <1>5, CarriesBytes
<1>9. WritePacket(thr, p) \in Seq(Bytes)
  BY <1>3, ConstantFacts, FrameBytes
<1>10. QED BY <1>1, <1>7, <1>8, <1>9 DEF a

\* A PLAY packet goes behind the dialogue and the packets before it.
LEMMA UpstreamPlaysStep ==
    ASSUME Constants, RelayInv, NEW p \in Packets, UpstreamPlays(p)
    PROVE  RelayInv'
<1>1. PICK w \in 0 .. Len(sent), r \in 0 .. Len(sent) : Order(w, r) /\ AtPlay(r)
  BY RelayInvParts
<1> DEFINE thr == upstream.thr
           f == WritePacket(thr, p)
<1>2. Shape /\ AtCompression /\ AtSuccess /\ Broken /\ thr \in Thresholds /\ thr \in Nat
      /\ sent \in Seq(Packets) /\ Len(sent) \in Nat /\ FramingAssumption
  BY RelayInvParts, ConstantFacts DEF Shape, Constants
<1>3. f \in Seq(Bytes)
  BY <1>2, ConstantFacts, FrameBytes
<1>4. /\ upstream.next = "play" /\ UpstreamSends(f, "play") /\ sent' = Append(sent, p)
  BY DEF UpstreamPlays
<1>5. /\ upstream'.thr = thr /\ upstream'.next = "play"
      /\ UNCHANGED <<sock, rd, heap, free, cur, out, got>>
  BY <1>2, <1>4 DEF UpstreamSends, Shape
<1>6. Stream' = Stream \o f /\ net' \in Seq(Bytes)
  BY <1>2, <1>3, <1>4, SendsBehind
<1>7. Shape'
  <2>1. upstream' \in [thr : Thresholds, next : {"compression", "success", "play", "end"}]
    BY <1>2, <1>4 DEF UpstreamSends, Shape
  <2>2. sent' \in Seq(Packets)
    BY <1>2, <1>4, AppendProperties
  <2>3. QED BY <2>1, <2>2, <1>2, <1>5, <1>6 DEF Shape
<1>8. /\ Len(sent') = Len(sent) + 1 /\ \A k \in 1 .. Len(sent) : sent'[k] = sent[k]
  BY <1>2, <1>4, AppendProperties
<1>9. \A i \in 0 .. Len(sent) : \A t : Carries(t, thr, sent, i, Len(sent))
         => t \in Seq(Bytes) /\ Carries(t \o f, thr, sent', i, Len(sent'))
  BY <1>2, <1>4, CarriesSent
<1> HIDE DEF f
<1>10. AtCompression'
  <2>1. SUFFICES ASSUME rd.pc = "compression" PROVE AtCompression'
    BY <1>5 DEF AtCompression
  <2>2. rd.thr = 0 /\ ~rd.buffered /\ rd.ahead = <<>>
    BY <1>2, <2>1 DEF AtCompression
  <2>3. PICK u, t \in Seq(Bytes) :
                 /\ Stream = WritePacket(0, LoginCompression(thr)) \o u
                 /\ u = WritePacket(thr, LoginSuccess) \o t
                 /\ Carries(t, thr, sent, 0, Len(sent))
    BY <1>2, <1>4, <2>1 DEF AtCompression
  <2>4. WritePacket(0, LoginCompression(thr)) \in Seq(Bytes) /\ WritePacket(thr, LoginSuccess) \in Seq(Bytes)
    BY <1>2, ConstantFacts, FrameBytes
  <2>5. /\ Stream' = WritePacket(0, LoginCompression(thr)) \o (u \o f)
        /\ u \o f = WritePacket(thr, LoginSuccess) \o (t \o f)
        /\ u \o f \in Seq(Bytes) /\ t \o f \in Seq(Bytes)
    <3>1. (WritePacket(0, LoginCompression(thr)) \o u) \o f = WritePacket(0, LoginCompression(thr)) \o (u \o f)
      BY <2>4, <1>3, Associative
    <3>2. (WritePacket(thr, LoginSuccess) \o t) \o f = WritePacket(thr, LoginSuccess) \o (t \o f)
      BY <2>4, <1>3, Associative
    <3>3. u \o f \in Seq(Bytes) /\ t \o f \in Seq(Bytes)
      BY <1>3, ConcatProperties
    <3>4. QED BY <3>1, <3>2, <3>3, <2>3, <1>6
  <2>6. Carries(t \o f, thr, sent', 0, Len(sent'))
    BY <2>3, <1>2, <1>9
  <2>7. QED BY <2>2, <2>5, <2>6, <1>5 DEF AtCompression
<1>11. AtSuccess'
  <2>1. SUFFICES ASSUME rd.pc = "success" PROVE AtSuccess'
    BY <1>5 DEF AtSuccess
  <2>2. PICK t \in Seq(Bytes) :
                 /\ rd.thr = CompressThreshold /\ rd.buffered /\ thr = CompressThreshold
                 /\ Stream = WritePacket(CompressThreshold, LoginSuccess) \o t
                 /\ Carries(t, CompressThreshold, sent, 0, Len(sent))
    BY <1>2, <1>4, <2>1 DEF AtSuccess
  <2>4. WritePacket(CompressThreshold, LoginSuccess) \in Seq(Bytes)
    BY <1>2, ConstantFacts, FrameBytes
  <2>5. /\ Stream' = WritePacket(CompressThreshold, LoginSuccess) \o (t \o f)
        /\ t \o f \in Seq(Bytes)
    BY <2>2, <2>4, <1>3, <1>6, Associative, ConcatProperties
  <2>6. Carries(t \o f, CompressThreshold, sent', 0, Len(sent'))
    BY <2>2, <1>2, <1>9
  <2>7. QED BY <2>2, <2>5, <2>6, <1>5 DEF AtSuccess
<1>12. AtPlay(r)'
  <2>1. SUFFICES ASSUME rd.pc = "play" PROVE AtPlay(r)'
    BY <1>5 DEF AtPlay
  <2>2. rd.thr = CompressThreshold /\ rd.buffered /\ thr = CompressThreshold
        /\ Carries(Stream, CompressThreshold, sent, r, Len(sent))
    BY <2>1, <1>1 DEF AtPlay
  <2>3. Carries(Stream', CompressThreshold, sent', r, Len(sent'))
    BY <2>2, <1>1, <1>6, <1>9
  <2>4. QED BY <2>2, <2>3, <1>5 DEF AtPlay
<1>13. Broken'
  <2>1. SUFFICES ASSUME rd.pc = "broken" PROVE Broken'
    BY <1>5 DEF Broken
  <2>2. PICK i \in 1 .. Len(sent) : TooBig(CompressThreshold, sent[i])
    BY <2>1, <1>2 DEF Broken
  <2>3. i \in 1 .. Len(sent') /\ TooBig(CompressThreshold, sent'[i])
    BY <2>2, <1>2, <1>8
  <2>4. QED BY <2>3, <1>5 DEF Broken
<1>14. Order(w, r)'
  <2>1. w \in Nat /\ r \in 0 .. Len(sent) /\ (rd.packet # None => rd.pc = "play")
        /\ (rd.pc \notin {"play", "broken"} => r = 0)
    BY <1>1 DEF Order
  <2>2. QED BY <2>1, <1>1, <1>2, <1>5, <1>8, OrderKept
<1>15. w \in 0 .. Len(sent') /\ r \in 0 .. Len(sent')
  BY <1>2, <1>8
<1>16. QED BY <1>7, <1>10, <1>11, <1>12, <1>13, <1>14, <1>15 DEF RelayInv, InOrder

\* The stream is the same wherever its bytes are.
LEMMA MovedStep ==
    ASSUME Constants, RelayInv, Shape', Stream' = Stream, UNCHANGED <<upstream, sent, heap, free, cur, out, got>>,
           rd'.pc = rd.pc, rd'.thr = rd.thr, rd'.buffered = rd.buffered, rd'.packet = rd.packet,
           ~rd.buffered => rd'.ahead = rd.ahead
    PROVE  RelayInv'
<1>1. PICK w \in 0 .. Len(sent), r \in 0 .. Len(sent) : Order(w, r) /\ AtPlay(r)
  BY RelayInvParts
<1>2. Shape /\ AtCompression /\ AtSuccess /\ Broken
  BY RelayInvParts
<1>3. AtCompression' /\ AtSuccess' /\ Broken' /\ AtPlay(r)'
  BY <1>1, <1>2, StageKept
<1>4. Order(w, r)'
  <2>1. w \in Nat /\ r \in 0 .. Len(sent) /\ (rd.packet # None => rd.pc = "play")
        /\ (rd.pc \notin {"play", "broken"} => r = 0)
    BY <1>1 DEF Order
  <2>2. QED BY <2>1, <1>1, <1>2, OrderKept
<1>5. w \in 0 .. Len(sent') /\ r \in 0 .. Len(sent')
  OBVIOUS
<1>6. QED BY <1>3, <1>4, <1>5 DEF RelayInv, InOrder

\* A stream that is cut is the same stream.
LEMMA CutRejoined ==
    ASSUME NEW s \in Seq(Bytes), NEW n \in 1 .. Len(s)
    PROVE  /\ SubSeq(s, 1, n) \in Seq(Bytes) /\ Drop(s, n) \in Seq(Bytes)
           /\ SubSeq(s, 1, n) \o Drop(s, n) = s
<1>1. n \in Nat /\ n <= Len(s) /\ Len(s) \in Nat
  OBVIOUS
<1>2. /\ SubSeq(s, 1, n) \in Seq(Bytes) /\ Len(SubSeq(s, 1, n)) = n
      /\ \A k \in 1 .. n : SubSeq(s, 1, n)[k] = s[k]
  BY <1>1, SubSeqProperties
<1>3. /\ Drop(s, n) \in Seq(Bytes) /\ Len(Drop(s, n)) = Len(s) - n
      /\ \A k \in 1 .. Len(s) - n : Drop(s, n)[k] = s[n + k]
  BY <1>1, SubSeqProperties DEF Drop
<1> DEFINE a == SubSeq(s, 1, n)
           b == Drop(s, n)
<1> HIDE DEF a, b
<1>4. a \in Seq(Bytes) /\ b \in Seq(Bytes) /\ Len(a) = n /\ Len(b) = Len(s) - n
  BY <1>2, <1>3 DEF a, b
<1>5. /\ a \o b \in Seq(Bytes) /\ Len(a \o b) = Len(s)
      /\ \A k \in 1 .. Len(s) : (a \o b)[k] = IF k <= n THEN a[k] ELSE b[k - n]
  <2>1. /\ a \o b \in Seq(Bytes) /\ Len(a \o b) = Len(a) + Len(b)
        /\ \A k \in 1 .. Len(a) + Len(b) : (a \o b)[k] = IF k <= Len(a) THEN a[k] ELSE b[k - Len(a)]
    BY <1>4, ConcatProperties
  <2>2. n + (Len(s) - n) = Len(s)
    BY <1>1
  <2>3. QED BY <1>4, <2>1, <2>2
<1>6. ASSUME NEW k \in 1 .. Len(s) PROVE (a \o b)[k] = s[k]
  <2>1. CASE k <= n
    BY <2>1, <1>2, <1>5 DEF a
  <2>2. CASE ~(k <= n)
    <3>1. k - n \in 1 .. Len(s) - n /\ n + (k - n) = k
      BY <2>2, <1>1
    <3>2. b[k - n] = s[n + (k - n)]
      BY <3>1, <1>3 DEF b
    <3>3. QED BY <2>2, <3>1, <3>2, <1>5
  <2>3. QED BY <2>1, <2>2
<1>7. a \o b = s
  BY <1>5, <1>6, SeqEqual
<1>8. QED BY <1>2, <1>3, <1>7 DEF a, b

\* The network hands over any piece.
LEMMA ArriveStep ==
    ASSUME Constants, RelayInv, NEW n \in 1 .. Len(net), Arrive(n)
    PROVE  RelayInv'
<1>1. Shape /\ net \in Seq(Bytes) /\ sock \in Seq(Bytes) /\ rd.ahead \in Seq(Bytes)
  BY RelayInvParts DEF Shape
<1>2. /\ sock' = sock \o SubSeq(net, 1, n) /\ net' = Drop(net, n)
      /\ UNCHANGED <<upstream, sent, rd, heap, free, cur, out, got>>
  BY DEF Arrive
<1>3. /\ SubSeq(net, 1, n) \in Seq(Bytes) /\ Drop(net, n) \in Seq(Bytes)
      /\ SubSeq(net, 1, n) \o Drop(net, n) = net
  BY <1>1, CutRejoined
<1>4. sock' \in Seq(Bytes) /\ net' \in Seq(Bytes)
  BY <1>1, <1>2, <1>3, ConcatProperties
<1>5. Stream' = Stream
  <2> DEFINE a == SubSeq(net, 1, n)
             b == Drop(net, n)
  <2>1. Stream' = rd.ahead \o ((sock \o a) \o b) /\ Stream = rd.ahead \o (sock \o net)
    BY <1>2 DEF Stream
  <2>2. a \in Seq(Bytes) /\ b \in Seq(Bytes) /\ a \o b = net
    BY <1>3
  <2> HIDE DEF a, b
  <2>3. (sock \o a) \o b = sock \o (a \o b)
    BY <1>1, <2>2, Associative
  <2>4. QED BY <2>1, <2>2, <2>3
<1>6. Shape'
  BY <1>1, <1>2, <1>4 DEF Shape
<1>7. QED BY <1>2, <1>5, <1>6, MovedStep

\* A bufio.Reader takes what has arrived.
LEMMA FillStep ==
    ASSUME Constants, RelayInv, Fill
    PROVE  RelayInv'
<1>1. Shape /\ net \in Seq(Bytes) /\ sock \in Seq(Bytes) /\ rd.ahead \in Seq(Bytes)
  BY RelayInvParts DEF Shape
<1>2. /\ rd.buffered /\ rd' = [rd EXCEPT !.ahead = rd.ahead \o sock] /\ sock' = <<>>
      /\ UNCHANGED <<upstream, sent, net, heap, free, cur, out, got>>
  BY DEF Fill
<1>3. rd.ahead \o sock \in Seq(Bytes)
  BY <1>1, ConcatProperties
<1>4. /\ rd'.pc = rd.pc /\ rd'.thr = rd.thr /\ rd'.buffered = rd.buffered /\ rd'.packet = rd.packet
      /\ rd'.ahead = rd.ahead \o sock
      /\ rd' \in [pc : {"compression", "success", "play", "broken", "failed"}, thr : Nat,
               buffered : BOOLEAN, ahead : Seq(Bytes), packet : Packet \cup {None}]
  BY <1>1, <1>2, <1>3 DEF Shape
<1>5. Stream' = Stream
  <2>1. Stream' = (rd.ahead \o sock) \o (<<>> \o net)
    BY <1>2, <1>4 DEF Stream
  <2>2. <<>> \o net = net
    BY <1>1, EmptyBefore
  <2>3. (rd.ahead \o sock) \o net = rd.ahead \o (sock \o net)
    BY <1>1, Associative
  <2>4. QED BY <2>1, <2>2, <2>3 DEF Stream
<1>6. Shape'
  BY <1>1, <1>2, <1>4 DEF Shape
<1>7. QED BY <1>2, <1>4, <1>5, <1>6, MovedStep

\* connectUpstream's first reader, unbuffered, leaves all that follows to the second.
LEMMA ReadCompressionStep ==
    ASSUME Constants, RelayInv, ReadCompression
    PROVE  RelayInv'
<1>1. PICK w \in 0 .. Len(sent), r \in 0 .. Len(sent) : Order(w, r) /\ AtPlay(r)
  BY RelayInvParts
<1> DEFINE thr == upstream.thr
           p == ReadPacket(rd.thr, Input)
<1>2. /\ rd.pc = "compression" /\ p.st = "ok" /\ Connected(p.data)
      /\ UNCHANGED <<upstream, sent, net, heap, free, cur, out, got>>
  BY DEF ReadCompression
<1>3. Shape /\ AtCompression /\ thr \in Thresholds /\ thr \in Nat
      /\ FramingAssumption /\ rd \in Reader /\ sock \in Seq(Bytes)
  BY RelayInvParts, ConstantFacts DEF Shape, Constants, Reader
<1>4. rd.thr = 0 /\ rd.buffered = FALSE /\ rd.ahead = <<>>
  BY <1>2, <1>3 DEF AtCompression, Reader
<1>5. r = 0 /\ rd.packet = None
  BY <1>1, <1>2 DEF Order
<1>6. upstream.next # "compression"
  <2>1. SUFFICES ASSUME upstream.next = "compression" PROVE FALSE
    OBVIOUS
  <2>2. Input = <<>>
    BY <2>1, <1>2, <1>3, StreamBytes DEF AtCompression
  <2>3. p.st = "short"
    BY <2>2, <1>3, NothingToRead
  <2>4. QED BY <2>3, <1>2
<1>7. PICK q \in {LoginKick, LoginCompression(thr)}, u \in Seq(Bytes) :
         /\ Stream = WritePacket(0, q) \o u
         /\ q = LoginKick \/ upstream.next \in {"success", "play"}
         /\ upstream.next = "success" => u = <<>> /\ sent = <<>>
         /\ upstream.next = "play" =>
              \E t \in Seq(Bytes) :
                 /\ u = WritePacket(thr, LoginSuccess) \o t
                 /\ Carries(t, thr, sent, 0, Len(sent))
  <2>1. CASE upstream.next = "end"
    <3>1. Stream = WritePacket(0, LoginKick) /\ WritePacket(0, LoginKick) \in Seq(Bytes)
      BY <2>1, <1>2, <1>3, ConstantFacts, FrameBytes DEF AtCompression
    <3>2. Stream = WritePacket(0, LoginKick) \o <<>> /\ <<>> \in Seq(Bytes)
      BY <3>1, EmptyBefore
    <3>3. QED BY <3>2, <2>1
  <2>2. CASE upstream.next = "success"
    <3>1. /\ Stream = WritePacket(0, LoginCompression(thr)) /\ sent = <<>>
          /\ WritePacket(0, LoginCompression(thr)) \in Seq(Bytes)
      BY <2>2, <1>2, <1>3, ConstantFacts, FrameBytes DEF AtCompression
    <3>2. Stream = WritePacket(0, LoginCompression(thr)) \o <<>> /\ <<>> \in Seq(Bytes)
      BY <3>1, EmptyBefore
    <3>3. QED BY <3>1, <3>2, <2>2
  <2>3. CASE upstream.next = "play"
    BY <2>3, <1>2, <1>3 DEF AtCompression
  <2>4. QED BY <2>1, <2>2, <2>3, <1>3, <1>6 DEF Shape
<1>8. Serialised(q)
  BY <1>3, <1>7, ConstantFacts
<1>9. /\ p.data = q
      /\ Drop(sock, p.size) \in Seq(Bytes) /\ Drop(sock, p.size) \o net = u
  BY <1>2, <1>3, <1>4, <1>7, <1>8, ReadsNext
<1>10. CASE q # LoginCompression(CompressThreshold)
  <2>1. rd' = [rd EXCEPT !.pc = "failed"] /\ sock' = sock
    BY <1>2, <1>9, <1>10 DEF Connected
  <2>2. rd'.pc = "failed" /\ rd'.packet = rd.packet /\ rd' \in Reader
    BY <2>1, <1>3 DEF Reader
  <2>3. Shape'
    BY <2>1, <2>2, <1>2, <1>3 DEF Shape, Reader
  <2>4. AtCompression' /\ AtSuccess' /\ Broken' /\ AtPlay(r)'
    BY <2>2 DEF AtCompression, AtSuccess, Broken, AtPlay
  <2>5. Order(w, r)'
    BY <2>2, <1>1, <1>2, <1>3, <1>5, OrderKept
  <2>6. w \in 0 .. Len(sent') /\ r \in 0 .. Len(sent')
    BY <1>2
  <2>7. QED BY <2>3, <2>4, <2>5, <2>6 DEF RelayInv, InOrder
<1>11. CASE q = LoginCompression(CompressThreshold)
  <2>1. /\ rd' = [rd EXCEPT !.pc = "success", !.thr = CompressThreshold, !.buffered = TRUE]
        /\ sock' = Drop(sock, p.size)
    BY <1>2, <1>4, <1>9, <1>11 DEF Connected, Consume
  <2>2. /\ rd'.pc = "success" /\ rd'.thr = CompressThreshold /\ rd'.buffered = TRUE
        /\ rd'.ahead = <<>> /\ rd'.packet = rd.packet /\ rd' \in Reader
    BY <2>1, <1>3, <1>4, ConstantFacts DEF Reader
  <2>3. Shape'
    BY <2>1, <2>2, <1>2, <1>3, <1>9 DEF Shape, Reader
  <2>4. thr = CompressThreshold /\ upstream.next \in {"success", "play"}
    BY <1>3, <1>7, <1>11, DialogueDiffers
  <2>5. Stream' = u
    BY <2>1, <2>2, <1>2, <1>9, EmptyBefore DEF Stream
  <2>6. AtSuccess'
    <3>1. upstream.next = "success" => Stream' = <<>> /\ sent = <<>>
      BY <2>5, <1>7
    <3>2. upstream.next = "play" =>
              \E t \in Seq(Bytes) :
                 /\ Stream' = WritePacket(CompressThreshold, LoginSuccess) \o t
                 /\ Carries(t, CompressThreshold, sent, 0, Len(sent))
      BY <2>4, <2>5, <1>7
    <3>3. QED BY <3>1, <3>2, <2>2, <2>4, <1>2 DEF AtSuccess
  <2>7. AtCompression' /\ Broken' /\ AtPlay(r)'
    BY <2>2 DEF AtCompression, Broken, AtPlay
  <2>8. Order(w, r)'
    BY <2>2, <1>1, <1>2, <1>3, <1>5, OrderKept
  <2>9. w \in 0 .. Len(sent') /\ r \in 0 .. Len(sent')
    BY <1>2
  <2>10. QED BY <2>3, <2>6, <2>7, <2>8, <2>9 DEF RelayInv, InOrder
<1>12. QED BY <1>10, <1>11

\* The second reader finds LoginSuccess, and keeps what it has read ahead.
LEMMA ReadSuccessStep ==
    ASSUME Constants, RelayInv, ReadSuccess
    PROVE  RelayInv'
<1>1. PICK w \in 0 .. Len(sent), r \in 0 .. Len(sent) : Order(w, r) /\ AtPlay(r)
  BY RelayInvParts
<1> DEFINE p == ReadPacket(rd.thr, Input)
           pc == IF p.data = LoginSuccess THEN "play" ELSE "broken"
<1>2. /\ rd.pc = "success" /\ p.st = "ok" /\ Consume(p.size, [rd EXCEPT !.pc = pc])
      /\ UNCHANGED <<upstream, sent, net, heap, free, cur, out, got>>
  BY DEF ReadSuccess
<1>3. Shape /\ AtSuccess /\ FramingAssumption /\ rd \in Reader /\ sock \in Seq(Bytes)
  BY RelayInvParts DEF Shape, Constants, Reader
<1>4. rd.thr = CompressThreshold /\ rd.buffered /\ upstream.thr = CompressThreshold
        /\ upstream.next \in {"success", "play"}
  BY <1>2, <1>3 DEF AtSuccess
<1>5. r = 0 /\ rd.packet = None
  BY <1>1, <1>2 DEF Order
<1>6. upstream.next = "play"
  <2>1. SUFFICES ASSUME upstream.next = "success" PROVE FALSE
    BY <1>4
  <2>2. Input = <<>>
    BY <2>1, <1>2, <1>3, StreamBytes DEF AtSuccess
  <2>3. p.st = "short"
    BY <2>2, <1>3, NothingToRead
  <2>4. QED BY <2>3, <1>2
<1>7. PICK t \in Seq(Bytes) :
         /\ Stream = WritePacket(rd.thr, LoginSuccess) \o t
         /\ Carries(t, CompressThreshold, sent, 0, Len(sent))
  BY <1>2, <1>3, <1>4, <1>6 DEF AtSuccess
<1>8. Serialised(LoginSuccess)
  BY ConstantFacts
<1>9. /\ p.data = LoginSuccess
      /\ Drop(rd.ahead, p.size) \in Seq(Bytes) /\ Drop(rd.ahead, p.size) \o (sock \o net) = t
  BY <1>2, <1>3, <1>4, <1>7, <1>8, ReadsNext
<1> HIDE DEF p
<1>10. pc = "play"
  BY <1>9
<1> HIDE DEF pc
<1>11. /\ rd' = [[rd EXCEPT !.pc = "play"] EXCEPT !.ahead = Drop(rd.ahead, p.size)]
       /\ sock' = sock
  BY <1>2, <1>4, <1>10 DEF Consume
<1>12. /\ rd'.pc = "play" /\ rd'.thr = CompressThreshold /\ rd'.buffered /\ rd'.packet = rd.packet
       /\ rd'.ahead = Drop(rd.ahead, p.size) /\ rd' \in Reader
  BY <1>3, <1>4, <1>9, <1>11 DEF Reader
<1>13. Shape'
  BY <1>2, <1>3, <1>11, <1>12 DEF Shape, Reader
<1>14. AtCompression' /\ AtSuccess' /\ Broken'
  BY <1>12 DEF AtCompression, AtSuccess, Broken
<1>15. AtPlay(r)'
  <2>1. Stream' = t
    BY <1>2, <1>9, <1>11, <1>12 DEF Stream
  <2>2. QED BY <2>1, <1>2, <1>4, <1>5, <1>6, <1>7, <1>12 DEF AtPlay
<1>16. Order(w, r)'
  BY <1>1, <1>2, <1>3, <1>5, <1>12, OrderKept
<1>17. w \in 0 .. Len(sent') /\ r \in 0 .. Len(sent')
  BY <1>2
<1>18. QED BY <1>13, <1>14, <1>15, <1>16, <1>17 DEF RelayInv, InOrder

\* A packet is refused only for its length, and then it is a PLAY packet.
LEMMA ReadFailsStep ==
    ASSUME Constants, RelayInv, ReadFails
    PROVE  RelayInv'
<1>1. PICK w \in 0 .. Len(sent), r \in 0 .. Len(sent) : Order(w, r) /\ AtPlay(r)
  BY RelayInvParts
<1> DEFINE p == ReadPacket(rd.thr, Input)
<1>2. /\ rd.pc \in {"compression", "success", "play"} /\ rd.packet = None /\ p.st = "bad"
      /\ rd' = [rd EXCEPT !.pc = "broken"]
      /\ UNCHANGED <<upstream, sent, net, sock, heap, free, cur, out, got>>
  BY DEF ReadFails
<1>3. Shape /\ AtCompression /\ AtSuccess /\ FramingAssumption /\ rd \in Reader /\ Len(sent) \in Nat
      /\ sent \in Seq(Packets) /\ upstream.thr \in Thresholds /\ upstream.thr \in Nat
  BY RelayInvParts, ConstantFacts DEF Shape, Constants, Reader
<1>4. Stream # <<>>
  <2>1. SUFFICES ASSUME Stream = <<>> PROVE FALSE
    OBVIOUS
  <2>2. p.st = "short"
    BY <2>1, <1>3, StreamBytes, NothingToRead
  <2>3. QED BY <2>2, <1>2
<1>5. ASSUME NEW q, Serialised(q), NEW u \in Seq(Bytes), Stream = WritePacket(rd.thr, q) \o u,
             rd.buffered \/ rd.ahead = <<>>
      PROVE  TooBig(rd.thr, q)
  <2>1. p.st # "short" /\ p.st # "ok"
    BY <1>2
  <2>2. QED BY <2>1, <1>3, <1>5, ReadsNext
<1> HIDE DEF p
<1>6. rd.pc # "compression"
  <2>1. SUFFICES ASSUME rd.pc = "compression" PROVE FALSE
    OBVIOUS
  <2>2. /\ rd.thr = 0 /\ rd.ahead = <<>>
        /\ upstream.next # "compression"
    BY <2>1, <1>3, <1>4 DEF AtCompression
  <2>3. PICK q \in {LoginKick, LoginCompression(upstream.thr)}, u \in Seq(Bytes) :
           Stream = WritePacket(0, q) \o u
    <3>1. WritePacket(0, LoginKick) \in Seq(Bytes) /\ WritePacket(0, LoginCompression(upstream.thr)) \in Seq(Bytes)
      BY <1>3, ConstantFacts, FrameBytes
    <3>2. /\ WritePacket(0, LoginKick) \o <<>> = WritePacket(0, LoginKick)
          /\ WritePacket(0, LoginCompression(upstream.thr)) \o <<>> = WritePacket(0, LoginCompression(upstream.thr))
          /\ <<>> \in Seq(Bytes)
      BY <3>1, EmptyBefore
    <3>3. CASE upstream.next = "end"
      BY <3>2, <3>3, <2>1, <1>3 DEF AtCompression
    <3>4. CASE upstream.next = "success"
      BY <3>2, <3>4, <2>1, <1>3 DEF AtCompression
    <3>5. CASE upstream.next = "play"
      BY <3>5, <2>1, <1>3 DEF AtCompression
    <3>6. QED BY <3>3, <3>4, <3>5, <2>2, <1>3 DEF Shape
  <2>4. Serialised(q)
    BY <2>3, <1>3, ConstantFacts
  <2>5. TooBig(0, q)
    BY <2>2, <2>3, <2>4, <1>5
  <2>6. q \in Dialogue /\ q # LoginSuccess
    BY <2>3, <1>3, DialogueDiffers DEF Dialogue
  <2>7. QED BY <2>5, <2>6 DEF Constants, RelayAssumption
<1>7. rd.pc # "success"
  <2>1. SUFFICES ASSUME rd.pc = "success" PROVE FALSE
    OBVIOUS
  <2>2. PICK u \in Seq(Bytes) : rd.thr = CompressThreshold /\ rd.buffered
                                /\ Stream = WritePacket(rd.thr, LoginSuccess) \o u
    BY <2>1, <1>3, <1>4 DEF AtSuccess
  <2>3. TooBig(CompressThreshold, LoginSuccess)
    BY <2>2, <1>5, ConstantFacts
  <2>4. QED BY <2>3, ConstantFacts
<1>8. /\ rd.pc = "play" /\ rd.thr = CompressThreshold /\ rd.buffered /\ upstream.next = "play"
      /\ Carries(Stream, CompressThreshold, sent, r, Len(sent))
  BY <1>1, <1>2, <1>6, <1>7 DEF AtPlay
<1>9. r # Len(sent)
  BY <1>3, <1>4, <1>8, CarriesEnd
<1>10. PICK t \in Seq(Bytes) : Stream = WritePacket(CompressThreshold, sent[r + 1]) \o t
  <2>1. r \in Nat /\ Len(sent) \in Nat /\ r < Len(sent)
    BY <1>3, <1>9
  <2>2. Carries(Stream, CompressThreshold, sent, r, Len(sent))
    BY <1>8
  <2>3. \E t \in Seq(Bytes) :
           Stream = WritePacket(CompressThreshold, sent[r + 1]) \o t
           /\ Carries(t, CompressThreshold, sent, r + 1, Len(sent))
    BY <2>1, <2>2, CarriesFirst
  <2>4. QED BY <2>3
<1>11. r + 1 \in 1 .. Len(sent) /\ sent[r + 1] \in Packets
  BY <1>3, <1>9
<1>12. TooBig(CompressThreshold, sent[r + 1])
  BY <1>5, <1>8, <1>10, <1>11, ConstantFacts
<1>13. rd'.pc = "broken" /\ rd'.packet = rd.packet /\ rd' \in Reader
  BY <1>2, <1>3 DEF Reader
<1>14. Shape'
  BY <1>2, <1>3, <1>13 DEF Shape, Reader
<1>15. AtCompression' /\ AtSuccess' /\ AtPlay(r)'
  BY <1>13 DEF AtCompression, AtSuccess, AtPlay
<1>16. Broken'
  BY <1>2, <1>8, <1>11, <1>12 DEF Broken
<1>17. Order(w, r)'
  BY <1>1, <1>2, <1>3, <1>13, OrderKept
<1>18. w \in 0 .. Len(sent') /\ r \in 0 .. Len(sent')
  BY <1>2
<1>19. QED BY <1>14, <1>15, <1>16, <1>17, <1>18 DEF RelayInv, InOrder

\* A packet stays what it is while its buffer, if it has one, is not given to anybody else.
LEMMA PacketKept ==
    ASSUME NEW pkt, NEW k, IsPacket(pkt, k), UNCHANGED sent,
           \A b \in Buffers \ free :
              pkt = [raw |-> TRUE, buffer |-> b] => b \notin free' /\ heap'[b] = heap[b]
    PROVE  IsPacket(pkt, k)'
<1>1. CASE pkt = [raw |-> FALSE, data |-> sent[k]]
  BY <1>1 DEF IsPacket
<1>2. CASE \E b \in Buffers \ free :
          /\ pkt = [raw |-> TRUE, buffer |-> b]
          /\ WriteRaw(heap[b]) = WritePacket(CompressThreshold, sent[k])
  <2>1. PICK b \in Buffers \ free :
          /\ pkt = [raw |-> TRUE, buffer |-> b]
          /\ WriteRaw(heap[b]) = WritePacket(CompressThreshold, sent[k])
    BY <1>2
  <2>2. b \in Buffers \ free' /\ heap'[b] = heap[b]
    BY <2>1
  <2>3. WriteRaw(heap'[b]) = WritePacket(CompressThreshold, sent'[k])
    BY <2>1, <2>2
  <2>4. QED BY <2>1, <2>2, <2>3 DEF IsPacket
<1>3. QED BY <1>1, <1>2 DEF IsPacket

\* A raw packet has a buffer that is not in the pool; both kinds differ from None.
LEMMA PacketParts ==
    ASSUME Constants, NEW pkt, NEW k, IsPacket(pkt, k)
    PROVE  /\ pkt.raw \in BOOLEAN
           /\ pkt.raw => pkt.buffer \in Buffers \ free
                         /\ WriteRaw(heap[pkt.buffer]) = WritePacket(CompressThreshold, sent[k])
           /\ ~pkt.raw => pkt.data = sent[k]
<1>1. CASE pkt = [raw |-> FALSE, data |-> sent[k]]
  BY <1>1
<1>2. CASE \E b \in Buffers \ free :
          /\ pkt = [raw |-> TRUE, buffer |-> b]
          /\ WriteRaw(heap[b]) = WritePacket(CompressThreshold, sent[k])
  BY <1>2
<1>3. QED BY <1>1, <1>2 DEF IsPacket

\* A packet is offered in a buffer nobody else has, or without one.
LEMMA ReadPlayStep ==
    ASSUME Constants, RelayInv, NEW b \in Buffers, ReadPlay(b)
    PROVE  RelayInv'
<1>1. PICK w \in 0 .. Len(sent), r \in 0 .. Len(sent) : Order(w, r) /\ AtPlay(r)
  BY RelayInvParts
<1> DEFINE p == ReadPacket(rd.thr, Input)
<1>0. PICK pkt : pkt = IF p.id \in Parsed THEN [raw |-> FALSE, data |-> p.data] ELSE [raw |-> TRUE, buffer |-> b]
  OBVIOUS
<1>2. /\ rd.pc = "play" /\ rd.packet = None /\ p.st = "ok" /\ b \in free
      /\ heap' = [heap EXCEPT ![b] = p.payload]
      /\ free' = IF p.id \in Parsed THEN free ELSE free \ {b}
      /\ Consume(p.size, [rd EXCEPT !.packet = pkt])
      /\ UNCHANGED <<upstream, sent, net, cur, out, got>>
  BY <1>0 DEF ReadPlay, Offer
<1>3. Shape /\ FramingAssumption /\ rd \in Reader /\ Len(sent) \in Nat /\ sent \in Seq(Packets)
  BY RelayInvParts DEF Shape, Constants, Reader
<1>4. /\ rd.thr = CompressThreshold /\ rd.buffered /\ upstream.thr = CompressThreshold
      /\ upstream.next = "play"
      /\ Carries(Stream, CompressThreshold, sent, r, Len(sent))
  BY <1>1, <1>2 DEF AtPlay
<1>5. r < Len(sent)
  <2>1. SUFFICES ASSUME r = Len(sent) PROVE FALSE
    BY <1>3
  <2>2. Stream = <<>>
    BY <2>1, <1>3, <1>4, CarriesEnd
  <2>3. p.st = "short"
    BY <2>2, <1>3, StreamBytes, NothingToRead
  <2>4. QED BY <2>3, <1>2
<1>6. PICK t \in Seq(Bytes) :
         /\ Stream = WritePacket(CompressThreshold, sent[r + 1]) \o t
         /\ Carries(t, CompressThreshold, sent, r + 1, Len(sent))
  <2>1. r \in Nat /\ Len(sent) \in Nat /\ r < Len(sent)
    BY <1>3, <1>5
  <2>2. Carries(Stream, CompressThreshold, sent, r, Len(sent))
    BY <1>4
  <2>3. \E t \in Seq(Bytes) :
           Stream = WritePacket(CompressThreshold, sent[r + 1]) \o t
           /\ Carries(t, CompressThreshold, sent, r + 1, Len(sent))
    BY <2>1, <2>2, CarriesFirst
  <2>4. QED BY <2>3
<1>7. r + 1 \in 1 .. Len(sent) /\ sent[r + 1] \in Packets /\ r \in Nat
  BY <1>3, <1>5
<1>8. /\ p.data = sent[r + 1] /\ ~TooBig(CompressThreshold, sent[r + 1])
      /\ p.payload \in Seq(Bytes) /\ WriteRaw(p.payload) = WritePacket(CompressThreshold, sent[r + 1])
      /\ Drop(rd.ahead, p.size) \in Seq(Bytes) /\ Drop(rd.ahead, p.size) \o (sock \o net) = t
  <2>1. Serialised(sent[r + 1])
    BY <1>7, ConstantFacts
  <2>2. QED BY <2>1, <1>2, <1>3, <1>4, <1>6, ReadsNext
<1> HIDE DEF p
<1>9. pkt \in Packet /\ pkt # None
  <2>1. pkt \in Packet
    BY <1>0, <1>7, <1>8 DEF Packet
  <2>2. None \notin Packet
    BY DEF Constants, RelayAssumption, Packet
  <2>3. QED BY <2>1, <2>2
<1>10. IsPacket(pkt, r + 1)'
  <2>1. CASE p.id \in Parsed
    <3>1. pkt = [raw |-> FALSE, data |-> sent'[r + 1]]
      BY <2>1, <1>0, <1>2, <1>8
    <3>2. QED BY <3>1 DEF IsPacket
  <2>2. CASE p.id \notin Parsed
    <3>1. pkt = [raw |-> TRUE, buffer |-> b] /\ b \in Buffers \ free'
      BY <2>2, <1>0, <1>2
    <3>2. heap'[b] = p.payload
      BY <1>2, <1>3 DEF Shape
    <3>3. WriteRaw(heap'[b]) = WritePacket(CompressThreshold, sent'[r + 1])
      BY <3>2, <1>2, <1>8
    <3>4. QED BY <3>1, <3>3 DEF IsPacket
  <2>3. QED BY <2>1, <2>2
<1>11. pkt.raw => pkt.buffer = b
  BY <1>0
<1>12. /\ rd' = [[rd EXCEPT !.packet = pkt] EXCEPT !.ahead = Drop(rd.ahead, p.size)]
       /\ sock' = sock
  BY <1>2, <1>4 DEF Consume
<1>13. /\ rd'.pc = "play" /\ rd'.thr = CompressThreshold /\ rd'.buffered /\ rd'.packet = pkt
       /\ rd'.ahead = Drop(rd.ahead, p.size) /\ rd' \in Reader
  BY <1>2, <1>3, <1>4, <1>8, <1>9, <1>12 DEF Reader
<1>14. heap' \in [Buffers -> Seq(Bytes)] /\ free' \subseteq free
       /\ \A a \in Buffers \ free : heap'[a] = heap[a]
  BY <1>2, <1>3, <1>8 DEF Shape
<1>15. Shape'
  BY <1>2, <1>3, <1>12, <1>13, <1>14 DEF Shape, Reader
<1>16. AtCompression' /\ AtSuccess' /\ Broken'
  BY <1>13 DEF AtCompression, AtSuccess, Broken
<1>17. AtPlay(r + 1)'
  <2>1. Stream' = t
    BY <1>2, <1>8, <1>12, <1>13 DEF Stream
  <2>2. QED BY <2>1, <1>2, <1>4, <1>6, <1>13 DEF AtPlay
<1>18. Order(w, r + 1)'
  <2>1. r = w + Held(cur) /\ Len(got) <= w /\ Held(cur) \in 0 .. 1 /\ w \in Nat
    BY <1>1, <1>2 DEF Order, Held
  <2>2. (r + 1 = w + Held(cur) + Held(rd.packet) /\ Len(got) <= w)'
    BY <2>1, <1>2, <1>7, <1>9, <1>13 DEF Held
  <2>3. cur # None => IsPacket(cur, w + 1) /\ (cur.raw => cur.buffer \in Buffers \ free)
    BY <1>1, PacketParts DEF Order
  <2>4. (cur # None => IsPacket(cur, w + 1))'
    <3>1. SUFFICES ASSUME cur # None PROVE IsPacket(cur, w + 1)'
      BY <1>2
    <3>2. QED BY <3>1, <2>3, <1>2, <1>14, PacketKept
  <2>5. (rd.packet # None => rd.pc = "play" /\ IsPacket(rd.packet, r + 1))'
    BY <1>10, <1>13
  <2>6. (cur # None /\ rd.packet # None /\ cur.raw /\ rd.packet.raw => cur.buffer # rd.packet.buffer)'
    BY <2>3, <1>2, <1>11, <1>13
  <2>7. (\A k \in 1 .. r + 1 : ~TooBig(CompressThreshold, sent[k]))'
    <3>1. \A k \in 1 .. r : ~TooBig(CompressThreshold, sent[k])
      BY <1>1 DEF Order
    <3>2. \A k \in 1 .. r + 1 : k \in 1 .. r \/ k = r + 1
      BY <1>7
    <3>3. QED BY <3>1, <3>2, <1>2, <1>8
  <2>8. (Carries(out, CompressThreshold, sent, Len(got), w) /\ \A k \in 1 .. Len(got) : got[k] = sent[k])'
    BY <1>1, <1>2 DEF Order
  <2>9. QED BY <2>2, <2>4, <2>5, <2>6, <2>7, <2>8, <1>13 DEF Order
<1>19. w \in 0 .. Len(sent') /\ r + 1 \in 0 .. Len(sent')
  BY <1>2, <1>7
<1>20. QED BY <1>15, <1>16, <1>17, <1>18, <1>19 DEF RelayInv, InOrder

\* Steps after the reader leave its stream and its place alone.
LEMMA AfterReader ==
    ASSUME RelayInv, UNCHANGED <<upstream, sent, net, sock>>,
           rd'.pc = rd.pc, rd'.thr = rd.thr, rd'.buffered = rd.buffered, rd'.ahead = rd.ahead
    PROVE  /\ AtCompression' /\ AtSuccess' /\ Broken'
           /\ \A r : AtPlay(r) => AtPlay(r)'
<1>1. AtCompression /\ AtSuccess /\ Broken
  BY RelayInvParts
<1>2. Stream' = Stream
  BY DEF Stream
<1>3. QED BY <1>1, <1>2, StageKept

\* The main goroutine takes the packet that is offered.
LEMMA ReceiveStep ==
    ASSUME Constants, RelayInv, Receive
    PROVE  RelayInv'
<1>1. PICK w \in 0 .. Len(sent), r \in 0 .. Len(sent) : Order(w, r) /\ AtPlay(r)
  BY RelayInvParts
<1>2. /\ cur = None /\ rd.packet # None /\ cur' = rd.packet /\ rd' = [rd EXCEPT !.packet = None]
      /\ UNCHANGED <<upstream, sent, net, sock, heap, free, out, got>>
  BY DEF Receive
<1>3. Shape /\ rd \in Reader /\ Len(sent) \in Nat
  BY RelayInvParts DEF Shape, Reader
<1>4. /\ rd'.pc = rd.pc /\ rd'.thr = rd.thr /\ rd'.buffered = rd.buffered /\ rd'.ahead = rd.ahead
      /\ rd'.packet = None /\ rd' \in Reader
  BY <1>2, <1>3 DEF Reader
<1>5. Shape'
  BY <1>2, <1>3, <1>4 DEF Shape, Reader
<1>6. AtCompression' /\ AtSuccess' /\ Broken' /\ AtPlay(r)'
  BY <1>1, <1>2, <1>4, AfterReader
<1>7. Order(w, r)'
  <2>1. r = w + 1 /\ Len(got) <= w
    BY <1>1, <1>2, <1>3 DEF Order, Held
  <2>2. (r = w + Held(cur) + Held(rd.packet) /\ Len(got) <= w)'
    BY <2>1, <1>2, <1>3, <1>4 DEF Held
  <2>3. (cur # None => IsPacket(cur, w + 1))'
    <3>1. IsPacket(rd.packet, r)
      BY <1>1, <1>2 DEF Order
    <3>2. PICK pkt : pkt = rd.packet
      OBVIOUS
    <3>3. IsPacket(pkt, r)'
      BY <3>1, <3>2, <1>2, PacketKept
    <3>4. QED BY <3>2, <3>3, <2>1, <1>2
  <2>4. QED BY <2>2, <2>3, <1>1, <1>2, <1>4 DEF Order
<1>8. w \in 0 .. Len(sent') /\ r \in 0 .. Len(sent')
  BY <1>2
<1>9. QED BY <1>5, <1>6, <1>7, <1>8 DEF RelayInv, InOrder

\* What is written to the client is the packet, raw or not, before its buffer goes back.
LEMMA HandlePacketStep ==
    ASSUME Constants, RelayInv, HandlePacket
    PROVE  RelayInv'
<1>1. PICK w \in 0 .. Len(sent), r \in 0 .. Len(sent) : Order(w, r) /\ AtPlay(r)
  BY RelayInvParts
<1>2. /\ cur # None /\ out' = out \o Written /\ free' = (IF cur.raw THEN free \cup {cur.buffer} ELSE free)
      /\ cur' = None
      /\ UNCHANGED <<upstream, sent, net, sock, rd, heap, got>>
  BY DEF HandlePacket
<1>3. Shape /\ FramingAssumption /\ Len(sent) \in Nat /\ sent \in Seq(Packets) /\ Len(got) \in Nat
      /\ CompressThreshold \in Nat
  BY RelayInvParts, ConstantFacts DEF Shape, Constants
<1>4. /\ IsPacket(cur, w + 1) /\ r = w + 1 + Held(rd.packet) /\ Held(rd.packet) \in 0 .. 1
      /\ Len(got) <= w /\ w \in Nat /\ r \in Nat
  BY <1>1, <1>2 DEF Order, Held
<1>5. cur.raw \in BOOLEAN /\ (cur.raw => cur.buffer \in Buffers \ free)
      /\ Written = WritePacket(CompressThreshold, sent[w + 1])
  BY <1>4, PacketParts DEF Written
<1>6. \A k \in 1 .. w + 1 : k \in 1 .. Len(sent) /\ sent[k] \in Packets
                            /\ WritePacket(CompressThreshold, sent[k]) \in Seq(Bytes)
  <2>1. \A k \in 1 .. w + 1 : k \in 1 .. Len(sent)
    BY <1>1, <1>3, <1>4
  <2>2. \A k \in 1 .. Len(sent) : sent[k] \in Packets
    BY <1>3
  <2>3. \A q \in Packets : WritePacket(CompressThreshold, q) \in Seq(Bytes)
    BY <1>3, ConstantFacts, FrameBytes
  <2>4. QED BY <2>1, <2>2, <2>3
<1>7. Carries(out', CompressThreshold, sent, Len(got), w + 1)
  <2>1. Carries(out, CompressThreshold, sent, Len(got), w)
    BY <1>1 DEF Order
  <2>2. \A k \in Len(got) + 1 .. w + 1 : WritePacket(CompressThreshold, sent[k]) \in Seq(Bytes)
    <3>1. \A k \in Len(got) + 1 .. w + 1 : k \in 1 .. w + 1
      BY <1>3, <1>4
    <3>2. QED BY <3>1, <1>6
  <2>3. \A k \in Len(got) + 1 .. w : sent[k] = sent[k]
    OBVIOUS
  <2>4. Carries(out \o WritePacket(CompressThreshold, sent[w + 1]), CompressThreshold, sent, Len(got), w + 1)
    BY <2>1, <2>2, <2>3, <1>3, <1>4, CarriesMore
  <2>5. QED BY <2>4, <1>2, <1>5
<1>8. out' \in Seq(Bytes)
  BY <1>3, <1>4, <1>7, CarriesBytes
<1>9. free' \subseteq Buffers
  BY <1>2, <1>3, <1>5 DEF Shape
<1>10. Shape'
  BY <1>2, <1>3, <1>8, <1>9 DEF Shape
<1>11. AtCompression' /\ AtSuccess' /\ Broken' /\ AtPlay(r)'
  BY <1>1, <1>2, AfterReader
<1>12. Order(w + 1, r)'
  <2>1. (r = w + 1 + Held(cur) + Held(rd.packet) /\ Len(got) <= w + 1)'
    BY <1>2, <1>3, <1>4 DEF Held
  <2>2. (rd.packet # None => IsPacket(rd.packet, r))'
    <3>1. SUFFICES ASSUME rd.packet # None PROVE IsPacket(rd.packet, r)'
      BY <1>2
    <3>2. IsPacket(rd.packet, r) /\ (cur.raw /\ rd.packet.raw => cur.buffer # rd.packet.buffer)
      BY <3>1, <1>1, <1>2 DEF Order
    <3>3. PICK pkt : pkt = rd.packet
      OBVIOUS
    <3>4. ASSUME NEW b \in Buffers \ free, pkt = [raw |-> TRUE, buffer |-> b]
          PROVE  b \notin free' /\ heap'[b] = heap[b]
      <4>1. pkt.raw = TRUE /\ pkt.buffer = b
        BY <3>4
      <4>2. cur.raw => cur.buffer # b
        BY <4>1, <3>2, <3>3
      <4>3. QED BY <4>2, <1>2
    <3>5. IsPacket(pkt, r)'
      BY <3>2, <3>3, <3>4, <1>2, PacketKept
    <3>6. QED BY <3>3, <3>5, <1>2
  <2>3. (cur = None)'
    BY <1>2
  <2>4. (/\ rd.pc \notin {"play", "broken"} => r = 0
         /\ rd.packet # None => rd.pc = "play"
         /\ \A k \in 1 .. r : ~TooBig(CompressThreshold, sent[k])
         /\ \A k \in 1 .. Len(got) : got[k] = sent[k])'
    BY <1>1, <1>2 DEF Order
  <2>5. Carries(out, CompressThreshold, sent, Len(got), w + 1)'
    BY <1>2, <1>7
  <2>6. QED BY <2>1, <2>2, <2>3, <2>4, <2>5 DEF Order
<1>13. w + 1 \in 0 .. Len(sent') /\ r \in 0 .. Len(sent')
  BY <1>1, <1>2, <1>3, <1>4
<1>14. QED BY <1>10, <1>11, <1>12, <1>13 DEF RelayInv, InOrder

\* Others write only to buffers of the pool.
LEMMA OtherHandlerStep ==
    ASSUME Constants, RelayInv, NEW b \in Buffers, OtherHandler(b)
    PROVE  RelayInv'
<1>1. PICK w \in 0 .. Len(sent), r \in 0 .. Len(sent) : Order(w, r) /\ AtPlay(r)
  BY RelayInvParts
<1>2. /\ b \in free /\ heap' = [heap EXCEPT ![b] = <<>>]
      /\ UNCHANGED <<upstream, sent, net, sock, rd, free, cur, out, got>>
  BY DEF OtherHandler
<1>3. Shape
  BY RelayInvParts
<1>4. heap' \in [Buffers -> Seq(Bytes)] /\ \A a \in Buffers \ free : heap'[a] = heap[a]
  BY <1>2, <1>3 DEF Shape
<1>5. Shape'
  BY <1>2, <1>3, <1>4 DEF Shape
<1>6. AtCompression' /\ AtSuccess' /\ Broken' /\ AtPlay(r)'
  BY <1>1, <1>2, AfterReader
<1>7. ASSUME NEW pkt, NEW k, IsPacket(pkt, k) PROVE IsPacket(pkt, k)'
  BY <1>2, <1>4, <1>7, PacketKept
<1>8. Order(w, r)'
  <2>1. (cur # None => IsPacket(cur, w + 1))'
    BY <1>1, <1>2, <1>7 DEF Order
  <2>2. (rd.packet # None => IsPacket(rd.packet, r))'
    BY <1>1, <1>2, <1>7 DEF Order
  <2>3. (/\ r = w + Held(cur) + Held(rd.packet) /\ Len(got) <= w
         /\ rd.pc \notin {"play", "broken"} => r = 0
         /\ rd.packet # None => rd.pc = "play"
         /\ cur # None /\ rd.packet # None /\ cur.raw /\ rd.packet.raw => cur.buffer # rd.packet.buffer
         /\ \A k \in 1 .. r : ~TooBig(CompressThreshold, sent[k])
         /\ Carries(out, CompressThreshold, sent, Len(got), w)
         /\ \A k \in 1 .. Len(got) : got[k] = sent[k])'
    BY <1>1, <1>2 DEF Order, Held
  <2>4. QED BY <2>1, <2>2, <2>3 DEF Order
<1>9. w \in 0 .. Len(sent') /\ r \in 0 .. Len(sent')
  BY <1>2
<1>10. QED BY <1>5, <1>6, <1>8, <1>9 DEF RelayInv, InOrder

\* A client that has bytes to read has a whole packet of its threshold before it.
LEMMA ClientHas ==
    ASSUME Constants, RelayInv, NEW w \in 0 .. Len(sent), NEW r \in 0 .. Len(sent), Order(w, r), Len(got) # w
    PROVE  /\ Len(got) + 1 \in 1 .. w /\ Len(got) + 1 \in 1 .. Len(sent) /\ sent[Len(got) + 1] \in Packets
           /\ LET p == ReadPacket(CompressThreshold, out) IN
              /\ p.st = "ok" /\ p.data = sent[Len(got) + 1]
              /\ Drop(out, p.size) \in Seq(Bytes)
              /\ Carries(Drop(out, p.size), CompressThreshold, sent, Len(got) + 1, w)
<1> DEFINE g == Len(got)
           q == sent[g + 1]
           p == ReadPacket(CompressThreshold, out)
           f == WritePacket(CompressThreshold, q)
<1>1. /\ Shape /\ FramingAssumption /\ Len(sent) \in Nat /\ sent \in Seq(Packets) /\ g \in Nat
      /\ CompressThreshold \in Nat /\ out \in Seq(Bytes)
  BY RelayInvParts, ConstantFacts DEF Shape, Constants
<1>2. /\ g < w /\ w <= r /\ w \in Nat /\ Carries(out, CompressThreshold, sent, g, w)
      /\ \A k \in 1 .. r : ~TooBig(CompressThreshold, sent[k])
  BY <1>1 DEF Order, Held
<1>3. g + 1 \in 1 .. w /\ g + 1 \in 1 .. r /\ g + 1 \in 1 .. Len(sent) /\ q \in Packets
  BY <1>1, <1>2
<1>4. ~TooBig(CompressThreshold, q) /\ Serialised(q) /\ f \in Seq(Bytes)
  BY <1>1, <1>2, <1>3, ConstantFacts, FrameBytes
<1>5. \E t \in Seq(Bytes) :
         out = WritePacket(CompressThreshold, sent[g + 1]) \o t
         /\ Carries(t, CompressThreshold, sent, g + 1, w)
  <2> HIDE DEF g
  <2>1. QED BY <1>1, <1>2, CarriesFirst
<1>6. PICK t \in Seq(Bytes) : out = f \o t /\ Carries(t, CompressThreshold, sent, g + 1, w)
  BY <1>5
<1>7. out \o <<>> = f \o t /\ <<>> \in Seq(Bytes)
  BY <1>1, <1>6, EmptyBefore
<1>8. InFront(CompressThreshold, q, out, <<>>, t)
  BY <1>1, <1>4, <1>7 DEF InFront
<1>9. Len(f) <= Len(out)
  <2> HIDE DEF f
  <2>1. Len(out) = Len(f) + Len(t) /\ Len(f) \in Nat /\ Len(t) \in Nat
    BY <1>4, <1>6, ConcatProperties
  <2>2. QED BY <2>1
<1>10. p.st = "ok" /\ p.data = q /\ p.size = Len(f)
  <2>1. ~(Len(out) < Len(f))
    BY <1>1, <1>4, <1>9
  <2> HIDE DEF q
  <2>2. QED BY <2>1, <1>1, <1>4, <1>8, ReadPacketReturns DEF f
<1>11. Drop(out, p.size) = t
  <2> HIDE DEF f
  <2>1. QED BY <1>4, <1>6, <1>10, DropConcat
<1>12. QED BY <1>3, <1>6, <1>10, <1>11

\* ... and nothing to read when it has all that was written.
LEMMA ClientWaits ==
    ASSUME Constants, RelayInv, NEW w \in 0 .. Len(sent), NEW r \in 0 .. Len(sent), Order(w, r), Len(got) = w
    PROVE  ReadPacket(CompressThreshold, out).st = "short"
<1>1. Carries(out, CompressThreshold, sent, w, w) /\ w \in Nat /\ FramingAssumption
  BY DEF Order, Constants
<1>2. out = <<>>
  BY <1>1, CarriesEnd
<1>3. QED BY <1>1, <1>2, NothingToRead

\* The client reads the next packet.
LEMMA ClientReadsStep ==
    ASSUME Constants, RelayInv, ClientReads
    PROVE  RelayInv'
<1>1. PICK w \in 0 .. Len(sent), r \in 0 .. Len(sent) : Order(w, r) /\ AtPlay(r)
  BY RelayInvParts
<1> DEFINE g == Len(got)
           p == ReadPacket(CompressThreshold, out)
<1>2. /\ p.st # "short"
      /\ out' = (IF p.st = "ok" THEN Drop(out, p.size) ELSE <<>>)
      /\ got' = Append(got, IF p.st = "ok" THEN p.data ELSE <<>>)
      /\ UNCHANGED <<upstream, sent, net, sock, rd, heap, free, cur>>
  BY DEF ClientReads
<1>3. g # w
  BY <1>1, <1>2, ClientWaits
<1>4. /\ g + 1 \in 1 .. w /\ g + 1 \in 1 .. Len(sent) /\ sent[g + 1] \in Packets
      /\ p.st = "ok" /\ p.data = sent[g + 1]
      /\ Drop(out, p.size) \in Seq(Bytes)
      /\ Carries(Drop(out, p.size), CompressThreshold, sent, g + 1, w)
  BY <1>1, <1>3, ClientHas
<1>5. Shape /\ got \in Seq(Packets)
  BY RelayInvParts DEF Shape
<1>6. out' = Drop(out, p.size) /\ got' = Append(got, sent[g + 1])
  BY <1>2, <1>4
<1>7. /\ got' \in Seq(Packets) /\ Len(got') = g + 1 /\ got'[g + 1] = sent[g + 1]
      /\ \A k \in 1 .. g : got'[k] = got[k]
  BY <1>4, <1>5, <1>6, AppendProperties
<1>8. Shape'
  BY <1>2, <1>4, <1>5, <1>6, <1>7 DEF Shape
<1>9. AtCompression' /\ AtSuccess' /\ Broken' /\ AtPlay(r)'
  BY <1>1, <1>2, AfterReader
<1>10. Order(w, r)'
  <2>1. ASSUME NEW pkt, NEW k, IsPacket(pkt, k) PROVE IsPacket(pkt, k)'
    BY <2>1, <1>2, PacketKept
  <2>2. (cur # None => IsPacket(cur, w + 1))'
    BY <2>1, <1>1, <1>2 DEF Order
  <2>3. (rd.packet # None => IsPacket(rd.packet, r))'
    BY <2>1, <1>1, <1>2 DEF Order
  <2>4. (/\ r = w + Held(cur) + Held(rd.packet)
         /\ rd.pc \notin {"play", "broken"} => r = 0
         /\ rd.packet # None => rd.pc = "play"
         /\ cur # None /\ rd.packet # None /\ cur.raw /\ rd.packet.raw => cur.buffer # rd.packet.buffer
         /\ \A k \in 1 .. r : ~TooBig(CompressThreshold, sent[k]))'
    BY <1>1, <1>2 DEF Order, Held
  <2>5. (Carries(out, CompressThreshold, sent, Len(got), w) /\ Len(got) <= w)'
    BY <1>2, <1>4, <1>6, <1>7
  <2>6. (\A k \in 1 .. Len(got) : got[k] = sent[k])'
    <3>1. \A k \in 1 .. g : got[k] = sent[k]
      BY <1>1 DEF Order
    <3>2. \A k \in 1 .. g + 1 : k \in 1 .. g \/ k = g + 1
      BY <1>5
    <3>3. QED BY <3>1, <3>2, <1>2, <1>7
  <2>7. QED BY <2>2, <2>3, <2>4, <2>5, <2>6 DEF Order
<1>11. w \in 0 .. Len(sent') /\ r \in 0 .. Len(sent')
  BY <1>2
<1>12. QED BY <1>8, <1>9, <1>10, <1>11 DEF RelayInv, InOrder

\* Nothing happens.
LEMMA RelayInvStutter ==
    ASSUME Constants, RelayInv, UNCHANGED vars
    PROVE  RelayInv'
<1>1. UNCHANGED <<upstream, sent, net, sock, rd, heap, free, cur, out, got>>
  BY DEF vars
<1>2. Stream' = Stream /\ Shape'
  <2>1. Shape
    BY RelayInvParts
  <2>2. QED BY <1>1, <2>1 DEF Stream, Shape
<1>3. QED BY <1>1, <1>2, MovedStep

\* The invariant is inductive.
LEMMA RelayInvNext ==
    ASSUME Constants, RelayInv, [Next]_vars
    PROVE  RelayInv'
<1>1. CASE UpstreamLogin
  BY <1>1, UpstreamLoginStep
<1>2. CASE \E p \in Packets : UpstreamPlays(p)
  BY <1>2, UpstreamPlaysStep
<1>3. CASE \E n \in 1 .. Len(net) : Arrive(n)
  BY <1>3, ArriveStep
<1>4. CASE Fill
  BY <1>4, FillStep
<1>5. CASE ReadCompression
  BY <1>5, ReadCompressionStep
<1>6. CASE ReadSuccess
  BY <1>6, ReadSuccessStep
<1>7. CASE \E b \in Buffers : ReadPlay(b)
  BY <1>7, ReadPlayStep
<1>8. CASE ReadFails
  BY <1>8, ReadFailsStep
<1>9. CASE Receive
  BY <1>9, ReceiveStep
<1>10. CASE HandlePacket
  BY <1>10, HandlePacketStep
<1>11. CASE ClientReads
  BY <1>11, ClientReadsStep
<1>12. CASE \E b \in Buffers : OtherHandler(b)
  BY <1>12, OtherHandlerStep
<1>13. CASE UNCHANGED vars
  BY <1>13, RelayInvStutter
<1>14. QED
  BY <1>1, <1>2, <1>3, <1>4, <1>5, <1>6, <1>7, <1>8, <1>9, <1>10, <1>11, <1>12, <1>13 DEF Next, Read

\* A packet that is all there is not waited for.
LEMMA NotShort ==
    ASSUME FramingAssumption, NEW thr \in Nat, NEW p, Serialised(p), NEW t \in Seq(Bytes), NEW s,
           s = WritePacket(thr, p) \o t
    PROVE  ReadPacket(thr, s).st # "short"
<1> USE DEF FramingAssumption
<1> DEFINE f == WritePacket(thr, p)
<1>1. f \in Seq(Bytes)
  BY FrameBytes
<1>2. f \o t \in Seq(Bytes) /\ Len(f) <= Len(f \o t) /\ Len(f) \in Nat /\ Len(f \o t) \in Nat
  <2> HIDE DEF f
  <2>1. QED BY <1>1, ConcatProperties
<1>3. s \o <<>> = f \o t /\ <<>> \in Seq(Bytes)
  BY <1>2, EmptyBefore
<1>4. InFront(thr, p, s, <<>>, t)
  BY <1>2, <1>3 DEF InFront
<1>5. ~(Len(s) < Len(f))
  BY <1>2
<1> HIDE DEF f
<1>6. QED BY <1>4, <1>5, ReadPacketReturns DEF f

\* What the client has is the beginning of what was sent.
LEMMA IntactHolds ==
    ASSUME RelayInv
    PROVE  Intact
<1>1. PICK w \in 0 .. Len(sent), r \in 0 .. Len(sent) : Order(w, r) /\ AtPlay(r)
  BY RelayInvParts
<1>2. got \in Seq(Packets) /\ sent \in Seq(Packets) /\ Len(got) \in Nat /\ Len(sent) \in Nat
  BY RelayInvParts DEF Shape
<1>3. Len(got) <= Len(sent) /\ \A k \in 1 .. Len(got) : got[k] = sent[k]
  BY <1>1, <1>2 DEF Order
<1>4. /\ SubSeq(got, 1, Len(got)) \in Seq(Packets) /\ Len(SubSeq(got, 1, Len(got))) = Len(got)
      /\ \A k \in 1 .. Len(got) : SubSeq(got, 1, Len(got))[k] = got[k]
  BY <1>2, SubSeqProperties
<1>5. /\ SubSeq(sent, 1, Len(got)) \in Seq(Packets) /\ Len(SubSeq(sent, 1, Len(got))) = Len(got)
      /\ \A k \in 1 .. Len(got) : SubSeq(sent, 1, Len(got))[k] = sent[k]
  BY <1>2, <1>3, SubSeqProperties
<1>6. SubSeq(got, 1, Len(got)) = SubSeq(sent, 1, Len(got))
  BY <1>3, <1>4, <1>5, SeqEqual
<1>7. QED BY <1>3, <1>6 DEF Intact, IsPrefix

\* A goroutine that waits has no packet before it, so all of them are with the client.
LEMMA DeliveredHolds ==
    ASSUME Constants, RelayInv
    PROVE  Delivered
<1> SUFFICES ASSUME rd.pc \in {"success", "play"}, rd.packet = None, cur = None, net = <<>>, sock = <<>>,
                    ReadPacket(rd.thr, rd.ahead).st = "short",
                    ReadPacket(CompressThreshold, out).st = "short"
             PROVE  got = sent
  BY DEF Delivered
<1>1. PICK w \in 0 .. Len(sent), r \in 0 .. Len(sent) : Order(w, r) /\ AtPlay(r)
  BY RelayInvParts
<1>2. /\ Shape /\ FramingAssumption /\ sent \in Seq(Packets) /\ got \in Seq(Packets)
      /\ Len(sent) \in Nat /\ Len(got) \in Nat /\ CompressThreshold \in Nat /\ rd.ahead \in Seq(Bytes)
  BY RelayInvParts, ConstantFacts DEF Shape, Constants
<1>3. Stream = rd.ahead
  BY <1>2, EmptyBefore DEF Stream
<1>4. r = w /\ Len(got) <= w /\ \A k \in 1 .. Len(got) : got[k] = sent[k]
  BY <1>1, <1>2 DEF Order, Held
<1>5. Len(got) = w
  <2>1. SUFFICES ASSUME Len(got) # w PROVE FALSE
    OBVIOUS
  <2>2. ReadPacket(CompressThreshold, out).st = "ok"
    BY <2>1, <1>1, ClientHas
  <2>3. QED BY <2>2
<1>6. r = Len(sent)
  <2>1. CASE rd.pc = "success"
    <3>1. r = 0 /\ AtSuccess /\ rd.thr = CompressThreshold
      BY <2>1, <1>1, RelayInvParts DEF Order, AtSuccess
    <3>2. upstream.next # "play"
      <4>1. SUFFICES ASSUME upstream.next = "play" PROVE FALSE
        OBVIOUS
      <4>2. PICK t \in Seq(Bytes) : rd.ahead = WritePacket(CompressThreshold, LoginSuccess) \o t
        BY <4>1, <3>1, <2>1, <1>3 DEF AtSuccess
      <4>3. ReadPacket(CompressThreshold, rd.ahead).st # "short"
        BY <4>2, <1>2, ConstantFacts, NotShort
      <4>4. QED BY <4>3, <3>1
    <3>3. sent = <<>>
      BY <3>1, <3>2, <2>1 DEF AtSuccess
    <3>4. QED BY <3>1, <3>3
  <2>2. CASE rd.pc = "play"
    <3>1. rd.thr = CompressThreshold /\ Carries(rd.ahead, CompressThreshold, sent, r, Len(sent))
      BY <2>2, <1>1, <1>3 DEF AtPlay
    <3>2. SUFFICES ASSUME r < Len(sent) PROVE FALSE
      BY <1>2
    <3>3. r \in Nat /\ r + 1 \in 1 .. Len(sent) /\ sent[r + 1] \in Packets
      BY <3>2, <1>2
    <3>4. \E t \in Seq(Bytes) :
             rd.ahead = WritePacket(CompressThreshold, sent[r + 1]) \o t
             /\ Carries(t, CompressThreshold, sent, r + 1, Len(sent))
      BY <3>1, <3>2, <3>3, <1>2, CarriesFirst
    <3>5. PICK t \in Seq(Bytes) : rd.ahead = WritePacket(CompressThreshold, sent[r + 1]) \o t
      BY <3>4
    <3>6. ReadPacket(CompressThreshold, rd.ahead).st # "short"
      BY <3>3, <3>5, <1>2, ConstantFacts, NotShort
    <3>7. QED BY <3>1, <3>6
  <2>3. QED BY <2>1, <2>2
<1>7. QED BY <1>2, <1>4, <1>5, <1>6, SeqEqual

\* handler.go, upstream.go, packets/reader.go and writer.go: a client reads exactly the packets
\* of an upstream that connectUpstream accepted, in order, unmixed and undamaged, for every
\* threshold, every length and content of packets, every cut of the stream and every size of
\* VarInts; all of them once nobody has anything left to do; and the proxy refuses only packets
\* over MaxPacketSize.
THEOREM EndToEndHolds == Spec => []EndToEnd
<1> USE WireAssumption DEF Constants
<1>1. Init => RelayInv
  BY RelayInvInit
<1>2. RelayInv /\ [Next]_vars => RelayInv'
  BY RelayInvNext
<1>3. RelayInv => EndToEnd
  <2>1. SUFFICES ASSUME RelayInv PROVE EndToEnd
    OBVIOUS
  <2>2. Intact
    BY <2>1, IntactHolds
  <2>3. FramingAgrees
    BY <2>1, RelayInvParts DEF FramingAgrees, Broken
  <2>4. Delivered
    BY <2>1, DeliveredHolds
  <2>5. QED BY <2>2, <2>3, <2>4 DEF EndToEnd
<1>4. QED BY <1>1, <1>2, <1>3, PTL DEF Spec

-----------------------------------------------------------------------------
(* The fields of packets: one field.                                       *)

\* Kinds of fields that take what there is, and are last.
Tails == {"rest", "all"}
Strings == {"string", "bytes", "nbt"}
Kinds == {"fixed", "bool", "varint", "optional"} \cup Strings \cup Tails \cup CountKinds

\* A field as packet types have them.
Proper(f) ==
    /\ f.k \in Kinds /\ f.lax \in BOOLEAN /\ f.width \in Nat \ {0}
    /\ f.lax => f.k \in {"string", "optional", "varint"}
    /\ f.cases # <<>> => f.k = "varint" \/ (f.k = "fixed" /\ f.width = 1)
    /\ f.k \in CountKinds => f.width = 1 \/ (f.width = 2 /\ f.k = "items")

Int32 == 0 .. Modulus - 1
Positive == {n \in Nat : n < Modulus \div 2}

\* A value that can be written and read again.
Canonical(f, v) ==
    /\ f.k = "fixed" => v \in Seq(Bytes) /\ Len(v) = f.width
    /\ f.k = "bool" => v = <<0>> \/ v = <<1>>
    /\ f.k = "varint" => \E n \in Int32 : v = <<n>>
    /\ f.k \in Strings \cup {"optional", "rest"} => v \in Seq(Bytes) /\ Len(v) <= MaxLen
    /\ f.k = "all" => v \in Seq(Bytes)
    /\ f.k \in CountKinds => \E n \in Positive : v = <<n>> /\ (f.k # "identifiers" => n <= MaxCount)

\* Constants in range.
LEMMA CodecNumbers ==
    /\ Base \in Nat /\ Base > 1 /\ Digits \in Nat /\ Digits >= 1 /\ Modulus \in Nat
    /\ Modulus \div 2 \in Nat /\ Modulus \div 2 <= Modulus - Modulus \div 2
    /\ MaxLen \in Nat /\ MaxLen < Modulus \div 2 /\ MaxCount \in Nat /\ MaxCount < Modulus \div 2
    /\ MaxCount < 2 * Base * Base /\ 2 * Base - 1 \in Nat /\ 5 <= 2 * Base - 1 /\ 5 < Modulus
    /\ VarIntsAssumption
    /\ \A n \in Nat : n < Modulus \div 2 => n \in Int32 /\ ~Negative(n)
BY CodecAssumption, SmallNumbers DEF CodecAssumption, Negative, Bytes, Int32

\* Nothing changes when the empty sequence is put behind.
LEMMA NothingBehind == \A s \in Seq(Bytes) : s \o <<>> = s /\ <<>> \o s = s /\ <<>> \in Seq(Bytes)
BY ConcatEmptySeq

\* What reading a field comes to: the value, if all of its n bytes have arrived, and otherwise a
\* failure that has taken everything.
Returns(r, s, v, n) ==
    IF Len(s) < n THEN r.st = "error" /\ r.size = Len(s) ELSE r = Ok(v, n)

\* The same without a value when it fails.
Plainly(r, s, v, n) == IF Len(s) < n THEN r = Fail(Len(s)) ELSE r = Ok(v, n)

LEMMA PlainReturns ==
    ASSUME NEW r, NEW s \in Seq(Bytes), NEW v, NEW n \in Nat, Plainly(r, s, v, n)
    PROVE  Returns(r, s, v, n)
<1>1. CASE Len(s) < n
  <2>1. r = Fail(Len(s))
    BY <1>1 DEF Plainly
  <2>2. QED BY <1>1, <2>1 DEF Returns, Fail
<1>2. CASE ~(Len(s) < n)
  BY <1>2 DEF Plainly, Returns
<1>3. QED BY <1>1, <1>2

\* ReadFull of as many bytes as were written.
LEMMA ReadFullBack ==
    ASSUME NEW v \in Seq(Bytes), NEW s \in Seq(Bytes), NEW t \in Seq(Bytes), NEW u \in Seq(Bytes),
           s \o t = v \o u
    PROVE  Plainly(ReadFull(s, Len(v)), s, v, Len(v))
<1>1. CASE Len(s) < Len(v)
  <2>1. ReadFull(s, Len(v)) = Fail(Len(s))
    BY <1>1 DEF ReadFull
  <2>2. QED BY <1>1, <2>1 DEF Plainly
<1>2. CASE ~(Len(s) < Len(v))
  <2>1. Holds(s, t, v, u)
    BY <1>2 DEF Holds
  <2>2. SubSeq(s, 1, Len(v)) = v
    BY <2>1, TakeFirst
  <2>3. Len(s) >= Len(v)
    BY <1>2
  <2>4. ReadFull(s, Len(v)) = Ok(v, Len(v))
    BY <2>2, <2>3 DEF ReadFull
  <2>5. QED BY <1>2, <2>4 DEF Plainly
<1>3. QED BY <1>1, <1>2

\* A read that another one follows, n bytes further on.
LEMMA FurtherBack ==
    ASSUME NEW r, NEW s \in Seq(Bytes), NEW s2 \in Seq(Bytes), NEW v, NEW n \in Nat, NEW l \in Nat,
           Len(s2) + n = Len(s), Plainly(r, s2, v, l)
    PROVE  Plainly(Further(r, n), s, v, n + l)
<1>1. CASE Len(s2) < l
  <2>1. Further(r, n) = Fail(Len(s2) + n)
    BY <1>1 DEF Further, Fail, Plainly
  <2>2. Further(r, n) = Fail(Len(s)) /\ Len(s) < n + l
    BY <1>1, <2>1
  <2>3. QED BY <2>2 DEF Plainly
<1>2. CASE ~(Len(s2) < l)
  <2>1. Further(r, n) = Ok(v, l + n)
    BY <1>2 DEF Further, Ok, Plainly
  <2>2. l + n = n + l /\ ~(Len(s) < n + l)
    BY <1>2
  <2>3. Further(r, n) = Ok(v, n + l)
    BY <2>1, <2>2
  <2>4. QED BY <2>2, <2>3 DEF Plainly
<1>3. QED BY <1>1, <1>2

\* The lesser of two numbers.
LEMMA MinOfTwo ==
    ASSUME NEW a \in Nat, NEW b \in Nat
    PROVE  Min({a, b}) = IF a <= b THEN a ELSE b
<1> DEFINE T == {a, b}
<1>1. T \in SUBSET Nat /\ T # {} /\ (Min(T) = a \/ Min(T) = b) /\ Min(T) <= a /\ Min(T) <= b
  <2>1. T \in SUBSET Nat /\ T # {} /\ a \in T /\ b \in T
    OBVIOUS
  <2>2. Min(T) \in T /\ \A y \in T : Min(T) <= y
    <3> HIDE DEF T
    <3>1. QED BY <2>1, MinIsLeast
  <2>3. QED BY <2>1, <2>2
<1>2. QED BY <1>1

\* A VarInt that was written is read back.
LEMMA ReadNumberBack ==
    ASSUME NEW n \in Int32, NEW s \in Seq(Bytes), NEW t \in Seq(Bytes), NEW u \in Seq(Bytes),
           s \o t = VarInt(n) \o u
    PROVE  Returns(ReadNumber(s), s, <<n>>, Len(VarInt(n)))
<1>1. /\ VarIntsAssumption /\ n \in 0 .. Modulus - 1 /\ Digits \in Nat
      /\ VarInt(n) \in Seq(Bytes) /\ Len(VarInt(n)) \in 1 .. Digits /\ Len(s) \in Nat
  BY CodecNumbers, VarIntLen DEF Int32
<1>2. IF Len(s) < Len(VarInt(n)) THEN ReadVarInt(s) = Short
      ELSE ReadVarInt(s) = [st |-> "ok", size |-> Len(VarInt(n)), n |-> n]
  BY <1>1, ReadVarIntBack
<1>3. CASE Len(s) < Len(VarInt(n))
  <2>1. Min({Len(s), 2 * Digits}) = Len(s)
    <3>1. Len(s) \in Nat /\ 2 * Digits \in Nat /\ Len(s) <= 2 * Digits
      BY <1>1, <1>3
    <3>2. QED BY <3>1, MinOfTwo
  <2>2. ReadVarInt(s).st # "ok"
    BY <1>2, <1>3 DEF Short
  <2>3. ReadNumber(s) = [Fail(Len(s)) EXCEPT !.v = <<Gathered(s)[Len(s)] % Modulus>>]
    BY <2>1, <2>2 DEF ReadNumber
  <2>4. QED BY <1>3, <2>3 DEF Returns, Fail
<1>4. CASE ~(Len(s) < Len(VarInt(n)))
  BY <1>2, <1>4 DEF ReadNumber, Returns, Ok
<1>5. QED BY <1>3, <1>4

\* So is a string.
LEMMA ReadStringBack ==
    ASSUME NEW v \in Seq(Bytes), Len(v) <= MaxLen,
           NEW s \in Seq(Bytes), NEW t \in Seq(Bytes), NEW u \in Seq(Bytes),
           s \o t = WriteMinecraftString(v) \o u
    PROVE  /\ WriteMinecraftString(v) \in Seq(Bytes)
           /\ Plainly(ReadMinecraftString(s), s, v, Len(WriteMinecraftString(v)))
<1> DEFINE l == Len(v)
           w == VarInt(l)
           m == Len(w)
           vu == v \o u
           r == ReadNumber(s)
<1>1. l \in Nat /\ l <= MaxLen /\ l \in Int32 /\ Len(s) \in Nat
  BY CodecNumbers
<1>2. w \in Seq(Bytes) /\ m \in Nat
  <2>1. l \in 0 .. Modulus - 1 /\ VarIntsAssumption /\ Digits \in Nat
    BY <1>1, CodecNumbers DEF Int32
  <2>2. QED BY <2>1, VarIntLen
<1>3. vu \in Seq(Bytes)
  BY ConcatProperties
<1> HIDE DEF w
<1>4. WriteMinecraftString(v) = w \o v /\ w \o v \in Seq(Bytes) /\ Len(w \o v) = m + l
  BY <1>2, ConcatProperties DEF WriteMinecraftString, w
<1>5. s \o t = w \o vu
  BY <1>2, <1>4, Associative
<1>6. Returns(r, s, <<l>>, m)
  BY <1>1, <1>3, <1>5, ReadNumberBack DEF w
<1> HIDE DEF vu, r
<1>7. ReadMinecraftString(s) = StringOf(r, s)
  BY DEF ReadMinecraftString, r
<1>8. CASE Len(s) < m
  <2>1. r.st = "error" /\ r.size = Len(s)
    BY <1>6, <1>8 DEF Returns
  <2>2. StringOf(r, s) = Fail(Len(s)) /\ Len(s) < m + l
    BY <1>1, <1>2, <1>8, <2>1 DEF StringOf
  <2>3. QED BY <1>4, <1>7, <2>2 DEF Plainly
<1>9. CASE ~(Len(s) < m)
  <2> DEFINE s2 == Drop(s, m)
  <2>1. r = Ok(<<l>>, m)
    BY <1>6, <1>9 DEF Returns
  <2>2. Holds(s, t, w, vu)
    BY <1>1, <1>2, <1>3, <1>5, <1>9 DEF Holds
  <2>3. s2 \in Seq(Bytes) /\ Len(s2) = Len(s) - m /\ s2 \o t = vu
    BY <2>2, TakeFirst
  <2> HIDE DEF s2
  <2>4. Plainly(ReadFull(s2, l), s2, v, l)
    BY <2>3, ReadFullBack DEF vu
  <2>5. r.st = "ok" /\ r.v[1] = l /\ r.size = m /\ ~(l > MaxLen)
    BY <1>1, <2>1, CodecNumbers DEF Ok
  <2>6. StringOf(r, s) = Further(ReadFull(s2, l), m)
    BY <2>5 DEF StringOf, s2
  <2>7. Len(s2) + m = Len(s)
    BY <1>1, <1>2, <2>3
  <2>8. Plainly(Further(ReadFull(s2, l), m), s, v, m + l)
    BY <1>1, <1>2, <2>3, <2>4, <2>7, FurtherBack
  <2>9. QED BY <1>4, <1>7, <2>6, <2>8
<1>10. QED BY <1>4, <1>8, <1>9

\* What ReadField and Encoded are for each kind.
LEMMA ReadKinds ==
    ASSUME NEW f, NEW s
    PROVE  /\ f.k = "fixed" => ReadField(f, s) = ReadFull(s, f.width)
           /\ f.k = "bool" => ReadField(f, s) = [ReadFull(s, 1) EXCEPT !.v = IF @ = <<1>> THEN @ ELSE <<0>>]
           /\ f.k = "varint" => ReadField(f, s) = ReadNumber(s)
           /\ f.k \in Strings => ReadField(f, s) = ReadMinecraftString(s)
           /\ f.k = "optional" => ReadField(f, s) = ReadOptional(s)
           /\ f.k \in CountKinds => ReadField(f, s) = ReadCount(f, s)
<1>1. CASE f.k = "fixed"
  BY <1>1 DEF ReadField, Strings, CountKinds
<1>2. CASE f.k = "bool"
  BY <1>2 DEF ReadField, Strings, CountKinds
<1>3. CASE f.k = "varint"
  BY <1>3 DEF ReadField, Strings, CountKinds
<1>4. CASE f.k \in Strings
  BY <1>4 DEF ReadField, Strings, CountKinds
<1>5. CASE f.k = "optional"
  BY <1>5 DEF ReadField, Strings, CountKinds
<1>6. CASE f.k \in CountKinds
  BY <1>6 DEF ReadField, Strings, CountKinds
<1>7. QED BY <1>1, <1>2, <1>3, <1>4, <1>5, <1>6

LEMMA ReadTails ==
    ASSUME NEW f, NEW s
    PROVE  /\ f.k = "rest" => ReadField(f, s) = LET n == Min({Len(s), MaxLen}) IN Ok(SubSeq(s, 1, n), n)
           /\ f.k = "all" => ReadField(f, s) = Ok(s, Len(s))
<1>1. CASE f.k = "rest"
  BY <1>1 DEF ReadField, CountKinds
<1>2. CASE f.k = "all"
  BY <1>2 DEF ReadField, CountKinds
<1>3. QED BY <1>1, <1>2

LEMMA WriteKinds ==
    ASSUME NEW f, NEW v
    PROVE  /\ f.k \in {"fixed", "bool", "rest", "all"} => WriteField(f, v) = v
           /\ f.k = "varint" => WriteField(f, v) = VarInt(v[1])
           /\ f.k \in Strings => WriteField(f, v) = WriteMinecraftString(v)
           /\ f.k = "optional" => WriteField(f, v) = WriteOptional(v)
           /\ f.k = "identifiers" => WriteField(f, v) = WriteIdentifierArray(v[1])
           /\ f.k \in CountKinds \ {"identifiers"} =>
                 WriteField(f, v) = IF f.width = 1 THEN VarInt(v[1])
                                    ELSE <<v[1] \div (2 * Base), v[1] % (2 * Base)>>
<1>1. CASE f.k \in {"fixed", "bool", "rest", "all"}
  BY <1>1 DEF WriteField, Strings, CountKinds
<1>2. CASE f.k = "varint"
  BY <1>2 DEF WriteField, Strings, CountKinds
<1>3. CASE f.k \in Strings
  BY <1>3 DEF WriteField, Strings, CountKinds
<1>4. CASE f.k = "optional"
  BY <1>4 DEF WriteField, Strings, CountKinds
<1>5. CASE f.k = "identifiers"
  BY <1>5 DEF WriteField, Strings, CountKinds
<1>6. CASE f.k \in CountKinds \ {"identifiers"}
  BY <1>6 DEF WriteField, Strings, CountKinds
<1>7. QED BY <1>1, <1>2, <1>3, <1>4, <1>5, <1>6

\* Fields of fixed width.
LEMMA FixedBack ==
    ASSUME NEW f, NEW v \in Seq(Bytes), NEW s \in Seq(Bytes), NEW t \in Seq(Bytes), NEW u \in Seq(Bytes),
           f.k = "fixed", Len(v) = f.width, s \o t = v \o u
    PROVE  Returns(ReadField(f, s), s, v, Len(v))
<1>1. ReadField(f, s) = ReadFull(s, Len(v))
  BY ReadKinds
<1>2. Plainly(ReadFull(s, Len(v)), s, v, Len(v))
  BY ReadFullBack
<1>3. Len(v) \in Nat
  OBVIOUS
<1>4. QED BY <1>1, <1>2, <1>3, PlainReturns

\* Booleans.
LEMMA BoolBack ==
    ASSUME NEW f, NEW v, NEW s \in Seq(Bytes), NEW t \in Seq(Bytes), NEW u \in Seq(Bytes),
           f.k = "bool", v = << 0 >> \/ v = << 1 >>, s \o t = v \o u
    PROVE  v \in Seq(Bytes) /\ Returns(ReadField(f, s), s, v, Len(v))
<1>1. v \in Seq(Bytes) /\ Len(v) = 1
  <2>1. 0 \in Bytes /\ 1 \in Bytes
    BY CodecNumbers DEF Bytes
  <2>2. <<0>> \in Seq(Bytes) /\ <<1>> \in Seq(Bytes) /\ Len(<<0>>) = 1 /\ Len(<<1>>) = 1
    BY <2>1
  <2>3. QED BY <2>2
<1>2. Plainly(ReadFull(s, 1), s, v, 1)
  BY <1>1, ReadFullBack
<1>3. ReadField(f, s) = [ReadFull(s, 1) EXCEPT !.v = IF @ = <<1>> THEN @ ELSE <<0>>]
  BY ReadKinds
<1>4. CASE Len(s) < 1
  <2>1. ReadFull(s, 1) = Fail(Len(s))
    BY <1>4 DEF ReadFull
  <2>2. ReadField(f, s).st = "error" /\ ReadField(f, s).size = Len(s)
    BY <1>3, <2>1 DEF Fail
  <2>3. QED BY <1>1, <1>4, <2>2 DEF Returns
<1>5. CASE ~(Len(s) < 1)
  <2>1. ReadFull(s, 1) = Ok(v, 1)
    BY <1>2, <1>5 DEF Plainly
  <2>2. v = IF v = <<1>> THEN v ELSE <<0>>
    OBVIOUS
  <2>3. ReadField(f, s) = Ok(v, 1)
    BY <1>3, <2>1, <2>2 DEF Ok
  <2>4. QED BY <1>1, <1>5, <2>3 DEF Returns
<1>6. QED BY <1>4, <1>5

\* Numbers and strings.
LEMMA NumberBack ==
    ASSUME NEW f, NEW v, NEW s \in Seq(Bytes), NEW t \in Seq(Bytes), NEW u \in Seq(Bytes),
           f.k = "varint", \E n \in Int32 : v = <<n>>, s \o t = VarInt(v[1]) \o u
    PROVE  VarInt(v[1]) \in Seq(Bytes) /\ Returns(ReadField(f, s), s, v, Len(VarInt(v[1])))
<1>1. PICK n \in Int32 : v = <<n>>
  OBVIOUS
<1>2. v[1] = n
  BY <1>1
<1>3. VarInt(n) \in Seq(Bytes)
  <2>1. n \in 0 .. Modulus - 1 /\ VarIntsAssumption /\ Digits \in Nat
    BY CodecNumbers DEF Int32
  <2>2. QED BY <2>1, VarIntLen
<1>4. Returns(ReadNumber(s), s, <<n>>, Len(VarInt(n)))
  BY <1>2, ReadNumberBack
<1>5. QED BY <1>1, <1>2, <1>3, <1>4, ReadKinds

\* Optional strings.
LEMMA OptionalBack ==
    ASSUME NEW v \in Seq(Bytes), Len(v) <= MaxLen,
           NEW s \in Seq(Bytes), NEW t \in Seq(Bytes), NEW u \in Seq(Bytes),
           s \o t = WriteOptional(v) \o u
    PROVE  /\ WriteOptional(v) \in Seq(Bytes)
           /\ Plainly(ReadOptional(s), s, v, Len(WriteOptional(v)))
<1> DEFINE w == WriteMinecraftString(v)
           one == <<1>>
           zero == <<0>>
<1>1. one \in Seq(Bytes) /\ zero \in Seq(Bytes) /\ Len(one) = 1 /\ Len(zero) = 1
  <2>1. 0 \in Bytes /\ 1 \in Bytes
    BY CodecNumbers DEF Bytes
  <2>2. QED BY <2>1
<1>2. w \in Seq(Bytes)
  <2>1. Len(v) \in 0 .. Modulus - 1 /\ VarIntsAssumption /\ Digits \in Nat
    BY CodecNumbers DEF Int32
  <2>2. VarInt(Len(v)) \in Seq(Bytes)
    BY <2>1, VarIntLen
  <2>3. QED BY <2>2, ConcatProperties DEF WriteMinecraftString
<1>3. CASE s = <<>>
  <2>1. ReadOptional(s) = Fail(0) /\ Len(s) = 0
    BY <1>3 DEF ReadOptional
  <2>2. WriteOptional(v) \in Seq(Bytes) /\ Len(WriteOptional(v)) > 0
    <3>1. one \o w \in Seq(Bytes) /\ Len(one \o w) = 1 + Len(w)
      BY <1>1, <1>2, ConcatProperties
    <3>2. QED BY <1>1, <1>2, <3>1 DEF WriteOptional
  <2>3. QED BY <2>1, <2>2 DEF Plainly
<1>4. CASE s # <<>> /\ v = <<>>
  <2>1. WriteOptional(v) = zero
    BY <1>4 DEF WriteOptional
  <2> HIDE DEF zero
  <2>2. Holds(s, t, zero, u)
    BY <1>1, <1>4, <2>1 DEF Holds
  <2>3. Head(s) # 1
    <3>1. Head(s) = s[1] /\ 1 \in 1 .. Len(zero)
      BY <1>1, <1>4
    <3>2. s[1] = zero[1]
      BY <2>2, <3>1, TakeFirst
    <3>3. QED BY <3>1, <3>2 DEF zero
  <2>4. ReadOptional(s) = Ok(v, 1)
    BY <1>4, <2>3 DEF ReadOptional
  <2>5. ~(Len(s) < 1)
    BY <1>4
  <2>6. QED BY <1>1, <2>1, <2>4, <2>5 DEF Plainly
<1>5. CASE s # <<>> /\ v # <<>>
  <2> DEFINE wu == w \o u
             s2 == Drop(s, 1)
  <2> HIDE DEF w, one
  <2>1. WriteOptional(v) = one \o w /\ one \o w \in Seq(Bytes) /\ Len(one \o w) = 1 + Len(w)
    BY <1>1, <1>2, <1>5, ConcatProperties DEF WriteOptional, one, w
  <2>2. wu \in Seq(Bytes) /\ s \o t = one \o wu
    <3>1. wu \in Seq(Bytes)
      BY <1>2, ConcatProperties
    <3>2. wu = w \o u
      OBVIOUS
    <3> HIDE DEF wu, s2, zero
    <3>3. (one \o w) \o u = one \o wu
      <4> DEFINE a == one
      <4>1. a \in Seq(Bytes) /\ w \in Seq(Bytes) /\ u \in Seq(Bytes)
        BY <1>1, <1>2
      <4> HIDE DEF a
      <4>2. (a \o w) \o u = a \o (w \o u)
        BY <4>1, Associative
      <4>3. QED BY <4>2, <3>2 DEF a
    <3>4. QED BY <2>1, <3>1, <3>3
  <2> HIDE DEF wu
  <2>3. Holds(s, t, one, wu)
    BY <1>1, <1>5, <2>2 DEF Holds
  <2>4. s2 \in Seq(Bytes) /\ Len(s2) = Len(s) - 1 /\ s2 \o t = wu
    <3>1. s2 = Drop(s, Len(one))
      BY <1>1
    <3>2. Drop(s, Len(one)) \in Seq(Bytes) /\ Len(Drop(s, Len(one))) = Len(s) - Len(one)
          /\ Drop(s, Len(one)) \o t = wu
      BY <2>3, TakeFirst
    <3> HIDE DEF s2
    <3>3. QED BY <1>1, <3>1, <3>2
  <2>5. Head(s) = 1
    <3>1. Head(s) = s[1] /\ 1 \in 1 .. Len(one)
      BY <1>1, <1>5
    <3>2. s[1] = one[1]
      BY <2>3, <3>1, TakeFirst
    <3>3. QED BY <3>1, <3>2 DEF one
  <2>6. ReadOptional(s) = Further(ReadMinecraftString(s2), 1)
    BY <1>5, <2>5 DEF ReadOptional
  <2> HIDE DEF s2
  <2>7. Plainly(ReadMinecraftString(s2), s2, v, Len(w))
    BY <2>4, ReadStringBack DEF wu, w
  <2>8. Plainly(Further(ReadMinecraftString(s2), 1), s, v, 1 + Len(w))
    <3>1. Len(s2) + 1 = Len(s) /\ Len(w) \in Nat
      BY <1>2, <2>4
    <3>2. QED BY <2>4, <2>7, <3>1, FurtherBack
  <2>9. QED BY <2>1, <2>6, <2>8
<1>6. QED BY <1>3, <1>4, <1>5

\* The two bytes of an int16.
High(n) == n \div (2 * Base)
Low(n) == n % (2 * Base)

LEMMA TwoBytes ==
    ASSUME NEW n \in Nat, n < 2 * Base * Base
    PROVE  High(n) \in Bytes /\ Low(n) \in Bytes /\ High(n) * 2 * Base + Low(n) = n
<1> DEFINE b == 2 * Base
           q == High(n)
           r == Low(n)
<1>1. Base \in Nat /\ Base > 1 /\ b \in Nat /\ b > 0
  BY CodecNumbers
<1>2. q \in Nat /\ r \in Nat /\ r < b /\ n = b * q + r
  <2>1. q = n \div b /\ r = n % b
    BY DEF High, Low
  <2> HIDE DEF b, q, r
  <2>2. n \div b \in Nat /\ n % b \in Nat /\ n % b < b /\ n = b * (n \div b) + (n % b)
    BY <1>1, DivMod
  <2>3. QED BY <2>1, <2>2
<1> HIDE DEF q, r
<1>3. q < Base
  <2>1. SUFFICES ASSUME q >= Base PROVE FALSE
    BY <1>1, <1>2
  <2>2. b * q >= b * Base
    <3> HIDE DEF b
    <3>1. PICK d \in Nat : q = Base + d
      <4>1. q - Base \in Nat /\ q = Base + (q - Base)
        BY <1>1, <1>2, <2>1
      <4>2. QED BY <4>1
    <3>2. b * q = b * Base + b * d
      BY <1>1, <3>1
    <3>3. b * d \in Nat /\ b * Base \in Nat
      BY <1>1, <3>1
    <3>4. QED BY <3>2, <3>3
  <2>3. n < b * Base
    OBVIOUS
  <2>4. b * q \in Nat /\ b * Base \in Nat
    <3> HIDE DEF b
    <3>1. QED BY <1>1, <1>2
  <2>5. QED
    <3> HIDE DEF b
    <3>1. QED BY <1>2, <2>2, <2>3, <2>4
<1>4. q * 2 * Base + r = n
  <2>1. q * 2 * Base = b * q
    BY <1>1, <1>2
  <2>2. QED BY <1>2, <2>1
<1>5. q \in Bytes /\ r \in Bytes
  BY <1>1, <1>2, <1>3 DEF Bytes
<1>6. QED BY <1>4, <1>5 DEF q, r

\* The count is in range.
LEMMA CountInRange ==
    ASSUME NEW f, NEW n \in Nat, NEW size, f.k \in CountKinds, f.k # "identifiers" => n <= MaxCount
    PROVE  CountOf(f, n, FALSE, size) = Ok(<<n>>, size)
<1> DEFINE no == FALSE
<1>1. ~no
  OBVIOUS
<1> HIDE DEF no
<1>2. ~(n > MaxCount /\ f.k # "identifiers")
  BY CodecNumbers
<1>3. CountOf(f, n, no, size) = Ok(<<n>>, size)
  BY <1>1, <1>2 DEF CountOf, CountKinds
<1>4. QED BY <1>3 DEF no

\* A number of items that is written as a VarInt.
LEMMA CountBack ==
    ASSUME NEW f, NEW n \in Positive, NEW s \in Seq(Bytes), NEW t \in Seq(Bytes), NEW u \in Seq(Bytes),
           f.k \in CountKinds, f.width = 1, f.k # "identifiers" => n <= MaxCount,
           s \o t = VarInt(n) \o u
    PROVE  Returns(ReadCount(f, s), s, <<n>>, Len(VarInt(n)))
<1> DEFINE c == ReadNumber(s)
           m == Len(VarInt(n))
<1>1. n \in Int32 /\ n \in Nat /\ ~Negative(n)
  BY CodecNumbers DEF Positive
<1>2. Returns(c, s, <<n>>, m)
  BY <1>1, ReadNumberBack
<1>3. ReadCount(f, s) = IF c.st # "ok" THEN Fail(c.size)
                        ELSE CountOf(f, c.v[1], Negative(c.v[1]), c.size)
  BY DEF ReadCount
<1> HIDE DEF c, m
<1>4. CASE Len(s) < m
  <2>1. c.st = "error" /\ c.size = Len(s)
    BY <1>2, <1>4 DEF Returns
  <2>2. ReadCount(f, s) = Fail(Len(s))
    BY <1>3, <2>1
  <2>3. QED BY <1>4, <2>2 DEF Returns, Fail, m
<1>5. CASE ~(Len(s) < m)
  <2>1. c = Ok(<<n>>, m)
    BY <1>2, <1>5 DEF Returns
  <2>2. c.st = "ok" /\ c.v[1] = n /\ c.size = m
    BY <2>1 DEF Ok
  <2> DEFINE no == Negative(n)
  <2>3. ReadCount(f, s) = CountOf(f, n, no, m) /\ no = FALSE
    BY <1>1, <1>3, <2>2
  <2> HIDE DEF no
  <2>4. ReadCount(f, s) = CountOf(f, n, FALSE, m)
    BY <2>3
  <2>5. CountOf(f, n, FALSE, m) = Ok(<<n>>, m)
    BY <1>1, CountInRange
  <2>6. QED BY <1>5, <2>4, <2>5 DEF Returns, m
<1>6. QED BY <1>4, <1>5

\* One that is written as an int16.
LEMMA ShortCountBack ==
    ASSUME NEW f, NEW n \in Positive, NEW s \in Seq(Bytes), NEW t \in Seq(Bytes), NEW u \in Seq(Bytes),
           f.k \in CountKinds, f.width = 2, n <= MaxCount,
           s \o t = <<High(n), Low(n)>> \o u
    PROVE  /\ <<High(n), Low(n)>> \in Seq(Bytes)
           /\ Returns(ReadCount(f, s), s, <<n>>, 2)
<1> DEFINE q == High(n)
           r == Low(n)
           w == <<q, r>>
           c == ReadFull(s, 2)
<1>1. n \in Nat /\ n < 2 * Base * Base
  BY CodecNumbers DEF Positive
<1>2. q \in Bytes /\ r \in Bytes /\ q * 2 * Base + r = n
  BY <1>1, TwoBytes
<1> HIDE DEF q, r
<1>3. w \in Seq(Bytes) /\ Len(w) = 2 /\ w[1] = q /\ w[2] = r
  BY <1>2
<1> HIDE DEF w
<1>4. s \o t = w \o u
  BY DEF w, q, r
<1>5. Plainly(c, s, w, 2)
  BY <1>3, <1>4, ReadFullBack
<1>6. ReadCount(f, s) = IF c.st # "ok" THEN Fail(c.size)
                        ELSE CountOf(f, c.v[1] * 2 * Base + c.v[2],
                                     c.v[1] * 2 * Base + c.v[2] >= 2 * Base * Base, c.size)
  BY DEF ReadCount
<1> HIDE DEF c
<1>7. CASE Len(s) < 2
  <2>1. c.st = "error" /\ c.size = Len(s)
    BY <1>5, <1>7 DEF Plainly, Fail
  <2>2. ReadCount(f, s) = Fail(Len(s))
    BY <1>6, <2>1
  <2>3. QED BY <1>3, <1>7, <2>2 DEF Returns, Fail, w, q, r
<1>8. CASE ~(Len(s) < 2)
  <2>1. c = Ok(w, 2)
    BY <1>5, <1>8 DEF Plainly
  <2>2. c.st = "ok" /\ c.v[1] = q /\ c.v[2] = r /\ c.size = 2
    BY <1>3, <2>1 DEF Ok
  <2> DEFINE no == n >= 2 * Base * Base
  <2>3. ReadCount(f, s) = CountOf(f, n, no, 2) /\ no = FALSE
    BY <1>1, <1>2, <1>6, <2>2, CodecNumbers
  <2> HIDE DEF no
  <2>4. ReadCount(f, s) = CountOf(f, n, FALSE, 2)
    BY <2>3
  <2>5. CountOf(f, n, FALSE, 2) = Ok(<<n>>, 2)
    BY <1>1, CountInRange
  <2>6. QED BY <1>3, <1>8, <2>4, <2>5 DEF Returns, w, q, r
<1>9. QED BY <1>7, <1>8

\* Whatever the field: a value that was written is read back from the front of what has arrived.
LEMMA ReadBack ==
    ASSUME NEW f, NEW v, NEW s \in Seq(Bytes), NEW t \in Seq(Bytes), NEW u \in Seq(Bytes),
           Proper(f), Canonical(f, v), f.k \notin Tails, s \o t = Encoded(f, v) \o u
    PROVE  Encoded(f, v) \in Seq(Bytes) /\ Returns(ReadField(f, s), s, v, Len(Encoded(f, v)))
<1>1. CASE f.k = "fixed"
  <2>1. Encoded(f, v) = v
    BY <1>1, WriteKinds DEF Encoded
  <2>2. v \in Seq(Bytes) /\ Len(v) = f.width
    BY <1>1 DEF Canonical
  <2>3. QED BY <1>1, <2>1, <2>2, FixedBack
<1>2. CASE f.k = "bool"
  <2>1. Encoded(f, v) = v
    BY <1>2, WriteKinds DEF Encoded
  <2>2. v = <<0>> \/ v = <<1>>
    BY <1>2 DEF Canonical
  <2>3. QED BY <1>2, <2>1, <2>2, BoolBack
<1>3. CASE f.k = "varint"
  <2>1. Encoded(f, v) = VarInt(v[1])
    BY <1>3, WriteKinds DEF Encoded
  <2>2. \E n \in Int32 : v = <<n>>
    BY <1>3 DEF Canonical
  <2>3. QED BY <1>3, <2>1, <2>2, NumberBack
<1>4. CASE f.k \in Strings
  <2>1. Encoded(f, v) = WriteMinecraftString(v)
    BY <1>4, WriteKinds DEF Encoded, Strings
  <2>2. v \in Seq(Bytes) /\ Len(v) <= MaxLen
    BY <1>4 DEF Canonical, Strings
  <2>3. /\ WriteMinecraftString(v) \in Seq(Bytes)
        /\ Plainly(ReadMinecraftString(s), s, v, Len(WriteMinecraftString(v)))
    BY <2>1, <2>2, ReadStringBack
  <2>4. Returns(ReadMinecraftString(s), s, v, Len(WriteMinecraftString(v)))
    <3>1. Len(WriteMinecraftString(v)) \in Nat
      BY <2>3
    <3>2. QED BY <2>3, <3>1, PlainReturns
  <2>5. QED BY <1>4, <2>1, <2>3, <2>4, ReadKinds
<1>5. CASE f.k = "optional"
  <2>1. Encoded(f, v) = WriteOptional(v)
    BY <1>5, WriteKinds DEF Encoded
  <2>2. v \in Seq(Bytes) /\ Len(v) <= MaxLen
    BY <1>5 DEF Canonical
  <2>3. /\ WriteOptional(v) \in Seq(Bytes)
        /\ Plainly(ReadOptional(s), s, v, Len(WriteOptional(v)))
    BY <2>1, <2>2, OptionalBack
  <2>4. Returns(ReadOptional(s), s, v, Len(WriteOptional(v)))
    <3>1. Len(WriteOptional(v)) \in Nat
      BY <2>3
    <3>2. QED BY <2>3, <3>1, PlainReturns
  <2>5. QED BY <1>5, <2>1, <2>3, <2>4, ReadKinds
<1>6. CASE f.k \in CountKinds
  <2>1. PICK n \in Positive : v = <<n>> /\ (f.k # "identifiers" => n <= MaxCount)
    BY <1>6 DEF Canonical
  <2>2. v[1] = n
    BY <2>1
  <2>3. CASE f.width = 1
    <3>1. Encoded(f, v) = VarInt(n)
      BY <1>6, <2>2, <2>3, WriteKinds DEF Encoded
    <3>2. Returns(ReadCount(f, s), s, <<n>>, Len(VarInt(n)))
      BY <1>6, <2>1, <2>3, <3>1, CountBack
    <3>3. VarInt(n) \in Seq(Bytes)
      <4>1. n \in 0 .. Modulus - 1 /\ VarIntsAssumption /\ Digits \in Nat
        BY CodecNumbers DEF Int32, Positive
      <4>2. QED BY <4>1, VarIntLen
    <3>4. QED BY <1>6, <2>1, <3>1, <3>2, <3>3, ReadKinds
  <2>4. CASE f.width = 2 /\ f.k = "items"
    <3> DEFINE w == <<High(n), Low(n)>>
    <3>1. Encoded(f, v) = w
      BY <1>6, <2>2, <2>4, WriteKinds DEF Encoded, High, Low
    <3>2. w \in Seq(Bytes) /\ Returns(ReadCount(f, s), s, <<n>>, 2)
      BY <1>6, <2>1, <2>4, <3>1, ShortCountBack
    <3>3. Len(w) = 2
      OBVIOUS
    <3>4. QED BY <1>6, <2>1, <3>1, <3>2, <3>3, ReadKinds
  <2>5. QED BY <1>6, <2>3, <2>4 DEF Proper
<1>7. QED BY <1>1, <1>2, <1>3, <1>4, <1>5, <1>6 DEF Proper, Kinds

\* A read that gives a value of V, or fails without one.
Gives(r, s, V) ==
    \E n \in Nat : n <= Len(s) /\ (r = Fail(n) \/ \E v \in V : r = Ok(v, n))

Texts(n) == {v \in Seq(Bytes) : Len(v) = n}
ShortTexts == {v \in Seq(Bytes) : Len(v) <= MaxLen}
OneNumber == {<<n>> : n \in Int32}

\* The first n bytes, and what is behind them.
LEMMA FirstBytes ==
    ASSUME NEW s \in Seq(Bytes), NEW n \in Nat, n <= Len(s)
    PROVE  /\ SubSeq(s, 1, n) \in Seq(Bytes) /\ Len(SubSeq(s, 1, n)) = n
           /\ Drop(s, n) \in Seq(Bytes) /\ Len(Drop(s, n)) = Len(s) - n
<1>1. Len(s) \in Nat
  OBVIOUS
<1>2. SubSeq(s, 1, n) \in Seq(Bytes) /\ Len(SubSeq(s, 1, n)) = n
  <2>1. \A i \in 1 .. n : s[i] \in Bytes
    BY <1>1
  <2>2. QED BY <1>1, <2>1, SubSeqProperties
<1>3. Drop(s, n) \in Seq(Bytes) /\ Len(Drop(s, n)) = Len(s) - n
  <2>1. \A i \in n + 1 .. Len(s) : s[i] \in Bytes
    BY <1>1
  <2>2. QED BY <1>1, <2>1, SubSeqProperties DEF Drop
<1>4. QED BY <1>2, <1>3

LEMMA ReadFullGives ==
    ASSUME NEW s \in Seq(Bytes), NEW n \in Nat
    PROVE  Gives(ReadFull(s, n), s, Texts(n))
<1>1. Len(s) \in Nat
  OBVIOUS
<1>2. CASE Len(s) >= n
  <2>1. SubSeq(s, 1, n) \in Texts(n)
    BY <1>1, <1>2, FirstBytes DEF Texts
  <2>2. ReadFull(s, n) = Ok(SubSeq(s, 1, n), n)
    BY <1>2 DEF ReadFull
  <2>3. QED BY <1>1, <1>2, <2>1, <2>2 DEF Gives
<1>3. CASE ~(Len(s) >= n)
  <2>1. ReadFull(s, n) = Fail(Len(s))
    BY <1>3 DEF ReadFull
  <2>2. QED BY <1>1, <2>1 DEF Gives
<1>4. QED BY <1>2, <1>3

\* A number that is not all there gives the part that is, and the error.
LEMMA ReadNumberGives ==
    ASSUME NEW s \in Seq(Bytes)
    PROVE  /\ ReadNumber(s).st \in {"ok", "error"} /\ ReadNumber(s).v \in OneNumber
           /\ ReadNumber(s).size \in Nat /\ ReadNumber(s).size <= Len(s)
           /\ Len(s) = 0 => ReadNumber(s).st = "error"
<1> DEFINE r == ReadVarInt(s)
           ends == {i \in 1 .. Len(s) : s[i] < Base}
           m == Min({Len(s), 2 * Digits})
<1>1. Len(s) \in Nat /\ Gathered(s) \in [0 .. Len(s) -> Nat] /\ Modulus \in Nat \ {0} /\ 2 * Digits \in Nat
  BY CodecNumbers, GatheredFunction
<1>2. \A i \in 0 .. Len(s) : Gathered(s)[i] % Modulus \in Int32
  <2>1. ASSUME NEW i \in 0 .. Len(s) PROVE Gathered(s)[i] % Modulus \in Int32
    <3>1. Gathered(s)[i] \in Nat
      BY <1>1
    <3>2. Gathered(s)[i] % Modulus \in Nat /\ Gathered(s)[i] % Modulus < Modulus
      BY <1>1, <3>1, DivMod
    <3>3. QED BY <1>1, <3>2 DEF Int32
  <2>2. QED BY <2>1
<1>3. CASE ends # {} /\ Min(ends) <= 2 * Digits
  <2>1. Min(ends) \in 1 .. Len(s)
    <3>1. ends \in SUBSET Nat /\ ends \in SUBSET (1 .. Len(s))
      BY <1>1
    <3> HIDE DEF ends
    <3>2. Min(ends) \in ends
      BY <1>3, <3>1, MinIsLeast
    <3>3. QED BY <3>1, <3>2
  <2>2. r = [st |-> "ok", size |-> Min(ends), n |-> Gathered(s)[Min(ends)] % Modulus]
    BY <1>3 DEF ReadVarInt
  <2>3. r.st = "ok" /\ r.n \in Int32 /\ r.size \in 1 .. Len(s)
    <3> HIDE DEF ends
    <3>1. Min(ends) \in 0 .. Len(s)
      BY <1>1, <2>1
    <3>2. QED BY <1>2, <2>1, <2>2, <3>1
  <2> HIDE DEF r
  <2>4. ReadNumber(s) = Ok(<<r.n>>, r.size)
    BY <2>3 DEF ReadNumber, r
  <2>5. QED BY <1>1, <2>3, <2>4 DEF Ok, OneNumber
<1>4. CASE ~(ends # {} /\ Min(ends) <= 2 * Digits)
  <2>1. r.st # "ok"
    BY <1>4 DEF ReadVarInt, Short, Bad
  <2>2. m \in Nat /\ m <= Len(s)
    BY <1>1, MinOfTwo
  <2> HIDE DEF ends, m, r
  <2>3. Gathered(s)[m] % Modulus \in Int32
    BY <1>1, <1>2, <2>2
  <2>4. ReadNumber(s) = [Fail(m) EXCEPT !.v = <<Gathered(s)[m] % Modulus>>]
    BY <2>1 DEF ReadNumber, m, r
  <2>5. QED BY <2>2, <2>3, <2>4 DEF Fail, OneNumber
<1>5. QED
  <2>1. Len(s) = 0 => ends = {}
    BY <1>1
  <2>2. Len(s) = 0 => ReadNumber(s).st = "error"
    <3>1. CASE Len(s) = 0
      <4>1. r.st # "ok"
        BY <2>1, <3>1 DEF ReadVarInt, Short, Bad
      <4> HIDE DEF r
      <4>2. ReadNumber(s) = [Fail(m) EXCEPT !.v = <<Gathered(s)[m] % Modulus>>]
        BY <4>1 DEF ReadNumber, r
      <4>3. QED BY <4>2 DEF Fail
    <3>2. QED BY <3>1
  <2>3. QED BY <1>3, <1>4, <2>2

\* What is read further on.
LEMMA FurtherGives ==
    ASSUME NEW s \in Seq(Bytes), NEW n \in Nat, n <= Len(s), NEW V, NEW r, Gives(r, Drop(s, n), V)
    PROVE  Gives(Further(r, n), s, V)
<1>1. Len(Drop(s, n)) = Len(s) - n /\ Len(s) \in Nat
  BY FirstBytes
<1>2. PICK m \in Nat : m <= Len(s) - n /\ (r = Fail(m) \/ \E v \in V : r = Ok(v, m))
  BY <1>1 DEF Gives
<1>3. CASE r = Fail(m)
  <2>1. Further(r, n) = Fail(m + n)
    BY <1>3 DEF Further, Fail
  <2>2. m + n \in Nat /\ m + n <= Len(s)
    BY <1>1, <1>2
  <2>3. QED BY <2>1, <2>2 DEF Gives
<1>4. CASE \E v \in V : r = Ok(v, m)
  <2>1. PICK v \in V : r = Ok(v, m)
    BY <1>4
  <2>2. Further(r, n) = Ok(v, m + n)
    BY <2>1 DEF Further, Ok
  <2>3. m + n \in Nat /\ m + n <= Len(s)
    BY <1>1, <1>2
  <2>4. QED BY <2>2, <2>3 DEF Gives
<1>5. QED BY <1>2, <1>3, <1>4

LEMMA ReadStringGives ==
    ASSUME NEW s \in Seq(Bytes)
    PROVE  Gives(ReadMinecraftString(s), s, ShortTexts)
<1> DEFINE l == ReadNumber(s)
<1>1. l.st \in {"ok", "error"} /\ l.v \in OneNumber /\ l.size \in Nat /\ l.size <= Len(s)
  BY ReadNumberGives
<1>2. l.v[1] \in Nat
  BY <1>1, CodecNumbers DEF OneNumber, Int32
<1> HIDE DEF l
<1>3. ReadMinecraftString(s) = StringOf(l, s)
  BY DEF ReadMinecraftString, l
<1>4. CASE l.st # "ok" \/ l.v[1] > MaxLen
  <2>1. StringOf(l, s) = Fail(l.size)
    BY <1>4 DEF StringOf
  <2>2. QED BY <1>1, <1>3, <2>1 DEF Gives
<1>5. CASE ~(l.st # "ok" \/ l.v[1] > MaxLen)
  <2> DEFINE s2 == Drop(s, l.size)
             n == l.v[1]
  <2>1. StringOf(l, s) = Further(ReadFull(s2, n), l.size)
    BY <1>5 DEF StringOf
  <2>2. s2 \in Seq(Bytes)
    BY <1>1, FirstBytes
  <2>3. Gives(ReadFull(s2, n), s2, Texts(n))
    <3> HIDE DEF s2, n
    <3>1. n \in Nat
      BY <1>2 DEF n
    <3>2. QED BY <2>2, <3>1, ReadFullGives
  <2>4. Gives(StringOf(l, s), s, Texts(n))
    BY <1>1, <2>1, <2>3, FurtherGives
  <2>5. Texts(n) \subseteq ShortTexts
    <3>1. n \in Nat /\ MaxLen \in Nat /\ ~(n > MaxLen)
      BY <1>2, <1>5, CodecNumbers
    <3> HIDE DEF n
    <3>2. n <= MaxLen
      BY <3>1
    <3>3. QED BY <3>2 DEF Texts, ShortTexts
  <2>6. QED BY <1>3, <2>4, <2>5 DEF Gives
<1>6. QED BY <1>4, <1>5

LEMMA ReadOptionalGives ==
    ASSUME NEW s \in Seq(Bytes)
    PROVE  Gives(ReadOptional(s), s, ShortTexts)
<1>1. CASE s = <<>>
  BY <1>1 DEF ReadOptional, Gives
<1>2. CASE s # <<>> /\ Head(s) # 1
  <2>1. ReadOptional(s) = Ok(<<>>, 1)
    BY <1>2 DEF ReadOptional
  <2>2. 1 \in Nat /\ 1 <= Len(s)
    BY <1>2
  <2>3. <<>> \in ShortTexts
    <3>1. <<>> \in Seq(Bytes) /\ Len(<<>>) = 0
      OBVIOUS
    <3>2. QED BY <3>1, CodecNumbers DEF ShortTexts
  <2>4. QED BY <2>1, <2>2, <2>3 DEF Gives
<1>3. CASE s # <<>> /\ Head(s) = 1
  <2>1. ReadOptional(s) = Further(ReadMinecraftString(Drop(s, 1)), 1)
    BY <1>3 DEF ReadOptional
  <2>2. 1 \in Nat /\ 1 <= Len(s)
    BY <1>3
  <2>3. Drop(s, 1) \in Seq(Bytes)
    BY <2>2, FirstBytes
  <2>4. Gives(ReadMinecraftString(Drop(s, 1)), Drop(s, 1), ShortTexts)
    BY <2>3, ReadStringGives
  <2>5. QED BY <2>1, <2>2, <2>4, FurtherGives
<1>4. QED BY <1>1, <1>2, <1>3

\* What a read takes and gives.
Typed(f, s, r) ==
    /\ r.st \in {"ok", "error", "panic"} /\ r.size \in Nat /\ r.size <= Len(s)
    /\ r.st = "panic" => f.k = "identifiers"
    /\ r.st = "ok" \/ (r.st = "error" /\ f.lax) => Canonical(f, r.v)
    /\ s = <<>> => IF f.k \in Tails THEN r.st = "ok" ELSE r.st = "error"

\* A read of a value of V, where all of V can be written again, and so can nothing if the
\* field is lax.
LEMMA GivesTyped ==
    ASSUME NEW f, NEW s \in Seq(Bytes), NEW r, NEW V, Gives(r, s, V),
           \A v \in V : Canonical(f, v), f.lax => Canonical(f, <<>>),
           f.k \notin Tails, s = <<>> => r.st = "error"
    PROVE  Typed(f, s, r)
<1>1. PICK n \in Nat : n <= Len(s) /\ (r = Fail(n) \/ \E v \in V : r = Ok(v, n))
  BY DEF Gives
<1>2. CASE r = Fail(n)
  <2>1. r.st = "error" /\ r.size = n /\ r.v = <<>>
    BY <1>2 DEF Fail
  <2>2. QED BY <1>1, <2>1 DEF Typed
<1>3. CASE \E v \in V : r = Ok(v, n)
  <2>1. PICK v \in V : r = Ok(v, n)
    BY <1>3
  <2>2. r.st = "ok" /\ r.size = n /\ r.v = v
    BY <2>1 DEF Ok
  <2>3. QED BY <1>1, <2>2 DEF Typed
<1>4. QED BY <1>1, <1>2, <1>3

\* Which values can be written, for each kind.
LEMMA CanonicalKinds ==
    ASSUME NEW f, NEW v
    PROVE  /\ f.k = "fixed" /\ v \in Texts(f.width) => Canonical(f, v)
           /\ f.k = "bool" /\ v \in {<<0>>, <<1>>} => Canonical(f, v)
           /\ f.k = "varint" /\ v \in OneNumber => Canonical(f, v)
           /\ f.k \in Strings \cup {"optional", "rest"} /\ v \in ShortTexts => Canonical(f, v)
           /\ f.k = "all" /\ v \in Seq(Bytes) => Canonical(f, v)
           /\ f.k \in CountKinds /\ (\E n \in Positive : v = <<n>> /\ (f.k # "identifiers" => n <= MaxCount))
                 => Canonical(f, v)
<1>1. CASE f.k = "fixed"
  BY <1>1 DEF Canonical, Strings, CountKinds, Texts
<1>2. CASE f.k = "bool"
  BY <1>2 DEF Canonical, Strings, CountKinds
<1>3. CASE f.k = "varint"
  BY <1>3 DEF Canonical, Strings, CountKinds, OneNumber
<1>4. CASE f.k \in Strings \cup {"optional", "rest"}
  BY <1>4 DEF Canonical, Strings, CountKinds, ShortTexts
<1>5. CASE f.k = "all"
  BY <1>5 DEF Canonical, Strings, CountKinds
<1>6. CASE f.k \in CountKinds
  BY <1>6 DEF Canonical, Strings, CountKinds
<1>7. QED BY <1>1, <1>2, <1>3, <1>4, <1>5, <1>6

\* Nothing is a short text.
LEMMA NothingShort == <<>> \in ShortTexts /\ <<>> \in Seq(Bytes) /\ Len(<<>>) = 0
<1>1. <<>> \in Seq(Bytes) /\ Len(<<>>) = 0
  OBVIOUS
<1>2. QED BY <1>1, CodecNumbers DEF ShortTexts

LEMMA FixedType ==
    ASSUME NEW f, Proper(f), f.k = "fixed", NEW s \in Seq(Bytes)
    PROVE  Typed(f, s, ReadField(f, s))
<1>1. ReadField(f, s) = ReadFull(s, f.width) /\ f.width \in Nat /\ f.width >= 1
  BY ReadKinds DEF Proper
<1>2. Gives(ReadFull(s, f.width), s, Texts(f.width))
  BY <1>1, ReadFullGives
<1>3. s = <<>> => ReadFull(s, f.width).st = "error"
  BY <1>1 DEF ReadFull, Fail
<1>4. \A v \in Texts(f.width) : Canonical(f, v)
  BY CanonicalKinds
<1>5. f.k \notin Tails /\ ~f.lax
  BY DEF Proper, Tails
<1>6. QED BY <1>1, <1>2, <1>3, <1>4, <1>5, GivesTyped

LEMMA BoolType ==
    ASSUME NEW f, Proper(f), f.k = "bool", NEW s \in Seq(Bytes)
    PROVE  Typed(f, s, ReadField(f, s))
<1> DEFINE c == ReadFull(s, 1)
           r == ReadField(f, s)
<1>1. r = [c EXCEPT !.v = IF @ = <<1>> THEN @ ELSE <<0>>]
  BY ReadKinds
<1>2. Gives(c, s, Texts(1))
  BY ReadFullGives
<1>3. PICK n \in Nat : n <= Len(s) /\ (c = Fail(n) \/ \E v \in Texts(1) : c = Ok(v, n))
  BY <1>2 DEF Gives
<1>4. s = <<>> => c.st = "error"
  BY DEF ReadFull, Fail
<1>5. f.k \notin Tails /\ ~f.lax
  BY DEF Proper, Tails
<1> HIDE DEF c, r
<1>6. CASE c = Fail(n)
  <2>1. r.st = "error" /\ r.size = n
    BY <1>1, <1>6 DEF Fail
  <2>2. Typed(f, s, r)
    BY <1>3, <1>5, <2>1 DEF Typed
  <2>3. QED BY <2>2 DEF r
<1>7. CASE \E v \in Texts(1) : c = Ok(v, n)
  <2>1. PICK v \in Texts(1) : c = Ok(v, n)
    BY <1>7
  <2>2. r.st = "ok" /\ r.size = n /\ r.v \in {<<0>>, <<1>>} /\ c.st = "ok"
    BY <1>1, <2>1 DEF Ok
  <2>3. Canonical(f, r.v)
    BY <2>2, CanonicalKinds
  <2>4. Typed(f, s, r)
    BY <1>3, <1>4, <1>5, <2>2, <2>3 DEF Typed
  <2>5. QED BY <2>4 DEF r
<1>8. QED BY <1>3, <1>6, <1>7

LEMMA NumberType ==
    ASSUME NEW f, Proper(f), f.k = "varint", NEW s \in Seq(Bytes)
    PROVE  Typed(f, s, ReadField(f, s))
<1> DEFINE r == ReadNumber(s)
<1>1. ReadField(f, s) = r
  BY ReadKinds
<1>2. r.st \in {"ok", "error"} /\ r.v \in OneNumber /\ r.size \in Nat /\ r.size <= Len(s)
      /\ (Len(s) = 0 => r.st = "error")
  BY ReadNumberGives
<1>3. f.k \notin Tails
  BY DEF Tails
<1> HIDE DEF r
<1>4. Canonical(f, r.v)
  BY <1>2, CanonicalKinds
<1>5. Typed(f, s, r)
  BY <1>2, <1>3, <1>4 DEF Typed
<1>6. QED BY <1>1, <1>5

LEMMA StringType ==
    ASSUME NEW f, Proper(f), f.k \in Strings, NEW s \in Seq(Bytes)
    PROVE  Typed(f, s, ReadField(f, s))
<1>1. ReadField(f, s) = ReadMinecraftString(s)
  BY ReadKinds
<1>2. Gives(ReadMinecraftString(s), s, ShortTexts)
  BY ReadStringGives
<1>3. s = <<>> => ReadMinecraftString(s).st = "error"
  <2>1. CASE s = <<>>
    <3> DEFINE l == ReadNumber(s)
    <3>1. l.st = "error"
      BY <2>1, ReadNumberGives
    <3>2. ReadMinecraftString(s) = Fail(l.size)
      <4> HIDE DEF l
      <4>1. StringOf(l, s) = Fail(l.size)
        BY <3>1 DEF StringOf
      <4>2. QED BY <4>1 DEF ReadMinecraftString, l
    <3>3. QED BY <3>2 DEF Fail
  <2>2. QED BY <2>1
<1>4. \A v \in ShortTexts : Canonical(f, v)
  BY CanonicalKinds
<1>5. f.k \notin Tails
  BY DEF Tails, Strings
<1>6. Canonical(f, <<>>)
  BY <1>4, NothingShort
<1>7. QED BY <1>1, <1>2, <1>3, <1>4, <1>5, <1>6, GivesTyped

LEMMA OptionalType ==
    ASSUME NEW f, Proper(f), f.k = "optional", NEW s \in Seq(Bytes)
    PROVE  Typed(f, s, ReadField(f, s))
<1>1. ReadField(f, s) = ReadOptional(s)
  BY ReadKinds
<1>2. Gives(ReadOptional(s), s, ShortTexts)
  BY ReadOptionalGives
<1>3. s = <<>> => ReadOptional(s).st = "error"
  BY DEF ReadOptional, Fail
<1>4. \A v \in ShortTexts : Canonical(f, v)
  BY CanonicalKinds
<1>5. f.k \notin Tails
  BY DEF Tails
<1>6. Canonical(f, <<>>)
  BY <1>4, NothingShort
<1>7. QED BY <1>1, <1>2, <1>3, <1>4, <1>5, <1>6, GivesTyped

LEMMA TailType ==
    ASSUME NEW f, Proper(f), f.k \in Tails, NEW s \in Seq(Bytes)
    PROVE  Typed(f, s, ReadField(f, s))
<1>1. Len(s) \in Nat /\ MaxLen \in Nat /\ ~f.lax
  BY CodecNumbers DEF Proper, Tails
<1>2. CASE f.k = "rest"
  <2> DEFINE n == Min({Len(s), MaxLen})
  <2>1. n \in Nat /\ n <= Len(s) /\ n <= MaxLen
    BY <1>1, MinOfTwo
  <2>2. ReadField(f, s) = Ok(SubSeq(s, 1, n), n)
    BY <1>2, ReadTails
  <2> HIDE DEF n
  <2>3. SubSeq(s, 1, n) \in ShortTexts
    BY <2>1, FirstBytes DEF ShortTexts
  <2>4. Canonical(f, SubSeq(s, 1, n))
    BY <1>2, <2>3, CanonicalKinds
  <2>5. QED BY <1>1, <2>1, <2>2, <2>4 DEF Typed, Ok
<1>3. CASE f.k = "all"
  <2>1. ReadField(f, s) = Ok(s, Len(s))
    BY <1>3, ReadTails
  <2>2. Canonical(f, s)
    BY <1>3, CanonicalKinds
  <2>3. QED BY <1>1, <2>1, <2>2 DEF Typed, Ok
<1>4. QED BY <1>2, <1>3 DEF Tails

\* The count: whatever the number is and whether it is negative.
LEMMA CountOfType ==
    ASSUME NEW f, Proper(f), f.k \in CountKinds, NEW s \in Seq(Bytes), s # <<>>,
           NEW n \in Nat, NEW negative \in BOOLEAN, ~negative => n \in Positive \/ f.k # "identifiers",
           NEW size \in Nat, size <= Len(s)
    PROVE  Typed(f, s, CountOf(f, n, negative, size))
<1> DEFINE r == CountOf(f, n, negative, size)
<1>1. ~f.lax /\ 0 \in Positive /\ 0 <= MaxCount
  <2>1. 0 \in Positive /\ 0 <= MaxCount
    BY CodecNumbers DEF Positive
  <2>2. ~f.lax
    BY DEF Proper, CountKinds
  <2>3. QED BY <2>1, <2>2
<1>2. CASE negative
  <2>1. CASE f.k = "items or none"
    <3>1. r = Ok(<<0>>, size)
      BY <1>2, <2>1 DEF CountOf
    <3> HIDE DEF r
    <3>2. r.st = "ok" /\ r.size = size /\ r.v = <<0>>
      BY <3>1 DEF Ok
    <3>3. Canonical(f, r.v)
      BY <1>1, <3>2, CanonicalKinds
    <3>4. Typed(f, s, r)
      BY <3>2, <3>3 DEF Typed
    <3>5. QED BY <3>4 DEF r
  <2>2. CASE f.k = "identifiers"
    <3>1. r = [Fail(size) EXCEPT !.st = "panic"]
      BY <1>2, <2>2 DEF CountOf
    <3> HIDE DEF r
    <3>2. r.st = "panic" /\ r.size = size
      BY <3>1 DEF Fail
    <3>3. Typed(f, s, r)
      BY <2>2, <3>2 DEF Typed
    <3>4. QED BY <3>3 DEF r
  <2>3. CASE f.k = "items"
    <3>1. r = Fail(size)
      BY <1>2, <2>3 DEF CountOf
    <3> HIDE DEF r
    <3>2. r.st = "error" /\ r.size = size
      BY <3>1 DEF Fail
    <3>3. Typed(f, s, r)
      BY <1>1, <3>2 DEF Typed
    <3>4. QED BY <3>3 DEF r
  <2>4. QED BY <2>1, <2>2, <2>3 DEF CountKinds
<1>3. CASE ~negative
  <2>1. r = IF n > MaxCount /\ f.k # "identifiers" THEN Fail(size) ELSE Ok(<<n>>, size)
    BY <1>3 DEF CountOf
  <2> HIDE DEF r
  <2>2. CASE n > MaxCount /\ f.k # "identifiers"
    <3>1. r.st = "error" /\ r.size = size
      BY <2>1, <2>2 DEF Fail
    <3>2. Typed(f, s, r)
      BY <1>1, <3>1 DEF Typed
    <3>3. QED BY <3>2 DEF r
  <2>3. CASE ~(n > MaxCount /\ f.k # "identifiers")
    <3>1. r.st = "ok" /\ r.size = size /\ r.v = <<n>>
      BY <2>1, <2>3 DEF Ok
    <3>2. f.k # "identifiers" => n <= MaxCount
      BY <2>3, CodecNumbers
    <3>3. n \in Positive
      BY <1>3, <3>2, CodecNumbers DEF Positive
    <3>4. Canonical(f, r.v)
      BY <3>1, <3>2, <3>3, CanonicalKinds
    <3>5. Typed(f, s, r)
      BY <3>1, <3>4 DEF Typed
    <3>6. QED BY <3>5 DEF r
  <2>4. QED BY <2>2, <2>3
<1>4. QED BY <1>2, <1>3

LEMMA CountType ==
    ASSUME NEW f, Proper(f), f.k \in CountKinds, NEW s \in Seq(Bytes)
    PROVE  Typed(f, s, ReadField(f, s))
<1>1. ReadField(f, s) = ReadCount(f, s) /\ f.k \notin Tails /\ ~f.lax
  BY ReadKinds DEF Proper, CountKinds, Tails
<1>2. CASE f.width = 1
  <2> DEFINE c == ReadNumber(s)
  <2>1. /\ c.st \in {"ok", "error"} /\ c.v \in OneNumber /\ c.size \in Nat /\ c.size <= Len(s)
        /\ Len(s) = 0 => c.st = "error"
    BY ReadNumberGives
  <2>2. ReadCount(f, s) = IF c.st # "ok" THEN Fail(c.size)
                          ELSE CountOf(f, c.v[1], Negative(c.v[1]), c.size)
    BY <1>2 DEF ReadCount
  <2>3. PICK n \in Int32 : c.v = <<n>>
    BY <2>1 DEF OneNumber
  <2> HIDE DEF c
  <2>4. c.v[1] = n /\ n \in Nat
    BY <2>3, CodecNumbers DEF Int32
  <2>5. CASE c.st # "ok"
    <3>1. ReadCount(f, s) = Fail(c.size)
      BY <2>2, <2>5
    <3>2. Fail(c.size).st = "error" /\ Fail(c.size).size = c.size
      BY DEF Fail
    <3>3. Typed(f, s, ReadCount(f, s))
      BY <1>1, <2>1, <3>1, <3>2 DEF Typed
    <3>4. QED BY <1>1, <3>3
  <2>6. CASE c.st = "ok"
    <3> DEFINE no == Negative(n)
    <3>1. ReadCount(f, s) = CountOf(f, n, no, c.size) /\ s # <<>>
      BY <2>1, <2>2, <2>4, <2>6
    <3>2. no \in BOOLEAN /\ (~no => n \in Positive)
      BY <2>4, CodecNumbers DEF Negative, Positive
    <3> HIDE DEF no
    <3>3. Typed(f, s, CountOf(f, n, no, c.size))
      BY <2>1, <2>4, <3>1, <3>2, CountOfType
    <3>4. QED BY <1>1, <3>1, <3>3
  <2>7. QED BY <2>5, <2>6
<1>3. CASE f.width = 2 /\ f.k = "items"
  <2> DEFINE c == ReadFull(s, 2)
  <2>1. PICK m \in Nat : m <= Len(s) /\ (c = Fail(m) \/ \E v \in Texts(2) : c = Ok(v, m))
    BY ReadFullGives DEF Gives
  <2>2. s = <<>> => c.st = "error"
    BY DEF ReadFull, Fail
  <2>3. ReadCount(f, s) = IF c.st # "ok" THEN Fail(c.size)
                          ELSE CountOf(f, c.v[1] * 2 * Base + c.v[2],
                                       c.v[1] * 2 * Base + c.v[2] >= 2 * Base * Base, c.size)
    BY <1>3 DEF ReadCount
  <2> HIDE DEF c
  <2>4. CASE c = Fail(m)
    <3>1. ReadCount(f, s) = Fail(m)
      BY <2>3, <2>4 DEF Fail
    <3>2. Fail(m).st = "error" /\ Fail(m).size = m
      BY DEF Fail
    <3>3. Typed(f, s, ReadCount(f, s))
      BY <1>1, <2>1, <3>1, <3>2 DEF Typed
    <3>4. QED BY <1>1, <3>3
  <2>5. CASE \E v \in Texts(2) : c = Ok(v, m)
    <3>1. PICK v \in Texts(2) : c = Ok(v, m)
      BY <2>5
    <3> DEFINE n == v[1] * 2 * Base + v[2]
               no == n >= 2 * Base * Base
    <3>2. ReadCount(f, s) = CountOf(f, n, no, m) /\ s # <<>>
      BY <2>2, <2>3, <3>1 DEF Ok
    <3>3. n \in Nat
      <4>1. v \in Seq(Bytes) /\ Len(v) = 2
        BY DEF Texts
      <4>2. v[1] \in Bytes /\ v[2] \in Bytes
        <5>1. 1 \in 1 .. Len(v) /\ 2 \in 1 .. Len(v)
          BY <4>1
        <5>2. QED BY <4>1, <5>1, ElementOfSeq
      <4>3. v[1] \in Nat /\ v[2] \in Nat /\ Base \in Nat
        BY <4>2, CodecNumbers DEF Bytes
      <4>4. QED BY <4>3
    <3>4. no \in BOOLEAN
      OBVIOUS
    <3> HIDE DEF n, no
    <3>5. Typed(f, s, CountOf(f, n, no, m))
      BY <1>3, <2>1, <3>2, <3>3, <3>4, CountOfType
    <3>6. QED BY <1>1, <3>2, <3>5
  <2>6. QED BY <2>1, <2>4, <2>5
<1>4. QED BY <1>2, <1>3 DEF Proper

\* Whatever is read, and from whatever bytes.
LEMMA ReadType ==
    ASSUME NEW f, Proper(f), NEW s \in Seq(Bytes)
    PROVE  Typed(f, s, ReadField(f, s))
<1>1. f.k \in Kinds
  BY DEF Proper
<1>2. QED BY <1>1, FixedType, BoolType, NumberType, StringType, OptionalType, TailType, CountType DEF Kinds

\* Two functions begin alike, and go on alike where they were alike before.
Alike(f, g, n) == f[0] = g[0] /\ \A i \in 1 .. n : f[i - 1] = g[i - 1] => f[i] = g[i]

\* Then they are alike at the end: a recursive function is the one that satisfies its equation.
LEMMA AlikeAtEnd ==
    ASSUME NEW n \in Nat, NEW f, NEW g, Alike(f, g, n)
    PROVE  f[n] = g[n]
<1> DEFINE T == {i \in 0 .. n : f[i] # g[i]}
<1>1. SUFFICES ASSUME T # {} PROVE FALSE
  OBVIOUS
<1>2. T \in SUBSET Nat
  OBVIOUS
<1>3. PICK x \in T : \A y \in T : x <= y
  <2> HIDE DEF T
  <2>1. QED BY <1>1, <1>2, Least
<1>4. x # 0 /\ x \in 1 .. n
  BY DEF Alike
<1>5. x - 1 \in 0 .. n /\ x - 1 \notin T
  BY <1>3, <1>4
<1>6. QED BY <1>4, <1>5 DEF Alike

\* FlattenSeq is a recursive function of the number of sequences that are in the row so far.
LEMMA FlattenFunction ==
    ASSUME NEW S, NEW q \in Seq(Seq(S)), q # <<>>
    PROVE  \E f \in [0 .. Len(q) - 1 -> Seq(S)] :
               /\ f[0] = q[1] /\ \A i \in 1 .. Len(q) - 1 : f[i] = f[i - 1] \o q[i + 1]
               /\ FlattenSeq(q) = f[Len(q) - 1]
<1> DEFINE n == Len(q)
           T == Seq(S)
           step == [i \in Nat |-> [x \in T |-> IF i + 1 \in 1 .. n THEN x \o q[i + 1] ELSE x]]
           F(g) == [i \in 1 .. n |-> IF i = 1 THEN q[i] ELSE g[i - 1] \o q[i]]
           g == CHOOSE h : h = F(h)
<1>1. n \in Nat \ {0} /\ \A i \in 1 .. n : q[i] \in T
  BY EmptySeq
<1>2. \A x \in T, y \in T : x \o y \in T
  OBVIOUS
<1>3. Steps(step, T)
  <2> HIDE DEF T
  <2>1. QED BY <1>1, <1>2 DEF Steps
<1>4. \A i \in 1 .. n - 1, x \in T : step[i][x] = x \o q[i + 1]
  OBVIOUS
<1> DEFINE start == q[1]
           m == n - 1
<1>5. m \in Nat /\ start \in T
  BY <1>1
<1> HIDE DEF step, T
<1>6. \E f \in [0 .. m -> T] : Follows(f, m, start, step)
  <2> HIDE DEF m, start
  <2>1. QED BY <1>3, <1>5, Recursion
<1>7. PICK f \in [0 .. m -> T] : Follows(f, m, start, step)
  BY <1>6
<1>8. f[0] = q[1] /\ \A i \in 1 .. n - 1 : f[i] = f[i - 1] \o q[i + 1]
  <2>1. ASSUME NEW i \in 1 .. n - 1 PROVE f[i] = f[i - 1] \o q[i + 1]
    <3>1. i - 1 \in 0 .. m
      BY <1>1
    <3>2. f[i - 1] \in T
      BY <1>7, <3>1
    <3>3. f[i] = step[i][f[i - 1]]
      BY <1>7 DEF Follows
    <3>4. QED BY <3>2, <3>3, <1>4
  <2>2. QED BY <2>1, <1>7 DEF Follows
<1>9. \E h : h = F(h)
  <2> DEFINE h == [i \in 1 .. n |-> f[i - 1]]
  <2>1. ASSUME NEW i \in 1 .. n PROVE h[i] = F(h)[i]
    <3>1. CASE i = 1
      BY <3>1, <1>1, <1>8
    <3>2. CASE i # 1
      <4>1. i - 1 \in 1 .. n - 1 /\ i - 1 \in 1 .. n /\ (i - 1) + 1 = i
        BY <1>1, <3>2
      <4>2. h[i] = f[i - 1] /\ h[i - 1] = f[i - 1 - 1]
        BY <4>1
      <4>3. f[i - 1] = f[i - 1 - 1] \o q[i]
        BY <1>8, <4>1
      <4> HIDE DEF h
      <4>4. QED BY <3>2, <4>2, <4>3
    <3>3. QED BY <3>1, <3>2
  <2>2. h = F(h)
    BY <2>1
  <2>3. QED BY <2>2
<1>10. g = F(g)
  <2> HIDE DEF F
  <2>1. QED BY <1>9
<1>11. FlattenSeq(q) = g[n]
  BY <1>1 DEF FlattenSeq
<1> HIDE DEF g
<1> DEFINE h == [i \in 0 .. m |-> g[i + 1]]
<1>12. Alike(h, f, m)
  <2>1. h[0] = f[0]
    BY <1>1, <1>8, <1>10
  <2>2. ASSUME NEW i \in 1 .. m, h[i - 1] = f[i - 1] PROVE h[i] = f[i]
    <3>1. i - 1 \in 0 .. m /\ i \in 0 .. m /\ i + 1 \in 1 .. n /\ i + 1 # 1 /\ (i + 1) - 1 = i /\ (i - 1) + 1 = i
      BY <1>1
    <3>2. h[i] = g[i + 1] /\ h[i - 1] = g[i]
      BY <3>1
    <3>3. g[i + 1] = g[i] \o q[i + 1]
      BY <1>10, <3>1
    <3> HIDE DEF h
    <3>4. QED BY <2>2, <3>2, <3>3, <1>8
  <2>3. QED BY <2>1, <2>2 DEF Alike
<1>13. h[m] = f[m] /\ h[m] = g[n]
  <2>1. h[m] = g[n]
    BY <1>1
  <2> HIDE DEF h, m
  <2>2. h[m] = f[m]
    BY <1>5, <1>12, AlikeAtEnd
  <2>3. QED BY <2>1, <2>2
<1>14. QED BY <1>7, <1>8, <1>11, <1>13 DEF T

\* One more sequence goes behind the others.
LEMMA FlattenAppend ==
    ASSUME NEW S, NEW q \in Seq(Seq(S)), NEW e \in Seq(S)
    PROVE  /\ FlattenSeq(q) \in Seq(S)
           /\ FlattenSeq(Append(q, e)) = FlattenSeq(q) \o e
<1>1. CASE q = <<>>
  <2>1. Append(q, e) = <<e>> /\ <<e>> \in Seq(Seq(S)) /\ <<e>> # <<>> /\ Len(<<e>>) = 1 /\ <<e>>[1] = e
    BY <1>1
  <2> DEFINE one == <<e>>
  <2>2. one \in Seq(Seq(S)) /\ one # <<>> /\ Len(one) = 1 /\ one[1] = e
    BY <2>1
  <2> HIDE DEF one
  <2>3. FlattenSeq(one) = e
    <3>1. \E f \in [0 .. Len(one) - 1 -> Seq(S)] :
               /\ f[0] = one[1] /\ \A i \in 1 .. Len(one) - 1 : f[i] = f[i - 1] \o one[i + 1]
               /\ FlattenSeq(one) = f[Len(one) - 1]
      BY <2>2, FlattenFunction
    <3>2. QED BY <2>2, <3>1
  <2>4. FlattenSeq(q) = <<>>
    BY <1>1 DEF FlattenSeq
  <2>5. <<>> \o e = e /\ <<>> \in Seq(S)
    OBVIOUS
  <2>6. QED BY <2>1, <2>3, <2>4, <2>5 DEF one
<1>2. CASE q # <<>>
  <2> DEFINE r == Append(q, e)
             n == Len(q)
  <2>1. /\ n \in Nat \ {0} /\ r \in Seq(Seq(S)) /\ r # <<>> /\ Len(r) = n + 1
        /\ r[n + 1] = e /\ \A i \in 1 .. n : r[i] = q[i]
    BY <1>2, EmptySeq
  <2> HIDE DEF r
  <2>2. PICK f \in [0 .. Len(q) - 1 -> Seq(S)] :
               /\ f[0] = q[1] /\ \A i \in 1 .. Len(q) - 1 : f[i] = f[i - 1] \o q[i + 1]
               /\ FlattenSeq(q) = f[Len(q) - 1]
    BY <1>2, FlattenFunction
  <2>3. PICK g \in [0 .. Len(r) - 1 -> Seq(S)] :
               /\ g[0] = r[1] /\ \A i \in 1 .. Len(r) - 1 : g[i] = g[i - 1] \o r[i + 1]
               /\ FlattenSeq(r) = g[Len(r) - 1]
    <3>1. \E g \in [0 .. Len(r) - 1 -> Seq(S)] :
               /\ g[0] = r[1] /\ \A i \in 1 .. Len(r) - 1 : g[i] = g[i - 1] \o r[i + 1]
               /\ FlattenSeq(r) = g[Len(r) - 1]
      BY <2>1, FlattenFunction
    <3>2. QED BY <3>1
  <2> DEFINE m == n - 1
  <2>4. Alike(g, f, m)
    <3>1. g[0] = f[0]
      BY <2>1, <2>2, <2>3
    <3>2. ASSUME NEW i \in 1 .. m, g[i - 1] = f[i - 1] PROVE g[i] = f[i]
      <4>1. i \in 1 .. Len(r) - 1 /\ i \in 1 .. Len(q) - 1 /\ i + 1 \in 1 .. n
        BY <2>1
      <4>2. g[i] = g[i - 1] \o r[i + 1] /\ r[i + 1] = q[i + 1] /\ f[i] = f[i - 1] \o q[i + 1]
        BY <4>1, <2>1, <2>2, <2>3
      <4>3. QED BY <3>2, <4>2
    <3>3. QED BY <3>1, <3>2 DEF Alike
  <2>5. m \in Nat
    BY <2>1
  <2>6. g[m] = f[m]
    <3> HIDE DEF m
    <3>1. QED BY <2>4, <2>5, AlikeAtEnd
  <2>7. g[n] = g[m] \o e
    <3>1. n \in 1 .. Len(r) - 1
      BY <2>1
    <3>2. QED BY <2>1, <2>3, <3>1
  <2>8. FlattenSeq(q) = f[m] /\ FlattenSeq(r) = g[n] /\ f[m] \in Seq(S)
    <3>1. Len(r) - 1 = n /\ m \in 0 .. Len(q) - 1
      BY <2>1
    <3>2. QED BY <2>2, <2>3, <3>1
  <2>9. QED BY <2>6, <2>7, <2>8 DEF r
<1>3. QED BY <1>1, <1>2

-----------------------------------------------------------------------------
(* The fields of packets: packet types.                                    *)

\* The parts of the packets of type n.
PlayerParts == {"AddPlayers", "AddPlayer", "Property", "UpdatePlayers", "UpdatePlayer",
                "UpdateDisplayNames", "UpdateDisplayName", "RemovePlayers", "RemovePlayer"}
ItemParts == {"Identifier", "Match", "Player"}
Parts(n) == IF n = "PlayerListItem" THEN PlayerParts
            ELSE ItemParts \cup {"CreateTeam", "UpdateTeam", "TeamPlayers", "Nothing"}

Names == PlayerParts \cup ItemParts \cup {"CreateTeam", "UpdateTeam", "TeamPlayers", "Nothing"}

Shapes == [k : Kinds, lax : BOOLEAN, width : Nat \ {0}, body : Names, cases : Seq(Names)]
\* What the field f looks like.
Has(f, k, width, body, cases) ==
    f \in Shapes /\ f.k = k /\ f.width = width /\ f.body = body /\ f.cases = cases

\* The fields that they may have; those that are not always last; those whose errors count.
Apts(n) ==
    {f \in Shapes : /\ Proper(f) /\ Len(f.cases) <= 5
                    /\ f.k = "identifiers" => n = "JoinGame"
                    /\ f.k \in CountKinds \/ f.cases # <<>> => f.body \in Parts(n)
                    /\ f.k \in CountKinds /\ n # "PlayerListItem" => f.body \in ItemParts
                    /\ \A i \in 1 .. Len(f.cases) : f.cases[i] \in Parts(n)}
Solid(n) == {f \in Apts(n) : f.k \notin Tails}
Strict(n) == {f \in Solid(n) : ~f.lax}

\* Fields as they can follow each other.
EndsStrict(fs, n) == fs # <<>> /\ n # "PlayerListItem" => ~fs[Len(fs)].lax
Sound(fs, n) ==
    fs \in Seq(Apts(n)) /\ (\A i \in 1 .. Len(fs) - 1 : fs[i] \in Solid(n)) /\ EndsStrict(fs, n)
Plain(fs, n) == fs \in Seq(Solid(n)) /\ EndsStrict(fs, n)

LEMMA SolidApt == \A n : Strict(n) \subseteq Solid(n) /\ Solid(n) \subseteq Apts(n) /\ Apts(n) \subseteq Shapes
BY DEF Strict, Solid, Apts

LEMMA PlainSound == ASSUME NEW n, NEW fs, Plain(fs, n) PROVE Sound(fs, n)
<1>1. fs \in Seq(Solid(n)) /\ EndsStrict(fs, n) /\ Solid(n) \subseteq Apts(n)
  BY SolidApt DEF Plain
<1>2. fs \in Seq(Apts(n)) /\ \A i \in 1 .. Len(fs) : fs[i] \in Solid(n)
  BY <1>1
<1>3. \A i \in 1 .. Len(fs) - 1 : fs[i] \in Solid(n)
  BY <1>1, <1>2
<1>4. QED BY <1>1, <1>2, <1>3 DEF Sound

LEMMA StrictPlain == ASSUME NEW n, NEW fs \in Seq(Strict(n)) PROVE Plain(fs, n)
<1>1. fs \in Seq(Solid(n))
  BY SolidApt
<1>2. EndsStrict(fs, n)
  <2>1. CASE fs # <<>>
    <3>1. Len(fs) \in 1 .. Len(fs)
      BY <2>1
    <3>2. fs[Len(fs)] \in Strict(n)
      BY <3>1, ElementOfSeq
    <3>3. QED BY <3>2 DEF EndsStrict, Strict
  <2>2. QED BY <2>1 DEF EndsStrict
<1>3. QED BY <1>1, <1>2 DEF Plain

\* A field without parts.
LEMMA SimpleField ==
    ASSUME NEW n, NEW f, NEW k \in Kinds \ CountKinds, NEW w, Has(f, k, w, "Nothing", <<>>),
           f.lax => k \in {"string", "optional", "varint"}
    PROVE  /\ f \in Apts(n)
           /\ k \notin Tails => f \in Solid(n)
           /\ k \notin Tails /\ ~f.lax => f \in Strict(n)
<1>1. f \in Shapes /\ f.k = k /\ f.cases = <<>>
  BY DEF Has
<1>2. f.lax \in BOOLEAN /\ f.width \in Nat \ {0} /\ f.cases \in Seq(Names)
  BY <1>1 DEF Shapes
<1>3. Len(f.cases) = 0
  BY <1>1
<1>4. f.k \notin CountKinds /\ f.k # "identifiers" /\ "identifiers" \in CountKinds
  BY <1>1 DEF CountKinds
<1>5. Proper(f)
  BY <1>1, <1>2, <1>4 DEF Proper
<1>6. f \in Apts(n)
  BY <1>1, <1>3, <1>4, <1>5 DEF Apts
<1>7. QED BY <1>1, <1>6 DEF Solid, Strict

\* A number of parts.
LEMMA CountField ==
    ASSUME NEW n, NEW f, NEW k \in CountKinds, NEW w \in {1, 2}, w = 2 => k = "items",
           NEW body \in Parts(n), n # "PlayerListItem" => body \in ItemParts,
           k = "identifiers" => n = "JoinGame", Has(f, k, w, body, <<>>), ~f.lax
    PROVE  f \in Strict(n)
<1>1. f \in Shapes /\ f.k = k /\ f.cases = <<>> /\ f.body = body /\ f.width = w
  BY DEF Has
<1>2. f.lax \in BOOLEAN /\ f.width \in Nat \ {0} /\ f.cases \in Seq(Names) /\ f.k \in Kinds
  BY <1>1 DEF Shapes
<1>3. Len(f.cases) = 0
  BY <1>1
<1>4. f.k \in CountKinds /\ f.k \notin Tails
  BY <1>1 DEF CountKinds, Tails
<1>5. Proper(f)
  BY <1>1, <1>2, <1>4 DEF Proper
<1>6. f \in Apts(n)
  BY <1>1, <1>3, <1>4, <1>5 DEF Apts
<1>7. QED BY <1>1, <1>4, <1>6 DEF Solid, Strict

\* One that selects what follows.
LEMMA SwitchField ==
    ASSUME NEW n, NEW f, NEW k \in {"varint", "fixed"}, f.lax => k = "varint",
           NEW cases \in Seq(Parts(n)), Len(cases) <= 5, NEW body \in Parts(n),
           Has(f, k, 1, body, cases)
    PROVE  f \in Solid(n) /\ (~f.lax => f \in Strict(n))
<1>1. f \in Shapes /\ f.k = k /\ f.cases = cases /\ f.body = body /\ f.width = 1
  BY DEF Has
<1>2. f.lax \in BOOLEAN /\ f.cases \in Seq(Names) /\ f.k \in Kinds
  BY <1>1 DEF Shapes
<1>3. \A i \in 1 .. Len(cases) : cases[i] \in Parts(n)
  BY ElementOfSeq
<1>4. f.k \notin CountKinds /\ f.k \notin Tails /\ f.k # "identifiers"
  BY <1>1 DEF CountKinds, Tails
<1>5. Proper(f)
  BY <1>1, <1>2, <1>4 DEF Proper
<1>6. f \in Apts(n)
  BY <1>1, <1>3, <1>4, <1>5 DEF Apts
<1>7. QED BY <1>1, <1>4, <1>6 DEF Solid, Strict

\* A field with one attribute changed.
WithKind(f, k) == [f EXCEPT !.k = k]
WithWidth(f, width) == [f EXCEPT !.width = width]
WithBody(f, body) == [f EXCEPT !.body = body]

LEMMA FieldHas ==
    ASSUME NEW k \in Kinds PROVE Has(Field(k), k, 1, "Nothing", <<>>) /\ ~Field(k).lax
<1> DEFINE e == <<>>
           no == FALSE
           one == 1
           nothing == "Nothing"
<1>1. e \in Seq(Names)
  OBVIOUS
<1>2. nothing \in Names /\ no \in BOOLEAN /\ ~no /\ one \in Nat \ {0}
  <2>1. nothing \in Names
    BY DEF Names
  <2>2. no \in BOOLEAN /\ ~no
    OBVIOUS
  <2>3. one \in Nat \ {0}
    OBVIOUS
  <2> HIDE DEF e, no, one, nothing
  <2>4. QED BY <2>1, <2>2, <2>3
<1>3. Field(k) = [k |-> k, lax |-> no, width |-> one, body |-> nothing, cases |-> e]
  BY DEF Field
<1> HIDE DEF e, no, one, nothing
<1>4. Field(k) \in Shapes
  BY <1>1, <1>2, <1>3 DEF Shapes
<1>5. ~Field(k).lax /\ Field(k).k = k /\ Field(k).width = one /\ Field(k).body = nothing
      /\ Field(k).cases = e
  BY <1>2, <1>3
<1>6. QED BY <1>4, <1>5 DEF Has, e, one, nothing

LEMMA ChangedField ==
    ASSUME NEW f, NEW k, NEW width, NEW body, NEW cases, Has(f, k, width, body, cases)
    PROVE  /\ Has(Lax(f), k, width, body, cases) /\ Lax(f).lax
           /\ \A x \in Kinds : Has(WithKind(f, x), x, width, body, cases) /\ WithKind(f, x).lax = f.lax
           /\ \A x \in Nat \ {0} : Has(WithWidth(f, x), k, x, body, cases) /\ WithWidth(f, x).lax = f.lax
           /\ \A x \in Names : Has(WithBody(f, x), k, width, x, cases) /\ WithBody(f, x).lax = f.lax
           /\ \A x \in Seq(Names), y \in Names :
                 Has(Switch(f, x, y), k, width, y, x) /\ Switch(f, x, y).lax = f.lax
<1>1. Has(Lax(f), k, width, body, cases) /\ Lax(f).lax
  BY DEF Lax, Has, Shapes
<1>2. ASSUME NEW x \in Kinds PROVE Has(WithKind(f, x), x, width, body, cases) /\ WithKind(f, x).lax = f.lax
  BY DEF WithKind, Has, Shapes
<1>3. ASSUME NEW x \in Nat \ {0}
      PROVE  Has(WithWidth(f, x), k, x, body, cases) /\ WithWidth(f, x).lax = f.lax
  BY DEF WithWidth, Has, Shapes
<1>4. ASSUME NEW x \in Names PROVE Has(WithBody(f, x), k, width, x, cases) /\ WithBody(f, x).lax = f.lax
  BY DEF WithBody, Has, Shapes
<1>5. ASSUME NEW x \in Seq(Names), NEW y \in Names
      PROVE  Has(Switch(f, x, y), k, width, y, x) /\ Switch(f, x, y).lax = f.lax
  BY DEF Switch, Has, Shapes
<1>6. QED BY <1>1, <1>2, <1>3, <1>4, <1>5

\* The fields that the packet types are made of.
LEMMA FieldsHave ==
    /\ Has(Bool, "bool", 1, "Nothing", <<>>) /\ ~Bool.lax
    /\ Has(Number, "varint", 1, "Nothing", <<>>) /\ ~Number.lax
    /\ Has(Str, "string", 1, "Nothing", <<>>) /\ ~Str.lax
    /\ Has(OptStr, "optional", 1, "Nothing", <<>>) /\ ~OptStr.lax
    /\ Has(Blob, "bytes", 1, "Nothing", <<>>) /\ ~Blob.lax
    /\ Has(NBT, "nbt", 1, "Nothing", <<>>) /\ ~NBT.lax
    /\ Has(Rest, "rest", 1, "Nothing", <<>>) /\ ~Rest.lax
    /\ Has(All, "all", 1, "Nothing", <<>>) /\ ~All.lax
<1>1. {"bool", "varint", "string", "optional", "bytes", "nbt", "rest", "all"} \subseteq Kinds
  BY DEF Kinds, Strings, Tails
<1>2. QED BY <1>1, FieldHas DEF Bool, Number, Str, OptStr, Blob, NBT, Rest, All

LEMMA FixedHas ==
    ASSUME NEW w \in Nat \ {0} PROVE Has(Fixed(w), "fixed", w, "Nothing", <<>>) /\ ~Fixed(w).lax
<1> DEFINE f == Field("fixed")
<1>1. Has(f, "fixed", 1, "Nothing", <<>>) /\ ~f.lax
  BY FieldHas DEF Kinds
<1> HIDE DEF f
<1>2. Has(WithWidth(f, w), "fixed", w, "Nothing", <<>>) /\ WithWidth(f, w).lax = f.lax
  BY <1>1, ChangedField
<1>3. Fixed(w) = WithWidth(f, w)
  BY DEF Fixed, WithWidth, f
<1>4. QED BY <1>1, <1>2, <1>3

LEMMA ItemsHave ==
    ASSUME NEW body \in Names
    PROVE  /\ Has(Items(body), "items", 1, body, <<>>) /\ ~Items(body).lax
           /\ Has(ItemsOrNone(body), "items or none", 1, body, <<>>) /\ ~ItemsOrNone(body).lax
           /\ Has(ShortItems(body), "items", 2, body, <<>>) /\ ~ShortItems(body).lax
<1> DEFINE f == Field("items")
           g == Items(body)
<1>1. Has(f, "items", 1, "Nothing", <<>>) /\ ~f.lax
  BY FieldHas DEF Kinds, CountKinds
<1> HIDE DEF f
<1>2. Has(WithBody(f, body), "items", 1, body, <<>>) /\ WithBody(f, body).lax = f.lax
  BY <1>1, ChangedField
<1>3. g = WithBody(f, body)
  BY DEF Items, WithBody, f
<1>4. Has(g, "items", 1, body, <<>>) /\ ~g.lax
  BY <1>1, <1>2, <1>3
<1>5. ItemsOrNone(body) = WithKind(g, "items or none") /\ ShortItems(body) = WithWidth(g, 2)
  BY DEF ItemsOrNone, ShortItems, WithKind, WithWidth
<1>6. "items or none" \in Kinds /\ 2 \in Nat \ {0}
  BY DEF Kinds, CountKinds
<1> HIDE DEF g
<1>7. Has(WithKind(g, "items or none"), "items or none", 1, body, <<>>)
      /\ WithKind(g, "items or none").lax = g.lax
  BY <1>4, <1>6, ChangedField
<1>8. Has(WithWidth(g, 2), "items", 2, body, <<>>) /\ WithWidth(g, 2).lax = g.lax
  BY <1>4, <1>6, ChangedField
<1>9. QED BY <1>4, <1>5, <1>7, <1>8 DEF g

LEMMA IdentifiersHave ==
    Has(Identifiers, "identifiers", 1, "Identifier", <<>>) /\ ~Identifiers.lax
<1> DEFINE g == Items("Identifier")
           body == "Identifier"
<1>1. Has(g, "items", 1, body, <<>>) /\ ~g.lax
  <2>1. body \in Names
    BY DEF Names, ItemParts
  <2> HIDE DEF body
  <2>2. Has(Items(body), "items", 1, body, <<>>) /\ ~Items(body).lax
    BY <2>1, ItemsHave
  <2>3. QED BY <2>2 DEF body
<1>2. Identifiers = WithKind(g, "identifiers")
  BY DEF Identifiers, WithKind
<1>3. "identifiers" \in Kinds
  BY DEF Kinds, CountKinds
<1> HIDE DEF g, body
<1>4. Has(WithKind(g, "identifiers"), "identifiers", 1, body, <<>>)
      /\ WithKind(g, "identifiers").lax = g.lax
  BY <1>1, <1>3, ChangedField
<1>5. QED BY <1>1, <1>2, <1>4 DEF body

\* Which packets the fields may be in.
LEMMA SimpleFields ==
    ASSUME NEW n
    PROVE  /\ Str \in Strict(n) /\ Bool \in Strict(n) /\ Number \in Strict(n) /\ OptStr \in Strict(n)
           /\ Blob \in Strict(n) /\ NBT \in Strict(n)
           /\ \A w \in Nat \ {0} : Fixed(w) \in Strict(n)
           /\ Lax(Str) \in Solid(n) /\ Lax(Number) \in Solid(n) /\ Lax(OptStr) \in Solid(n)
           /\ Rest \in Apts(n) /\ All \in Apts(n) /\ ~Rest.lax /\ ~All.lax
<1>1. {"bool", "varint", "string", "optional", "bytes", "nbt", "rest", "all", "fixed"} \subseteq Kinds \ CountKinds
  BY DEF Kinds, Strings, Tails, CountKinds
<1>2. {"bool", "varint", "string", "optional", "bytes", "nbt", "fixed"} \cap Tails = {}
  BY DEF Tails
<1>3. Str \in Strict(n) /\ Bool \in Strict(n) /\ Number \in Strict(n) /\ OptStr \in Strict(n)
  BY <1>1, <1>2, FieldsHave, SimpleField
<1>4. Blob \in Strict(n) /\ NBT \in Strict(n)
  BY <1>1, <1>2, FieldsHave, SimpleField
<1>5. \A w \in Nat \ {0} : Fixed(w) \in Strict(n)
  BY <1>1, <1>2, FixedHas, SimpleField
<1>6. /\ Has(Lax(Str), "string", 1, "Nothing", <<>>) /\ Has(Lax(Number), "varint", 1, "Nothing", <<>>)
      /\ Has(Lax(OptStr), "optional", 1, "Nothing", <<>>)
  BY FieldsHave, ChangedField
<1>7. Lax(Str) \in Solid(n)
  BY <1>1, <1>2, <1>6, SimpleField
<1>8. Lax(Number) \in Solid(n)
  BY <1>1, <1>2, <1>6, SimpleField
<1>9. Lax(OptStr) \in Solid(n)
  BY <1>1, <1>2, <1>6, SimpleField
<1>10. Rest \in Apts(n) /\ ~Rest.lax
  BY <1>1, FieldsHave, SimpleField
<1>11. All \in Apts(n) /\ ~All.lax
  BY <1>1, FieldsHave, SimpleField
<1>12. QED BY <1>3, <1>4, <1>5, <1>7, <1>8, <1>9, <1>10, <1>11

\* Numbers of parts.
LEMMA CountFields ==
    ASSUME NEW n
    PROVE  /\ n = "JoinGame" => Identifiers \in Strict(n)
           /\ n # "PlayerListItem" => ItemsOrNone("Match") \in Strict(n) /\ ShortItems("Player") \in Strict(n)
           /\ n = "PlayerListItem" => \A body \in PlayerParts : Items(body) \in Strict(n)
<1>1. /\ "identifiers" \in CountKinds /\ "items or none" \in CountKinds /\ "items" \in CountKinds
      /\ 1 \in {1, 2} /\ 2 \in {1, 2}
  BY DEF CountKinds
<1>2. ASSUME n = "JoinGame" PROVE Identifiers \in Strict(n)
  <2> DEFINE k == "identifiers"
             body == "Identifier"
             w == 1
  <2>1. body \in Parts(n) /\ body \in ItemParts
    BY <1>2 DEF Parts, ItemParts
  <2>2. Has(Identifiers, k, w, body, <<>>) /\ ~Identifiers.lax
    BY IdentifiersHave
  <2>3. k \in CountKinds
    BY <1>1
  <2>4. w \in {1, 2} /\ w # 2
    OBVIOUS
  <2> HIDE DEF k, body, w
  <2>5. QED BY <1>2, <2>1, <2>2, <2>3, <2>4, CountField
<1>3. ASSUME n # "PlayerListItem" PROVE ItemsOrNone("Match") \in Strict(n)
  <2> DEFINE k == "items or none"
             body == "Match"
             f == ItemsOrNone(body)
             w == 1
  <2>1. body \in Parts(n) /\ body \in ItemParts /\ body \in Names
    BY <1>3 DEF Parts, ItemParts, Names
  <2>2. k \in CountKinds /\ w \in {1, 2} /\ w # 2 /\ k # "identifiers"
    <3>1. k \in CountKinds
      BY <1>1
    <3>2. w \in {1, 2} /\ w # 2
      OBVIOUS
    <3>3. k # "identifiers"
      OBVIOUS
    <3> HIDE DEF k, body, w, f
    <3>4. QED BY <3>1, <3>2, <3>3
  <2> HIDE DEF body
  <2>3. Has(f, k, w, body, <<>>) /\ ~f.lax
    BY <2>1, ItemsHave
  <2> HIDE DEF k, f, w
  <2>4. f \in Strict(n)
    BY <2>1, <2>2, <2>3, CountField
  <2>5. QED BY <2>4 DEF f, body
<1>4. ASSUME n # "PlayerListItem" PROVE ShortItems("Player") \in Strict(n)
  <2> DEFINE k == "items"
             body == "Player"
             f == ShortItems(body)
             w == 2
  <2>1. body \in Parts(n) /\ body \in ItemParts /\ body \in Names
    BY <1>4 DEF Parts, ItemParts, Names
  <2>2. k \in CountKinds /\ w \in {1, 2} /\ k = "items" /\ k # "identifiers"
    BY <1>1
  <2> HIDE DEF body
  <2>3. Has(f, k, w, body, <<>>) /\ ~f.lax
    BY <2>1, ItemsHave
  <2> HIDE DEF k, f, w
  <2>4. f \in Strict(n)
    BY <2>1, <2>2, <2>3, CountField
  <2>5. QED BY <2>4 DEF f, body
<1>5. ASSUME n = "PlayerListItem", NEW body \in PlayerParts PROVE Items(body) \in Strict(n)
  <2>1. body \in Parts(n) /\ body \in Names
    BY <1>5 DEF Parts, Names
  <2>2. Has(Items(body), "items", 1, body, <<>>) /\ ~Items(body).lax
    BY <2>1, ItemsHave
  <2>3. QED BY <1>1, <1>5, <2>1, <2>2, CountField
<1>6. QED BY <1>2, <1>3, <1>4, <1>5

\* What the two switches select.
LEMMA SwitchFields ==
    ASSUME NEW n
    PROVE  /\ n = "PlayerListItem" => Head(PlayerListItemPacketCB) \in Solid(n)
           /\ n # "PlayerListItem" => TeamsPacketCB[2] \in Strict(n)
<1>1. ASSUME n = "PlayerListItem" PROVE Head(PlayerListItemPacketCB) \in Solid(n)
  <2> DEFINE cases == <<"AddPlayers", "UpdatePlayers", "UpdatePlayers", "UpdateDisplayNames", "RemovePlayers">>
             body == "RemovePlayers"
             f == Lax(Number)
  <2>1. cases \in Seq(PlayerParts) /\ Len(cases) <= 5 /\ body \in PlayerParts
    BY DEF PlayerParts
  <2>2. Parts(n) = PlayerParts /\ PlayerParts \subseteq Names
    BY <1>1 DEF Parts, Names
  <2>3. Head(PlayerListItemPacketCB) = Switch(f, cases, body)
    BY DEF PlayerListItemPacketCB
  <2> HIDE DEF cases, body, f
  <2>4. cases \in Seq(Names) /\ body \in Names
    BY <2>1, <2>2
  <2>5. Has(f, "varint", 1, "Nothing", <<>>) /\ f.lax
    BY FieldsHave, ChangedField DEF f
  <2>6. Has(Switch(f, cases, body), "varint", 1, body, cases)
    BY <2>4, <2>5, ChangedField
  <2>7. Switch(f, cases, body) \in Solid(n)
    BY <2>1, <2>2, <2>6, SwitchField
  <2>8. QED BY <2>3, <2>7
<1>2. ASSUME n # "PlayerListItem" PROVE TeamsPacketCB[2] \in Strict(n)
  <2> DEFINE cases == <<"CreateTeam", "Nothing", "UpdateTeam", "TeamPlayers", "TeamPlayers">>
             body == "Nothing"
             f == Fixed(1)
  <2>1. cases \in Seq(Parts(n)) /\ Len(cases) <= 5 /\ body \in Parts(n)
    BY <1>2 DEF Parts
  <2>2. Parts(n) \subseteq Names
    BY <1>2 DEF Parts, Names
  <2>3. TeamsPacketCB[2] = Switch(f, cases, body)
    BY DEF TeamsPacketCB
  <2> HIDE DEF cases, body, f
  <2>4. cases \in Seq(Names) /\ body \in Names
    BY <2>1, <2>2
  <2>5. Has(f, "fixed", 1, "Nothing", <<>>) /\ ~f.lax
    BY FixedHas DEF f
  <2>6. Has(Switch(f, cases, body), "fixed", 1, body, cases) /\ Switch(f, cases, body).lax = f.lax
    BY <2>4, <2>5, ChangedField
  <2>7. Switch(f, cases, body) \in Strict(n)
    BY <2>1, <2>5, <2>6, SwitchField
  <2>8. QED BY <2>3, <2>7
<1>3. QED BY <1>1, <1>2

LEMMA FixedFields ==
    ASSUME NEW n
    PROVE  Fixed(1) \in Strict(n) /\ Fixed(2) \in Strict(n) /\ Fixed(4) \in Strict(n)
           /\ Fixed(8) \in Strict(n) /\ Fixed(16) \in Strict(n)
<1>1. 1 \in Nat \ {0} /\ 2 \in Nat \ {0} /\ 4 \in Nat \ {0} /\ 8 \in Nat \ {0} /\ 16 \in Nat \ {0}
  OBVIOUS
<1>2. QED BY <1>1, SimpleFields

\* Packet types all of whose errors count.
StrictTypes ==
    {"Handshake", "LoginStart", "LoginSuccess", "LoginKick", "EncryptionResponse", "LoginCompression",
     "StatusPing", "ChatMessageSB", "ClientStatus", "ClientSettings", "TabCompleteSB", "Respawn",
     "Kick", "GameStateChange", "ChatMessageCB", "ScoreboardObjective"}

LEMMA StrictLayouts == ASSUME NEW n \in StrictTypes PROVE Layout(n) \in Seq(Strict(n))
<1>1. /\ Str \in Strict(n) /\ Bool \in Strict(n) /\ Number \in Strict(n) /\ Blob \in Strict(n)
      /\ NBT \in Strict(n)
  BY SimpleFields
<1>2. Fixed(1) \in Strict(n) /\ Fixed(2) \in Strict(n) /\ Fixed(4) \in Strict(n)
      /\ Fixed(8) \in Strict(n) /\ Fixed(16) \in Strict(n)
  BY FixedFields
<1>3. CASE n = "Handshake"
  <2>1. Layout(n) = HandshakePacket
    BY <1>3 DEF Layout
  <2>2. QED BY <1>1, <1>2, <2>1 DEF HandshakePacket
<1>4. CASE n = "LoginStart"
  <2>1. Layout(n) = LoginStartPacket
    BY <1>4 DEF Layout
  <2>2. QED BY <1>1, <1>2, <2>1 DEF LoginStartPacket
<1>5. CASE n = "LoginSuccess"
  <2>1. Layout(n) = LoginSuccessPacket
    BY <1>5 DEF Layout
  <2>2. QED BY <1>1, <1>2, <2>1 DEF LoginSuccessPacket
<1>6. CASE n = "LoginKick"
  <2>1. Layout(n) = LoginKickPacket
    BY <1>6 DEF Layout
  <2>2. QED BY <1>1, <1>2, <2>1 DEF LoginKickPacket
<1>7. CASE n = "EncryptionResponse"
  <2>1. Layout(n) = EncryptionResponsePacket
    BY <1>7 DEF Layout
  <2>2. QED BY <1>1, <1>2, <2>1 DEF EncryptionResponsePacket
<1>8. CASE n = "LoginCompression"
  <2>1. Layout(n) = LoginCompressionPacket
    BY <1>8 DEF Layout
  <2>2. QED BY <1>1, <1>2, <2>1 DEF LoginCompressionPacket
<1>9. CASE n = "StatusPing"
  <2>1. Layout(n) = StatusPingPacketSB
    BY <1>9 DEF Layout
  <2>2. QED BY <1>1, <1>2, <2>1 DEF StatusPingPacketSB
<1>10. CASE n = "ChatMessageSB"
  <2>1. Layout(n) = ChatMessagePacketSB
    BY <1>10 DEF Layout
  <2>2. QED BY <1>1, <1>2, <2>1 DEF ChatMessagePacketSB
<1>11. CASE n = "ClientStatus"
  <2>1. Layout(n) = ClientStatusPacketSB
    BY <1>11 DEF Layout
  <2>2. QED BY <1>1, <1>2, <2>1 DEF ClientStatusPacketSB
<1>12. CASE n = "ClientSettings"
  <2>1. Layout(n) = ClientSettingsPacketSB
    BY <1>12 DEF Layout
  <2>2. QED BY <1>1, <1>2, <2>1 DEF ClientSettingsPacketSB
<1>13. CASE n = "TabCompleteSB"
  <2>1. Layout(n) = TabCompletePacketSB
    BY <1>13 DEF Layout
  <2>2. QED BY <1>1, <1>2, <2>1 DEF TabCompletePacketSB
<1>14. CASE n = "Respawn"
  <2>1. Layout(n) = RespawnPacketCB
    BY <1>14 DEF Layout
  <2>2. QED BY <1>1, <1>2, <2>1 DEF RespawnPacketCB
<1>15. CASE n = "Kick"
  <2>1. Layout(n) = KickPacketCB
    BY <1>15 DEF Layout
  <2>2. QED BY <1>1, <1>2, <2>1 DEF KickPacketCB
<1>16. CASE n = "GameStateChange"
  <2>1. Layout(n) = GameStateChangePacketCB
    BY <1>16 DEF Layout
  <2>2. QED BY <1>1, <1>2, <2>1 DEF GameStateChangePacketCB
<1>17. CASE n = "ChatMessageCB"
  <2>1. Layout(n) = ChatMessagePacketCB
    BY <1>17 DEF Layout
  <2>2. QED BY <1>1, <1>2, <2>1 DEF ChatMessagePacketCB
<1>18. CASE n = "ScoreboardObjective"
  <2>1. Layout(n) = ScoreboardObjectivePacketCB
    BY <1>18 DEF Layout
  <2>2. QED BY <1>1, <1>2, <2>1 DEF ScoreboardObjectivePacketCB
<1>19. QED BY <1>3, <1>4, <1>5, <1>6, <1>7, <1>8, <1>9, <1>10, <1>11, <1>12, <1>13, <1>14, <1>15, <1>16, <1>17, <1>18 DEF StrictTypes

\* The other packet types.
LEMMA TypesSound == ASSUME NEW n \in PacketTypes PROVE Sound(Layout(n), n)
<1>1. /\ Str \in Strict(n) /\ Bool \in Strict(n) /\ Number \in Strict(n) /\ NBT \in Strict(n)
      /\ Lax(Str) \in Solid(n) /\ Rest \in Apts(n) /\ All \in Apts(n) /\ ~Rest.lax /\ ~All.lax
  BY SimpleFields
<1>2. Fixed(1) \in Strict(n) /\ Fixed(4) \in Strict(n) /\ Fixed(8) \in Strict(n)
  BY FixedFields
<1>3. Strict(n) \subseteq Solid(n) /\ Solid(n) \subseteq Apts(n)
  BY SolidApt
<1>4. CASE n \in StrictTypes
  BY <1>4, StrictLayouts, StrictPlain, PlainSound
<1>5. CASE n = "PluginMessageSB"
  <2> DEFINE fs == <<Str, Rest>>
  <2>1. Layout(n) = fs
    BY <1>5 DEF Layout, PluginMessagePacketSB
  <2>2. fs \in Seq(Apts(n)) /\ fs[1] \in Solid(n) /\ Len(fs) = 2 /\ fs[2] = Rest
    BY <1>1, <1>3
  <2> HIDE DEF fs
  <2>3. EndsStrict(fs, n)
    BY <1>1, <2>2 DEF EndsStrict
  <2>4. QED BY <2>1, <2>2, <2>3 DEF Sound
<1>6. CASE n = "PluginMessageCB"
  <2> DEFINE fs == <<Str, All>>
  <2>1. Layout(n) = fs
    BY <1>6 DEF Layout, PluginMessagePacketCB
  <2>2. fs \in Seq(Apts(n)) /\ fs[1] \in Solid(n) /\ Len(fs) = 2 /\ fs[2] = All
    BY <1>1, <1>3
  <2> HIDE DEF fs
  <2>3. EndsStrict(fs, n)
    BY <1>1, <2>2 DEF EndsStrict
  <2>4. QED BY <2>1, <2>2, <2>3 DEF Sound
<1>7. CASE n = "JoinGame"
  <2>1. Layout(n) = JoinGamePacketCB
    BY <1>7 DEF Layout
  <2>2. Identifiers \in Strict(n)
    BY <1>7, CountFields
  <2>3. JoinGamePacketCB \in Seq(Strict(n))
    BY <1>1, <1>2, <2>2 DEF JoinGamePacketCB
  <2>4. QED BY <2>1, <2>3, StrictPlain, PlainSound
<1>8. CASE n = "TabCompleteCB"
  <2>1. Layout(n) = TabCompletePacketCB
    BY <1>8 DEF Layout
  <2>2. ItemsOrNone("Match") \in Strict(n)
    <3>1. n # "PlayerListItem"
      BY <1>8
    <3>2. QED BY <3>1, CountFields
  <2>3. TabCompletePacketCB \in Seq(Strict(n))
    BY <1>1, <2>2 DEF TabCompletePacketCB
  <2>4. QED BY <2>1, <2>3, StrictPlain, PlainSound
<1>9. CASE n = "PlayerListItem"
  <2> DEFINE f == Head(PlayerListItemPacketCB)
             fs == <<f>>
  <2>1. Layout(n) = fs
    <3>1. Layout(n) = PlayerListItemPacketCB
      BY <1>9 DEF Layout
    <3>2. PlayerListItemPacketCB = <<Head(PlayerListItemPacketCB)>>
      BY DEF PlayerListItemPacketCB
    <3>3. QED BY <3>1, <3>2
  <2>2. f \in Solid(n)
    BY <1>9, SwitchFields
  <2> HIDE DEF f
  <2>3. fs \in Seq(Solid(n))
    BY <2>2
  <2> HIDE DEF fs
  <2>4. Plain(fs, n)
    BY <1>9, <2>3 DEF Plain, EndsStrict
  <2>5. QED BY <2>1, <2>4, PlainSound
<1>10. CASE n = "Teams"
  <2> DEFINE f == TeamsPacketCB[2]
             fs == <<Lax(Str), f>>
  <2>1. Layout(n) = fs
    <3>1. Layout(n) = TeamsPacketCB
      BY <1>10 DEF Layout
    <3>2. TeamsPacketCB = <<Lax(Str), TeamsPacketCB[2]>>
      BY DEF TeamsPacketCB
    <3>3. QED BY <3>1, <3>2
  <2>2. f \in Strict(n)
    <3>1. n # "PlayerListItem"
      BY <1>10
    <3>2. QED BY <3>1, SwitchFields
  <2> HIDE DEF f
  <2>3. fs \in Seq(Solid(n)) /\ fs[Len(fs)] = f
    BY <1>1, <1>3, <2>2
  <2> HIDE DEF fs
  <2>4. Plain(fs, n)
    BY <2>2, <2>3 DEF Plain, EndsStrict, Strict
  <2>5. QED BY <2>1, <2>4, PlainSound
<1>11. QED BY <1>4, <1>5, <1>6, <1>7, <1>8, <1>9, <1>10 DEF PacketTypes, StrictTypes

\* The parts of packets.
LEMMA TeamParts ==
    ASSUME NEW n, n # "PlayerListItem", NEW p \in Parts(n)
    PROVE  Plain(Layout(p), n) /\ (p \in ItemParts => Layout(p) \in Seq(Strict(n)))
<1>1. Str \in Strict(n) /\ OptStr \in Strict(n) /\ Lax(Str) \in Solid(n)
  BY SimpleFields
<1>2. Fixed(1) \in Strict(n)
  BY FixedFields
<1>3. ShortItems("Player") \in Strict(n)
  BY CountFields
<1>4. Strict(n) \subseteq Solid(n)
  BY SolidApt
<1>5. CASE p = "Identifier" \/ p = "Player"
  <2>1. Layout(p) = <<Str>>
    BY <1>5 DEF Layout
  <2>2. Layout(p) \in Seq(Strict(n))
    BY <1>1, <2>1
  <2>3. QED BY <2>2, StrictPlain
<1>6. CASE p = "Match"
  <2>1. Layout(p) = <<Str, OptStr>>
    BY <1>6 DEF Layout
  <2>2. Layout(p) \in Seq(Strict(n))
    BY <1>1, <2>1
  <2>3. QED BY <2>2, StrictPlain
<1>7. CASE p = "TeamPlayers"
  <2>1. Layout(p) = <<ShortItems("Player")>>
    BY <1>7 DEF Layout
  <2>2. Layout(p) \in Seq(Strict(n))
    BY <1>3, <2>1
  <2>3. QED BY <1>7, <2>2, StrictPlain DEF ItemParts
<1>8. CASE p = "Nothing"
  <2>1. Layout(p) = <<>>
    BY <1>8 DEF Layout
  <2>2. Layout(p) \in Seq(Strict(n))
    BY <2>1
  <2>3. QED BY <1>8, <2>2, StrictPlain DEF ItemParts
<1>9. CASE p = "UpdateTeam"
  <2> DEFINE fs == <<Lax(Str), Lax(Str), Lax(Str), Fixed(1)>>
  <2>1. Layout(p) = fs
    BY <1>9 DEF Layout, UpdateTeam
  <2>2. fs \in Seq(Solid(n)) /\ fs[Len(fs)] \in Strict(n)
    BY <1>1, <1>2, <1>4
  <2> HIDE DEF fs
  <2>3. Plain(fs, n)
    BY <2>2 DEF Plain, EndsStrict, Strict
  <2>4. QED BY <1>9, <2>1, <2>3 DEF ItemParts
<1>10. CASE p = "CreateTeam"
  <2> DEFINE f == ShortItems("Player")
             fs == <<Lax(Str), Lax(Str), Lax(Str), Fixed(1), f>>
  <2>1. Layout(p) = fs
    BY <1>10 DEF Layout, CreateTeam
  <2> HIDE DEF f
  <2>2. fs \in Seq(Solid(n)) /\ fs[Len(fs)] \in Strict(n)
    BY <1>1, <1>2, <1>3, <1>4 DEF f
  <2> HIDE DEF fs
  <2>3. Plain(fs, n)
    BY <2>2 DEF Plain, EndsStrict, Strict
  <2>4. QED BY <1>10, <2>1, <2>3 DEF ItemParts
<1>11. QED BY <1>5, <1>6, <1>7, <1>8, <1>9, <1>10 DEF Parts, ItemParts

LEMMA PlayersParts ==
    ASSUME NEW n, n = "PlayerListItem", NEW p \in PlayerParts
    PROVE  Plain(Layout(p), n)
<1>1. /\ Str \in Solid(n) /\ OptStr \in Solid(n) /\ Number \in Solid(n)
      /\ Lax(Str) \in Solid(n) /\ Lax(Number) \in Solid(n) /\ Lax(OptStr) \in Solid(n) /\ Fixed(16) \in Solid(n)
  BY SimpleFields, FixedFields, SolidApt
<1>2. \A body \in PlayerParts : Items(body) \in Solid(n)
  BY CountFields, SolidApt
<1>3. Items("Property") \in Solid(n)
  <2>1. "Property" \in PlayerParts
    BY DEF PlayerParts
  <2>2. QED BY <1>2, <2>1
<1>4. Layout(p) \in Seq(Solid(n))
  <2>1. CASE p = "AddPlayers"
    <3>1. Layout(p) = <<Items("AddPlayer")>> /\ "AddPlayer" \in PlayerParts
      BY <2>1 DEF Layout, PlayerParts
    <3>2. QED BY <1>2, <3>1
  <2>2. CASE p = "AddPlayer"
    <3>1. Layout(p) = AddPlayer
      BY <2>2 DEF Layout
    <3>2. QED BY <1>1, <1>3, <3>1 DEF AddPlayer
  <2>3. CASE p = "Property"
    <3>1. Layout(p) = Property
      BY <2>3 DEF Layout
    <3>2. QED BY <1>1, <3>1 DEF Property
  <2>4. CASE p = "UpdatePlayers"
    <3>1. Layout(p) = <<Items("UpdatePlayer")>> /\ "UpdatePlayer" \in PlayerParts
      BY <2>4 DEF Layout, PlayerParts
    <3>2. QED BY <1>2, <3>1
  <2>5. CASE p = "UpdatePlayer"
    <3>1. Layout(p) = <<Fixed(16), Number>>
      BY <2>5 DEF Layout
    <3>2. QED BY <1>1, <3>1
  <2>6. CASE p = "UpdateDisplayNames"
    <3>1. Layout(p) = <<Items("UpdateDisplayName")>> /\ "UpdateDisplayName" \in PlayerParts
      BY <2>6 DEF Layout, PlayerParts
    <3>2. QED BY <1>2, <3>1
  <2>7. CASE p = "UpdateDisplayName"
    <3>1. Layout(p) = <<Fixed(16), OptStr>>
      BY <2>7 DEF Layout
    <3>2. QED BY <1>1, <3>1
  <2>8. CASE p = "RemovePlayers"
    <3>1. Layout(p) = <<Items("RemovePlayer")>> /\ "RemovePlayer" \in PlayerParts
      BY <2>8 DEF Layout, PlayerParts
    <3>2. QED BY <1>2, <3>1
  <2>9. CASE p = "RemovePlayer"
    <3>1. Layout(p) = <<Fixed(16)>>
      BY <2>9 DEF Layout
    <3>2. QED BY <1>1, <3>1
  <2>10. QED BY <2>1, <2>2, <2>3, <2>4, <2>5, <2>6, <2>7, <2>8, <2>9 DEF PlayerParts
<1>5. QED BY <1>4 DEF Plain, EndsStrict

LEMMA PartsPlain ==
    ASSUME NEW n, NEW p \in Parts(n)
    PROVE  /\ Plain(Layout(p), n)
           /\ n # "PlayerListItem" /\ p \in ItemParts => Layout(p) \in Seq(Strict(n))
BY TeamParts, PlayersParts DEF Parts

\* Items one after the other.
LEMMA RepeatedSeq == ASSUME NEW S, NEW item \in Seq(S), NEW m \in Nat PROVE Repeated(item, m) \in Seq(S)
<1> DEFINE l == Len(item)
           k == m * l
<1>1. l \in Nat
  OBVIOUS
<1>2. k \in Nat
  <2> HIDE DEF l
  <2>1. QED BY <1>1
<1>3. Repeated(item, m) = [i \in 1 .. k |-> item[((i - 1) % l) + 1]]
  BY DEF Repeated
<1>4. \A i \in 1 .. k : item[((i - 1) % l) + 1] \in S
  <2>1. ASSUME NEW i \in 1 .. k PROVE item[((i - 1) % l) + 1] \in S
    <3>1. l # 0
      <4>1. ASSUME l = 0 PROVE FALSE
        <5>1. k = 0
          BY <4>1
        <5>2. QED BY <5>1, <2>1
      <4>2. QED BY <4>1
    <3> DEFINE j == (i - 1) % l
    <3>2. j \in Nat /\ j < l
      <4>1. i - 1 \in Nat /\ l \in Nat \ {0}
        BY <1>1, <1>2, <3>1
      <4> HIDE DEF l, k
      <4>2. QED BY <4>1, DivMod
    <3> HIDE DEF j
    <3>3. j + 1 \in 1 .. Len(item)
      BY <1>1, <3>2
    <3>4. item[j + 1] \in S
      BY <3>3, ElementOfSeq
    <3>5. QED BY <3>4 DEF j
  <2>2. QED BY <2>1
<1> HIDE DEF k, l
<1>5. QED BY <1>2, <1>3, <1>4

LEMMA NothingPlain == ASSUME NEW n PROVE Plain(<<>>, n) /\ Sound(<<>>, n)
<1>1. <<>> \in Seq(Solid(n))
  OBVIOUS
<1>2. Plain(<<>>, n)
  BY <1>1 DEF Plain, EndsStrict
<1>3. QED BY <1>2, PlainSound

\* What a field brings with it.
LEMMA AfterPlain ==
    ASSUME NEW n, NEW f \in Apts(n), NEW v, Canonical(f, v), v # <<>>
    PROVE  Plain(After(f, Head(v)), n)
<1>1. /\ Proper(f) /\ (f.k \in CountKinds \/ f.cases # <<>> => f.body \in Parts(n))
      /\ (f.k \in CountKinds /\ n # "PlayerListItem" => f.body \in ItemParts)
      /\ (\A i \in 1 .. Len(f.cases) : f.cases[i] \in Parts(n)) /\ f.cases \in Seq(Names)
  BY DEF Apts, Shapes
<1>2. CASE f.k \in CountKinds
  <2>1. PICK m \in Positive : v = <<m>>
    BY <1>2 DEF Canonical
  <2>2. m \in Nat /\ Head(v) = m
    BY <2>1 DEF Positive
  <2> DEFINE item == Layout(f.body)
  <2>3. After(f, Head(v)) = Repeated(item, m)
    <3>1. f.cases = <<>>
      BY <1>1, <1>2 DEF Proper, CountKinds
    <3>2. QED BY <1>2, <2>2, <3>1 DEF After
  <2>4. Plain(item, n) /\ (n # "PlayerListItem" => item \in Seq(Strict(n)))
    BY <1>1, <1>2, PartsPlain
  <2> HIDE DEF item
  <2>5. CASE n = "PlayerListItem"
    <3>1. Repeated(item, m) \in Seq(Solid(n))
      BY <2>2, <2>4, RepeatedSeq DEF Plain
    <3>2. QED BY <2>3, <2>5, <3>1 DEF Plain, EndsStrict
  <2>6. CASE n # "PlayerListItem"
    <3>1. Repeated(item, m) \in Seq(Strict(n))
      BY <2>2, <2>4, <2>6, RepeatedSeq
    <3>2. QED BY <2>3, <3>1, StrictPlain
  <2>7. QED BY <2>5, <2>6
<1>3. CASE f.k \notin CountKinds /\ f.cases # <<>>
  <2> DEFINE p == IF Head(v) + 1 \in DOMAIN f.cases THEN f.cases[Head(v) + 1] ELSE f.body
  <2>1. p \in Parts(n)
    BY <1>1, <1>3
  <2>2. After(f, Head(v)) = Layout(p)
    BY <1>3 DEF After
  <2> HIDE DEF p
  <2>3. QED BY <2>1, <2>2, PartsPlain
<1>4. CASE f.k \notin CountKinds /\ f.cases = <<>>
  <2>1. After(f, Head(v)) = <<>>
    BY <1>4 DEF After
  <2>2. QED BY <2>1, NothingPlain
<1>5. QED BY <1>2, <1>3, <1>4

\* Fields that may be in front of others, in front of them.
LEMMA SoundConcat ==
    ASSUME NEW n, NEW a, NEW t, Plain(a, n), Sound(t, n)
    PROVE  Sound(a \o t, n)
<1>1. /\ a \in Seq(Solid(n)) /\ EndsStrict(a, n) /\ t \in Seq(Apts(n))
      /\ (\A i \in 1 .. Len(t) - 1 : t[i] \in Solid(n)) /\ EndsStrict(t, n)
  BY DEF Plain, Sound
<1>2. a \in Seq(Apts(n))
  BY <1>1, SolidApt
<1>3. CASE t = <<>>
  <2>1. a \o t = a
    BY <1>2, <1>3, ConcatEmptySeq
  <2>2. QED BY <2>1, PlainSound
<1>4. CASE t # <<>>
  <2> DEFINE c == a \o t
             k == Len(a)
             m == Len(t)
  <2>1. /\ c \in Seq(Apts(n)) /\ Len(c) = k + m /\ k \in Nat /\ m \in Nat /\ m >= 1
        /\ \A i \in 1 .. k : c[i] = a[i]
        /\ \A i \in k + 1 .. k + m : c[i] = t[i - k]
    <3>1. Len(a) \in Nat /\ Len(t) \in Nat /\ Len(t) >= 1
      BY <1>1, <1>4, EmptySeq
    <3>2. QED BY <1>1, <1>2, <3>1, ConcatProperties
  <2>2. \A i \in 1 .. Len(c) - 1 : c[i] \in Solid(n)
    <3>1. ASSUME NEW i \in 1 .. Len(c) - 1 PROVE c[i] \in Solid(n)
      <4>1. CASE i <= k
        <5>1. i \in 1 .. k
          BY <2>1, <4>1
        <5>2. a[i] \in Solid(n)
          BY <1>1, <5>1, ElementOfSeq
        <5> HIDE DEF c, k
        <5>3. QED BY <2>1, <5>1, <5>2
      <4>2. CASE ~(i <= k)
        <5>1. i \in k + 1 .. k + m /\ i - k \in 1 .. m - 1
          BY <2>1, <4>2
        <5> HIDE DEF c, k
        <5>2. c[i] = t[i - k]
          BY <2>1, <5>1
        <5>3. QED BY <1>1, <5>1, <5>2
      <4>3. QED BY <4>1, <4>2
    <3>2. QED BY <3>1
  <2>3. EndsStrict(c, n)
    <3>1. c[Len(c)] = t[m]
      <4>1. k + m \in k + 1 .. k + m /\ (k + m) - k = m
        BY <2>1
      <4> HIDE DEF c, k, m
      <4>2. QED BY <2>1, <4>1
    <3> HIDE DEF c
    <3>2. QED BY <1>1, <1>4, <3>1 DEF EndsStrict
  <2> HIDE DEF c
  <2>4. Sound(c, n)
    BY <2>1, <2>2, <2>3 DEF Sound
  <2>5. QED BY <2>4 DEF c
<1>5. QED BY <1>3, <1>4

\* The fields behind the first one.
LEMMA SoundTail ==
    ASSUME NEW n, NEW fs, Sound(fs, n), fs # <<>>
    PROVE  /\ Head(fs) \in Apts(n) /\ Proper(Head(fs)) /\ Sound(Tail(fs), n)
           /\ Head(fs).k \in Tails => Tail(fs) = <<>>
           /\ Head(fs).lax /\ n # "PlayerListItem" => Tail(fs) # <<>>
<1>1. /\ fs \in Seq(Apts(n)) /\ (\A i \in 1 .. Len(fs) - 1 : fs[i] \in Solid(n))
      /\ (n # "PlayerListItem" => ~fs[Len(fs)].lax)
  BY DEF Sound, EndsStrict
<1> DEFINE t == Tail(fs)
           m == Len(fs)
<1>2. /\ m \in Nat /\ m >= 1 /\ Head(fs) = fs[1] /\ t \in Seq(Apts(n)) /\ Len(t) = m - 1
      /\ \A i \in 1 .. m - 1 : t[i] = fs[i + 1]
  <2>1. Len(fs) \in Nat /\ Len(fs) >= 1
    BY <1>1, EmptySeq
  <2>2. QED BY <1>1, <2>1, HeadTailProperties
<1>3. Head(fs) \in Apts(n)
  <2>1. 1 \in 1 .. Len(fs)
    BY <1>2
  <2>2. QED BY <1>1, <1>2, <2>1, ElementOfSeq
<1> HIDE DEF t, m
<1>4. Sound(t, n)
  <2>1. \A i \in 1 .. Len(t) - 1 : t[i] \in Solid(n)
    <3>1. ASSUME NEW i \in 1 .. Len(t) - 1 PROVE t[i] \in Solid(n)
      <4>1. i \in 1 .. m - 1 /\ i + 1 \in 1 .. m - 1
        BY <1>2
      <4>2. QED BY <1>1, <1>2, <4>1 DEF m
    <3>2. QED BY <3>1
  <2>2. EndsStrict(t, n)
    <3>1. ASSUME t # <<>>, n # "PlayerListItem" PROVE ~t[Len(t)].lax
      <4>1. Len(t) >= 1
        BY <1>2, <3>1, EmptySeq
      <4>2. Len(t) \in 1 .. m - 1 /\ Len(t) + 1 = m
        BY <1>2, <4>1
      <4>3. t[Len(t)] = fs[m]
        BY <1>2, <4>2
      <4>4. QED BY <1>1, <3>1, <4>3 DEF m
    <3>2. QED BY <3>1 DEF EndsStrict
  <2>3. QED BY <1>2, <2>1, <2>2 DEF Sound
<1>5. ASSUME Head(fs).k \in Tails PROVE t = <<>>
  <2>1. m = 1
    <3>1. ASSUME m # 1 PROVE FALSE
      <4>1. 1 \in 1 .. Len(fs) - 1
        BY <1>2, <3>1 DEF m
      <4>2. fs[1] \in Solid(n)
        BY <1>1, <4>1
      <4>3. QED BY <1>2, <1>5, <4>2 DEF Solid
    <3>2. QED BY <3>1
  <2>2. QED BY <1>2, <2>1, EmptySeq
<1>6. ASSUME Head(fs).lax, n # "PlayerListItem" PROVE t # <<>>
  <2>1. m # 1
    BY <1>1, <1>2, <1>6 DEF m
  <2>2. QED BY <1>2, <2>1
<1>7. Proper(Head(fs))
  BY <1>3 DEF Apts
<1>8. QED BY <1>3, <1>4, <1>5, <1>6, <1>7 DEF t

\* What follows a field.
LEMMA FollowingSound ==
    ASSUME NEW n, NEW fs, Sound(fs, n), fs # <<>>, NEW v, Canonical(Head(fs), v)
    PROVE  /\ Sound(Following(fs, v), n)
           /\ Head(fs).k \in Tails => Following(fs, v) = <<>>
           /\ Head(fs).lax /\ n # "PlayerListItem" => Following(fs, v) # <<>>
<1> DEFINE f == Head(fs)
           t == Tail(fs)
           a == IF v = <<>> THEN <<>> ELSE After(f, Head(v))
<1>1. /\ f \in Apts(n) /\ Proper(f) /\ Sound(t, n) /\ (f.k \in Tails => t = <<>>)
      /\ (f.lax /\ n # "PlayerListItem" => t # <<>>)
  BY SoundTail
<1>2. Following(fs, v) = a \o t
  BY DEF Following
<1>3. Plain(a, n)
  <2>1. CASE v = <<>>
    BY <2>1, NothingPlain
  <2>2. CASE v # <<>>
    <3> HIDE DEF f
    <3>1. Canonical(f, v)
      BY DEF f
    <3>2. Plain(After(f, Head(v)), n)
      BY <1>1, <2>2, <3>1, AfterPlain
    <3>3. QED BY <2>2, <3>2
  <2>3. QED BY <2>1, <2>2
<1>4. f.k \in Tails => a = <<>>
  <2>1. ASSUME f.k \in Tails PROVE a = <<>>
    <3>1. f.k \notin CountKinds /\ f.cases = <<>>
      BY <1>1, <2>1 DEF Proper, Tails, CountKinds
    <3>2. After(f, Head(v)) = <<>>
      BY <3>1 DEF After
    <3>3. QED BY <3>2
  <2>2. QED BY <2>1
<1>5. a \in Seq(Apts(n)) /\ t \in Seq(Apts(n))
  BY <1>1, <1>3, SolidApt DEF Plain, Sound
<1> HIDE DEF f, t, a
<1>6. Sound(a \o t, n)
  BY <1>1, <1>3, SoundConcat
<1>7. f.k \in Tails => a \o t = <<>>
  BY <1>1, <1>4, ConcatEmptySeq
<1>8. f.lax /\ n # "PlayerListItem" => a \o t # <<>>
  <2>1. ASSUME t # <<>> PROVE a \o t # <<>>
    <3>1. Len(a) \in Nat /\ Len(t) \in Nat /\ Len(t) >= 1
      BY <1>5, <2>1, EmptySeq
    <3>2. Len(a \o t) = Len(a) + Len(t)
      BY <1>5, ConcatProperties
    <3>3. QED BY <3>1, <3>2
  <2>2. QED BY <1>1, <2>1
<1>9. QED BY <1>2, <1>6, <1>7, <1>8 DEF f

-----------------------------------------------------------------------------
(* The fields of packets: what has been written.                           *)

\* Values are numbers, and what is written for them are bytes.
LEMMA CanonicalSeq ==
    ASSUME NEW f, NEW v, Proper(f), Canonical(f, v)
    PROVE  v \in Seq(Nat)
<1>1. Bytes \subseteq Nat /\ Int32 \subseteq Nat /\ Positive \subseteq Nat
  BY CodecNumbers DEF Bytes, Int32, Positive
<1>2. CASE f.k \in {"fixed", "all", "optional", "rest"} \cup Strings
  <2>1. v \in Seq(Bytes)
    BY <1>2 DEF Canonical, Strings
  <2>2. \A i \in 1 .. Len(v) : v[i] \in Nat
    BY <1>1, <2>1, ElementOfSeq
  <2>3. v \in Seq(Nat)
    BY <2>1, <2>2
  <2>4. QED BY <2>3
<1>3. CASE f.k = "bool"
  <2>1. v = <<0>> \/ v = <<1>>
    BY <1>3 DEF Canonical
  <2>2. <<0>> \in Seq(Nat) /\ <<1>> \in Seq(Nat)
    OBVIOUS
  <2>3. QED BY <2>1, <2>2
<1>4. CASE f.k = "varint"
  <2>1. PICK n \in Int32 : v = <<n>>
    BY <1>4 DEF Canonical
  <2>2. n \in Nat
    BY <1>1
  <2>3. <<n>> \in Seq(Nat)
    BY <2>2
  <2>4. QED BY <2>1, <2>3
<1>5. CASE f.k \in CountKinds
  <2>1. PICK n \in Positive : v = <<n>>
    BY <1>5 DEF Canonical
  <2>2. QED BY <1>1, <2>1
<1>6. QED BY <1>2, <1>3, <1>4, <1>5 DEF Proper, Kinds, Tails, Strings

LEMMA VarIntBytes == ASSUME NEW n \in Int32 PROVE VarInt(n) \in Seq(Bytes)
<1>1. n \in 0 .. Modulus - 1 /\ VarIntsAssumption /\ Digits \in Nat
  BY CodecNumbers DEF Int32
<1>2. QED BY <1>1, VarIntLen

LEMMA StringBytes ==
    ASSUME NEW v \in Seq(Bytes), Len(v) <= MaxLen
    PROVE  WriteMinecraftString(v) \in Seq(Bytes) /\ WriteOptional(v) \in Seq(Bytes)
<1> DEFINE w == VarInt(Len(v))
           x == WriteMinecraftString(v)
           one == <<1>>
           zero == <<0>>
<1>1. w \in Seq(Bytes)
  <2>1. Len(v) \in Int32
    BY CodecNumbers
  <2>2. QED BY <2>1, VarIntBytes
<1>2. one \in Seq(Bytes) /\ zero \in Seq(Bytes)
  <2>1. 0 \in Bytes /\ 1 \in Bytes
    BY CodecNumbers DEF Bytes
  <2>2. QED BY <2>1
<1>3. x = w \o v
  BY DEF WriteMinecraftString
<1>4. WriteOptional(v) = IF v = <<>> THEN zero ELSE one \o x
  BY DEF WriteOptional
<1> HIDE DEF w, x, one, zero
<1>5. x \in Seq(Bytes)
  BY <1>1, <1>3, ConcatProperties
<1>6. one \o x \in Seq(Bytes)
  BY <1>2, <1>5, ConcatProperties
<1>7. WriteOptional(v) \in Seq(Bytes)
  BY <1>2, <1>4, <1>6
<1>8. QED BY <1>5, <1>7 DEF x

LEMMA WrittenBytes ==
    ASSUME NEW f, NEW v, Proper(f), Canonical(f, v)
    PROVE  /\ WriteField(f, v) \in Seq(Bytes) /\ Encoded(f, v) \in Seq(Bytes)
           /\ f.k # "identifiers" => Encoded(f, v) = WriteField(f, v)
<1>1. f.k # "identifiers" => Encoded(f, v) = WriteField(f, v)
  BY DEF Encoded
<1>2. CASE f.k \in {"fixed", "bool", "rest", "all"}
  <2>1. WriteField(f, v) = v
    BY <1>2, WriteKinds
  <2>2. v \in Seq(Bytes)
    <3>1. CASE f.k = "bool"
      <4>1. 0 \in Bytes /\ 1 \in Bytes
        BY CodecNumbers DEF Bytes
      <4>2. v = <<0>> \/ v = <<1>>
        BY <3>1 DEF Canonical
      <4>3. <<0>> \in Seq(Bytes) /\ <<1>> \in Seq(Bytes)
        BY <4>1
      <4>4. QED BY <4>2, <4>3
    <3>2. CASE f.k # "bool"
      BY <1>2, <3>2 DEF Canonical
    <3>3. QED BY <3>1, <3>2
  <2>3. QED BY <1>1, <1>2, <2>1, <2>2
<1>3. CASE f.k = "varint"
  <2>1. WriteField(f, v) = VarInt(v[1])
    BY <1>3, WriteKinds
  <2>2. PICK n \in Int32 : v = <<n>>
    BY <1>3 DEF Canonical
  <2>3. v[1] = n
    BY <2>2
  <2>4. VarInt(n) \in Seq(Bytes)
    BY VarIntBytes
  <2>5. QED BY <1>1, <1>3, <2>1, <2>3, <2>4
<1>4. CASE f.k \in Strings \cup {"optional"}
  <2>1. v \in Seq(Bytes) /\ Len(v) <= MaxLen
    BY <1>4 DEF Canonical
  <2>2. WriteMinecraftString(v) \in Seq(Bytes) /\ WriteOptional(v) \in Seq(Bytes)
    BY <2>1, StringBytes
  <2>3. f.k # "identifiers"
    BY <1>4 DEF Strings
  <2>4. WriteField(f, v) \in Seq(Bytes)
    BY <1>4, <2>2, WriteKinds
  <2>5. QED BY <1>1, <2>3, <2>4
<1>5. CASE f.k \in CountKinds
  <2>1. PICK n \in Positive : v = <<n>> /\ (f.k # "identifiers" => n <= MaxCount)
    BY <1>5 DEF Canonical
  <2>2. v[1] = n /\ n \in Int32 /\ n \in Nat
    BY <2>1, CodecNumbers DEF Positive
  <2>3. VarInt(n) \in Seq(Bytes)
    BY <2>2, VarIntBytes
  <2>4. CASE f.k = "identifiers"
    <3> DEFINE w == VarInt(2 * n)
               z == [i \in 1 .. n |-> 0]
    <3>1. 2 * n \in Int32
      <4>1. n < Modulus \div 2 /\ Modulus \div 2 <= Modulus - Modulus \div 2 /\ Modulus \in Nat
            /\ Modulus \div 2 \in Nat
        BY CodecNumbers DEF Positive
      <4> DEFINE half == Modulus \div 2
      <4> HIDE DEF half
      <4>2. n < half /\ half <= Modulus - half /\ half \in Nat
        BY <4>1 DEF half
      <4>3. QED BY <2>2, <4>1, <4>2 DEF Int32
    <3>2. w \in Seq(Bytes)
      BY <3>1, VarIntBytes
    <3>3. z \in Seq(Bytes)
      <4>1. 0 \in Bytes
        BY CodecNumbers DEF Bytes
      <4>2. QED BY <2>2, <4>1
    <3>4. WriteField(f, v) = w \o z
      BY <2>2, <2>4, WriteKinds DEF WriteIdentifierArray
    <3> HIDE DEF w, z
    <3>5. WriteField(f, v) \in Seq(Bytes)
      BY <3>2, <3>3, <3>4, ConcatProperties
    <3>6. Encoded(f, v) = VarInt(n)
      BY <2>2, <2>4 DEF Encoded
    <3>7. QED BY <2>3, <2>4, <3>5, <3>6
  <2>5. CASE f.k # "identifiers"
    <3> DEFINE w == <<High(n), Low(n)>>
    <3>1. n < 2 * Base * Base
      BY <2>1, <2>2, <2>5, CodecNumbers
    <3>2. High(n) \in Bytes /\ Low(n) \in Bytes
      BY <2>2, <3>1, TwoBytes
    <3>3. w \in Seq(Bytes)
      BY <3>2
    <3>4. f.k \in CountKinds \ {"identifiers"}
      BY <1>5, <2>5
    <3>5. WriteField(f, v) = IF f.width = 1 THEN VarInt(n) ELSE w
      BY <2>2, <3>4, WriteKinds DEF High, Low
    <3> HIDE DEF w
    <3>6. QED BY <1>1, <2>3, <2>5, <3>3, <3>5
  <2>6. QED BY <2>4, <2>5
<1>6. QED BY <1>2, <1>3, <1>4, <1>5 DEF Proper, Kinds, Tails

\* Fields with their values.
Entries(n) == {e \in [field : Apts(n), v : Seq(Nat)] : Canonical(e.field, e.v)}

LEMMA EntryOf ==
    ASSUME NEW n, NEW f \in Apts(n), NEW v, Canonical(f, v)
    PROVE  /\ [field |-> f, v |-> v] \in Entries(n)
           /\ [field |-> f, v |-> v].field = f /\ [field |-> f, v |-> v].v = v
<1>1. Proper(f)
  BY DEF Apts
<1>2. v \in Seq(Nat)
  BY <1>1, CanonicalSeq
<1>3. QED BY <1>2 DEF Entries

LEMMA EntryParts ==
    ASSUME NEW n, NEW e \in Entries(n)
    PROVE  /\ e.field \in Apts(n) /\ Proper(e.field) /\ Canonical(e.field, e.v)
           /\ WriteField(e.field, e.v) \in Seq(Bytes)
<1>1. e.field \in Apts(n) /\ Canonical(e.field, e.v)
  BY DEF Entries
<1>2. Proper(e.field)
  BY <1>1 DEF Apts
<1>3. QED BY <1>1, <1>2, WrittenBytes

\* A packet is written field by field.
Writes(log) == [i \in DOMAIN log |-> WriteField(log[i].field, log[i].v)]

LEMMA SerializeMore ==
    ASSUME NEW n, NEW log \in Seq(Entries(n)), NEW e \in Entries(n)
    PROVE  /\ Serialize(log) \in Seq(Bytes)
           /\ Serialize(Append(log, e)) = Serialize(log) \o WriteField(e.field, e.v)
<1> DEFINE q == Writes(log)
           w == WriteField(e.field, e.v)
           more == Append(log, e)
           k == Len(log)
<1>1. w \in Seq(Bytes) /\ \A i \in 1 .. k : WriteField(log[i].field, log[i].v) \in Seq(Bytes)
  BY EntryParts, ElementOfSeq
<1>2. k \in Nat /\ DOMAIN log = 1 .. k
  OBVIOUS
<1>3. q \in Seq(Seq(Bytes)) /\ Len(q) = k /\ \A i \in 1 .. k : q[i] = WriteField(log[i].field, log[i].v)
  <2> DEFINE g(i) == WriteField(log[i].field, log[i].v)
  <2>1. q = [i \in 1 .. k |-> g(i)]
    BY <1>2 DEF Writes
  <2>2. \A i \in 1 .. k : g(i) \in Seq(Bytes)
    BY <1>1
  <2> HIDE DEF q, g, k
  <2>3. q \in Seq(Seq(Bytes)) /\ Len(q) = k /\ \A i \in 1 .. k : q[i] = g(i)
    BY <1>2, <2>1, <2>2
  <2>4. QED BY <2>3 DEF g
<1>4. /\ Len(more) = k + 1 /\ DOMAIN more = 1 .. k + 1 /\ more[k + 1] = e
      /\ \A i \in 1 .. k : more[i] = log[i]
  BY AppendProperties
<1>5. Writes(more) = Append(q, w)
  <2> DEFINE r == Append(q, w)
  <2>1. r \in Seq(Seq(Bytes)) /\ Len(r) = k + 1 /\ r[k + 1] = w /\ \A i \in 1 .. k : r[i] = q[i]
    <3> HIDE DEF q, w, k
    <3>1. QED BY <1>1, <1>3, AppendProperties
  <2> DEFINE g(i) == WriteField(more[i].field, more[i].v)
  <2>2. Writes(more) = [i \in 1 .. k + 1 |-> g(i)]
    BY <1>4 DEF Writes
  <2>3. \A i \in 1 .. k + 1 : r[i] = g(i)
    <3> HIDE DEF r, q, more, k
    <3>1. ASSUME NEW i \in 1 .. k + 1 PROVE r[i] = WriteField(more[i].field, more[i].v)
      <4>1. CASE i = k + 1
        BY <1>4, <2>1, <4>1
      <4>2. CASE i # k + 1
        <5>1. i \in 1 .. k
          BY <1>2, <4>2
        <5>2. QED BY <1>3, <1>4, <2>1, <5>1
      <4>3. QED BY <4>1, <4>2
    <3>2. QED BY <3>1
  <2> HIDE DEF r, q, g, more, k
  <2>4. r = [i \in 1 .. k + 1 |-> r[i]]
    BY <1>2, <2>1
  <2>5. Writes(more) = r
    BY <2>2, <2>3, <2>4
  <2>6. QED BY <2>5 DEF r
<1>6. Serialize(log) = FlattenSeq(q) /\ Serialize(more) = FlattenSeq(Writes(more))
  BY DEF Serialize, Writes
<1> HIDE DEF q, w, more, k
<1>7. FlattenSeq(q) \in Seq(Bytes) /\ FlattenSeq(Append(q, w)) = FlattenSeq(q) \o w
  BY <1>1, <1>3, FlattenAppend
<1>8. QED BY <1>5, <1>6, <1>7 DEF w, more

LEMMA SerializeBytes == ASSUME NEW n, NEW log \in Seq(Entries(n)) PROVE Serialize(log) \in Seq(Bytes)
<1> DEFINE k == Len(log)
           g(i) == WriteField(log[i].field, log[i].v)
           q == Writes(log)
<1>1. \A i \in 1 .. k : g(i) \in Seq(Bytes)
  BY EntryParts, ElementOfSeq
<1>2. k \in Nat /\ q = [i \in 1 .. k |-> g(i)]
  BY DEF Writes
<1> HIDE DEF q, g, k
<1>3. q \in Seq(Seq(Bytes))
  BY <1>1, <1>2
<1>4. <<>> \in Seq(Bytes)
  OBVIOUS
<1>5. FlattenSeq(q) \in Seq(Bytes)
  BY <1>3, <1>4, FlattenAppend
<1>6. QED BY <1>5 DEF Serialize, Writes, q

\* One field after the other: what is to be written and what has been, before and behind it.
Linked(e, before, behind, all, left) ==
    /\ before # <<>> /\ e.field = Head(before) /\ behind = Following(before, e.v)
    /\ all = Encoded(e.field, e.v) \o left

\* The fields log are those of a packet of type n, as far as it has been written: behind the
\* i-th of them the fields fs[i] are to be written, and b[i] is what has been.
Made(log, fs, b, n) ==
    /\ log \in Seq(Entries(n)) /\ fs[0] = Layout(n) /\ b[Len(log)] = <<>>
    /\ \A i \in 0 .. Len(log) : Sound(fs[i], n) /\ b[i] \in Seq(Bytes)
    /\ \A i \in 1 .. Len(log) : Linked(log[i], fs[i - 1], fs[i], b[i - 1], b[i])
    /\ n # "JoinGame" => b[0] = Serialize(log)

\* The fields log have been written as whole, and left are to follow them.
WrittenAs(log, left, whole, n) == \E fs, b : Made(log, fs, b, n) /\ fs[Len(log)] = left /\ b[0] = whole

LEMMA MadeStart == ASSUME NEW n \in PacketTypes PROVE WrittenAs(<<>>, Layout(n), <<>>, n)
<1> DEFINE fs == [i \in {0} |-> Layout(n)]
           b == [i \in {0} |-> <<>>]
           log == <<>>
<1>1. fs[0] = Layout(n) /\ b[0] = <<>> /\ Len(log) = 0 /\ log \in Seq(Entries(n))
  OBVIOUS
<1>2. Sound(fs[0], n) /\ b[0] \in Seq(Bytes)
  BY <1>1, TypesSound
<1>3. Serialize(log) = <<>>
  <2>1. log = <<>> /\ [i \in DOMAIN log |-> WriteField(log[i].field, log[i].v)] = <<>>
    OBVIOUS
  <2>2. FlattenSeq(<<>>) = <<>>
    BY DEF FlattenSeq
  <2>3. QED BY <2>1, <2>2 DEF Serialize
<1> HIDE DEF fs, b, log
<1>4. Made(log, fs, b, n)
  <2>1. b[Len(log)] = <<>> /\ fs[0] = Layout(n) /\ (n # "JoinGame" => b[0] = Serialize(log))
    BY <1>1, <1>3
  <2>2. \A i \in 0 .. Len(log) : Sound(fs[i], n) /\ b[i] \in Seq(Bytes)
    <3>1. ASSUME NEW i \in 0 .. Len(log) PROVE Sound(fs[i], n) /\ b[i] \in Seq(Bytes)
      <4>1. i = 0
        BY <1>1
      <4>2. QED BY <1>2, <4>1
    <3>2. QED BY <3>1
  <2>3. \A i \in 1 .. Len(log) : Linked(log[i], fs[i - 1], fs[i], b[i - 1], b[i])
    BY <1>1
  <2>4. QED BY <1>1, <2>1, <2>2, <2>3 DEF Made
<1>5. fs[Len(log)] = Layout(n)
  BY <1>1
<1>6. WrittenAs(log, Layout(n), b[0], n)
  BY <1>4, <1>5 DEF WrittenAs
<1>7. QED BY <1>1, <1>6 DEF log

\* One field more.
LEMMA MadeMore ==
    ASSUME NEW n, NEW log, NEW left, NEW whole, WrittenAs(log, left, whole, n), left # <<>>,
           NEW e \in Entries(n), e.field = Head(left)
    PROVE  WrittenAs(Append(log, e), Following(left, e.v), whole \o Encoded(e.field, e.v), n)
<1>0. PICK fs, b : Made(log, fs, b, n) /\ fs[Len(log)] = left /\ b[0] = whole
  BY DEF WrittenAs
<1> DEFINE more == Append(log, e)
           k == Len(log)
           f == e.field
           v == e.v
           w == Encoded(f, v)
           next == Following(left, v)
           gs == [i \in 0 .. k + 1 |-> IF i <= k THEN fs[i] ELSE next]
           c == [i \in 0 .. k + 1 |-> IF i <= k THEN b[i] \o w ELSE <<>>]
<1>1. /\ log \in Seq(Entries(n)) /\ fs[0] = Layout(n) /\ b[k] = <<>>
      /\ \A i \in 0 .. k : Sound(fs[i], n) /\ b[i] \in Seq(Bytes)
      /\ \A i \in 1 .. k : Linked(log[i], fs[i - 1], fs[i], b[i - 1], b[i])
      /\ n # "JoinGame" => b[0] = Serialize(log)
  BY <1>0 DEF Made
<1>2. k \in Nat
  BY <1>1
<1>3. f \in Apts(n) /\ Proper(f) /\ Canonical(f, v)
  BY EntryParts
<1>4. Sound(next, n)
  <2>1. Sound(left, n) /\ f = Head(left)
    BY <1>0, <1>1, <1>2
  <2> HIDE DEF f, v
  <2>2. QED BY <1>3, <2>1, FollowingSound
<1>5. w \in Seq(Bytes) /\ (f.k # "identifiers" => w = WriteField(f, v))
  BY <1>3, WrittenBytes
<1>6. /\ more \in Seq(Entries(n)) /\ Len(more) = k + 1 /\ more[k + 1] = e
      /\ \A i \in 1 .. k : more[i] = log[i]
  BY <1>1, AppendProperties
<1>7. /\ \A i \in 0 .. k : gs[i] = fs[i] /\ c[i] = b[i] \o w
      /\ gs[k + 1] = next /\ c[k + 1] = <<>>
  <2> HIDE DEF more, f, v, w, next, k
  <2>1. QED BY <1>2
<1> HIDE DEF more, f, v, w, next, gs, c
<1>8. \A i \in 0 .. k + 1 : Sound(gs[i], n) /\ c[i] \in Seq(Bytes)
  <2>1. ASSUME NEW i \in 0 .. k + 1 PROVE Sound(gs[i], n) /\ c[i] \in Seq(Bytes)
    <3>1. CASE i = k + 1
      <4>1. gs[i] = next /\ c[i] = <<>>
        BY <1>7, <3>1
      <4>2. <<>> \in Seq(Bytes)
        OBVIOUS
      <4>3. QED BY <1>4, <4>1, <4>2
    <3>2. CASE i # k + 1
      <4>1. i \in 0 .. k
        BY <1>2, <3>2
      <4>2. b[i] \in Seq(Bytes) /\ Sound(fs[i], n)
        BY <1>1, <4>1
      <4>3. b[i] \o w \in Seq(Bytes)
        BY <1>5, <4>2, ConcatProperties
      <4>4. QED BY <1>7, <4>1, <4>2, <4>3
    <3>3. QED BY <3>1, <3>2
  <2>2. QED BY <2>1
<1>9. \A i \in 1 .. k + 1 : Linked(more[i], gs[i - 1], gs[i], c[i - 1], c[i])
  <2>1. ASSUME NEW i \in 1 .. k PROVE Linked(more[i], gs[i - 1], gs[i], c[i - 1], c[i])
    <3>1. i - 1 \in 0 .. k /\ i \in 0 .. k
      BY <1>2
    <3>2. more[i] = log[i] /\ gs[i - 1] = fs[i - 1] /\ gs[i] = fs[i] /\ c[i - 1] = b[i - 1] \o w
          /\ c[i] = b[i] \o w
      BY <1>6, <1>7, <3>1
    <3> DEFINE x == Encoded(log[i].field, log[i].v)
               y == b[i]
    <3>3. Linked(log[i], fs[i - 1], fs[i], b[i - 1], b[i])
      BY <1>1
    <3>4. b[i - 1] = x \o y
      BY <3>3 DEF Linked
    <3>5. x \in Seq(Bytes) /\ y \in Seq(Bytes)
      <4>1. log[i] \in Entries(n)
        BY <1>1, ElementOfSeq
      <4>2. Proper(log[i].field) /\ Canonical(log[i].field, log[i].v)
        BY <4>1, EntryParts
      <4>3. x \in Seq(Bytes)
        BY <4>2, WrittenBytes
      <4>4. QED BY <1>1, <3>1, <4>3
    <3> HIDE DEF x, y
    <3>6. (x \o y) \o w = x \o (y \o w)
      BY <1>5, <3>5, Associative
    <3>7. c[i - 1] = x \o c[i]
      BY <3>2, <3>4, <3>6 DEF y
    <3>8. QED BY <3>2, <3>3, <3>7 DEF Linked, x
  <2>2. Linked(more[k + 1], gs[k], gs[k + 1], c[k], c[k + 1])
    <3>1. k \in 0 .. k
      BY <1>2
    <3>2. gs[k] = fs[k] /\ c[k] = b[k] \o w
      BY <1>7, <3>1
    <3>3. c[k] = w \o <<>>
      BY <1>1, <1>5, <3>2, NothingBehind
    <3>4. QED BY <1>0, <1>6, <1>7, <3>2, <3>3 DEF Linked, next, w, f, v
  <2>3. ASSUME NEW i \in 1 .. k + 1 PROVE Linked(more[i], gs[i - 1], gs[i], c[i - 1], c[i])
    <3>1. CASE i = k + 1
      <4>1. i - 1 = k
        BY <1>2, <3>1
      <4>2. QED BY <2>2, <3>1, <4>1
    <3>2. CASE i # k + 1
      <4>1. i \in 1 .. k
        BY <1>2, <3>2
      <4>2. QED BY <2>1, <4>1
    <3>3. QED BY <3>1, <3>2
  <2>4. QED BY <2>3
<1>10. c[0] = b[0] \o w /\ gs[0] = Layout(n)
  <2>1. 0 \in 0 .. k
    BY <1>2
  <2>2. QED BY <1>1, <1>7, <2>1
<1>11. ASSUME n # "JoinGame" PROVE c[0] = Serialize(more)
  <2>1. f.k # "identifiers"
    BY <1>3, <1>11 DEF Apts
  <2>2. Serialize(Append(log, e)) = Serialize(log) \o WriteField(e.field, e.v)
    BY <1>1, SerializeMore
  <2>3. more = Append(log, e)
    BY DEF more
  <2>4. QED BY <1>1, <1>5, <1>10, <1>11, <2>1, <2>2, <2>3 DEF f, v
<1>12. Made(more, gs, c, n)
  BY <1>6, <1>7, <1>8, <1>9, <1>10, <1>11 DEF Made
<1>13. gs[Len(more)] = next /\ c[0] = whole \o w
  BY <1>0, <1>6, <1>7, <1>10
<1>14. WrittenAs(more, next, whole \o w, n)
  BY <1>12, <1>13 DEF WrittenAs
<1>15. QED BY <1>14 DEF more, next, w, f, v

-----------------------------------------------------------------------------
(* The fields of packets: reading what has been written.                   *)

\* The fields log have been written, and fields are the first of them, all but cut of the
\* others is to be read.
InStep(n, whole, taken, left, s, cut) ==
    \E log, fs, b :
       /\ Made(log, fs, b, n) /\ fs[Len(log)] = <<>> /\ b[0] = whole
       /\ taken \in Seq(Entries(n)) /\ Len(taken) <= Len(log)
       /\ \A i \in 1 .. Len(taken) : taken[i] = log[i]
       /\ left = fs[Len(taken)] /\ s \o cut = b[Len(taken)]

LEMMA InStepStart ==
    ASSUME NEW n, NEW log, NEW fs, NEW b, Made(log, fs, b, n), fs[Len(log)] = <<>>,
           NEW s, NEW cut, s \o cut = b[0]
    PROVE  InStep(n, b[0], <<>>, Layout(n), s, cut)
<1> DEFINE taken == <<>>
<1>1. log \in Seq(Entries(n)) /\ fs[0] = Layout(n)
  BY DEF Made
<1>2. taken \in Seq(Entries(n)) /\ Len(taken) = 0 /\ Len(taken) <= Len(log)
  <2>1. Len(log) \in Nat
    BY <1>1
  <2>2. QED BY <2>1
<1> HIDE DEF taken
<1>3. \A i \in 1 .. Len(taken) : taken[i] = log[i]
  BY <1>2
<1>4. InStep(n, b[0], taken, Layout(n), s, cut)
  BY <1>1, <1>2, <1>3 DEF InStep
<1>5. QED BY <1>4 DEF taken

\* As long as there are fields to be read, the next one that was written is in front.
LEMMA InStepNext ==
    ASSUME NEW n, NEW whole, NEW taken, NEW left, NEW s, NEW cut,
           InStep(n, whole, taken, left, s, cut), left # <<>>
    PROVE  LET f == Head(left)
           IN  \E v, u :
                  /\ f \in Apts(n) /\ Proper(f) /\ Canonical(f, v) /\ u \in Seq(Bytes)
                  /\ s \o cut = Encoded(f, v) \o u
                  /\ f.k \in Tails => u = <<>>
                  /\ \A s2 : s2 \o cut = u =>
                        InStep(n, whole, Append(taken, [field |-> f, v |-> v]), Following(left, v), s2, cut)
<1>1. PICK log, fs, b :
       /\ Made(log, fs, b, n) /\ fs[Len(log)] = <<>> /\ b[0] = whole
       /\ taken \in Seq(Entries(n)) /\ Len(taken) <= Len(log)
       /\ \A i \in 1 .. Len(taken) : taken[i] = log[i]
       /\ left = fs[Len(taken)] /\ s \o cut = b[Len(taken)]
  BY DEF InStep
<1>2. /\ log \in Seq(Entries(n)) /\ b[Len(log)] = <<>>
      /\ \A i \in 0 .. Len(log) : Sound(fs[i], n) /\ b[i] \in Seq(Bytes)
      /\ \A i \in 1 .. Len(log) : Linked(log[i], fs[i - 1], fs[i], b[i - 1], b[i])
  BY <1>1 DEF Made
<1> DEFINE f == Head(left)
           k == Len(taken)
           m == Len(log)
           e == log[k + 1]
           v == e.v
           u == b[k + 1]
           more == Append(taken, e)
<1>3. k \in Nat /\ m \in Nat /\ k < m
  <2>1. k # m
    BY <1>1
  <2>2. k \in Nat /\ m \in Nat
    BY <1>1, <1>2
  <2>3. QED BY <1>1, <2>1, <2>2
<1>4. k + 1 \in 1 .. m /\ k + 1 \in 0 .. m /\ k \in 0 .. m /\ (k + 1) - 1 = k
  BY <1>3
<1>5. e \in Entries(n)
  BY <1>2, <1>4, ElementOfSeq
<1>6. /\ e.field \in Apts(n) /\ Proper(e.field) /\ Canonical(e.field, v)
      /\ e = [field |-> e.field, v |-> v]
  <2>1. e = [field |-> e.field, v |-> e.v]
    <3> HIDE DEF e
    <3>1. QED BY <1>5 DEF Entries
  <2>2. QED BY <1>5, <2>1, EntryParts
<1>7. /\ e.field = f /\ fs[k + 1] = Following(left, v)
      /\ s \o cut = Encoded(f, v) \o u /\ u \in Seq(Bytes)
  <2>1. Linked(e, fs[k], fs[k + 1], b[k], u)
    BY <1>2, <1>4
  <2>2. QED BY <1>1, <1>2, <1>4, <2>1 DEF Linked
<1>8. ASSUME f.k \in Tails PROVE u = <<>>
  <2>1. Sound(left, n) /\ Canonical(Head(left), v)
    BY <1>1, <1>2, <1>4, <1>6, <1>7
  <2>2. Following(left, v) = <<>>
    BY <1>8, <2>1, FollowingSound
  <2>3. fs[k + 1] = <<>>
    BY <1>7, <2>2
  <2>4. ASSUME k + 1 # m PROVE FALSE
    <3>1. (k + 1) + 1 \in 1 .. m /\ ((k + 1) + 1) - 1 = k + 1
      BY <1>3, <2>4
    <3> DEFINE j == (k + 1) + 1
    <3>2. Linked(log[j], fs[j - 1], fs[j], b[j - 1], b[j])
      BY <1>2, <3>1
    <3>3. fs[j - 1] # <<>>
      BY <3>2 DEF Linked
    <3>4. QED BY <2>3, <3>1, <3>3
  <2>5. QED BY <1>2, <2>4
<1>9. ASSUME NEW s2, s2 \o cut = u
      PROVE  InStep(n, whole, more, Following(left, v), s2, cut)
  <2>1. /\ more \in Seq(Entries(n)) /\ Len(more) = k + 1 /\ more[k + 1] = e
        /\ \A i \in 1 .. k : more[i] = taken[i]
    <3> HIDE DEF e
    <3>1. QED BY <1>1, <1>5, AppendProperties
  <2> HIDE DEF more
  <2>2. \A i \in 1 .. Len(more) : more[i] = log[i]
    <3>1. ASSUME NEW i \in 1 .. Len(more) PROVE more[i] = log[i]
      <4>1. CASE i = k + 1
        BY <2>1, <4>1
      <4>2. CASE i # k + 1
        <5>1. i \in 1 .. k
          BY <1>3, <2>1, <4>2
        <5>2. QED BY <1>1, <2>1, <5>1
      <4>3. QED BY <4>1, <4>2
    <3>2. QED BY <3>1
  <2>3. Len(more) <= Len(log)
    BY <1>3, <2>1
  <2>4. Following(left, v) = fs[Len(more)] /\ s2 \o cut = b[Len(more)]
    BY <1>7, <1>9, <2>1
  <2>5. QED BY <1>1, <2>1, <2>2, <2>3, <2>4 DEF InStep
<1>10. more = Append(taken, [field |-> f, v |-> v])
  BY <1>6, <1>7
<1> HIDE DEF more, v, u, e
<1>11. QED BY <1>6, <1>7, <1>8, <1>9, <1>10

\* When there is none, all has been read.
LEMMA InStepEnd ==
    ASSUME NEW n, NEW whole, NEW taken, NEW s \in Seq(Bytes), NEW cut \in Seq(Bytes),
           InStep(n, whole, taken, <<>>, s, cut)
    PROVE  cut = <<>> /\ (n # "JoinGame" => Serialize(taken) = whole)
<1>1. PICK log, fs, b :
       /\ Made(log, fs, b, n) /\ fs[Len(log)] = <<>> /\ b[0] = whole
       /\ taken \in Seq(Entries(n)) /\ Len(taken) <= Len(log)
       /\ \A i \in 1 .. Len(taken) : taken[i] = log[i]
       /\ <<>> = fs[Len(taken)] /\ s \o cut = b[Len(taken)]
  BY DEF InStep
<1>2. /\ log \in Seq(Entries(n)) /\ b[Len(log)] = <<>> /\ (n # "JoinGame" => b[0] = Serialize(log))
      /\ \A i \in 1 .. Len(log) : Linked(log[i], fs[i - 1], fs[i], b[i - 1], b[i])
  BY <1>1 DEF Made
<1> DEFINE k == Len(taken)
           m == Len(log)
<1>3. k \in Nat /\ m \in Nat
  BY <1>1, <1>2
<1>4. k = m
  <2>1. ASSUME k # m PROVE FALSE
    <3>1. k + 1 \in 1 .. m /\ (k + 1) - 1 = k
      BY <1>1, <1>3, <2>1
    <3> DEFINE j == k + 1
    <3>2. Linked(log[j], fs[j - 1], fs[j], b[j - 1], b[j])
      BY <1>2, <3>1
    <3>3. fs[j - 1] # <<>>
      BY <3>2 DEF Linked
    <3>4. QED BY <1>1, <3>1, <3>3
  <2>2. QED BY <2>1
<1>5. taken = log
  BY <1>1, <1>2, <1>4, SeqEqual
<1>6. s \o cut = <<>>
  BY <1>1, <1>2, <1>4
<1>7. cut = <<>>
  <2>1. Len(s) + Len(cut) = 0 /\ Len(s) \in Nat /\ Len(cut) \in Nat
    <3>1. Len(s \o cut) = Len(s) + Len(cut)
      BY ConcatProperties
    <3>2. Len(s \o cut) = 0
      BY <1>6
    <3>3. QED BY <3>1, <3>2
  <2>2. Len(cut) = 0
    BY <2>1
  <2>3. QED BY <2>2, EmptySeq
<1>8. QED BY <1>1, <1>2, <1>5, <1>7

\* Some of the packet has been cut off and is missing in the last field that was read.
Lost(n, taken, left, s) ==
    /\ s = <<>> /\ taken # <<>>
    /\ LET f == taken[Len(taken)].field
       IN  f.k \in Tails \/ (f.lax /\ (n # "PlayerListItem" => left # <<>>))

\* What has become of a packet that was sent: it has been altered; or all but its end cut has
\* arrived, and it is read as it was written until something is missing.
Altered(n, whole, came) == Len(came) = Len(whole) /\ (came # whole \/ n = "JoinGame")
Arrived(n, whole, came, taken, left, s) ==
    \/ Altered(n, whole, came)
    \/ \E cut \in Seq(Bytes) :
          /\ came \o cut = whole
          /\ InStep(n, whole, taken, left, s, cut) \/ (cut # <<>> /\ Lost(n, taken, left, s))

\* The fields that have been read, and those that are still to be.
Gathering(n, taken, left) == \E whole : WrittenAs(taken, left, whole, n)

LEMMA GatheringParts ==
    ASSUME NEW n, NEW taken, NEW left, Gathering(n, taken, left)
    PROVE  /\ taken \in Seq(Entries(n)) /\ Sound(left, n)
           /\ left # <<>> => Head(left) \in Apts(n) /\ Proper(Head(left))
<1>1. PICK fs, b : Made(taken, fs, b, n) /\ fs[Len(taken)] = left
  BY DEF Gathering, WrittenAs
<1>2. taken \in Seq(Entries(n)) /\ \A i \in 0 .. Len(taken) : Sound(fs[i], n)
  BY <1>1 DEF Made
<1>3. Len(taken) \in 0 .. Len(taken)
  BY <1>2
<1>4. Sound(left, n)
  BY <1>1, <1>2, <1>3
<1>5. QED BY <1>2, <1>4, SoundTail

LEMMA GatheringMore ==
    ASSUME NEW n, NEW taken, NEW left, Gathering(n, taken, left), left # <<>>,
           NEW e \in Entries(n), e.field = Head(left)
    PROVE  Gathering(n, Append(taken, e), Following(left, e.v))
BY MadeMore DEF Gathering

\* Nothing is left of what has been read as a sent.
LEMMA DropAll == \A s \in Seq(Bytes) : Drop(s, Len(s)) = <<>>
<1>1. ASSUME NEW s \in Seq(Bytes) PROVE Drop(s, Len(s)) = <<>>
  <2>1. Len(s) \in Nat
    OBVIOUS
  <2>2. QED BY <2>1, SubSeqEmpty DEF Drop
<1>2. QED BY <1>1

LEMMA DropTyped ==
    ASSUME NEW s \in Seq(Bytes), NEW k \in Nat, k <= Len(s)
    PROVE  Drop(s, k) \in Seq(Bytes)
<1>1. \A i \in k + 1 .. Len(s) : s[i] \in Bytes
  BY ElementOfSeq
<1>2. QED BY <1>1, SubSeqProperties DEF Drop

\* The last of a list.
LEMMA AppendLast ==
    ASSUME NEW n, NEW taken \in Seq(Entries(n)), NEW e \in Entries(n)
    PROVE  LET more == Append(taken, e) IN more # <<>> /\ more[Len(more)] = e
<1>1. Len(Append(taken, e)) = Len(taken) + 1 /\ Append(taken, e)[Len(taken) + 1] = e /\ Len(taken) \in Nat
  BY AppendProperties
<1>2. Len(<<>>) = 0
  OBVIOUS
<1>3. Append(taken, e) # <<>>
  BY <1>1, <1>2
<1>4. QED BY <1>1, <1>3

\* A field that is read when some of it is missing.
LEMMA NowLost ==
    ASSUME NEW n, NEW taken, NEW left, Gathering(n, taken, left), left # <<>>,
           NEW f, f = Head(left), NEW v, Canonical(f, v), f.k \in Tails \/ f.lax
    PROVE  Lost(n, Append(taken, [field |-> f, v |-> v]), Following(left, v), <<>>)
<1> DEFINE e == [field |-> f, v |-> v]
           more == Append(taken, e)
           next == Following(left, v)
<1>1. taken \in Seq(Entries(n)) /\ Sound(left, n) /\ f \in Apts(n)
  BY GatheringParts
<1>2. e \in Entries(n) /\ e.field = f
  BY <1>1, EntryOf
<1>3. more # <<>> /\ more[Len(more)] = e
  <2> HIDE DEF e
  <2>1. QED BY <1>1, <1>2, AppendLast
<1>4. f.lax /\ n # "PlayerListItem" => next # <<>>
  BY <1>1, FollowingSound
<1> HIDE DEF e, more, next
<1>5. Lost(n, more, next, <<>>)
  BY <1>2, <1>3, <1>4 DEF Lost
<1>6. QED BY <1>5 DEF more, next, e

\* What of a packet has been cut off does not go unnoticed when it is read.
LEMMA ReadInStep ==
    ASSUME NEW n, NEW whole, NEW taken, NEW left, Gathering(n, taken, left), left # <<>>,
           NEW s \in Seq(Bytes), NEW cut \in Seq(Bytes), InStep(n, whole, taken, left, s, cut)
    PROVE  LET f == Head(left)
               r == ReadField(f, s)
               more == Append(taken, [field |-> f, v |-> r.v])
           IN  /\ r.st # "ok" => cut # <<>> \/ n = "JoinGame"
               /\ r.st = "ok" \/ (r.st = "error" /\ f.lax) =>
                     \/ InStep(n, whole, more, Following(left, r.v), Drop(s, r.size), cut)
                     \/ cut # <<>> /\ Lost(n, more, Following(left, r.v), Drop(s, r.size))
<1> DEFINE f == Head(left)
           r == ReadField(f, s)
           more == Append(taken, [field |-> f, v |-> r.v])
<1>0. f = Head(left) /\ r = ReadField(f, s) /\ more = Append(taken, [field |-> f, v |-> r.v])
  OBVIOUS
<1> HIDE DEF f, r, more
<1> USE <1>0
<1>1. PICK v, u :
         /\ f \in Apts(n) /\ Proper(f) /\ Canonical(f, v) /\ u \in Seq(Bytes)
         /\ s \o cut = Encoded(f, v) \o u
         /\ f.k \in Tails => u = <<>>
         /\ \A s2 : s2 \o cut = u =>
               InStep(n, whole, Append(taken, [field |-> f, v |-> v]), Following(left, v), s2, cut)
  BY InStepNext DEF f
<1>2. Typed(f, s, r)
  BY <1>1, ReadType
<1> DEFINE w == Encoded(f, v)
<1>3. w \in Seq(Bytes)
  BY <1>1, WrittenBytes
<1>4. Len(s) \in Nat /\ Len(cut) \in Nat /\ Len(w) \in Nat /\ Len(u) \in Nat
      /\ Len(s) + Len(cut) = Len(w) + Len(u)
  <2>1. Len(s \o cut) = Len(s) + Len(cut) /\ Len(w \o u) = Len(w) + Len(u)
    <3> HIDE DEF w
    <3>1. QED BY <1>1, <1>3, ConcatProperties
  <2>2. Len(w) \in Nat
    <3> HIDE DEF w
    <3>1. QED BY <1>3
  <2>3. Len(s) \in Nat /\ Len(cut) \in Nat /\ Len(u) \in Nat
    BY <1>1
  <2>4. QED BY <1>1, <2>1, <2>2, <2>3
<1>5. CASE f.k \notin Tails
  <2>1. Returns(r, s, v, Len(w))
    BY <1>1, <1>5, ReadBack
  <2>2. CASE Len(s) < Len(w)
    <3>1. r.st = "error" /\ r.size = Len(s)
      BY <2>1, <2>2 DEF Returns
    <3>2. cut # <<>>
      <4>1. Len(cut) # 0
        <5> HIDE DEF w
        <5>1. QED BY <1>4, <2>2
      <4>2. Len(<<>>) = 0
        OBVIOUS
      <4>3. QED BY <4>1, <4>2
    <3>3. ASSUME f.lax PROVE Lost(n, more, Following(left, r.v), Drop(s, r.size))
      <4>1. Canonical(f, r.v)
        BY <1>2, <3>1, <3>3 DEF Typed
      <4>2. Drop(s, r.size) = <<>>
        BY <3>1, DropAll
      <4> DEFINE x == r.v
      <4>3. Canonical(f, x) /\ more = Append(taken, [field |-> f, v |-> x])
        BY <4>1
      <4> HIDE DEF x
      <4>4. Lost(n, Append(taken, [field |-> f, v |-> x]), Following(left, x), <<>>)
        BY <3>3, <4>3, NowLost
      <4>5. QED BY <4>2, <4>3, <4>4 DEF x
    <3>4. QED BY <3>1, <3>2, <3>3
  <2>3. CASE ~(Len(s) < Len(w))
    <3>1. r = Ok(v, Len(w))
      BY <2>1, <2>3 DEF Returns
    <3>2. r.st = "ok" /\ r.v = v /\ r.size = Len(w)
      BY <3>1 DEF Ok
    <3>3. Holds(s, cut, w, u)
      <4> HIDE DEF w
      <4>1. Len(w) <= Len(s)
        BY <1>4, <2>3
      <4>2. s \o cut = w \o u
        BY <1>1 DEF w
      <4>3. QED BY <1>1, <1>3, <4>1, <4>2 DEF Holds
    <3>4. Drop(s, Len(w)) \o cut = u
      <4> HIDE DEF w
      <4>1. QED BY <3>3, TakeFirst
    <3>5. InStep(n, whole, Append(taken, [field |-> f, v |-> v]), Following(left, v), Drop(s, Len(w)), cut)
      <4> HIDE DEF w
      <4>1. QED BY <1>1, <3>4
    <3>6. QED BY <3>2, <3>5
  <2>4. QED BY <2>2, <2>3
<1>6. CASE f.k \in Tails
  <2>1. w = v /\ v \in Seq(Bytes) /\ (f.k = "rest" => Len(v) <= MaxLen)
    <3>1. f.k \in {"rest", "all"} /\ f.k # "identifiers"
      BY <1>6 DEF Tails
    <3>2. WriteField(f, v) = v
      BY <3>1, WriteKinds
    <3>3. QED BY <1>1, <3>1, <3>2 DEF Encoded, Canonical
  <2>2. s \o cut = v /\ u = <<>>
    <3>1. u = <<>>
      BY <1>1, <1>6
    <3>2. v \o <<>> = v
      BY <2>1, NothingBehind
    <3>3. s \o cut = v \o u
      BY <1>1, <2>1
    <3>4. QED BY <3>1, <3>2, <3>3
  <2>3. f.k = "rest" => Len(s) <= MaxLen
    <3>1. Len(v) = Len(s) + Len(cut)
      BY <2>2, ConcatProperties
    <3>2. MaxLen \in Nat
      BY CodecNumbers
    <3>3. QED BY <1>4, <2>1, <3>1, <3>2
  <2>4. r = Ok(s, Len(s))
    <3>1. CASE f.k = "rest"
      <4> DEFINE m == Min({Len(s), MaxLen})
      <4>1. m = Len(s)
        BY <1>4, <2>3, <3>1, CodecNumbers, MinOfTwo
      <4>2. SubSeq(s, 1, Len(s)) = s
        BY SubSeqFull
      <4>3. r = Ok(SubSeq(s, 1, m), m)
        BY <3>1, ReadTails
      <4> HIDE DEF m
      <4>4. QED BY <4>1, <4>2, <4>3
    <3>2. CASE f.k = "all"
      BY <3>2, ReadTails
    <3>3. QED BY <1>6, <3>1, <3>2 DEF Tails
  <2>5. r.st = "ok" /\ r.v = s /\ r.size = Len(s)
    BY <2>4 DEF Ok
  <2>6. Drop(s, Len(s)) = <<>>
    BY DropAll
  <2>7. CASE cut = <<>>
    <3>1. s = v
      <4>1. s \o <<>> = s
        BY NothingBehind
      <4>2. QED BY <2>2, <2>7, <4>1
    <3>2. <<>> \o cut = u
      BY <2>2, <2>7, NothingBehind
    <3> DEFINE e == <<>>
    <3>3. e \o cut = u
      BY <3>2
    <3> HIDE DEF e
    <3>4. InStep(n, whole, Append(taken, [field |-> f, v |-> v]), Following(left, v), e, cut)
      BY <1>1, <3>3
    <3>5. QED BY <2>5, <2>6, <3>1, <3>4 DEF e
  <2>8. CASE cut # <<>>
    <3>1. Canonical(f, s)
      BY <1>2, <2>5 DEF Typed
    <3>2. Lost(n, Append(taken, [field |-> f, v |-> s]), Following(left, s), <<>>)
      BY <1>6, <3>1, NowLost
    <3>3. QED BY <2>5, <2>6, <2>8, <3>2
  <2>9. QED BY <2>7, <2>8
<1>7. QED BY <1>5, <1>6 DEF f, r, more

\* What is missing stays so.
LEMMA ReadLost ==
    ASSUME NEW n, NEW taken, NEW left, Gathering(n, taken, left), left # <<>>,
           NEW s, Lost(n, taken, left, s)
    PROVE  LET f == Head(left)
               r == ReadField(f, s)
               more == Append(taken, [field |-> f, v |-> r.v])
           IN  r.st = "ok" \/ (r.st = "error" /\ f.lax) => Lost(n, more, Following(left, r.v), Drop(s, r.size))
<1> DEFINE f == Head(left)
           r == ReadField(f, s)
           more == Append(taken, [field |-> f, v |-> r.v])
<1> SUFFICES ASSUME r.st = "ok" \/ (r.st = "error" /\ f.lax)
             PROVE  Lost(n, more, Following(left, r.v), Drop(s, r.size))
  OBVIOUS
<1>0. f = Head(left) /\ r = ReadField(f, s) /\ more = Append(taken, [field |-> f, v |-> r.v])
  OBVIOUS
<1> HIDE DEF f, r, more
<1> USE <1>0
<1>1. s = <<>> /\ s \in Seq(Bytes) /\ Len(s) = 0
  <2>1. s = <<>>
    BY DEF Lost
  <2>2. <<>> \in Seq(Bytes) /\ Len(<<>>) = 0
    OBVIOUS
  <2>3. QED BY <2>1, <2>2
<1>2. Proper(f)
  BY GatheringParts DEF f
<1>3. Typed(f, s, r)
  BY <1>1, <1>2, ReadType
<1>4. /\ r.size = 0 /\ Canonical(f, r.v) /\ (f.k \in Tails \/ f.lax)
  <2>1. r.size \in Nat /\ r.size <= 0
    BY <1>1, <1>3 DEF Typed
  <2>2. Canonical(f, r.v)
    BY <1>3 DEF Typed
  <2>3. f.k \in Tails \/ r.st = "error"
    BY <1>1, <1>3 DEF Typed
  <2>4. r.size = 0
    BY <2>1
  <2>5. QED BY <2>2, <2>3, <2>4
<1>5. Drop(s, r.size) = <<>>
  <2>1. Drop(s, Len(s)) = <<>>
    BY <1>1, DropAll
  <2>2. QED BY <1>1, <1>4, <2>1
<1> DEFINE x == r.v
<1>6. Canonical(f, x) /\ more = Append(taken, [field |-> f, v |-> x])
  BY <1>4
<1> HIDE DEF x
<1>7. Lost(n, Append(taken, [field |-> f, v |-> x]), Following(left, x), <<>>)
  BY <1>4, <1>6, NowLost
<1>8. QED BY <1>5, <1>6, <1>7 DEF x

\* The next field of a packet, whatever has become of it.
LEMMA ReadArrived ==
    ASSUME NEW n, NEW whole \in Seq(Bytes), NEW came \in Seq(Bytes), NEW taken, NEW left, NEW s \in Seq(Bytes),
           Gathering(n, taken, left), left # <<>>, Arrived(n, whole, came, taken, left, s)
    PROVE  LET f == Head(left)
               r == ReadField(f, s)
               more == Append(taken, [field |-> f, v |-> r.v])
           IN  /\ r.st = "panic" => n = "JoinGame"
               /\ r.st = "error" /\ ~f.lax => came # whole \/ n = "JoinGame"
               /\ r.st = "ok" \/ (r.st = "error" /\ f.lax) =>
                     /\ Arrived(n, whole, came, more, Following(left, r.v), Drop(s, r.size))
                     /\ Gathering(n, more, Following(left, r.v)) /\ Drop(s, r.size) \in Seq(Bytes)
<1> DEFINE f == Head(left)
           r == ReadField(f, s)
           more == Append(taken, [field |-> f, v |-> r.v])
<1>0. f = Head(left) /\ r = ReadField(f, s) /\ more = Append(taken, [field |-> f, v |-> r.v])
  OBVIOUS
<1> HIDE DEF f, r, more
<1> USE <1>0
<1>1. f \in Apts(n) /\ Proper(f)
  BY GatheringParts DEF f
<1>2. Typed(f, s, r)
  BY <1>1, ReadType
<1>3. ASSUME r.st = "panic" PROVE n = "JoinGame"
  <2>1. f.k = "identifiers"
    BY <1>2, <1>3 DEF Typed
  <2>2. QED BY <1>1, <2>1 DEF Apts
<1>4. ASSUME r.st = "ok" \/ (r.st = "error" /\ f.lax)
      PROVE  Gathering(n, more, Following(left, r.v)) /\ Drop(s, r.size) \in Seq(Bytes)
  <2>1. r.size \in Nat /\ r.size <= Len(s) /\ Canonical(f, r.v)
    BY <1>2, <1>4 DEF Typed
  <2>2. Drop(s, r.size) \in Seq(Bytes)
    BY <2>1, DropTyped
  <2> DEFINE e == [field |-> f, v |-> r.v]
  <2>3. e \in Entries(n) /\ e.field = f /\ e.v = r.v /\ more = Append(taken, e)
    BY <1>1, <2>1, EntryOf
  <2> HIDE DEF e
  <2>4. Gathering(n, Append(taken, e), Following(left, e.v))
    BY <2>3, GatheringMore
  <2>5. QED BY <2>2, <2>3, <2>4
<1>5. CASE Altered(n, whole, came)
  <2>1. came # whole \/ n = "JoinGame"
    BY <1>5 DEF Altered
  <2>2. QED BY <1>3, <1>4, <1>5, <2>1 DEF Arrived
<1>6. CASE \E cut \in Seq(Bytes) :
              /\ came \o cut = whole
              /\ InStep(n, whole, taken, left, s, cut) \/ (cut # <<>> /\ Lost(n, taken, left, s))
  <2>1. PICK cut \in Seq(Bytes) :
              /\ came \o cut = whole
              /\ InStep(n, whole, taken, left, s, cut) \/ (cut # <<>> /\ Lost(n, taken, left, s))
    BY <1>6
  <2>2. cut # <<>> => came # whole
    BY <2>1, ConcatEqualIffEmpty
  <2>3. CASE InStep(n, whole, taken, left, s, cut)
    <3>1. /\ r.st # "ok" => cut # <<>> \/ n = "JoinGame"
          /\ r.st = "ok" \/ (r.st = "error" /\ f.lax) =>
                \/ InStep(n, whole, more, Following(left, r.v), Drop(s, r.size), cut)
                \/ cut # <<>> /\ Lost(n, more, Following(left, r.v), Drop(s, r.size))
      BY <2>3, ReadInStep DEF f, r, more
    <3>2. QED BY <1>3, <1>4, <2>1, <2>2, <3>1 DEF Arrived
  <2>4. CASE cut # <<>> /\ Lost(n, taken, left, s)
    <3>1. r.st = "ok" \/ (r.st = "error" /\ f.lax) => Lost(n, more, Following(left, r.v), Drop(s, r.size))
      BY <2>4, ReadLost DEF f, r, more
    <3>2. QED BY <1>3, <1>4, <2>1, <2>2, <2>4, <3>1 DEF Arrived
  <2>5. QED BY <2>1, <2>3, <2>4
<1>7. QED BY <1>5, <1>6 DEF Arrived, f, r, more

\* What peers write can be read again.
LEMMA ValuesCanonical ==
    ASSUME sender \in Senders, NEW n, NEW f \in Apts(n), NEW v \in Values(f)
    PROVE  Canonical(f, v)
<1>1. /\ sender.lens \subseteq 0 .. MaxLen /\ sender.numbers \subseteq 0 .. Modulus - 1
      /\ sender.fills \subseteq Bytes /\ sender.items \in 0 .. MaxCount
  BY CodecAssumption
<1>2. Proper(f) /\ Len(f.cases) <= 5 /\ f.cases \in Seq(Names)
  BY DEF Apts, Shapes
<1>3. CASE f.cases # <<>>
  <2>0. f.k = "varint" \/ (f.k = "fixed" /\ f.width = 1)
    BY <1>2, <1>3 DEF Proper
  <2>1. v \in {<<m>> : m \in 0 .. Len(f.cases)}
    BY <1>3, <2>0 DEF Values, CountKinds
  <2>2. PICK m \in 0 .. Len(f.cases) : v = <<m>>
    BY <2>1
  <2>3. Len(f.cases) \in Nat
    BY <1>2
  <2>4. m \in Nat /\ m <= 5
    BY <1>2, <2>3
  <2>5. m \in Int32 /\ m \in Bytes
    BY <2>4, CodecNumbers DEF Int32, Bytes
  <2>6. <<m>> \in Seq(Bytes) /\ Len(<<m>>) = 1
    BY <2>5
  <2>7. CASE f.k = "varint"
    BY <2>2, <2>5, <2>7 DEF Canonical, Strings, CountKinds
  <2>8. CASE f.k = "fixed" /\ f.width = 1
    BY <2>2, <2>6, <2>8 DEF Canonical, Strings, CountKinds
  <2>9. QED BY <2>0, <2>7, <2>8
<1>4. CASE f.cases = <<>>
  <2>1. CASE f.k = "fixed"
    <3>1. v \in {[i \in 1 .. f.width |-> b] : b \in sender.fills}
      BY <1>4, <2>1 DEF Values, CountKinds
    <3>2. PICK b \in sender.fills : v = [i \in 1 .. f.width |-> b]
      BY <3>1
    <3>3. b \in Bytes /\ f.width \in Nat
      BY <1>1, <1>2 DEF Proper
    <3>4. v \in Seq(Bytes) /\ Len(v) = f.width
      BY <3>2, <3>3
    <3>5. QED BY <2>1, <3>4 DEF Canonical, Strings, CountKinds
  <2>2. CASE f.k = "bool"
    <3>1. v \in {<<0>>, <<1>>}
      BY <1>4, <2>2 DEF Values, CountKinds
    <3>2. QED BY <2>2, <3>1, CanonicalKinds
  <2>3. CASE f.k = "varint"
    <3>1. v \in {<<m>> : m \in sender.numbers}
      BY <1>4, <2>3 DEF Values, CountKinds
    <3>2. PICK m \in sender.numbers : v = <<m>>
      BY <3>1
    <3>3. m \in Int32
      BY <1>1 DEF Int32
    <3>4. QED BY <2>3, <3>2, <3>3 DEF Canonical, Strings, CountKinds
  <2>4. CASE f.k \in CountKinds
    <3>1. v \in {<<m>> : m \in 0 .. sender.items}
      BY <1>4, <2>4 DEF Values, CountKinds
    <3>2. PICK m \in 0 .. sender.items : v = <<m>>
      BY <3>1
    <3>3. m \in Nat /\ m <= MaxCount
      BY <1>1, CodecNumbers
    <3>4. m \in Positive
      BY <3>3, CodecNumbers DEF Positive
    <3>5. QED BY <2>4, <3>2, <3>3, <3>4 DEF Canonical, Strings, CountKinds
  <2>5. CASE f.k \in {"string", "bytes", "nbt", "optional", "rest", "all"}
    <3>1. v \in {Text(m) : m \in sender.lens}
      BY <1>4, <2>5 DEF Values, CountKinds
    <3>2. PICK m \in sender.lens : v = Text(m)
      BY <3>1
    <3>3. m \in Nat /\ m <= MaxLen
      BY <1>1, CodecNumbers
    <3>4. 1 \in Bytes
      BY CodecNumbers DEF Bytes
    <3>5. v \in Seq(Bytes) /\ Len(v) = m
      BY <3>2, <3>3, <3>4 DEF Text
    <3>6. QED BY <2>5, <3>3, <3>5 DEF Canonical, Strings, CountKinds
  <2>6. QED BY <1>2, <2>1, <2>2, <2>3, <2>4, <2>5 DEF Proper, Kinds, Strings, Tails
<1>5. QED BY <1>3, <1>4

\* The fields that have been written, and those that are still to be.
Sending(n, left, whole) == \E log : WrittenAs(log, left, whole, n)

LEMMA SendingMore ==
    ASSUME NEW n, NEW left, NEW whole, Sending(n, left, whole), left # <<>>, NEW v, Canonical(Head(left), v)
    PROVE  Sending(n, Following(left, v), whole \o Encoded(Head(left), v))
<1>1. PICK log : WrittenAs(log, left, whole, n)
  BY DEF Sending
<1>2. Gathering(n, log, left)
  BY <1>1 DEF Gathering
<1> DEFINE e == [field |-> Head(left), v |-> v]
<1>3. e \in Entries(n) /\ e.field = Head(left) /\ e.v = v
  BY <1>2, GatheringParts, EntryOf
<1> HIDE DEF e
<1>4. WrittenAs(Append(log, e), Following(left, e.v), whole \o Encoded(e.field, e.v), n)
  BY <1>1, <1>3, MadeMore
<1>5. QED BY <1>3, <1>4 DEF Sending

LEMMA SendingBytes ==
    ASSUME NEW n, NEW left, NEW whole, Sending(n, left, whole)
    PROVE  whole \in Seq(Bytes) /\ (left # <<>> => Head(left) \in Apts(n))
<1>1. PICK log, fs, b : Made(log, fs, b, n) /\ fs[Len(log)] = left /\ b[0] = whole
  BY DEF Sending, WrittenAs
<1>2. log \in Seq(Entries(n)) /\ \A i \in 0 .. Len(log) : b[i] \in Seq(Bytes)
  BY <1>1 DEF Made
<1>3. 0 \in 0 .. Len(log)
  BY <1>2
<1>4. Gathering(n, log, left)
  BY <1>1 DEF Gathering, WrittenAs
<1>5. QED BY <1>1, <1>2, <1>3, <1>4, GatheringParts

\* A packet that arrives as it was written, as far as it goes.
LEMMA CutArrives ==
    ASSUME NEW n, NEW whole, Sending(n, <<>>, whole), NEW came, NEW cut \in Seq(Bytes), came \o cut = whole
    PROVE  Arrived(n, whole, came, <<>>, Layout(n), came)
<1>1. PICK log, fs, b : Made(log, fs, b, n) /\ fs[Len(log)] = <<>> /\ b[0] = whole
  BY DEF Sending, WrittenAs
<1>2. InStep(n, b[0], <<>>, Layout(n), came, cut)
  BY <1>1, InStepStart
<1>3. InStep(n, whole, <<>>, Layout(n), came, cut)
  BY <1>1, <1>2
<1>4. QED BY <1>3 DEF Arrived

LEMMA WholeArrives ==
    ASSUME NEW n, NEW whole, Sending(n, <<>>, whole)
    PROVE  Arrived(n, whole, whole, <<>>, Layout(n), whole)
<1> DEFINE e == <<>>
<1>1. whole \o e = whole /\ e \in Seq(Bytes)
  BY SendingBytes, NothingBehind
<1> HIDE DEF e
<1>2. QED BY <1>1, CutArrives

\* What was read, written again by the proxy.
LEMMA WrittenArrives ==
    ASSUME NEW n, NEW taken, Gathering(n, taken, <<>>), NEW whole, whole = Serialize(taken)
    PROVE  whole \in Seq(Bytes) /\ Arrived(n, whole, whole, <<>>, Layout(n), whole)
<1>1. PICK fs, b : Made(taken, fs, b, n) /\ fs[Len(taken)] = <<>>
  BY DEF Gathering, WrittenAs
<1>2. taken \in Seq(Entries(n)) /\ (n # "JoinGame" => b[0] = whole)
  BY <1>1 DEF Made
<1>3. whole \in Seq(Bytes)
  BY <1>2, SerializeBytes
<1>4. CASE n = "JoinGame"
  BY <1>3, <1>4 DEF Arrived, Altered
<1>5. CASE n # "JoinGame"
  <2>1. Sending(n, <<>>, whole)
    BY <1>1, <1>2, <1>5 DEF Sending, WrittenAs
  <2>2. QED BY <1>3, <2>1, WholeArrives
<1>6. QED BY <1>4, <1>5

LEMMA GatheringStart == ASSUME NEW n \in PacketTypes PROVE Gathering(n, <<>>, Layout(n))
BY MadeStart DEF Gathering

\* The fields of a packet are in step with what the peer sent, or the packet has been altered, or
\* the missing end of it has been met.
CodecInv ==
    /\ at \in {"send", "read", "written", "error", "panic"} /\ sender \in Senders
    /\ original \in Seq(Bytes) /\ wire \in Seq(Bytes) /\ rest \in Seq(Bytes)
    /\ at = "send" => Sending(sender.name, todo, original)
    /\ at \in {"read", "written"} =>
          Gathering(sender.name, fields, todo) /\ Arrived(sender.name, original, wire, fields, todo, rest)
    /\ at = "written" => todo = <<>> /\ forwarded = Serialize(fields)
    /\ at = "error" => wire # original \/ sender.name = "JoinGame"
    /\ at = "panic" => sender.name = "JoinGame"

LEMMA CodecInitInv == CodecInit => CodecInv
<1> SUFFICES ASSUME CodecInit PROVE CodecInv
  OBVIOUS
<1>1. /\ at = "send" /\ sender \in Senders /\ todo = Layout(sender.name)
      /\ original = <<>> /\ wire = <<>> /\ rest = <<>>
  BY DEF CodecInit
<1>2. sender.name \in PacketTypes
  BY <1>1, CodecAssumption
<1>3. Sending(sender.name, todo, original)
  BY <1>1, <1>2, MadeStart DEF Sending
<1>4. original \in Seq(Bytes) /\ wire \in Seq(Bytes) /\ rest \in Seq(Bytes)
  BY <1>1
<1>5. QED BY <1>1, <1>3, <1>4 DEF CodecInv

LEMMA SendFieldInv == CodecInv /\ SendField => CodecInv'
<1> SUFFICES ASSUME CodecInv, SendField PROVE CodecInv'
  OBVIOUS
<1>1. PICK v \in Values(Head(todo)) :
         original' = original \o Encoded(Head(todo), v) /\ todo' = Following(todo, v)
  BY DEF SendField
<1>2. at = "send" /\ todo # <<>> /\ at' = at /\ sender' = sender /\ wire' = wire /\ rest' = rest
  BY DEF SendField
<1>3. /\ sender \in Senders /\ wire \in Seq(Bytes) /\ rest \in Seq(Bytes)
      /\ Sending(sender.name, todo, original)
  BY <1>2 DEF CodecInv
<1> DEFINE f == Head(todo)
<1>4. f \in Apts(sender.name)
  BY <1>2, <1>3, SendingBytes
<1>5. Canonical(f, v)
  <2> HIDE DEF f
  <2>1. v \in Values(f)
    BY <1>1 DEF f
  <2>2. QED BY <1>3, <1>4, <2>1, ValuesCanonical
<1>6. Sending(sender.name, todo', original')
  BY <1>1, <1>2, <1>3, <1>5, SendingMore
<1>7. original' \in Seq(Bytes)
  BY <1>6, SendingBytes
<1>8. QED BY <1>2, <1>3, <1>6, <1>7 DEF CodecInv

\* A packet that arrives is in step with what was sent, or it has been altered.
LEMMA ReadingInv ==
    ASSUME CodecInv, NEW s \in Seq(Bytes), Reading(s), original' \in Seq(Bytes),
           Arrived(sender.name, original', s, <<>>, Layout(sender.name), s)
    PROVE  CodecInv'
<1>1. /\ at' = "read" /\ todo' = Layout(sender.name) /\ wire' = s /\ rest' = s
      /\ fields' = <<>> /\ sender' = sender
  BY DEF Reading
<1>2. sender \in Senders /\ sender.name \in PacketTypes
  BY CodecAssumption DEF CodecInv
<1>3. Gathering(sender.name, fields', todo')
  BY <1>1, <1>2, GatheringStart
<1>4. Arrived(sender.name, original', wire', fields', todo', rest')
  BY <1>1
<1>5. QED BY <1>1, <1>2, <1>3, <1>4 DEF CodecInv

LEMMA DeliverInv == CodecInv /\ Deliver => CodecInv'
<1> SUFFICES ASSUME CodecInv, Deliver PROVE CodecInv'
  OBVIOUS
<1>1. at = "send" /\ todo = <<>> /\ original' = original /\ original \in Seq(Bytes) /\ sender \in Senders
  BY DEF Deliver, CodecInv
<1>2. Sending(sender.name, <<>>, original)
  BY <1>1 DEF CodecInv
<1>3. CASE Reading(original)
  <2>1. Arrived(sender.name, original', original, <<>>, Layout(sender.name), original)
    BY <1>1, <1>2, WholeArrives
  <2>2. QED BY <1>1, <1>3, <2>1, ReadingInv
<1>4. ASSUME NEW k \in 0 .. Len(original) - 1, Reading(SubSeq(original, 1, k)) PROVE CodecInv'
  <2> DEFINE s == SubSeq(original, 1, k)
             cut == SubSeq(original, k + 1, Len(original))
  <2>1. Len(original) \in Nat /\ k \in Nat /\ k < Len(original)
    BY <1>1
  <2>2. s \in Seq(Bytes) /\ cut \in Seq(Bytes)
    <3>1. \A i \in 1 .. Len(original) : original[i] \in Bytes
      BY <1>1, ElementOfSeq
    <3>2. \A i \in 1 .. k : original[i] \in Bytes
      BY <2>1, <3>1
    <3>3. \A i \in k + 1 .. Len(original) : original[i] \in Bytes
      BY <2>1, <3>1
    <3>4. s \in Seq(Bytes)
      BY <2>1, <3>2, SubSeqProperties
    <3>5. cut \in Seq(Bytes)
      BY <2>1, <3>3, SubSeqProperties
    <3>6. QED BY <3>4, <3>5
  <2>3. s \o cut = original
    <3>1. 1 \in 1 .. Len(original) + 1 /\ k \in 1 - 1 .. Len(original) /\ Len(original) \in k .. Len(original)
      BY <2>1
    <3>2. s \o cut = SubSeq(original, 1, Len(original))
      BY <1>1, <3>1, ConcatAdjacentSubSeq
    <3>3. QED BY <1>1, <3>2, SubSeqFull
  <2> HIDE DEF cut, s
  <2>4. Arrived(sender.name, original', s, <<>>, Layout(sender.name), s)
    BY <1>1, <1>2, <2>2, <2>3, CutArrives
  <2>5. Reading(s)
    BY <1>4 DEF s
  <2>6. QED BY <1>1, <2>2, <2>4, <2>5, ReadingInv
<1>5. ASSUME NEW i \in 1 .. Len(original), NEW b \in sender.altered, Reading([original EXCEPT ![i] = b])
      PROVE  CodecInv'
  <2> DEFINE s == [original EXCEPT ![i] = b]
  <2>1. b \in Bytes
    BY <1>1, CodecAssumption
  <2>2. s \in Seq(Bytes) /\ Len(s) = Len(original)
    BY <1>1, <2>1, ExceptSeq
  <2>3. Reading(s)
    BY <1>5
  <2> HIDE DEF s
  <2>4. Arrived(sender.name, original', s, <<>>, Layout(sender.name), s)
    <3>1. CASE s = original
      BY <1>1, <1>2, <3>1, WholeArrives
    <3>2. CASE s # original
      BY <1>1, <2>2, <3>2 DEF Arrived, Altered
    <3>3. QED BY <3>1, <3>2
  <2>5. QED BY <1>1, <2>2, <2>3, <2>4, ReadingInv
<1>6. QED BY <1>3, <1>4, <1>5 DEF Deliver

LEMMA ParseFieldInv == CodecInv /\ ParseField => CodecInv'
<1> SUFFICES ASSUME CodecInv, ParseField PROVE CodecInv'
  OBVIOUS
<1> DEFINE n == sender.name
           f == Head(todo)
           r == ReadField(f, rest)
           more == Append(fields, [field |-> f, v |-> r.v])
<1>1. /\ at = "read" /\ todo # <<>> /\ sender' = sender /\ original' = original /\ wire' = wire
      /\ \/ /\ r.st = "ok" \/ (r.st = "error" /\ f.lax)
            /\ fields' = more /\ todo' = Following(todo, r.v) /\ rest' = Drop(rest, r.size) /\ at' = at
         \/ /\ r.st = "panic" \/ (r.st = "error" /\ ~f.lax)
            /\ at' = r.st /\ rest' = rest
  BY DEF ParseField
<1>2. /\ sender \in Senders /\ original \in Seq(Bytes) /\ wire \in Seq(Bytes) /\ rest \in Seq(Bytes)
      /\ Gathering(n, fields, todo) /\ Arrived(n, original, wire, fields, todo, rest)
  BY <1>1 DEF CodecInv
<1>3. /\ r.st = "panic" => n = "JoinGame"
      /\ r.st = "error" /\ ~f.lax => wire # original \/ n = "JoinGame"
      /\ r.st = "ok" \/ (r.st = "error" /\ f.lax) =>
            /\ Arrived(n, original, wire, more, Following(todo, r.v), Drop(rest, r.size))
            /\ Gathering(n, more, Following(todo, r.v)) /\ Drop(rest, r.size) \in Seq(Bytes)
  <2> HIDE DEF n
  <2>1. QED BY <1>1, <1>2, ReadArrived
<1> HIDE DEF f, r, more
<1>4. CASE /\ r.st = "ok" \/ (r.st = "error" /\ f.lax)
           /\ fields' = more /\ todo' = Following(todo, r.v) /\ rest' = Drop(rest, r.size) /\ at' = at
  <2>1. /\ Arrived(sender'.name, original', wire', fields', todo', rest')
        /\ Gathering(sender'.name, fields', todo') /\ rest' \in Seq(Bytes)
    BY <1>1, <1>3, <1>4
  <2>2. at' = "read"
    BY <1>1, <1>4
  <2>3. QED BY <1>1, <1>2, <2>1, <2>2 DEF CodecInv
<1>5. CASE /\ r.st = "panic" \/ (r.st = "error" /\ ~f.lax)
           /\ at' = r.st /\ rest' = rest
  <2>1. /\ at' \in {"panic", "error"} /\ (at' = "panic" => n = "JoinGame")
        /\ (at' = "error" => wire # original \/ n = "JoinGame")
    BY <1>3, <1>5
  <2>2. QED BY <1>1, <1>2, <1>5, <2>1 DEF CodecInv
<1>6. QED BY <1>1, <1>4, <1>5

LEMMA PassFieldsInv == CodecInv /\ PassFields => CodecInv'
<1> SUFFICES ASSUME CodecInv, PassFields PROVE CodecInv'
  OBVIOUS
<1>1. /\ at = "read" /\ todo = <<>> /\ forwarded' = Serialize(fields) /\ at' = "written"
      /\ sender' = sender /\ todo' = todo /\ original' = original /\ wire' = wire /\ rest' = rest
      /\ fields' = fields
  BY DEF PassFields
<1>2. QED BY <1>1 DEF CodecInv

LEMMA NextProxyInv == CodecInv /\ NextProxy => CodecInv'
<1> SUFFICES ASSUME CodecInv, NextProxy PROVE CodecInv'
  OBVIOUS
<1>1. at = "written" /\ original' = forwarded /\ Reading(forwarded)
  BY DEF NextProxy
<1>2. Gathering(sender.name, fields, <<>>) /\ forwarded = Serialize(fields)
  BY <1>1 DEF CodecInv
<1>3. forwarded \in Seq(Bytes)
      /\ Arrived(sender.name, forwarded, forwarded, <<>>, Layout(sender.name), forwarded)
  BY <1>2, WrittenArrives
<1>4. original' \in Seq(Bytes) /\ Arrived(sender.name, original', forwarded, <<>>, Layout(sender.name), forwarded)
  BY <1>1, <1>3
<1>5. QED BY <1>1, <1>3, <1>4, ReadingInv

LEMMA CodecNextInv == CodecInv /\ [CodecNext]_codecVars => CodecInv'
<1> SUFFICES ASSUME CodecInv, [CodecNext]_codecVars PROVE CodecInv'
  OBVIOUS
<1>1. CASE UNCHANGED codecVars
  BY <1>1 DEF CodecInv, codecVars
<1>2. QED
  BY <1>1, SendFieldInv, DeliverInv, ParseFieldInv, PassFieldsInv, NextProxyInv DEF CodecNext

LEMMA CodecInvariant == CodecSpec => []CodecInv
BY CodecInitInv, CodecNextInv, PTL DEF CodecSpec

LEMMA InvRoundTrip == CodecInv => RoundTrip
<1> SUFFICES ASSUME CodecInv, sender.name # "JoinGame" PROVE at # "panic" /\ PassedIntact
  BY DEF RoundTrip
<1>1. at # "panic" /\ (at = "error" => wire # original)
  BY DEF CodecInv
<1>2. ASSUME wire = original, at = "written" PROVE forwarded = original
  <2>1. /\ todo = <<>> /\ forwarded = Serialize(fields) /\ rest \in Seq(Bytes)
        /\ Arrived(sender.name, original, original, fields, <<>>, rest) /\ original \in Seq(Bytes)
    BY <1>2 DEF CodecInv
  <2>2. ~Altered(sender.name, original, original)
    BY DEF Altered
  <2>3. PICK cut \in Seq(Bytes) :
           /\ original \o cut = original
           /\ InStep(sender.name, original, fields, <<>>, rest, cut)
                 \/ (cut # <<>> /\ Lost(sender.name, fields, <<>>, rest))
    BY <2>1, <2>2 DEF Arrived
  <2>4. cut = <<>>
    BY <2>1, <2>3, ConcatEqualIffEmpty
  <2>5. InStep(sender.name, original, fields, <<>>, rest, cut)
    BY <2>3, <2>4
  <2>6. Serialize(fields) = original
    BY <2>1, <2>5, InStepEnd
  <2>7. QED BY <2>1, <2>6
<1>3. QED BY <1>1, <1>2 DEF PassedIntact

LEMMA InvCutNoticed == CodecInv => CutNoticed
<1> SUFFICES ASSUME CodecInv, at = "written", Len(wire) < Len(original)
             PROVE  MayMiss(fields[Len(fields)].field)
  BY DEF CutNoticed
<1>1. /\ todo = <<>> /\ rest \in Seq(Bytes) /\ original \in Seq(Bytes) /\ wire \in Seq(Bytes)
      /\ Arrived(sender.name, original, wire, fields, <<>>, rest)
  BY DEF CodecInv
<1>2. Len(wire) # Len(original)
  BY <1>1
<1>3. ~Altered(sender.name, original, wire)
  BY <1>2 DEF Altered
<1>4. PICK cut \in Seq(Bytes) :
         /\ wire \o cut = original
         /\ InStep(sender.name, original, fields, <<>>, rest, cut)
               \/ (cut # <<>> /\ Lost(sender.name, fields, <<>>, rest))
  BY <1>1, <1>3 DEF Arrived
<1>5. cut # <<>>
  <2>1. wire \o <<>> = wire
    BY <1>1, NothingBehind
  <2>2. QED BY <1>2, <1>4, <2>1
<1>6. Lost(sender.name, fields, <<>>, rest)
  BY <1>1, <1>4, <1>5, InStepEnd
<1>7. QED BY <1>6 DEF Lost, MayMiss, Tails

\* Reading and writing of every packet type agree with each other and with both sides of the
\* proxy: a packet that arrives as it was sent is accepted and passed on as it came.
THEOREM RoundTripHolds == CodecSpec => []RoundTrip
BY CodecInvariant, InvRoundTrip, PTL

\* A packet of which the end is missing is refused, unless what is missing is an unread tail or
\* in the last player that is added.
THEOREM CutAlwaysNoticed == CodecSpec => []CutNoticed
BY CodecInvariant, InvCutNoticed, PTL
=============================================================================
