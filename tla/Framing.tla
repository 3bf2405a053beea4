------------------------------ MODULE Framing -------------------------------
(***************************************************************************)
(* Packets on the wire (packets/reader.go, packets/writer.go): the length  *)
(* prefix, and the header that compression adds.  zlib is an arbitrary     *)
(* pair of inverse functions that changes the length.                      *)
(***************************************************************************)
EXTENDS VarInts

CONSTANTS
    MaxPacketSize,
    MaxPacketID

FramingAssumption == VarIntsAssumption /\ MaxPacketSize \in Nat /\ MaxPacketID \in Nat

\* zlib (external): a header, the data and a checksum.
Deflate(s) == <<Base>> \o s \o <<Base>>
Inflate(z) ==
    IF Len(z) >= 2 /\ z[1] = Base /\ z[Len(z)] = Base
    THEN [st |-> "ok", data |-> SubSeq(z, 2, Len(z) - 1)] ELSE Bad

\* WritePacket of a RawPacket: its payload still has the header it came with.
WriteRaw(payload) == VarInt(Len(payload)) \o payload

\* WritePacket of any other packet, serialised with its id to s.
WritePacket(thr, s) ==
    LET body == IF Len(s) >= thr THEN VarInt(Len(s)) \o Deflate(s) ELSE VarInt(0) \o s
    IN  IF thr < 1 THEN VarInt(Len(s)) \o s ELSE VarInt(Len(body)) \o body

\* The data of a payload, without the compression header; a negative DataLength
\* is not > 0 and counts as uncompressed.
Data(thr, payload) ==
    LET d == ReadVarInt(payload)
    IN  IF thr < 1 THEN [st |-> "ok", data |-> payload]
        ELSE IF d.st # "ok" \/ (d.n > 0 /\ d.n < thr) THEN Bad
        ELSE IF d.n > 0 /\ ~Negative(d.n) THEN Inflate(Drop(payload, d.size))
        ELSE [st |-> "ok", data |-> Drop(payload, d.size)]

\* ReadPacket and Payload on a stream that has brought the bytes s so far: "short"
\* when the call is still waiting.  size is what it takes from the stream.  A
\* negative length passes the check against MaxPacketSize and no buffer has that
\* size: it fails here as one that is too big does.
ReadPacket(thr, s) ==
    LET l == ReadVarInt(s)
        payload == SubSeq(s, l.size + 1, l.size + l.n)
        d == Data(thr, payload)
        id == ReadVarInt(d.data)
    IN  IF l.st # "ok" THEN l
        ELSE IF l.n > MaxPacketSize THEN Bad
        ELSE IF Len(s) < l.size + l.n THEN Short
        ELSE IF d.st # "ok" THEN Bad
        ELSE IF id.st # "ok" \/ id.n > MaxPacketID THEN Bad
        ELSE [st |-> "ok", size |-> l.size + l.n, payload |-> payload, data |-> d.data, id |-> id.n]
=============================================================================
