------------------------------- MODULE Relay --------------------------------
(***************************************************************************)
(* What an upstream server sends, from connectUpstream's dialogue to the   *)
(* client: the upstream's bytes, the two readers connectUpstream uses one  *)
(* after the other, read_packets, the main goroutine's handlePacket, the   *)
(* writer, and the buffers all handlers share in BufferPool.               *)
(*                                                                         *)
(* The upstream does not wait for the proxy: it writes LoginCompression,   *)
(* LoginSuccess and PLAY packets one after another, the latter two with    *)
(* compression, and the network hands them over in pieces of any size.     *)
(* Filters pass every packet on; serialising a parsed packet gives what    *)
(* was parsed.                                                             *)
(***************************************************************************)
EXTENDS Framing, SequencesExt

CONSTANTS
    CompressThreshold,
    Thresholds,     \* thresholds an upstream may be configured with
    Packets,        \* serialised packets, with their ids
    Parsed,         \* ids for which packetsParsed is set
    Buffers,        \* buffers of BufferPool
    MaxSent,        \* bound: PLAY packets
    None

LoginKick == VarInt(0)
LoginSuccess == VarInt(2)
LoginCompression(thr) == VarInt(3) \o VarInt(thr)
Dialogue == {LoginKick, LoginSuccess} \cup {LoginCompression(t) : t \in Thresholds}

\* A serialised packet: its id first, and so short that its length is an int32, also with
\* the header that compression adds.
Serialised(p) ==
    /\ p \in Seq(Bytes)
    /\ ReadVarInt(p).st = "ok" /\ ReadVarInt(p).n <= MaxPacketID
    /\ ~Negative(Len(p) + Digits + 2)

\* ReadPacket refuses the packet, which was written with threshold thr, for its length.
TooBig(thr, p) == ReadVarInt(WritePacket(thr, p)).n > MaxPacketSize

\* Nothing is assumed about the length of a PLAY packet that MaxPacketSize does not allow.
RelayAssumption ==
    /\ CompressThreshold \in 1 .. Modulus - 1 /\ Thresholds \subseteq 0 .. Modulus - 1
    /\ \A p \in Packets \cup Dialogue : Serialised(p)
    /\ ~TooBig(CompressThreshold, LoginSuccess)
    /\ \A p \in Dialogue \ {LoginSuccess} : ~TooBig(0, p)
    /\ MaxSent \in Nat /\ None \notin [raw : {FALSE}, data : Packets] \cup [raw : {TRUE}, buffer : Buffers]

ASSUME WireAssumption == FramingAssumption /\ RelayAssumption

VARIABLES
    upstream,   \* the upstream: its threshold and what it sends next
    sent,       \* history: its PLAY packets
    net,        \* bytes sent that have not arrived
    sock,       \* bytes that have arrived and have not been read
    rd,         \* the goroutine that reads: its place, its reader, the packet it offers
    heap,       \* what the buffers contain
    free,       \* the buffers in the pool
    cur,        \* the packet the main goroutine handles
    out,        \* bytes the client has not read
    got         \* history: packets the client has read; <<>> if it could not

vars == <<upstream, sent, net, sock, rd, heap, free, cur, out, got>>

\* The reader of connectUpstream before it knows about compression.
NewReader == [pc |-> "compression", thr |-> 0, buffered |-> FALSE, ahead |-> <<>>, packet |-> None]

Init ==
    /\ upstream \in [thr : Thresholds, next : {"compression"}]
    /\ sent = <<>> /\ net = <<>> /\ sock = <<>>
    /\ rd = NewReader
    /\ heap = [b \in Buffers |-> <<>>]
    /\ free = Buffers
    /\ cur = None
    /\ out = <<>> /\ got = <<>>

-----------------------------------------------------------------------------
(* The upstream server and the network (external).                         *)

UpstreamSends(bytes, next) ==
    /\ net' = net \o bytes
    /\ upstream' = [upstream EXCEPT !.next = next]
    /\ UNCHANGED <<sock, rd, heap, free, cur, out, got>>

UpstreamLogin ==
    \/ /\ upstream.next = "compression"
       /\ UpstreamSends(WritePacket(0, LoginCompression(upstream.thr)), "success")
       /\ UNCHANGED sent
    \/ /\ upstream.next = "compression"
       /\ UpstreamSends(WritePacket(0, LoginKick), "end")
       /\ UNCHANGED sent
    \/ /\ upstream.next = "success"
       /\ UpstreamSends(WritePacket(upstream.thr, LoginSuccess), "play")
       /\ UNCHANGED sent

UpstreamPlays(p) ==
    /\ upstream.next = "play" /\ Len(sent) < MaxSent
    /\ UpstreamSends(WritePacket(upstream.thr, p), "play")
    /\ sent' = Append(sent, p)

Arrive(n) ==
    /\ n \in 1 .. Len(net)
    /\ sock' = sock \o SubSeq(net, 1, n)
    /\ net' = Drop(net, n)
    /\ UNCHANGED <<upstream, sent, rd, heap, free, cur, out, got>>

-----------------------------------------------------------------------------
(* connectUpstream and read_packets.                                       *)

\* A bufio.Reader whose buffer has run dry takes whatever the socket has.
Fill ==
    /\ rd.buffered /\ rd.packet = None
    /\ sock # <<>> /\ ReadPacket(rd.thr, rd.ahead).st = "short"
    /\ rd' = [rd EXCEPT !.ahead = @ \o sock]
    /\ sock' = <<>>
    /\ UNCHANGED <<upstream, sent, net, heap, free, cur, out, got>>

\* The bytes the reader can get at, and a reader and socket without the first n.
Input == IF rd.buffered THEN rd.ahead ELSE sock
Consume(n, r) ==
    IF rd.buffered THEN rd' = [r EXCEPT !.ahead = Drop(rd.ahead, n)] /\ UNCHANGED sock
    ELSE rd' = r /\ sock' = Drop(sock, n)

\* The first packet of the upstream: another threshold than ours, or a kick, is an
\* error; otherwise a buffered reader with compression takes over the socket.
Connected(data) ==
    IF data # LoginCompression(CompressThreshold)
    THEN rd' = [rd EXCEPT !.pc = "failed"] /\ UNCHANGED sock
    ELSE Consume(ReadPacket(rd.thr, Input).size,
                 [rd EXCEPT !.pc = "success", !.thr = CompressThreshold, !.buffered = TRUE])

ReadCompression ==
    LET p == ReadPacket(rd.thr, Input)
    IN  /\ rd.pc = "compression" /\ p.st = "ok"
        /\ Connected(p.data)
        /\ UNCHANGED <<upstream, sent, net, heap, free, cur, out, got>>

ReadSuccess ==
    LET p == ReadPacket(rd.thr, Input)
    IN  /\ rd.pc = "success" /\ p.st = "ok"
        /\ Consume(p.size, [rd EXCEPT !.pc = IF p.data = LoginSuccess THEN "play" ELSE "broken"])
        /\ UNCHANGED <<upstream, sent, net, heap, free, cur, out, got>>

\* Mutant of Offer: the payload of a raw packet is put back too.
OfferEarly(p, b) ==
    /\ heap' = [heap EXCEPT ![b] = p.payload]
    /\ free' = free
    /\ Consume(p.size, [rd EXCEPT !.packet =
                  IF p.id \in Parsed THEN [raw |-> FALSE, data |-> p.data]
                  ELSE [raw |-> TRUE, buffer |-> b]])

\* A parsed packet does not need the buffer any more, a raw one is the buffer.
Offer(p, b) ==
    /\ heap' = [heap EXCEPT ![b] = p.payload]
    /\ free' = IF p.id \in Parsed THEN free ELSE free \ {b}
    /\ Consume(p.size, [rd EXCEPT !.packet =
                  IF p.id \in Parsed THEN [raw |-> FALSE, data |-> p.data]
                  ELSE [raw |-> TRUE, buffer |-> b]])

\* read_packets reads into any buffer of the pool and offers the packet.
ReadPlay(b) ==
    LET p == ReadPacket(rd.thr, Input)
    IN  /\ rd.pc = "play" /\ rd.packet = None /\ p.st = "ok"
        /\ b \in free
        /\ Offer(p, b)
        /\ UNCHANGED <<upstream, sent, net, cur, out, got>>

ReadFails ==
    /\ rd.pc \in {"compression", "success", "play"} /\ rd.packet = None
    /\ ReadPacket(rd.thr, Input).st = "bad"
    /\ rd' = [rd EXCEPT !.pc = "broken"]
    /\ UNCHANGED <<upstream, sent, net, sock, heap, free, cur, out, got>>

-----------------------------------------------------------------------------
(* The main goroutine.                                                     *)

\* The unbuffered channel: the main goroutine takes what is offered.
Receive ==
    /\ cur = None /\ rd.packet # None
    /\ cur' = rd.packet
    /\ rd' = [rd EXCEPT !.packet = None]
    /\ UNCHANGED <<upstream, sent, net, sock, heap, free, out, got>>

Written == IF cur.raw THEN WriteRaw(heap[cur.buffer]) ELSE WritePacket(CompressThreshold, cur.data)

\* handlePacket: write, flush (the channel's length is 0), put a raw payload back.
HandlePacket ==
    /\ cur # None
    /\ out' = out \o Written
    /\ free' = IF cur.raw THEN free \cup {cur.buffer} ELSE free
    /\ cur' = None
    /\ UNCHANGED <<upstream, sent, net, sock, rd, heap, got>>

\* Another handler gets a buffer of the pool, fills it and puts it back.
OtherHandler(b) ==
    /\ b \in free /\ heap[b] # <<>>
    /\ heap' = [heap EXCEPT ![b] = <<>>]
    /\ UNCHANGED <<upstream, sent, net, sock, rd, free, cur, out, got>>

\* The client (external) has the threshold that the proxy told it.
ClientReads ==
    LET p == ReadPacket(CompressThreshold, out)
    IN  /\ p.st # "short"
        /\ out' = IF p.st = "ok" THEN Drop(out, p.size) ELSE <<>>
        /\ got' = Append(got, IF p.st = "ok" THEN p.data ELSE <<>>)
        /\ UNCHANGED <<upstream, sent, net, sock, rd, heap, free, cur>>

Read == Fill \/ ReadCompression \/ ReadSuccess \/ (\E b \in Buffers : ReadPlay(b)) \/ ReadFails

Next ==
    \/ UpstreamLogin \/ (\E p \in Packets : UpstreamPlays(p)) \/ (\E n \in 1 .. Len(net) : Arrive(n))
    \/ Read \/ Receive \/ HandlePacket \/ ClientReads
    \/ \E b \in Buffers : OtherHandler(b)

Spec == Init /\ [][Next]_vars

-----------------------------------------------------------------------------
\* The client reads the upstream's packets in order, none twice, none with another's
\* bytes in it.
Intact == IsPrefix(got, sent)

\* The header that compression adds is understood at both ends: of an upstream that
\* connectUpstream accepted, only a packet over MaxPacketSize is refused.
FramingAgrees ==
    rd.pc = "broken" =>
        \E i \in 1 .. Len(sent) : TooBig(CompressThreshold, sent[i])

\* Nothing stays behind in a reader, a writer or the channel: once no goroutine has
\* anything left to do, the client has every packet of an upstream that was accepted.
Delivered ==
    /\ rd.pc \in {"success", "play"} /\ rd.packet = None /\ cur = None
    /\ net = <<>> /\ sock = <<>>
    /\ ReadPacket(rd.thr, rd.ahead).st = "short" /\ ReadPacket(CompressThreshold, out).st = "short"
    => got = sent

\* However the network cut the stream, whichever reader had read ahead, and whatever other
\* handlers did with the pool, exactly the upstream's packets reach the client.
EndToEnd == Intact /\ FramingAgrees /\ Delivered
=============================================================================
