------------------------------ MODULE Dispatch ------------------------------
(***************************************************************************)
(* Packet filters: RegisterPacketFilter, the table of filters with the bit *)
(* array that says which packets are parsed, and the way of a packet       *)
(* through read_packets and handlePacket.                                  *)
(*                                                                         *)
(* Filters are registered before Serve; afterwards the tables are only     *)
(* read, the bit array by the goroutines that read packets and the filters *)
(* by the main goroutine.                                                  *)
(***************************************************************************)
EXTENDS Integers, Sequences

CONSTANTS
    MaxPacketID,    \* 256, written as such where the tables are indexed
    Word,           \* bits of a word of the bit array (64)
    Ids,            \* ids of packets that arrive
    Implemented,    \* the packets newPlayPacket knows: <<direction, id>>
    Filters,        \* callbacks
    MaxRegistered,  \* bound: calls of RegisterPacketFilter
    NoPacket        \* no packet is on its way

ServerBound == 1
ClientBound == 2
Direction == {ServerBound, ClientBound}

ASSUME DispatchAssumption ==
    /\ MaxPacketID \in Nat \ {0} /\ Word \in Nat \ {0} /\ (2 * MaxPacketID) % Word = 0
    /\ Ids \subseteq 0 .. MaxPacketID           \* what ReadPacket accepts
    /\ Implemented \subseteq Direction \X (0 .. MaxPacketID - 1)
    /\ MaxRegistered \in Nat

VARIABLES
    packetsParsed,  \* the bit array: word -> the set of its bits that are 1
    packetFilters,  \* slot -> callbacks
    registered,     \* history: the calls of RegisterPacketFilter
    serving,
    packet          \* the packet on its way; ran and rets, the filters called and what they
                    \* returned, are history

vars == <<packetsParsed, packetFilters, registered, serving, packet>>

Slots == 0 .. 2 * MaxPacketID - 1

Init ==
    /\ packetsParsed = [w \in 0 .. ((2 * MaxPacketID) \div Word) - 1 |-> {}]
    /\ packetFilters = [i \in Slots |-> <<>>]
    /\ registered = <<>>
    /\ serving = FALSE
    /\ packet = NoPacket

-----------------------------------------------------------------------------
(* Bitarray.                                                               *)

Xor(a, b) == (a \ b) \cup (b \ a)

Get(i) == (i % Word) \in packetsParsed[i \div Word]

\* Mutant of Set: the bit is flipped.
SetFlip(i, v) ==
    [packetsParsed EXCEPT ![i \div Word] = Xor(@, IF v THEN {i % Word} ELSE {})]

\* b[i/64] ^= (-v ^ b[i/64]) & (1 << i%64)
Set(i, v) ==
    [packetsParsed EXCEPT ![i \div Word] =
        Xor(@, Xor(IF v THEN 0 .. Word - 1 ELSE {}, @) \cap {i % Word})]

-----------------------------------------------------------------------------
\* Where read_packets and dispatchPacket look a packet up.
Slot(dir, id) == (dir - 1) * MaxPacketID + id

RegisterPacketFilter(dir, id, f) ==
    LET i == IF dir = ServerBound THEN id ELSE id + MaxPacketID
    IN  /\ ~serving /\ Len(registered) < MaxRegistered
        /\ packetFilters' = [packetFilters EXCEPT ![i] = Append(@, f)]
        /\ packetsParsed' = Set(i, TRUE)
        /\ registered' = Append(registered, [dir |-> dir, id |-> id, filter |-> f])
        /\ UNCHANGED <<serving, packet>>

Serve ==
    /\ ~serving
    /\ serving' = TRUE
    /\ UNCHANGED <<packetsParsed, packetFilters, registered, packet>>

ReadPacket(dir, id) ==
    /\ serving
    /\ packet = NoPacket
    /\ packet' = [dir |-> dir, id |-> id, at |-> "read", parsed |-> FALSE, ran |-> <<>>,
                  rets |-> <<>>]
    /\ UNCHANGED <<packetsParsed, packetFilters, registered, serving>>

\* read_packets: a packet that is not to be parsed is passed on as it is; a slot
\* outside the tables is a run-time panic.
Parse ==
    LET i == Slot(packet.dir, packet.id)
        parse == Get(i)
    IN  /\ packet # NoPacket /\ packet.at = "read"
        /\ packet' =
             IF i \notin Slots THEN [packet EXCEPT !.at = "panic"]
             ELSE IF ~parse THEN [packet EXCEPT !.at = "written"]
             ELSE IF <<packet.dir, packet.id>> \notin Implemented THEN [packet EXCEPT !.at = "error"]
             ELSE [packet EXCEPT !.at = "dispatch", !.parsed = TRUE]
        /\ UNCHANGED <<packetsParsed, packetFilters, registered, serving>>

\* dispatchPacket calls the next filter; any error ends the loop.
Filter(ret) ==
    LET bucket == packetFilters[Slot(packet.dir, packet.id)]
        k == Len(packet.ran) + 1
    IN  /\ packet # NoPacket /\ packet.at = "dispatch"
        /\ k <= Len(bucket)
        /\ packet' = [packet EXCEPT !.ran = Append(@, bucket[k]), !.rets = Append(@, ret),
                                    !.at = CASE ret = "nil" -> @
                                             [] ret = "drop" -> "dropped"
                                             [] OTHER -> "error"]
        /\ UNCHANGED <<packetsParsed, packetFilters, registered, serving>>

\* handlePacket passes the packet to the other side.
PassOn ==
    /\ packet # NoPacket /\ packet.at = "dispatch"
    /\ Len(packet.ran) = Len(packetFilters[Slot(packet.dir, packet.id)])
    /\ packet' = [packet EXCEPT !.at = "written"]
    /\ UNCHANGED <<packetsParsed, packetFilters, registered, serving>>

Done ==
    /\ packet # NoPacket /\ packet.at \in {"written", "dropped"}
    /\ packet' = NoPacket
    /\ UNCHANGED <<packetsParsed, packetFilters, registered, serving>>

Next ==
    \/ \E pair \in Implemented \cup (Direction \X {MaxPacketID - 1}), f \in Filters :
          RegisterPacketFilter(pair[1], pair[2], f)
    \/ Serve
    \/ \E dir \in Direction, id \in Ids : ReadPacket(dir, id)
    \/ Parse \/ (\E ret \in {"nil", "drop", "error"} : Filter(ret)) \/ PassOn \/ Done

Spec == Init /\ [][Next]_vars

-----------------------------------------------------------------------------
\* The calls that registered a filter for a packet.
Calls(dir, id) == {k \in DOMAIN registered : registered[k].dir = dir /\ registered[k].id = id}

\* The filters are those of the calls, each once and in the order of registration.
InOrder(filters, calls) ==
    \E place \in [1 .. Len(filters) -> calls] :
        /\ \A i, j \in 1 .. Len(filters) : i < j => place[i] < place[j]
        /\ \A k \in calls : \E i \in 1 .. Len(filters) : place[i] = k
        /\ \A i \in 1 .. Len(filters) : filters[i] = registered[place[i]].filter

\* Exactly the packets somebody filters are parsed, however often and in whatever
\* order filters are registered for them and for their neighbours in the bit array.
ParsedIffFiltered ==
    \A dir \in Direction, id \in 0 .. MaxPacketID - 1 :
        Get(Slot(dir, id)) <=> Calls(dir, id) # {}

\* A packet passes filters of its own type only, in the order of registration, up
\* to the first that objects; it is passed on only if it has passed them all.
PassesFilters ==
    packet # NoPacket /\ packet.at # "panic" =>
        LET calls == Calls(packet.dir, packet.id)
        IN  /\ \E n \in 0 .. Len(registered) : InOrder(packet.ran, {k \in calls : k <= n})
            /\ \A k \in 1 .. Len(packet.rets) - 1 : packet.rets[k] = "nil"
            /\ packet.at = "written" => /\ InOrder(packet.ran, calls)
                                        /\ \A k \in DOMAIN packet.rets : packet.rets[k] = "nil"

\* What filters register for is what they see: the bit array and the table of callbacks,
\* which are kept apart and read by different goroutines, agree on every packet.
Filtered == ParsedIffFiltered /\ PassesFilters

\* The tables have one half for each direction: no packet that ReadPacket accepts
\* is looked up in the other direction's half, or outside both.
OwnHalf ==
    packet # NoPacket =>
        Slot(packet.dir, packet.id) \in
            (packet.dir - 1) * MaxPacketID .. packet.dir * MaxPacketID - 1
=============================================================================
