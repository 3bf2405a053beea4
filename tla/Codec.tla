-------------------------------- MODULE Codec -------------------------------
(***************************************************************************)
(* The fields of packets (packets/ioutils.go and the packet types): what   *)
(* the peer sends is read into a packet by read_packets, shown to filters  *)
(* that leave it as it is, and written to the other side.                  *)
(*                                                                         *)
(* A packet type is a list of fields.  All length limits are one limit     *)
(* MaxLen, the limits on counts one limit MaxCount; NBT is a block that    *)
(* its library reads and writes back unchanged.                            *)
(***************************************************************************)
EXTENDS VarInts, SequencesExt

CONSTANTS
    MaxLen,     \* max_length of strings and byte arrays
    MaxCount,   \* limit on the number of list items
    Senders     \* the peers; each sends packets of one type, with values and faults of its own:
                \* name, the packet type; lens, lengths of strings; numbers, VarInts; fills,
                \* bytes that fields of fixed width are filled with; items, bound on the items
                \* of a list; altered, what a byte may be changed to on the way

PacketTypes ==
    {"Handshake", "LoginStart", "LoginSuccess", "LoginKick", "EncryptionResponse",
     "LoginCompression", "StatusPing", "ChatMessageSB", "ClientStatus", "ClientSettings",
     "TabCompleteSB", "PluginMessageSB", "Respawn", "Kick", "JoinGame", "PluginMessageCB",
     "GameStateChange", "ChatMessageCB", "TabCompleteCB", "PlayerListItem",
     "ScoreboardObjective", "Teams"}

\* The limits are far below the greatest int32, and int16 where counts are written as such.
ASSUME CodecAssumption ==
    /\ VarIntsAssumption
    /\ MaxLen \in Nat /\ MaxLen < Modulus \div 2
    /\ MaxCount \in Nat /\ MaxCount < Modulus \div 2 /\ MaxCount < 2 * Base * Base
    /\ 5 \in Bytes /\ 5 < Modulus    \* one more than the modes that packets have
    /\ \A p \in Senders :
          /\ p.name \in PacketTypes
          /\ p.lens \subseteq 0 .. MaxLen /\ p.numbers \subseteq 0 .. Modulus - 1
          /\ p.fills \subseteq Bytes /\ p.items \in 0 .. MaxCount /\ p.altered \subseteq Bytes

-----------------------------------------------------------------------------
(* Kinds of fields.  The error of a lax field is overwritten or ignored.   *)

Field(k) == [k |-> k, lax |-> FALSE, width |-> 1, body |-> "Nothing", cases |-> <<>>]
Lax(f) == [f EXCEPT !.lax = TRUE]

Fixed(n) == [Field("fixed") EXCEPT !.width = n]     \* integers, floats, uuid.UUID
Bool == Field("bool")
Number == Field("varint")
Str == Field("string")
OptStr == Field("optional")     \* a bool and, if it is 1, a string
Blob == Field("bytes")          \* length_prefix "VarInt"
Rest == Field("rest")           \* length_prefix "eof": up to MaxLen bytes
All == Field("all")             \* ioutil.ReadAll
NBT == Field("nbt")

\* A number of items, each laid out as body; a negative number is an error, none, or, where
\* the code makes an array of that length, a panic.
Items(body) == [Field("items") EXCEPT !.body = body]
ItemsOrNone(body) == [Items(body) EXCEPT !.k = "items or none"]
ShortItems(body) == [Items(body) EXCEPT !.width = 2]
Identifiers == [Items("Identifier") EXCEPT !.k = "identifiers"]

\* A number f that selects what follows: cases[1] for 0 and so on, or body.
Switch(f, cases, body) == [f EXCEPT !.cases = cases, !.body = body]

-----------------------------------------------------------------------------
(* Packet types.                                                           *)

HandshakePacket == <<Number, Str, Fixed(2), Number>>
LoginStartPacket == <<Str>>
LoginSuccessPacket == <<Fixed(16), Str>>
LoginKickPacket == <<Str>>
EncryptionResponsePacket == <<Blob, Blob>>
LoginCompressionPacket == <<Number>>
StatusPingPacketSB == <<Fixed(8)>>

ChatMessagePacketSB == <<Str>>
ClientStatusPacketSB == <<Number>>
ClientSettingsPacketSB == <<Str, Fixed(1), Number, Bool, Fixed(1), Number>>
TabCompletePacketSB == <<Number, Str>>
PluginMessagePacketSB == <<Str, Rest>>

RespawnPacketCB == <<NBT, Str, Fixed(8), Fixed(1), Fixed(1), Bool, Bool, Bool>>
KickPacketCB == <<Str>>
JoinGamePacketCB == <<Fixed(4), Bool, Fixed(1), Fixed(1), Identifiers, NBT, NBT, Str, Fixed(8), Number,
                      Number, Bool, Bool, Bool, Bool>>
PluginMessagePacketCB == <<Str, All>>
GameStateChangePacketCB == <<Fixed(1), Fixed(4)>>
ChatMessagePacketCB == <<Str, Fixed(1), Fixed(16)>>
TabCompletePacketCB == <<Number, Number, Number, ItemsOrNone("Match")>>
ScoreboardObjectivePacketCB == <<Str, Str, Fixed(1)>>

\* err of the name, the properties' strings, the game mode and the ping is dropped; that of
\* the display name is a variable of its own, which nothing looks at.
AddPlayer == <<Fixed(16), Lax(Str), Items("Property"), Lax(Number), Lax(Number), Lax(OptStr)>>
Property == <<Lax(Str), Lax(Str), OptStr>>

\* ADD_PLAYER, UPDATE_GAME_MODE, UPDATE_LATENCY, UPDATE_DISPLAY_NAME, REMOVE_PLAYER
PlayerListItemPacketCB ==
    <<Switch(Lax(Number),
             <<"AddPlayers", "UpdatePlayers", "UpdatePlayers", "UpdateDisplayNames", "RemovePlayers">>,
             "RemovePlayers")>>

\* The mode: create, remove, update, add players, remove players.
TeamsPacketCB ==
    <<Lax(Str), Switch(Fixed(1), <<"CreateTeam", "Nothing", "UpdateTeam", "TeamPlayers", "TeamPlayers">>,
                       "Nothing")>>
UpdateTeam == <<Lax(Str), Lax(Str), Lax(Str), Fixed(1)>>
CreateTeam == <<Lax(Str), Lax(Str), Lax(Str), Fixed(1), ShortItems("Player")>>

\* NewPacket for PLAY, the packets that ParsePackets is given during the login, and the parts
\* of packets.
Layout(name) ==
    CASE name = "Handshake" -> HandshakePacket
      [] name = "LoginStart" -> LoginStartPacket
      [] name = "LoginSuccess" -> LoginSuccessPacket
      [] name = "LoginKick" -> LoginKickPacket
      [] name = "EncryptionResponse" -> EncryptionResponsePacket
      [] name = "LoginCompression" -> LoginCompressionPacket
      [] name = "StatusPing" -> StatusPingPacketSB
      [] name = "ChatMessageSB" -> ChatMessagePacketSB
      [] name = "ClientStatus" -> ClientStatusPacketSB
      [] name = "ClientSettings" -> ClientSettingsPacketSB
      [] name = "TabCompleteSB" -> TabCompletePacketSB
      [] name = "PluginMessageSB" -> PluginMessagePacketSB
      [] name = "Respawn" -> RespawnPacketCB
      [] name = "Kick" -> KickPacketCB
      [] name = "JoinGame" -> JoinGamePacketCB
      [] name = "Identifier" -> <<Str>>
      [] name = "PluginMessageCB" -> PluginMessagePacketCB
      [] name = "GameStateChange" -> GameStateChangePacketCB
      [] name = "ChatMessageCB" -> ChatMessagePacketCB
      [] name = "TabCompleteCB" -> TabCompletePacketCB
      [] name = "Match" -> <<Str, OptStr>>
      [] name = "PlayerListItem" -> PlayerListItemPacketCB
      [] name = "AddPlayers" -> <<Items("AddPlayer")>>
      [] name = "AddPlayer" -> AddPlayer
      [] name = "Property" -> Property
      [] name = "UpdatePlayers" -> <<Items("UpdatePlayer")>>
      [] name = "UpdatePlayer" -> <<Fixed(16), Number>>
      [] name = "UpdateDisplayNames" -> <<Items("UpdateDisplayName")>>
      [] name = "UpdateDisplayName" -> <<Fixed(16), OptStr>>
      [] name = "RemovePlayers" -> <<Items("RemovePlayer")>>
      [] name = "RemovePlayer" -> <<Fixed(16)>>
      [] name = "ScoreboardObjective" -> ScoreboardObjectivePacketCB
      [] name = "Teams" -> TeamsPacketCB
      [] name = "CreateTeam" -> CreateTeam
      [] name = "UpdateTeam" -> UpdateTeam
      [] name = "TeamPlayers" -> <<ShortItems("Player")>>
      [] name = "Player" -> <<Str>>
      [] name = "Nothing" -> <<>>

CountKinds == {"items", "items or none", "identifiers"}

\* The fields of n items.
Repeated(item, n) == [i \in 1 .. n * Len(item) |-> item[((i - 1) % Len(item)) + 1]]

\* The fields that field f brings with it when its number is n.
After(f, n) ==
    CASE f.k \in CountKinds -> Repeated(Layout(f.body), n)
      [] f.cases # <<>> -> Layout(IF n + 1 \in DOMAIN f.cases THEN f.cases[n + 1] ELSE f.body)
      [] OTHER -> <<>>

\* What is to follow when the first field of fs has the value v.
Following(fs, v) == (IF v = <<>> THEN <<>> ELSE After(Head(fs), Head(v))) \o Tail(fs)

-----------------------------------------------------------------------------
(* Reading.  v is the value, size what has been taken from the input, also *)
(* by a read that fails.                                                   *)

Ok(v, size) == [st |-> "ok", v |-> v, size |-> size]
Fail(size) == [st |-> "error", v |-> <<>>, size |-> size]

\* Mutant of ReadFull: Read instead, which may return less.
ReadSome(s, n) ==
    IF Len(s) >= n THEN Ok(SubSeq(s, 1, n), n)
    ELSE IF s = <<>> THEN Fail(0)
    ELSE Ok(s \o [i \in 1 .. n - Len(s) |-> 0], Len(s))

ReadFull(s, n) == IF Len(s) >= n THEN Ok(SubSeq(s, 1, n), n) ELSE Fail(Len(s))

\* What is read when n bytes have been taken already.
Further(r, n) == [r EXCEPT !.size = @ + n]

\* ReadUvarint returns what it has got, also when the input ends too early.
ReadNumber(s) ==
    LET r == ReadVarInt(s)
        n == Min({Len(s), 2 * Digits})
    IN  IF r.st = "ok" THEN Ok(<<r.n>>, r.size)
        ELSE [Fail(n) EXCEPT !.v = <<Gathered(s)[n] % Modulus>>]

\* Mutant of StringOf: a string of the greatest length is refused.
StringOfBelow(l, s) ==
    IF l.st # "ok" THEN Fail(l.size)
    ELSE IF l.v[1] >= MaxLen THEN Fail(l.size)
    ELSE Further(ReadFull(Drop(s, l.size), l.v[1]), l.size)

\* The string of length l; a negative length is more than MaxLen, too.
StringOf(l, s) ==
    IF l.st # "ok" THEN Fail(l.size)
    ELSE IF l.v[1] > MaxLen THEN Fail(l.size)
    ELSE Further(ReadFull(Drop(s, l.size), l.v[1]), l.size)

ReadMinecraftString(s) == StringOf(ReadNumber(s), s)

\* has_tooltip, isSigned, hasDisplayName; any byte but 1 is false
ReadOptional(s) ==
    IF s = <<>> THEN Fail(0)
    ELSE IF Head(s) # 1 THEN Ok(<<>>, 1)
    ELSE Further(ReadMinecraftString(Drop(s, 1)), 1)

\* The number of items, a VarInt or an int16.
CountOf(f, n, negative, size) ==
    CASE negative /\ f.k = "items or none" -> Ok(<<0>>, size)
      [] negative /\ f.k = "identifiers" -> [Fail(size) EXCEPT !.st = "panic"]
      [] negative /\ f.k = "items" -> Fail(size)
      [] ~negative -> IF n > MaxCount /\ f.k # "identifiers" THEN Fail(size) ELSE Ok(<<n>>, size)

ReadCount(f, s) ==
    LET c == IF f.width = 1 THEN ReadNumber(s) ELSE ReadFull(s, 2)
        wide == c.v[1] * 2 * Base + c.v[2]
    IN  IF c.st # "ok" THEN Fail(c.size)
        ELSE IF f.width = 1 THEN CountOf(f, c.v[1], Negative(c.v[1]), c.size)
        ELSE CountOf(f, wide, wide >= 2 * Base * Base, c.size)

\* One field: ReadMinecraftStruct's cases, and the reads of the other Parse methods.
ReadField(f, s) ==
    CASE f.k = "fixed" -> ReadFull(s, f.width)
      [] f.k = "bool" -> LET r == ReadFull(s, 1) IN [r EXCEPT !.v = IF @ = <<1>> THEN @ ELSE <<0>>]
      [] f.k = "varint" -> ReadNumber(s)
      [] f.k \in {"string", "bytes", "nbt"} -> ReadMinecraftString(s)
      [] f.k = "optional" -> ReadOptional(s)
      [] f.k = "rest" -> LET n == Min({Len(s), MaxLen}) IN Ok(SubSeq(s, 1, n), n)
      [] f.k = "all" -> Ok(s, Len(s))
      [] f.k \in CountKinds -> ReadCount(f, s)

-----------------------------------------------------------------------------
(* Writing.                                                                *)

WriteMinecraftString(v) == VarInt(Len(v)) \o v

\* ReadIdentifierArray appends the names it reads to as many empty ones.
WriteIdentifierArray(n) == VarInt(2 * n) \o [i \in 1 .. n |-> 0]

WriteOptional(v) == IF v = <<>> THEN <<0>> ELSE <<1>> \o WriteMinecraftString(v)

WriteField(f, v) ==
    CASE f.k \in {"fixed", "bool", "rest", "all"} -> v
      [] f.k = "varint" -> VarInt(v[1])
      [] f.k \in {"string", "bytes", "nbt"} -> WriteMinecraftString(v)
      [] f.k = "optional" -> WriteOptional(v)
      [] f.k = "identifiers" -> WriteIdentifierArray(v[1])
      [] f.k \in CountKinds \ {"identifiers"} ->
           IF f.width = 1 THEN VarInt(v[1]) ELSE <<v[1] \div (2 * Base), v[1] % (2 * Base)>>

Serialize(packet) ==
    FlattenSeq([i \in DOMAIN packet |-> WriteField(packet[i].field, packet[i].v)])

-----------------------------------------------------------------------------
VARIABLES
    at,         \* "send", "read", "written", "error" or "panic"
    sender,     \* the peer that sends
    todo,       \* fields yet to be written by the sender, then yet to be read
    original,   \* what the sender wrote
    wire,       \* what arrived
    rest,       \* what of it has not been read
    fields,     \* the packet as far as it has been read
    forwarded   \* what was written to the other side

codecVars == <<at, sender, todo, original, wire, rest, fields, forwarded>>

CodecInit ==
    /\ at = "send" /\ sender \in Senders /\ todo = Layout(sender.name)
    /\ original = <<>> /\ wire = <<>> /\ rest = <<>> /\ fields = <<>> /\ forwarded = <<>>

Text(n) == [i \in 1 .. n |-> 1]

\* What a peer may write for field f (external).
Values(f) ==
    CASE f.cases # <<>> -> {<<n>> : n \in 0 .. Len(f.cases)}
      [] f.k = "fixed" /\ f.cases = <<>> -> {[i \in 1 .. f.width |-> b] : b \in sender.fills}
      [] f.k = "bool" -> {<<0>>, <<1>>}
      [] f.k = "varint" /\ f.cases = <<>> -> {<<n>> : n \in sender.numbers}
      [] f.k \in CountKinds -> {<<n>> : n \in 0 .. sender.items}
      [] f.k \in {"string", "bytes", "nbt", "optional", "rest", "all"} -> {Text(n) : n \in sender.lens}

\* The peer's own encoding is that of the proxy, except for arrays of identifiers (external).
Encoded(f, v) == IF f.k = "identifiers" THEN VarInt(v[1]) ELSE WriteField(f, v)

SendField ==
    /\ at = "send" /\ todo # <<>>
    /\ \E v \in Values(Head(todo)) :
          /\ original' = original \o Encoded(Head(todo), v)
          /\ todo' = Following(todo, v)
    /\ UNCHANGED <<at, sender, wire, rest, fields, forwarded>>

\* The packet that a proxy reads.
Reading(s) ==
    /\ at' = "read" /\ todo' = Layout(sender.name) /\ wire' = s /\ rest' = s
    /\ fields' = <<>> /\ forwarded' = <<>>
    /\ UNCHANGED sender

\* The packet arrives: as it was sent, cut short, or with a byte changed (external).
Deliver ==
    /\ at = "send" /\ todo = <<>>
    /\ \/ Reading(original)
       \/ \E k \in 0 .. Len(original) - 1 : Reading(SubSeq(original, 1, k))
       \/ \E i \in 1 .. Len(original), b \in sender.altered : Reading([original EXCEPT ![i] = b])
    /\ UNCHANGED original

\* read_packets: Parse takes the next field, unless the read panics or its error is looked at.
ParseField ==
    LET f == Head(todo)
        r == ReadField(f, rest)
    IN  /\ at = "read" /\ todo # <<>>
        /\ \/ /\ r.st = "ok" \/ (r.st = "error" /\ f.lax)
              /\ fields' = Append(fields, [field |-> f, v |-> r.v])
              /\ todo' = Following(todo, r.v)
              /\ rest' = Drop(rest, r.size)
              /\ UNCHANGED at
           \/ /\ r.st = "panic" \/ (r.st = "error" /\ ~f.lax)
              /\ at' = r.st
              /\ UNCHANGED <<fields, todo, rest>>
        /\ UNCHANGED <<sender, original, wire, forwarded>>

\* handlePacket, when the filters have left the packet alone.  What is left of the input is
\* not looked at.
PassFields ==
    /\ at = "read" /\ todo = <<>>
    /\ forwarded' = Serialize(fields)
    /\ at' = "written"
    /\ UNCHANGED <<sender, todo, original, wire, rest, fields>>

\* The next one to read the packet is a proxy, too.
NextProxy ==
    /\ at = "written"
    /\ original' = forwarded
    /\ Reading(forwarded)

CodecNext == SendField \/ Deliver \/ ParseField \/ PassFields \/ NextProxy

CodecSpec == CodecInit /\ [][CodecNext]_codecVars

-----------------------------------------------------------------------------
\* Whoever filters a packet type and lets the packet pass does not change it: a packet
\* within the limits is accepted, and what goes to the other side is what came.  What the
\* proxy itself has written is within the limits, whatever arrived: the next reader sees
\* the values that the filters saw.
PassedIntact ==
    wire = original => at # "error" /\ (at = "written" => forwarded = original)

\* Reading and writing agree with each other and with both sides of the proxy, and nothing
\* panics.  JoinGame does not come out as it went in.
RoundTrip == sender.name # "JoinGame" => at # "panic" /\ PassedIntact

\* The fields of a cut packet that may be missing: an unread tail, and from the game mode on
\* those of the last player added, whose errors nothing looks at.
MayMiss(f) == f.k \in {"rest", "all"} \/ (sender.name = "PlayerListItem" /\ f.lax)

\* A packet that ends too early is never passed on, although the errors of many reads
\* are dropped: one of the reads that follow them fails, too.
CutNoticed ==
    (at = "written" /\ Len(wire) < Len(original)) => MayMiss(fields[Len(fields)].field)
=============================================================================
