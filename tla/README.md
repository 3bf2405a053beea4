# A TLA+ model of potoq

potoq is a proxy for Minecraft servers: it accepts a player's connection, logs
the player in, connects to one of several upstream servers on the player's
behalf and passes packets in both directions, through filters that may change,
drop or answer them, and it can move the player to another upstream without the
client noticing more than a change of world.  This directory holds TLA+ modules
that model the proxy's code, TLC runs that check them on small instances and
TLAPS proofs that hold for every size.

## The system

| Component | Source | State | Operations |
|---|---|---|---|
| Player manager | `playermgr.go` | `sync.Map` from lower-cased nickname to session, separate atomic counter | `Register`, `Unregister`, `GetByNickname`, `GetByUUID`, `Len`, `Range`, `Broadcast` |
| Session (`Handler` in PLAY) | `handler.go`, `commands.go` | client and upstream connection, one reader goroutine, channel and tomb per connection, command queue, idle timestamp | `connectUpstream`, `MainLoop`, `read_packets`, `handlePacket`, `ReconnectCommand`, `injectPacketCommand`, `PushCommand`, `InjectPackets` |
| Login and status | `handler.go`, `encryption.go`, `auth.go` | protocol state, nickname, UUID, cipher, compression | `Handle`, `handleStatus`, first half of `handleProxy`, `establishEncryptionAsServer`, `HasJoined` |
| Upstream list | `potoq.go` | map of names to addresses under a lock | `LoadUpstreams`, lookups |
| Filters and dispatch | `filters.go`, `utils/bitarray.go` | table of callbacks and bit array, by direction and packet id | `RegisterPacketFilter`, `dispatchPacket` |
| Player list and tab list | `filters.go`, `commands.go`, `filters/tab/tablist.go` | entries the upstream sent, 80 cells with pending changes | `savePlayerList`, `SendDimensionSwitch`, `SetCell`, `SetPing`, `SetProperties`, `Flush` |
| Stream cipher | `packets/encryption.go` | shift register in a sliding window | `XORKeyStream`, `Read`, `Write` |
| Packet framing | `packets/reader.go`, `packets/writer.go` | sticky error, compression threshold, shared buffer pool | `ReadPacket`, `Payload`, `ParsePackets`, `WritePacket`, `Flush` |
| Field and packet codecs | `packets/*.go` | none | `Parse` and `Serialize` of each packet type, `ReadMinecraftStruct`, `WriteMinecraftStruct` |
| BungeeCord filter | `filters/bungeecord` | none of its own | chat commands, plugin messages that move players, broadcast and answer |
| Permissions | `filters/permissions` | groups and users under a lock | `LoadPermissions`, `GetPlayerPermissions`, `PermSet` |
| CloudyBans | `filters/cloudybans`, `utils/cache.go` | database table, expiring cache | `GetAbuse`, ban, unban, kick, `MuteFilter`, login tracking |
| CloudyChat | `filters/cloudychat` | config, per-player chat state, limiter, cached MOTD | `ChatFilter`, private messages, ignore list, automessages, reload |
| Chat markup | `utils/chat.go` | none | `Para2Json` |
| Tab completion | `filters/tab/tabcomplete.go` | none | a filter over one packet |
| Example proxy | `example/main.go` | none | the hooks `PingHandler`, `PreLoginHandler`, `LoginHandler` |

A session is a goroutine of its own and starts a reader goroutine per
connection and a watcher.  Sessions meet in the player manager: filters, chat
commands and tickers look a session up there and queue commands for it; nothing
else of a session is touched from outside.  The hard behaviours are the
interleavings of one session's goroutines around a reconnect, the hand-over of
packets through unbuffered channels that are closed and replaced, errors half-way
through a connect, the bounded command queue, and a shared map that is walked
without a snapshot and counted separately.

What makes each part correct:

- **Player manager**: a lookup finds a session from `Register` to `Unregister`
  and nobody else, the counter does not drift from the map, and a walk that has
  no snapshot still meets everybody who stays.
- **Session**: the four upstream fields belong together whenever a packet is
  written, no reader, socket or goroutine outlives what it belongs to, packets
  keep their order across a reconnect, and the session ends when the client
  leaves, is kicked or falls silent.
- **Login**: every packet is written in the framing and cipher the client
  expects at that point; a refused client is told; the identity passed on is the
  one that was verified; nobody plays twice; whatever a login has taken it gives
  back on every way out.
- **Dispatch**: the bit array says "parse" exactly for the ids with a filter.
- **Player list and tab list**: what the proxy believes the client shows is what
  it shows.
- **Cipher, framing, codecs**: what is written is read back, at every length
  near a boundary; a packet passed on is the packet that came; a packet that is
  cut short is noticed.
- **BungeeCord filter, upstream list**: a server gets its registration and its
  answers, reported numbers are true, a server that is listed can be looked up.
- **CloudyBans**: an answer from the cache is one the database would give, or
  one that is stale for a known reason and a bounded time.
- **Permissions, chat**: a reload replaces everything or nothing, and what was
  derived from the old configuration does not outlive it.

## Modules

| Module | Models | Checked by | Proofs |
|---|---|---|---|
| `PlayerRegistry` | what the player manager promises: seats taken when empty, given up by their holder | as `ImplementsRegistry` | |
| `PlayerManager` | `playermgr.go`, the duplicate check of the example's `LoginHandler` | `MCPlayerManager` | `PlayerManagerProofs` |
| `Session` | `handler.go` from the look-up of the first upstream on, `commands.go`, the pushes of the BungeeCord filter | `MCSession`, `MCSessionEnds` | `SessionProofs` |
| `CFB8` | `packets/encryption.go` | `MCWire` | `WireProofs` |
| `TabList` | `filters/tab/tablist.go`, `savePlayerList`, `SendDimensionSwitch` | `MCTabList` | `TabListProofs` |
| `AbuseCache` | `filters/cloudybans`, `utils/cache.go` | `MCAbuseCache` | `AbuseCacheProofs` |
| `Login` | `handler.go` up to and around PLAY, `encryption.go`, `auth.go`, the example's hooks, login tracking | `MCLogin` | `LoginProofs` |
| `VarInts` | bytes and VarInts of `ioutils.go` and `encoding/binary` | in `Framing`, `Codec` | `WireProofs` |
| `Framing` | `reader.go` and `writer.go` as operators on bytes; extends `VarInts` | in `Relay` | `WireProofs` |
| `Relay` | `connectUpstream`'s readers, `read_packets`, the buffer pool, `handlePacket`, byte by byte; extends `Framing` | `MCWire` | `WireProofs` |
| `Codec` | `ioutils.go` and the packet types; extends `VarInts` | `MCPackets` | `WireProofs` |
| `Dispatch` | `filters.go`, `utils/bitarray.go`, `dispatchPacket` | `MCDispatch`, `MCPackets` | `FilterProofs` |
| `Bungee` | `filters/bungeecord` over command queues, `LoadUpstreams` | `MCFilters` | `BungeeProofs` |
| `JavaUTF` | `filters/bungeecord/javautf.go` | in `Texts` | `BungeeProofs` |
| `Permissions` | `filters/permissions` | `MCCloudyChat` | `FilterProofs` |
| `PrivateChat` | `/msg`, `/r`, `/ignore`, `/socialspy` of `filters/cloudychat` | `MCCloudyChat` | `FilterProofs` |
| `ChatConfig` | the rest of `filters/cloudychat` | `MCCloudyChat` | `FilterProofs` |
| `ChatFilters` | the state of `PrivateChat`, `ChatConfig` and `Permissions` side by side, and what is proved of it | `MCCloudyChat` | `FilterProofs` |
| `Markup` | `utils/chat.go` | in `Texts` | `BungeeProofs` |
| `Texts` | the state of `JavaUTF` and `Markup` side by side, and what is proved of it | `MCFilters` | `BungeeProofs` |

`MCWire`, `MCPackets`, `MCCloudyChat` and `MCFilters` check components that lie side by
side and share no state; `MCSessionEnds` checks one module within two sets of bounds.
Their variable `part` says which of them a behaviour is about; the other parts' variables
keep their initial values, and each part has bounds of its own: its constants, or in
`MCCloudyChat` and `MCSessionEnds` conditions on its steps. What such a run visits is the
sum of its parts and not their product. `ChatFilters` and `Texts`, which the proofs are
about, have no parts: there the steps interleave.

`PROJECT.json` maps every definition to its lines.  A definition that stands just
before one it resembles, with that one's name and a word more (`Any`, `Late`, `Nil`,
`Unflushed`, `InPlace` ...), is a faulty variant of it: a property is worth keeping if such
a variant violates it, and `PROJECT.json` says which one does.

### PlayerManager

`m` is the `sync.Map`, `count` the atomic counter, `pc` where each session is.
`Register` is two steps (`RegisterLoadOrStore`, `RegisterCount`) and so is
`Unregister`, because only the single calls are atomic.  `sync.Map.Range` visits
keys one at a time and returns the value a key has when it is visited; a key
that is there throughout is visited.  `GetByUUID` and `Broadcast` are therefore
one step per key and a last step that may only be taken when every key that is
in the map has been visited.  `rivals` and `bc.stayed` are history: who has been
registered ever since the walk began.

A line of a broadcast is a command for the session's bounded queue, put there without
waiting: `InjectPackets` drops it when the queue is full, and tells nobody.  `queue` is the
length of each queue; `Push` and `Drain` are the other goroutines that fill it and the
session's loop that empties it.  `bc.crowded` is history: whose queue has been full during
the walk.  `BroadcastReaches` promises the line to a session that stays registered and has
room throughout, not to the others.

### Session

Connections are numbered as they are dialled, 0 is the client's.  For each one
`sock` is the TCP connection, `rd` the position of its `read_packets`, `reason`
its tomb, `got` how many packets it has read.  The upstream fields of a `Handler`
change at different points of `connectUpstream`, so they are two variables: `upC`
stands for `UpstreamC` and `UpstreamW`, `up` for `UpstreamPackets` and
`UpstreamTomb`.  `pc` is the position of the session's own goroutine; every call
that may block (dialling, waiting for the upstream's login or `JoinGame`, writing,
a blocking push) is a position of its own, so that the other goroutines run
meanwhile.  A channel is unbuffered: `DownstreamPacket` and `UpstreamPacket` are
a rendezvous of the loop with a reader in `send`.  `tomb.Kill` keeps the first
non-nil reason (`Kill`), and `tomb.Done` after a nil kill leaves the reader's own
error.  Filters are a choice: a packet is passed, dropped, answered, queues a
command (blocking or not) or ends the session.

Peers may close, send anything or stay silent at any time.  The clock is two
values, as the watcher only asks whether the last turn of the loop is older than
30 s.

### CFB8

The key and the block cipher are one arbitrary function from registers to bytes,
chosen in the initial state.  The array has `Size` places (256 in the code), the
register `Block` (16).  `XORKeyStream` is one step per byte, so a reader may get
any part of what was written.  `stream` is history: the initial register followed
by all encrypted bytes.

### TabList

`shown`, `header` and `tab` are what a client makes of the packets it gets.  The
session writes a full list by copying the live cells one after the other; the
owner sets a cell's string or slice in two steps, and a copy between the two
yields `Torn`.  That race is in the code: `Flush` hands over a slice of the array
and neither side takes a lock.

### AbuseCache

The cache's lock covers a single call, so `GetAbuse` is `CacheGet`, `Select`,
`ComputeTTL`, `SetTime` and `Return`, and a command is its SQL statement followed
by an invalidation per name.  A group ban repeats this per member and stops at
the first error.  A command in `Remote` runs in another process and invalidates
nothing here.  The `missed` marks are history: an invalidation has passed by a
lookup that was between its `Select` and its `SetTime`, or was never made here.

### Login

`h` is the handlers, one per connection, each at a position `pc` of `Handle`,
`handleStatus`, `handleProxy` or `establishEncryptionAsServer`.  `r` and `w` are the
framing of `DownstreamR` and `DownstreamW`: with or without the compression header,
enciphered or not.  A packet on the wire carries the framing it was written in, so
a reader in another framing is seen to read garbage.  `c` is the clients, which keep
to the protocol but may ask for another version, send a bad name, get the token
wrong or leave.  The session server answers with one of `Answers` or fails.
`PreLoginHandler` refuses, leaves the authenticator or removes it; `LoginHandler` is
the example's, followed by `TrackPlayerLogin`, as a proxy with CloudyBans has it.
Connecting to the upstream is `Connect`, up to where the handler has written its handshake,
and `UpstreamAnswers`: an upstream may never answer, and no deadline ends the read.  What
goes on inside a connect and in PLAY is in `Relay` and `Session`.  The close hooks end the
login's row with an `UPDATE` that may fail and is then only logged: the row records that it
was asked for (`ends`, `refused`), and `Released` says that this happens exactly once, not
that the row ends.

### Framing and Relay

A VarInt has digits below `Base` (128 in the code) and zlib is a pair of inverse
functions that lengthens its input.  `ReadPacket` says of the bytes that have come
so far whether the call returns, fails or waits, so that `Relay` can cut the stream
anywhere.  `Relay` is one direction of one session: the network delivers any number
of bytes at a time, the unbuffered reader of `connectUpstream` reads the compression
packet, a buffered one takes over, `read_packets` takes a buffer from the pool for
each packet and offers it parsed or raw, and the main goroutine writes it.  A buffer
that is in the pool may be taken and overwritten by another session at any time
(`OtherHandler`); that is what makes an early `Put` visible.

### Codec

A packet type is a list of fields, a field a kind with a width, the name of a part of
the packet that is repeated, or names of parts of which its value selects one.  `lax` marks
reads whose error the code drops.  A peer sends any packet within sets of values of its own
(`SendField`), and it arrives as sent, cut short, or with a byte changed (`Deliver`); it is
parsed, a field a step (`ParseField`), passed by the filters and written (`PassFields`), and
what has been written is what the next proxy reads (`NextProxy`).  `todo` holds the fields
that are still to be written or read: a field that brings others with it puts them in front
(`Following`), so that nothing nests.  All limits on lengths are one constant, all limits on
counts another.

### Dispatch

Packet ids and words of the bit array are small, with a word that spans the border
between the halves.  The bit array is a function from word to the set of its bits,
and `Set` is the code's formula with xor as symmetric difference.  Filters are
registered before the proxy serves, as the code does it.

### Bungee and JavaUTF

A session is its command queue and where its goroutine is: in the loop, waiting for
`JoinGame`, walking the players for `/send`, between reading and swapping the server
list, or stuck in a push to its own full queue.  Commands are what they do to queues:
every reply is a chat line in a queue that may be full.  `asked` and `got` are the
current server's questions and the answers that reached it.  `JavaUTF` has the
encoder and decoder of plugin messages beside Java's own.

### Permissions

A file is a function as YAML decodes it, or `Bad`.  `LoadPermissions` is three steps
(`ReadGroups`, `ReadUsers`, `Save`), so that files change and other reloads run in
between.  A permission is a sequence of words.  Of user names that differ in case only,
Go's map order decides (`UsersOf` is a set).

### PrivateChat and ChatConfig

A private message is several steps under separate locks (`Show`, `Own`, `Theirs`,
`Spies`), between which other commands run and players leave. The line goes through the
recipient's bounded queue and is dropped when that is full, while both sides still record
each other: `Show` appends to `shown` or, for a dropped line, to `swallowed`, which is
history. `ReplyFinds` says that `/r` goes to somebody the player has written to, or who
has written to him, the dropped lines included. A spy's copy may be lost as well.
`ChatConfig` has a version of `chat.yml` stand for its contents, apart from the
automessages and the chat lock, on which properties depend. `globalChatLock` is held
across the request to redis, so that a status request blocks everything else that takes
it. The times of a player's last message and last `/helpop` are part of his session's
`FilterData`, which every login makes anew: `Relog` forgets them, and `SlowModeHolds` is
about the messages of one session. The result of slow mode's formula and of the rate
limiter is a choice. A player in `Bypass` has the permissions that skip the checks.

### Texts

The encoder of plugin messages and the reader of markup share no state; both are pure
functions of a text that the module chooses character by character.  `Texts` puts them next
to each other under names of its own, because both have a text and a place in it.

### Markup

The text is read one symbol at a time, as `Para2Json` does; the code `§r` that it
appends to the text is the action `End`.  `IsMode`, `StyleAt` and `ColorAt` say what
a text means without reading it in order (each is given the text, as the proofs speak of a
text and of the same text with a symbol more), and `Faithful` compares the two.

## Runs

| Run | Bounds | Shows |
|---|---|---|
| `PlayerManager` | 3 sessions, 2 nicknames, 2 UUIDs, one of the sessions staff, queues of 1 | the map, the counter, both walks, refinement of `PlayerRegistry` |
| `Session` | 2 upstreams, a queue of 1, 2 commands, 1 packet of the client and of each upstream | safety of the goroutines over a reconnect that may fail anywhere; the order of packets in both directions |
| `SessionEnds` | 2 upstreams, a queue of 2, fairness; packets: 1 of each upstream, 1 command, time; commands: 2 commands, 1 packet of the second upstream | the readers of a registered session end; a client that hangs up, a kick, also behind a reconnect in the queue, and silence end the session |
| `SessionConflict` | 1 upstream, a queue of 1, 1 command, 1 packet of client and upstream, fairness | **violated**: see Findings |
| `Wire` | cipher: register of 2 in an array of 4, 7 bytes of one bit, every key; relay: digits 0..3, 3 packets of 5 kinds (below, at and above the threshold, and too big), 2 buffers, thresholds 1, 3 and 5 | the window wraps twice and is used after that; packets arrive whole, once, in order and all |
| `TabList` | 2 players, 2 cells, 2 values, 3 calls, 3 upstreams, 1 queued injection | cells reach the client although copied while being set; the recorded list is the shown one and nothing of a left upstream stays |
| `AbuseCache` | 1 lookup, 1 command of this process and 1 of another, 2 rows of lengths 1 and 2, cache of 1, clock from 1 to 3 | coherence, expiry and size |
| `Login` | 2 connections, 3 names of which two differ in case and one is invalid, 1 account, fairness | framing, kicks, identity, no double login, the release of everything is asked for, and a login whose client has gone ends or waits for the upstream or for PLAY to end |
| `Packets` | dispatch: 3 ids a direction, words of 2 bits, 2 filters, 4 registrations; fields: 21 packet types, strings of length 0 and the limit, at most one item, each byte changed to 3 values; the list packets again with 2 items; JoinGame, each byte changed to one value | table, bit array and order of filters; reading and writing agree, cuts are noticed |
| `DispatchEdge` | dispatch as above, with the id `MaxPacketID` | **violated** |
| `CloudyChat` | private: 2 players, one of whom comes back, 3 messages, history of 2, and either a spy or dropped lines; ignore: one list of 2 among 3 names; reload: 2 moderators, 3 edits, up to 2 automessages; talk: 1 player, who may log in again, 1 moderator, 1 ping, 3 messages of each kind, slow mode of 1 or 2, MOTD kept for 1, clock to 5; permissions: 2 loaders, 2 players, 3 edits, 3 contents of each file and `Bad` | histories, conversations, ignore lists, reloads and the automessage index, slow mode, help history, age of the MOTD; one load in force and precedence |
| `Filters` | bungee: 2 sessions, queues of 2, 3 commands or edits, 2 servers; java: texts of 4 characters out of 9 at the boundaries, encoded length up to 9; markup: 6 symbols out of 8 | registration, answers, counts, server list; both directions agree with Java; text and styles |

Most properties are conjunctions of named parts, which the modules state and comment one
by one: `OneUpstream` of `OneLiveUpstream` and `NoSocketLeak`, `PacketOrder` of
`ClientOrder` and `ServerOrder`, `CipherCorrect` of `EncryptsCFB8` and `Deciphers`,
`EndToEnd` of `Intact`, `FramingAgrees` and `Delivered`, `PlayerListCurrent` of
`PlayerListTracks` and `NoGhosts`, `Filtered` of `ParsedIffFiltered` and `PassesFilters`,
`ServerServed` of `Registered` and `AnswersInOrder`, `AgreesWithJava` of `ReadsJava` and
`WritesJava`. The type invariants of `PlayerManager`, `Session`, `CFB8` and `AbuseCache`
are proved; those of `TabList` and `Login` are parts of `PlayerListCurrent` and
`OneIdentity`.

The bounds are the least at which the cases meet. Three sessions are needed for one to be
refused, one to leave and one to stay while a walk is under way, and two nicknames so that
a UUID may be logged in under both. Two upstreams are one reconnect: the second may
succeed, fail in dialling, in logging in or in waiting for `JoinGame`, with the first
one's reader in any position. One place in the command queue makes it full at once; a
queue of two holds a reconnect and the kick behind it. In `SessionEnds` the client sends
no packet; what packets of the client may do to a session's goroutines is checked for
safety only, in `Session`. A register of two in an array of four is copied back with every
third byte, so that seven bytes wrap the window twice and use it after that. Two
connections are what a race of logins takes; the name of the account differs from what the
client calls itself in its case, so that each of the two checks (UUID, lower-cased name)
sees what the other does not. Two buffers let one be written while another is filled, and
three packets let a buffer be used again. Two ids that share a word of the bit array, and
a word across the border of the halves, are the neighbours `Set` could disturb. A queue of
2 is filled by a registration and an answer. Two rows make the order of `ListAbuses`
matter; a lifetime of 1 and a clock to 3 let an entry be stored, end and be replaced; a
ban of a group, which `MaxGroup` keeps to one member there, is to the cache what as many
bans of one player are, and the proofs have groups of any size. Where there is a proof, no
bound limits the result.

No run checks for deadlock: sessions, lookups, commands and walks really may end, and
with all of them over nothing is left to do; elsewhere a bound on the number of packets
or messages ends a behaviour.  What must not stop is said by the liveness properties,
and by `Delivered`, a part of `EndToEnd`, which looks at the states in which the relay has
come to rest.

### Fairness

`FairSpec` assumes that a goroutine that can go on does (weak fairness of each step of the
session's goroutine that waits for nobody and of each reader that need not wait for its
peer), and that `select` does not ignore a ready case for ever (strong fairness per case;
Go's `select` chooses uniformly among the ready ones). A dial ends, as the operating
system gives up connecting after a while. Nothing is assumed of a peer: a login, a
`JoinGame` or a write may take for ever. The liveness properties name those waits
(`Stalled`) and hold unless the session stays in one of them for good. One of them,
`push`, is not a peer's fault: `/server` and the `Connect` message push to their own
session's queue with `block = true`, and wait for themselves when it is full. So no
liveness property covers a session that hangs on a silent upstream or on its own queue:
there the code promises nothing, and `PROJECT.json` lists these waits as hazards without a
property. `Login`'s `Fairness` is weak fairness of each handler's own steps (`OwnStep`)
and nothing of clients, of upstreams or of the end of PLAY. `LoginEnds` says that a
handler whose client has gone closes or comes to one of the two waits that are not its own
(`Waiting`), and again after each of them; that a session in PLAY ends is `LeavingEnds` of
`Session`. `IdleEnds` alone assumes `ClockFairness` besides: time passes and a sleeping
watcher wakes up.

### Findings

Each of these runs is expected to find its property violated.

- **`SessionConflict`.**  `handleProxy` starts the upstream's reader in
  `connectUpstream`, before `Players.Register`.  When `Register` refuses (somebody with
  that nickname is there), it returns at `handler.go:401`, before the clean-up that
  announces `// end both read_packets goroutines` (`handler.go:493`).  Closing the
  socket ends a reader that is in a read, but not one that has a packet in hand: it
  waits in its `select` for a receiver or for a kill that never comes.  `ReadersEnd`,
  the same promise for sessions that were registered, holds.
- **`DispatchEdge`.**  `reader.go:106` lets the id `MaxPacketID` (256) pass; its place
  in the tables is that of the other direction's packet 0, or outside them, where
  the index panics in the reader's goroutine.  The comment at `filters.go:13` gives
  each direction one half (and names them the wrong way round).

Other limits of the code that the modules show in their actions or conditions,
without a run that expects a violation:

- `/msg` tells a player who is ignored that he cannot send messages
  (`msgcommand.go:31`); `/r` never looks at the list.
- With 256 entries, those that are off included, an ignore list changes no more
  (`chatusers.go:55`), and `/ignore` says that it did; `IgnoreBounded` compares list and
  answer until then.
- `ReadIdentifierArray` appends to a slice that already has its length
  (`ioutils.go:96`): every world name of a JoinGame packet that is filtered is joined
  by an empty one, and a negative count panics.  `RoundTrip` therefore leaves JoinGame out;
  `CutNoticed` does not.
- Characters above 0xFFFF, which modified UTF-8 writes as two surrogates, are read as
  two replacement characters; `ReadsJava` speaks of the others.  `WriteJavaUTF` refuses them,
  which is all that `WritesJava` allows it to do otherwise than Java.
- Only the first URL of a run of text is made clickable (`utils/chat.go`).
- A reload with fewer automessages than the index has reached makes the automessage
  goroutine panic (`automessage.go:28`; `AutoMessageSafe`, a part of `ReloadTakesEffect`,
  says that nothing else does).
- The last fields of the last player in an ADD_PLAYER packet may be cut off unnoticed
  (`play_clientbound.go:358`; `MayMiss`).
- Of two overlapping reloads the one that read the older file may win, for chat,
  permissions and upstreams alike.
- An answer or a registration queued behind a reconnect goes to the next server
  (`pluginmessage.go:53` has a TODO); `/server` on a full queue waits for itself.
- A line of a broadcast or of a private message is dropped without a word when the queue of
  its session is full (`handler.go:561`); `/r` may then go to somebody whose line was
  never shown (`msgcommand.go:38`).
- Logging in again forgets the times of the last message and of the last `/helpop`, and with
  them slow mode's wait (`chatusers.go:61`).
- The row of a login stays open for ever when the one `UPDATE` that would end it fails
  (`tracker.go:53`).
- `connectUpstream` reads the upstream's login without a deadline (`handler.go:182`,
  `handler.go:205`): a silent upstream holds a login, or a reconnect, for as long as it keeps
  the connection, whether or not the client is still there.

## Proofs

All theorems hold for every value of the constants that satisfies the named
assumptions in the modules: finite sets of sessions, keys and players, a positive queue
and cache size, an array no shorter than the register, and special values
that are distinct from the others.  The bounds on clocks, messages, calls, edits and
connections are constants too, so that a theorem is about behaviours of any length.
In each of the paragraphs below an
invariant is named that is inductive; it contains the property or implies it at once.

**PlayerManagerProofs.** `MapIsEntered` is inductive together with `TypeOK` and `HasKey`
(a session past its login has a nickname): a session that deletes its key deletes its own
entry, since the entry of a key is the one session that entered it. From it follow
`DuplicateCorrect`, `BroadcastCorrect` (with `RivalInv` and `BroadcastInv`, which say of a
walk under way what has been visited and who is owed, sessions with a crowded queue apart)
and the refinement `RegistryCorrect`. `CountCorrect` needs that the counted sessions are a
finite set that grows and shrinks by one.

**SessionProofs.**  `UpInv` says of every position of the session's goroutine which
connection each upstream field belongs to (`Phase`), that connections are numbered
without gaps (`Numbering`), that only the one in `upC` may be open
(`OpenIsCurrent`) and that every other reader has been killed.
`UpstreamConsistent` and `OneUpstream` (with its parts `OneLiveUpstream` and
`NoSocketLeak`) follow.
`OrderInv` adds that everything written so far is older than what a reader has in
hand; without that bound neither order is inductive.  `DeadHasError` is inductive
by itself.

**WireProofs.**  *The cipher.*  The invariant ties the windows of writer and reader to the
history: a window after n bytes is the n-th stretch of `Block` places of `stream`.
`SlideShifts` and `FeedShifts` prove that of the array arithmetic once, the copy at the end
included; that the reader gives back what was written then needs only that xor
with the same byte undoes itself, which is assumed of `Xor`.

*The framing.*  `ReadPacketReturns` says what `ReadPacket` does with the first bytes of a stream
that starts with a packet, however many have come: it waits, refuses the packet for its length, or
gives back the packet and what follows it.  A VarInt is a loop over digits, and what such a
loop computes is a fact about recursive functions.  The library's induction cannot be
instantiated here, so `Induction` is stated of a set of numbers and proved from the well-founded
order, and `Recursion` gives the function that a loop defines; `VarIntShape`, `GatherVarInt` and
`ReadVarIntBack` follow the loops of `PutUvarint` and `ReadUvarint` with them.

*The relay.*  `InOrder`, a part of `RelayInv`, says of each reader, wherever the stream before it is
cut, that what it has not read is the rest of the upstream's dialogue and then the packets still to be
read, in the framing they were written in.  `CarriesFirst` takes a packet off the front of such a
stream and `CarriesMore` adds one at its end.  A packet between reader and main goroutine is the one
its buffer holds, and that buffer is in no pool, so another session's write changes nothing
(`OtherHandlerStep`).  `Delivered` is then a matter of what a relay at rest can still be waiting for.

*The fields.*  `ReadBack` says of one field, whatever its kind, that a value which was written is
read back if all of it has arrived, and that otherwise the read fails and has taken everything;
`ReadType` says what any other bytes may be read as, which can always be written again
(`Canonical`).  `TypesSound` goes through the packet types: a field that takes what there is, is
last, and one whose error is dropped is not, the end of an added player apart; `FollowingSound`
keeps that while fields bring others with them.  What a peer has written is a log of fields with
what was to follow each of them and what was written behind it (`Made`).  In the inductive
invariant `CodecInv` a reader is somewhere in that log, with the bytes from there on before it, all
but those cut off (`InStep`); or it has met the missing end in a field whose error is dropped, and
everything after it fails at the first read whose error is not (`Lost`); or the packet was altered.
`RoundTrip` and `CutNoticed` are what this means when no field is left.

**AbuseCacheProofs.**  An entry, and equally what a lookup carries from `Select` to
`SetTime`, obeys one law: it is what the database would answer, or an
invalidation of its key is still due, or one has been missed (`Coherent`).
Carrying it along is what makes coherence inductive.  It rests on `CmdInv` (the
names a command has still to invalidate are those of its row), `LookInv` and
`EntryInv` (nothing is stored for longer than its abuse lasts, nor than `TTL`).

**TabListProofs.** `PlayerListCurrent` needs the shape of the state and that only the
field being set is torn (`Untorn`); the two make it inductive. `TabSynced` speaks of an
empty queue, so its invariant says what each queue will make of the client: `Synced` takes
the batches, the one under way first and the pending changes last, and finds for every
field of a cell the last of them that writes it (`Final`). That one carries the field's
value, and if there is none the client shows it already (`ShownField`). The exceptions are
what the race of `Flush` with a setter allows: a cell whose setter is between its steps is
not `Steady`, and a full list may overtake the single changes (`FullAlone`). `LastChange`
chooses a greatest index; that it exists is `Greatest`, from the well-founded order of
finite sets.

**LoginProofs.**  `Known` says at every position of a handler what has been settled
about its player (`Settled`), what others have been told of it (`Recorded`: the upstream's
handshake, the row, the client's packet), and that `online` holds exactly the
handlers in PLAY, under their own names (`Registered`).  `OneIdentity`, `OneLogin` and
`Released` follow.  `Dialogues` is about one connection at a time: every unread packet is one that the
reader will expect, in the framing it will have, once it has read the packets before
(`Understands`, `Asked`), and an ended client has a kick to read (`Kicked`).  It is what
makes `Understood` and `KickTold` inductive, since either side switches its framing
while packets in the old one are under way.

**BungeeProofs.**  Most steps only append to queues (`Quiet`), so a lemma says what that
preserves and each action has only its own effect to show.  `Serving` puts the answers a server has
got and those in the queue in one sequence, which is in the order of its questions, and knows that
none is for a connection to come.  `Counted` numbers the commands of each `/send`: the
orders counted so far are in a queue or have moved their player, and the walk has still
to visit exactly the others.  `AlwaysListed` rests on `Listed`: what a reload holds
between reading and swapping is a file with servers, and one that was read after the server was there.

Of texts: the bytes of a text in Java's encoding lie one character after the other, each from
where the one before it ends, and the decoder, a recursive function of the place, can only give
the characters back (`ReadsJava`); `WritesJava` compares the sizes that Go and Java give a
character.  For `Faithful` the invariant is `Marked`: all that is to be seen of the text so far is in
the parts, or in the buffer still, in the style and colour of now, and these are the
`StyleAt` and `ColorAt` of the place reached.  Both are invariants of machines that take
one character a step, so that the induction is over the steps and not over the text.

**FilterProofs.** Of `Dispatch` and of the three modules that `ChatFilters` composes,
whose steps leave each other's state alone (`EachKept`). `Dispatched` ties the table of
callbacks to the registrations in order and the bit array to them (`Tabled`): different
packets differ in the word or in the bit (`Places`), so that setting one bit by xor
disturbs no other (`SetAdds`) as long as the code only sets what is not set; and the
filters that have run are the first ones of the slot (`Followed`). `Recorded` and
`Remembered` are about the two histories and share the lemma `ShiftKeeps` on `Shift`.
`Replying` follows a message between its locks: whoever has been written to, by a line
shown or dropped, has a recipient or is about to get one. `ListsKept` ties the ignore
list's entries to what `/ignore` answered. `Lasting` has each reload keep what it has read
until it installs it, and the automessage's index in the range of the list in force unless
a reload has shortened it. `Paced` bounds the recorded times by the clocks of slow mode (a
session that has not spoken has none, `NothingSaid`), `Aged` the expiry of the MOTD by the
time it was read, and `Loads` says of a reload of the permissions under way that its users
are made of the groups that it has read itself.

`NearestWins` says that of all entries for a permission or a prefix of it the longest decides,
whichever group it is in, and that the order of the groups only decides between equal ones.
`Combined` and `HasPermission` are recursive functions, of the layers and of
the words of a permission.  `CombinedIsOver` writes the first out: of the layers that have an entry
the last counts (`Over`).  That the written-out form satisfies the recursive equation makes the
function exist, and `AlikeAtEnd` makes it the only one.

Only model-checked, and why:

- The liveness properties (`ReadersEnd`, `LeavingEnds`, `IdleEnds`, `LoginEnds`): they need
  fairness and `ENABLED`.
- The two properties of the runs that expect a violation.

## Not modelled

RSA, AES, SHA-1, zlib, NBT, HTTP, SQL and redis are libraries: the modules have what
the code makes of their answers.  Tab completion keeps no state: it matches a prefix
against nicknames.  Packet tracing and logging change nothing.  Packets that the
proxy only writes, or for which it has a type and no use, are left out of `Codec`
(SpawnPlayer, PlayerListTitle, PlayerPositionAndLook, SpawnPosition, Camera,
ResourcePackSend, EncryptionRequest, StatusResponse), as are entity metadata and
item data, which no filter reads, and the JSON of chat messages.  Censoring and
formatting of chat, the look-up commands of CloudyBans and the texts of replies are
strings without state.  `ApplyGroup` and `SetPermission` have no caller.

Of what is modelled, these details are left out:

- `XORKeyStream` may be given one slice as source and destination (`encryption.go:40`);
  `CFB8` has the two apart, so that the order of reading and overwriting a byte is not checked.
- A kick that has been flushed is taken to arrive; a reset of the connection may lose it.
- An error body of the session server (`auth.go:131`) is one of the answers that fail or do
  not match.
- `WriteJavaUTF` fails on more than 65535 bytes, and callers drop the error, so that a long
  answer to `PlayerList` is cut off; in `Bungee` an answer is whole.
- `AbuseCache`'s run has no ban without an end; its theorems do.

## Plan

Done, in this order: `PlayerManager`, `Session`, `CFB8`, `TabList`, `AbuseCache`, then
`Login`, `Framing` and `Relay`, `Dispatch`, `PrivateChat` and `ChatConfig`, `Codec`,
`Permissions`, `JavaUTF`, `Bungee`, `Markup`, and `ChatFilters` to prove about three of them
together.

The proofs came in the order of what they say about the system: the player manager, sessions, the
cipher and the abuse cache, then `Login`, `TabList`, `Bungee` and the filters,
and last the ways of bytes: the relay, the layers of permissions, texts,
and the fields of packets.

Next: `Session`: the action properties behind `PacketOrder` and `DeadHasError`, such as that a
tomb's reason never changes once it is set.
