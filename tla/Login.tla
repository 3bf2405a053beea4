------------------------------- MODULE Login --------------------------------
(***************************************************************************)
(* A connection before and around the PLAY state: Handler.Handle with      *)
(* handleStatus, handleProxy and establishEncryptionAsServer, the hooks a  *)
(* proxy installs (those of example/main.go, with cloudybans'              *)
(* TrackPlayerLogin) and Players.Register.                                 *)
(*                                                                         *)
(* Every connection has a client that keeps to the protocol, except that   *)
(* it may ask for another version, use a bad nickname, answer with a wrong *)
(* token or leave at any time.  The framing of what either side writes     *)
(* (compression header or not, cipher or not) changes in the middle of the *)
(* dialogue and each side changes it by itself, so every packet on the     *)
(* wire carries the framing it was written in.  A connection delivers what *)
(* was written before it was closed, in order.  The session in PLAY is a   *)
(* module of its own (Session).  Of connectUpstream's dialogue (Relay) what*)
(* matters here is that the upstream is told who the player is, and that   *)
(* its answer is then waited for without a deadline.                       *)
(***************************************************************************)
EXTENDS Naturals, Sequences

CONSTANTS
    Handlers,       \* one handler per connection
    Nicknames,      \* what clients call themselves
    Invalid,        \* those ValidateNickname refuses
    ToLower,        \* strings.ToLower: [Nicknames -> Nicknames]
    UUIDs,
    OfflineUUID,    \* OfflinePlayerUUID: [Nicknames -> UUIDs]
    Answers,        \* identities the session server answers with (external)
    None

Identity == [nick : Nicknames, uuid : UUIDs]
Row == [id : Identity, ends : Nat, refused : Nat]

ASSUME NamesAssumption ==
    /\ Invalid \subseteq Nicknames
    /\ ToLower \in [Nicknames -> Nicknames]
    /\ OfflineUUID \in [Nicknames -> UUIDs]
    /\ \A a, b \in Nicknames : OfflineUUID[a] = OfflineUUID[b] => a = b
    /\ Answers \subseteq Identity          \* an account has one name, and its UUID is no offline one
    /\ \A a, b \in Answers : a.uuid = b.uuid => a = b
    /\ \A a \in Answers, n \in Nicknames : a.uuid # OfflineUUID[n]
    /\ None \notin Nicknames \cup UUIDs \cup Identity \cup Handlers \cup Row

VARIABLES
    h,      \* the handlers
    c,      \* the clients
    up,     \* from each client to its handler
    down,   \* from each handler to its client
    online, \* Players: nickname in lower case -> handler
    rows    \* cloudyBans_logins: handler -> the identity of its row, how often
            \* its end was set and (history) how often the database refused to

vars == <<h, c, up, down, online, rows>>

Framing == [comp : BOOLEAN, enc : BOOLEAN]
Plain == [comp |-> FALSE, enc |-> FALSE]

\* joined and played are history: the session server's answer, PLAY was reached.
Handler ==
    [pc : {"handshake", "request", "ping", "start", "compress", "prelogin", "keyreq", "keyresp",
           "joined", "login", "track", "success", "target", "upwait", "register", "play",
           "close", "closed"},
     r : Framing, w : Framing,
     buf : BOOLEAN,     \* DownstreamW writes to a bufio.Writer
     nick : Nicknames \cup {None}, uuid : UUIDs \cup {None},
     auth : BOOLEAN, err : {"nil", "unauthenticated", "failed"},
     upc : {"nil", "open", "closed"}, told : Identity \cup {None},
     hooks : Nat, joined : Identity \cup {None}, played : BOOLEAN, garbled : BOOLEAN]

\* st: where the client is in the protocol.
Client ==
    [st : {"new", "status", "pinging", "login", "waiting", "play", "gone"}, f : Framing,
     name : Identity \cup {None}, kicked : BOOLEAN, honest : BOOLEAN, garbled : BOOLEAN]

\* NewHandler
NewHandler ==
    [pc |-> "handshake", r |-> Plain, w |-> Plain, buf |-> FALSE, nick |-> None,
     uuid |-> None, auth |-> TRUE, err |-> "nil", upc |-> "nil", told |-> None, hooks |-> 0,
     joined |-> None, played |-> FALSE, garbled |-> FALSE]

NewClient ==
    [st |-> "new", f |-> Plain, name |-> None, kicked |-> FALSE, honest |-> TRUE,
     garbled |-> FALSE]

Init ==
    /\ h = [i \in Handlers |-> NewHandler]
    /\ c = [i \in Handlers |-> NewClient]
    /\ up = [i \in Handlers |-> <<>>]
    /\ down = [i \in Handlers |-> <<>>]
    /\ online = [n \in Nicknames |-> None]
    /\ rows = [i \in Handlers |-> None]

-----------------------------------------------------------------------------
(* The client (external).                                                  *)

ClientSends(i, k, a, cl) ==
    /\ up' = [up EXCEPT ![i] = Append(@, [kind |-> k, arg |-> a, f |-> c[i].f])]
    /\ c' = [c EXCEPT ![i] = cl]
    /\ UNCHANGED <<h, online, rows>>

\* next: "other" stands for a NextState that is neither.
ClientHandshake(i, next) ==
    /\ c[i].st = "new"
    /\ ClientSends(i, "handshake", next,
                   [c[i] EXCEPT !.st = IF next \in {"login", "badversion"} THEN "login"
                                       ELSE "status"])
    /\ UNCHANGED down

ClientLoginStart(i, n) ==
    /\ c[i].st = "login"
    /\ ClientSends(i, "start", n, [c[i] EXCEPT !.st = "waiting"])
    /\ UNCHANGED down

ClientRequest(i) ==
    /\ c[i].st = "status"
    /\ ClientSends(i, "request", None, [c[i] EXCEPT !.st = "pinging"])
    /\ UNCHANGED down

\* In PLAY the client writes in the framing the dialogue has arrived at.
ClientPlays(i) ==
    /\ c[i].st = "play" /\ up[i] = <<>>
    /\ ClientSends(i, "play", None, c[i])
    /\ UNCHANGED down

\* Packets the client expects where it is.
Expected(st) ==
    CASE st \in {"login", "waiting"} -> {"loginkick", "compression", "keyreq", "success"}
      [] st = "pinging" -> {"response", "pong"}
      [] st = "play" -> {"gamekick"}
      [] OTHER -> {}

\* The client turns compression on when it is told to, and its cipher on as soon
\* as it has sent its EncryptionResponse, whose token it may get wrong.
ClientReceives(i, good) ==
    LET p == Head(down[i])
    IN  /\ c[i].st # "gone" /\ down[i] # <<>>
        /\ down' = [down EXCEPT ![i] = Tail(@)]
        /\ \/ /\ p.f # c[i].f \/ p.kind \notin Expected(c[i].st)
              /\ c' = [c EXCEPT ![i] = [@ EXCEPT !.garbled = TRUE, !.st = "gone"]]
              /\ UNCHANGED <<h, up, online, rows>>
           \/ /\ p.f = c[i].f /\ p.kind \in Expected(c[i].st)
              /\ CASE p.kind = "compression" ->
                        /\ c' = [c EXCEPT ![i].f.comp = TRUE]
                        /\ UNCHANGED <<h, up, online, rows>>
                   [] p.kind = "keyreq" ->
                        ClientSends(i, "keyresp", good,
                            [c[i] EXCEPT !.f = [@ EXCEPT !.enc = TRUE], !.honest = good])
                   [] p.kind = "response" -> ClientSends(i, "ping", None, c[i])
                   [] p.kind = "success" ->
                        /\ c' = [c EXCEPT ![i] = [@ EXCEPT !.st = "play", !.name = p.arg]]
                        /\ UNCHANGED <<h, up, online, rows>>
                   [] OTHER ->
                        /\ c' = [c EXCEPT ![i] = [@ EXCEPT !.st = "gone", !.kicked = p.kind # "pong"]]
                        /\ UNCHANGED <<h, up, online, rows>>

ClientLeaves(i) ==
    /\ c[i].st # "gone"
    /\ c' = [c EXCEPT ![i] = [@ EXCEPT !.st = "gone"]]
    /\ UNCHANGED <<h, up, down, online, rows>>

ClientStep(i) ==
    \/ \E next \in {"status", "login", "badversion", "other"} : ClientHandshake(i, next)
    \/ \E n \in Nicknames : ClientLoginStart(i, n)
    \/ ClientRequest(i) \/ ClientPlays(i) \/ ClientLeaves(i)
    \/ \E good \in BOOLEAN : ClientReceives(i, good)

-----------------------------------------------------------------------------
(* Reading and writing.                                                    *)

\* WritePacket with flush; to a client that is gone the bytes may vanish.
Write(i, k, a) ==
    down' = IF c[i].st = "gone" THEN down
            ELSE [down EXCEPT ![i] = Append(@, [kind |-> k, arg |-> a, f |-> h[i].w])]

\* A write fails only when the connection does.
WriteFails(i) == c[i].st = "gone" /\ UNCHANGED down

\* ParsePackets with one expected packet: p is what it reads.
Reads(i, k, p) ==
    /\ up[i] # <<>> /\ p = Head(up[i])
    /\ p.kind = k /\ p.f = h[i].r
    /\ up' = [up EXCEPT ![i] = Tail(@)]

\* The connection ends, or what arrives is not the packet ParsePackets expects.
ReadFails(i, k) ==
    \/ /\ up[i] = <<>> /\ c[i].st = "gone"
       /\ UNCHANGED up
    \/ /\ up[i] # <<>> /\ (Head(up[i]).kind # k \/ Head(up[i]).f # h[i].r)
       /\ up' = [up EXCEPT ![i] = Tail(@)]

Garbled(i) == h[i].garbled \/ (up[i] # <<>> /\ Head(up[i]).f # h[i].r)

\* The handler becomes g.
Goto(i, g) == h' = [h EXCEPT ![i] = g]

\* Mutant of Kick: without flush, so that a bufio.Writer keeps the packet.
KickUnflushed(i, k) ==
    /\ IF h[i].buf THEN UNCHANGED down ELSE Write(i, k, None) \/ WriteFails(i)
    /\ Goto(i, [h[i] EXCEPT !.pc = "close"])
    /\ UNCHANGED <<c, online, rows>>

\* return handler.DownstreamW.WritePacket(kick, true): whatever it returns, the
\* handler ends.
Kick(i, k) ==
    /\ Write(i, k, None) \/ WriteFails(i)
    /\ Goto(i, [h[i] EXCEPT !.pc = "close"])
    /\ UNCHANGED <<c, online, rows>>

-----------------------------------------------------------------------------
(* Handle.                                                                 *)

\* Mutant of ReadFailsAt: a failed read is tried again.
ReadFailsAtRetry(i, pc, k) ==
    /\ h[i].pc = pc
    /\ ReadFails(i, k)
    /\ UNCHANGED <<h, c, down, online, rows>>

ReadFailsAt(i, pc, k) ==
    /\ h[i].pc = pc
    /\ ReadFails(i, k)
    /\ Goto(i, [h[i] EXCEPT !.pc = "close", !.garbled = Garbled(i)])
    /\ UNCHANGED <<c, down, online, rows>>

\* The handshake, with handleProxy's check of the protocol version.
Handshake(i) ==
    /\ h[i].pc = "handshake"
    /\ LET p == Head(up[i]) IN
          /\ Reads(i, "handshake", p)
          /\ \/ p.arg = "badversion" /\ Kick(i, "loginkick")
             \/ /\ p.arg # "badversion"
                /\ Goto(i, [h[i] EXCEPT !.pc = CASE p.arg = "status" -> "request"
                                                 [] p.arg = "login" -> "start"
                                                 [] OTHER -> "close"])
                /\ UNCHANGED <<c, down, online, rows>>

\* handleStatus: the answer to the request ...
Status(i) ==
    /\ h[i].pc = "request"
    /\ Reads(i, "request", Head(up[i]))
    /\ \/ Write(i, "response", None) /\ Goto(i, [h[i] EXCEPT !.pc = "ping"])
       \/ WriteFails(i) /\ Goto(i, [h[i] EXCEPT !.pc = "close"])
    /\ UNCHANGED <<c, online, rows>>

\* ... and to the ping.
Ping(i) ==
    /\ h[i].pc = "ping"
    /\ Reads(i, "ping", Head(up[i]))
    /\ Write(i, "pong", None) \/ WriteFails(i)
    /\ Goto(i, [h[i] EXCEPT !.pc = "close"])
    /\ UNCHANGED <<c, online, rows>>

LoginStart(i) ==
    /\ h[i].pc = "start"
    /\ LET p == Head(up[i]) IN
          /\ Reads(i, "start", p)
          /\ \/ p.arg \in Invalid /\ Kick(i, "loginkick")
             \/ /\ p.arg \notin Invalid
                /\ Goto(i, [h[i] EXCEPT !.pc = "compress", !.nick = p.arg])
                /\ UNCHANGED <<c, down, online, rows>>

\* Mutant of Compress: the reader is not replaced.
CompressReader(i) ==
    /\ h[i].pc = "compress"
    /\ Write(i, "compression", None)
    /\ Goto(i, [h[i] EXCEPT !.pc = "prelogin", !.w = [@ EXCEPT !.comp = TRUE]])
    /\ UNCHANGED <<c, up, online, rows>>

Compress(i) ==
    /\ h[i].pc = "compress"
    /\ \/ /\ Write(i, "compression", None)
          /\ Goto(i, [h[i] EXCEPT !.pc = "prelogin", !.r = [@ EXCEPT !.comp = TRUE],
                                  !.w = [@ EXCEPT !.comp = TRUE]])
       \/ WriteFails(i) /\ Goto(i, [h[i] EXCEPT !.pc = "close"])
    /\ UNCHANGED <<c, up, online, rows>>

\* PreLoginHandler refuses the player, or leaves the Authenticator set, or, like
\* the example's, makes it nil.
PreLogin(i) ==
    /\ h[i].pc = "prelogin"
    /\ \/ Kick(i, "loginkick")
       \/ /\ Goto(i, [h[i] EXCEPT !.pc = "keyreq"])
          /\ UNCHANGED <<c, down, online, rows>>
       \/ /\ Goto(i, [h[i] EXCEPT !.pc = "login", !.auth = FALSE, !.err = "unauthenticated",
                                  !.uuid = OfflineUUID[h[i].nick]])
          /\ UNCHANGED <<c, down, online, rows>>
    /\ UNCHANGED up

-----------------------------------------------------------------------------
(* establishEncryptionAsServer: every error goes to LoginHandler.          *)

KeyRequest(i) ==
    /\ h[i].pc = "keyreq"
    /\ \/ Write(i, "keyreq", None) /\ Goto(i, [h[i] EXCEPT !.pc = "keyresp"])
       \/ WriteFails(i) /\ Goto(i, [h[i] EXCEPT !.pc = "login", !.err = "failed"])
    /\ UNCHANGED <<c, up, online, rows>>

\* A token that is not the one sent ends the exchange before the ciphers are set
\* up; otherwise reader and writer are replaced, the writer by a buffered one.
KeyResponse(i) ==
    /\ h[i].pc = "keyresp"
    /\ LET p == Head(up[i]) IN
          /\ Reads(i, "keyresp", p)
          /\ Goto(i, IF p.arg
                     THEN [h[i] EXCEPT !.pc = "joined", !.r = [@ EXCEPT !.enc = TRUE],
                                       !.w = [@ EXCEPT !.enc = TRUE], !.buf = TRUE]
                     ELSE [h[i] EXCEPT !.pc = "login", !.err = "failed"])
    /\ UNCHANGED <<c, down, online, rows>>

KeyResponseFails(i) ==
    /\ h[i].pc = "keyresp"
    /\ ReadFails(i, "keyresp")
    /\ Goto(i, [h[i] EXCEPT !.pc = "login", !.err = "failed", !.garbled = Garbled(i)])
    /\ UNCHANGED <<c, down, online, rows>>

\* Mutant of HasJoined: the identity is taken from the client.
HasJoinedUnchecked(i) ==
    /\ h[i].pc = "joined"
    /\ \E a \in Answers :
          Goto(i, [h[i] EXCEPT !.pc = "login", !.uuid = a.uuid, !.joined = a])
    /\ UNCHANGED <<c, up, down, online, rows>>

\* The rate limit, the ten seconds and an answer that cannot be decoded are
\* errors; what the answer says replaces what the client said.
HasJoined(i) ==
    /\ h[i].pc = "joined"
    /\ \/ \E a \in Answers :
             Goto(i, [h[i] EXCEPT !.pc = "login", !.nick = a.nick, !.uuid = a.uuid, !.joined = a])
       \/ Goto(i, [h[i] EXCEPT !.pc = "login", !.err = "failed"])
    /\ UNCHANGED <<c, up, down, online, rows>>

-----------------------------------------------------------------------------
(* LoginHandler, and what follows it.                                      *)

\* Players.GetByUUID(u) # nil
Playing(u) == \E n \in Nicknames : online[n] # None /\ h[online[n]].uuid = u

\* The example's: an error, or a player who is online already, is kicked.
LoginHandler(i) ==
    /\ h[i].pc = "login"
    /\ IF h[i].err = "failed" \/ Playing(h[i].uuid)
       THEN Kick(i, "loginkick")
       ELSE /\ Goto(i, [h[i] EXCEPT !.pc = "track"])
            /\ UNCHANGED <<c, down, online, rows>>
    /\ UNCHANGED up

IdentityOf(i) == [nick |-> h[i].nick, uuid |-> h[i].uuid]

\* TrackPlayerLogin: without its row the login is refused.
TrackPlayerLogin(i) ==
    /\ h[i].pc = "track"
    /\ \/ Kick(i, "loginkick")
       \/ /\ rows' = [rows EXCEPT ![i] = [id |-> IdentityOf(i), ends |-> 0, refused |-> 0]]
          /\ Goto(i, [h[i] EXCEPT !.pc = "success", !.hooks = @ + 1])
          /\ UNCHANGED <<c, down, online>>
    /\ UNCHANGED up

LoginSuccess(i) ==
    /\ h[i].pc = "success"
    /\ \/ Write(i, "success", IdentityOf(i)) /\ Goto(i, [h[i] EXCEPT !.pc = "target"])
       \/ WriteFails(i) /\ Goto(i, [h[i] EXCEPT !.pc = "close"])
    /\ UNCHANGED <<c, up, online, rows>>

\* The upstream is looked up by name and dialled; handshake and LoginStart tell
\* it who the player is.
Connect(i) ==
    /\ h[i].pc = "target"
    /\ \/ Kick(i, "gamekick")
       \/ /\ Goto(i, [h[i] EXCEPT !.pc = "upwait", !.upc = "open", !.told = IdentityOf(i)])
          /\ UNCHANGED <<c, down, online, rows>>
    /\ UNCHANGED up

\* The upstream accepts the player; or it refuses it, closes, or sends what
\* ParsePackets does not expect.
UpstreamAnswers(i) ==
    /\ h[i].pc = "upwait"
    /\ \/ Kick(i, "gamekick")
       \/ /\ Goto(i, [h[i] EXCEPT !.pc = "register"])
          /\ UNCHANGED <<c, down, online, rows>>
    /\ UNCHANGED up

Key(i) == ToLower[h[i].nick]

\* Mutant of Register: a player who is registered already is replaced.
RegisterOver(i) ==
    /\ h[i].pc = "register"
    /\ online' = [online EXCEPT ![Key(i)] = i]
    /\ Goto(i, [h[i] EXCEPT !.pc = "play", !.played = TRUE])
    /\ UNCHANGED <<c, up, down, rows>>

Register(i) ==
    /\ h[i].pc = "register"
    /\ \/ online[Key(i)] # None /\ Kick(i, "gamekick")
       \/ /\ online[Key(i)] = None
          /\ online' = [online EXCEPT ![Key(i)] = i]
          /\ Goto(i, [h[i] EXCEPT !.pc = "play", !.played = TRUE])
          /\ UNCHANGED <<c, down, rows>>
    /\ UNCHANGED up

\* The session reads a packet of the client's, or ends for one of its reasons,
\* the client's leaving among them; Players.Unregister is deferred.
Play(i) ==
    /\ h[i].pc = "play"
    /\ up[i] # <<>> /\ Head(up[i]).f = h[i].r
    /\ up' = [up EXCEPT ![i] = Tail(@)]
    /\ UNCHANGED <<h, c, down, online, rows>>

PlayEnds(i) ==
    /\ h[i].pc = "play"
    /\ online' = [online EXCEPT ![Key(i)] = None]
    /\ Goto(i, [h[i] EXCEPT !.pc = "close", !.garbled = Garbled(i)])
    /\ UNCHANGED <<c, up, down, rows>>

\* The close hooks: each is an UPDATE of the login's row, whose error is only
\* logged.
CloseHooks(i) ==
    \/ h[i].hooks = 0 /\ UNCHANGED rows
    \/ /\ h[i].hooks > 0
       /\ \E n \in 0 .. h[i].hooks :
             rows' = [rows EXCEPT ![i].ends = @ + n, ![i].refused = @ + h[i].hooks - n]

\* Mutant of Close: a handler that was never in PLAY runs no close hooks.
CloseUnlogged(i) ==
    /\ h[i].pc = "close"
    /\ IF h[i].played THEN CloseHooks(i) ELSE UNCHANGED rows
    /\ Goto(i, [h[i] EXCEPT !.pc = "closed", !.upc = IF @ = "open" THEN "closed" ELSE @])
    /\ UNCHANGED <<c, up, down, online>>

\* The end of Handle: both connections are closed, then the close hooks run.
Close(i) ==
    /\ h[i].pc = "close"
    /\ CloseHooks(i)
    /\ Goto(i, [h[i] EXCEPT !.pc = "closed", !.upc = IF @ = "open" THEN "closed" ELSE @])
    /\ UNCHANGED <<c, up, down, online>>

\* The steps a handler takes by itself, or with what its client has sent.
OwnStep(i) ==
    \/ Handshake(i) \/ Status(i) \/ Ping(i) \/ LoginStart(i)
    \/ ReadFailsAt(i, "handshake", "handshake") \/ ReadFailsAt(i, "request", "request")
    \/ ReadFailsAt(i, "ping", "ping") \/ ReadFailsAt(i, "start", "start")
    \/ Compress(i) \/ PreLogin(i) \/ KeyRequest(i) \/ KeyResponse(i) \/ KeyResponseFails(i)
    \/ HasJoined(i) \/ LoginHandler(i) \/ TrackPlayerLogin(i) \/ LoginSuccess(i)
    \/ Connect(i) \/ Register(i) \/ Play(i) \/ Close(i)

HandlerStep(i) == OwnStep(i) \/ UpstreamAnswers(i) \/ PlayEnds(i)

Next == \E i \in Handlers : ClientStep(i) \/ HandlerStep(i)

\* Every handler runs in a goroutine of its own, which is scheduled again and
\* again, and its hooks and the session server (ten seconds) return.  Nothing is
\* asked of the clients, nor of the upstreams, whose answer connectUpstream awaits
\* without a deadline, nor of the session in PLAY, which is module Session's matter.
Fairness == \A i \in Handlers : WF_vars(OwnStep(i))

Spec == Init /\ [][Next]_vars /\ Fairness

-----------------------------------------------------------------------------
TypeOK ==
    /\ h \in [Handlers -> Handler]
    /\ c \in [Handlers -> Client]
    /\ online \in [Nicknames -> Handlers \cup {None}]
    /\ rows \in [Handlers -> Row \cup {None}]

\* Whatever the handler sends, kicks included, reaches a client that keeps to
\* the protocol in the framing, the cipher and the protocol state that client is
\* in when it reads it; and the handler reads what the client writes in the
\* framing it was written in.  (A wrong token ends the exchange with the client's
\* cipher on and the handler's off.)
Understood == \A i \in Handlers : c[i].honest => ~c[i].garbled /\ ~h[i].garbled

\* Nobody is dropped without a word: a handler that ended before PLAY, while its
\* client was there and waiting for an answer to its login, has sent it a kick.
KickTold ==
    \A i \in Handlers :
        h[i].pc = "closed" /\ ~h[i].played /\ c[i].st \in {"waiting", "play"} =>
            down[i] # <<>> /\ down[i][Len(down[i])].kind \in {"loginkick", "gamekick"}

\* Client, upstream server, player registry and login table all know a player
\* under one identity: the session server's answer, or, offline, the nickname the
\* client gave with the UUID made from it.  It is a real one (TypeOK) even where
\* LoginHandler is called although authentication failed.
OneIdentity ==
    /\ TypeOK
    /\ \A i \in Handlers :
           LET named == {c[i].name, h[i].told} \cup (IF rows[i] = None THEN {} ELSE {rows[i].id})
               right == IF h[i].auth THEN h[i].joined
                        ELSE [nick |-> h[i].nick, uuid |-> OfflineUUID[h[i].nick]]
           IN  \A id \in named \ {None} : id = right

\* Only a player whose account was confirmed, or one logged in offline, is told
\* that the login succeeded; and of two logins at the same time, of one player or
\* under names that differ in their case only, whatever LoginHandler saw, only one
\* reaches PLAY, though Register compares names and LoginHandler UUIDs.
OneLogin ==
    \A i \in Handlers : h[i].pc = "play" =>
        /\ h[i].err # "failed"
        /\ \A j \in Handlers \ {i} :
              h[j].pc = "play" => h[j].uuid # h[i].uuid /\ Key(j) # Key(i)

\* On every way out of Handle the upstream connection is closed, the player is
\* not registered and the end of the login's row, if there is one, is asked for
\* exactly once.  If the database refuses that one UPDATE the row stays open for
\* ever, for nothing tries again.
Released ==
    \A i \in Handlers : h[i].pc = "closed" =>
        /\ h[i].upc # "open"
        /\ \A n \in Nicknames : online[n] # i
        /\ rows[i] # None => rows[i].ends + rows[i].refused = 1

\* Waiting for an upstream's answer, or in PLAY.
Waiting(i) == h[i].pc \in {"upwait", "play"}

\* A handler whose client has left comes to its end wherever the login was, or to
\* a wait for the upstream or for the end of the session in PLAY, and from each of
\* these, once it is over, on to the next or to its end: no read from the client,
\* and no error path on the way, holds it.
LoginEnds == \A i \in Handlers : c[i].st = "gone" ~> (h[i].pc = "closed" \/ Waiting(i))
=============================================================================
