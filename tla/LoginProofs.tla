---------------------------- MODULE LoginProofs -----------------------------
(***************************************************************************)
(* Proofs about Login: first what every handler knows of its player and    *)
(* what it leaves behind (OneIdentity, OneLogin, Released), then what the  *)
(* two ends of a connection make of each other's packets (Understood,      *)
(* KickTold).  A step of one handler or client changes only its own        *)
(* connection's part of the state, and one place of online.                *)
(***************************************************************************)
EXTENDS Login, TLAPS

\* What a client writes, and what a handler writes.
Request ==
    [kind : {"handshake"}, arg : {"status", "login", "badversion", "other"}, f : Framing]
    \cup [kind : {"start"}, arg : Nicknames, f : Framing]
    \cup [kind : {"keyresp"}, arg : BOOLEAN, f : Framing]
    \cup [kind : {"request", "ping", "play"}, arg : {None}, f : Framing]
Reply ==
    [kind : {"success"}, arg : Identity, f : Framing]
    \cup [kind : {"loginkick", "gamekick", "compression", "keyreq", "response", "pong"},
          arg : {None}, f : Framing]

Typed ==
    /\ TypeOK
    /\ up \in [Handlers -> Seq(Request)]
    /\ down \in [Handlers -> Seq(Reply)]

-----------------------------------------------------------------------------
(* The shape of the state.                                                 *)

\* The shape of the initial state.
LEMMA InitTyped == Init => Typed
<1> SUFFICES ASSUME Init PROVE Typed
  OBVIOUS
<1>1. NewHandler \in Handler /\ NewClient \in Client
  BY DEF NewHandler, NewClient, Handler, Client, Framing, Plain
<1>2. QED BY <1>1 DEF Init, Typed, TypeOK

\* The handler of one connection becomes another.
LEMMA GotoTyped ==
    ASSUME Typed, NEW i \in Handlers, NEW g \in Handler, Goto(i, g)
    PROVE  h' \in [Handlers -> Handler]
BY DEF Goto, Typed, TypeOK

\* A packet is appended to what the client has still to read.
LEMMA WriteTyped ==
    ASSUME Typed, NEW i \in Handlers, NEW k, NEW a, Write(i, k, a),
           \/ k = "success" /\ a \in Identity
           \/ k \in {"loginkick", "gamekick", "compression", "keyreq", "response", "pong"} /\ a = None
    PROVE  down' \in [Handlers -> Seq(Reply)]
<1>1. h[i].w \in Framing
  BY DEF Typed, TypeOK, Handler
<1>2. [kind |-> k, arg |-> a, f |-> h[i].w] \in Reply
  BY <1>1 DEF Reply
<1>3. QED BY <1>2 DEF Write, Typed

\* A kick ends the handler, whatever becomes of the packet.
LEMMA KickTyped ==
    ASSUME Typed, NEW i \in Handlers, NEW k \in {"loginkick", "gamekick"}, Kick(i, k)
    PROVE  /\ h' = [h EXCEPT ![i] = [h[i] EXCEPT !.pc = "close"]]
           /\ h' \in [Handlers -> Handler] /\ down' \in [Handlers -> Seq(Reply)]
           /\ c' = c /\ online' = online /\ rows' = rows
<1>0. h[i] \in Handler
  BY DEF Typed, TypeOK
<1>1. [h[i] EXCEPT !.pc = "close"] \in Handler
  BY <1>0 DEF Handler
<1>2. h' \in [Handlers -> Handler]
  BY <1>1, GotoTyped DEF Kick
<1>3. down' \in [Handlers -> Seq(Reply)]
  BY WriteTyped DEF Kick, WriteFails, Typed
<1>4. QED BY <1>2, <1>3 DEF Kick, Goto

\* What is read leaves the connection.
LEMMA ReadTyped ==
    ASSUME Typed, NEW i \in Handlers, NEW k, Reads(i, k, Head(up[i])) \/ ReadFails(i, k)
    PROVE  up' \in [Handlers -> Seq(Request)]
<1>1. up[i] \in Seq(Request) /\ up \in [Handlers -> Seq(Request)]
  BY DEF Typed
<1>2. up[i] # <<>> => Tail(up[i]) \in Seq(Request)
  BY <1>1
<1>3. \/ up' = up
      \/ up[i] # <<>> /\ up' = [up EXCEPT ![i] = Tail(up[i])]
  BY DEF Reads, ReadFails
<1>4. QED BY <1>1, <1>2, <1>3

\* What a handler reads is a request.
LEMMA HeadTyped ==
    ASSUME Typed, NEW i \in Handlers, up[i] # <<>>
    PROVE  Head(up[i]) \in Request
BY DEF Typed

\* So is what a client sends.
LEMMA ClientSendsTyped ==
    ASSUME Typed, NEW i \in Handlers, NEW k, NEW a, NEW cl \in Client, ClientSends(i, k, a, cl),
           \/ k = "handshake" /\ a \in {"status", "login", "badversion", "other"}
           \/ k = "start" /\ a \in Nicknames
           \/ k = "keyresp" /\ a \in BOOLEAN
           \/ k \in {"request", "ping", "play"} /\ a = None
    PROVE  /\ up' \in [Handlers -> Seq(Request)] /\ c' \in [Handlers -> Client]
           /\ h' = h /\ online' = online /\ rows' = rows
<1>1. c[i].f \in Framing
  BY DEF Typed, TypeOK, Client
<1>2. [kind |-> k, arg |-> a, f |-> c[i].f] \in Request
  BY <1>1 DEF Request
<1>3. QED BY <1>2 DEF ClientSends, Typed, TypeOK

-----------------------------------------------------------------------------
(* What a handler knows of its player.                                     *)

Early == {"handshake", "request", "ping", "start"}
Checked == {"compress", "prelogin", "keyreq", "keyresp", "joined"}
Accepted == {"track", "success", "target", "upwait", "register", "play"}
Named == {"success", "target", "upwait", "register", "play", "close", "closed"}

\* Who the player of handler i is, once that is known.
Right(i) == IF h[i].auth THEN h[i].joined
            ELSE [nick |-> h[i].nick, uuid |-> OfflineUUID[h[i].nick]]

\* Until the identity is settled nothing has failed and the Authenticator is
\* there; from then on it is the confirmed one.
Settled(i) ==
    /\ h[i].pc \in Early \cup Checked => h[i].auth /\ h[i].err = "nil"
    /\ h[i].pc \in Checked => h[i].nick \in Nicknames
    /\ h[i].pc \in Accepted => h[i].err # "failed"
    /\ h[i].pc \in Accepted \/ (h[i].pc = "login" /\ h[i].err # "failed") =>
           /\ Right(i) \in Identity /\ IdentityOf(i) = Right(i)
           /\ h[i].auth => Right(i) \in Answers

\* What others have been told of the player.
Recorded(i) ==
    /\ h[i].hooks = IF rows[i] = None THEN 0 ELSE 1
    /\ rows[i] # None =>
           /\ h[i].pc \in Named
           /\ rows[i].id = Right(i)
           /\ rows[i].ends + rows[i].refused = IF h[i].pc = "closed" THEN 1 ELSE 0
    /\ h[i].told # None => h[i].pc \in Named /\ h[i].told = Right(i)
    /\ c[i].name # None => h[i].pc \in Named /\ c[i].name = Right(i)
    /\ \A k \in DOMAIN down[i] :
           down[i][k].kind = "success" => h[i].pc \in Named /\ down[i][k].arg = Right(i)
    /\ h[i].pc = "closed" => h[i].upc # "open"

\* Players holds the handlers in PLAY, each under its own name.
Registered ==
    /\ \A i \in Handlers : h[i].pc = "play" => h[i].nick \in Nicknames /\ online[Key(i)] = i
    /\ \A n \in Nicknames : online[n] # None =>
           /\ h[online[n]].pc = "play"
           /\ h[online[n]].nick \in Nicknames
           /\ Key(online[n]) = n

Known == Typed /\ Registered /\ \A i \in Handlers : Settled(i) /\ Recorded(i)

\* Nothing is known, or told, of anybody at first.
LEMMA InitKnown == Init => Known
<1> SUFFICES ASSUME Init PROVE Known
  OBVIOUS
<1>1. Typed
  BY InitTyped
<1>2. \A i \in Handlers : Settled(i) /\ Recorded(i)
  <2> TAKE i \in Handlers
  <2>1. h[i] = NewHandler /\ c[i] = NewClient /\ down[i] = <<>> /\ rows[i] = None
    BY DEF Init
  <2>2. Settled(i)
    BY <2>1 DEF NewHandler, Settled, Early, Checked, Accepted
  <2>3. Recorded(i)
    BY <2>1 DEF NewHandler, NewClient, Recorded
  <2>4. QED BY <2>2, <2>3
<1>3. Registered
  BY DEF Init, NewHandler, Registered
<1>4. QED BY <1>1, <1>2, <1>3 DEF Known

\* Settled says who the player is as soon as somebody asks.
LEMMA IdentityTyped ==
    ASSUME Known, NEW i \in Handlers, h[i].pc \in Accepted
    PROVE  IdentityOf(i) \in Identity /\ h[i].nick \in Nicknames /\ IdentityOf(i) # None
<1>1. IdentityOf(i) \in Identity
  BY DEF Known, Settled
<1>2. QED BY <1>1, NamesAssumption DEF IdentityOf, Identity

\* A step of one connection keeps the shape of the state.
LEMMA ClientStepTyped ==
    ASSUME Typed, NEW i \in Handlers, ClientStep(i)
    PROVE  Typed' /\ h' = h /\ online' = online /\ rows' = rows
<1>0. c[i] \in Client /\ c[i].f \in Framing /\ down[i] \in Seq(Reply)
  BY DEF Typed, TypeOK, Client
<1>1. ASSUME NEW next \in {"status", "login", "badversion", "other"}, ClientHandshake(i, next)
      PROVE  Typed' /\ h' = h /\ online' = online /\ rows' = rows
  <2>1. [c[i] EXCEPT !.st = IF next \in {"login", "badversion"} THEN "login" ELSE "status"] \in Client
    BY <1>0 DEF Client
  <2>2. QED BY <1>1, <2>1, ClientSendsTyped DEF ClientHandshake, Typed, TypeOK
<1>2. ASSUME NEW n \in Nicknames, ClientLoginStart(i, n)
      PROVE  Typed' /\ h' = h /\ online' = online /\ rows' = rows
  <2>1. [c[i] EXCEPT !.st = "waiting"] \in Client
    BY <1>0 DEF Client
  <2>2. QED BY <1>2, <2>1, ClientSendsTyped DEF ClientLoginStart, Typed, TypeOK
<1>3. CASE ClientRequest(i)
  <2>1. [c[i] EXCEPT !.st = "pinging"] \in Client
    BY <1>0 DEF Client
  <2>2. QED BY <1>3, <2>1, ClientSendsTyped DEF ClientRequest, Typed, TypeOK
<1>4. CASE ClientPlays(i)
  BY <1>0, <1>4, ClientSendsTyped DEF ClientPlays, Typed, TypeOK
<1>5. CASE ClientLeaves(i)
  <2>1. [c[i] EXCEPT !.st = "gone"] \in Client
    BY <1>0 DEF Client
  <2>2. QED BY <1>5, <2>1 DEF ClientLeaves, Typed, TypeOK
<1>6. ASSUME NEW good \in BOOLEAN, ClientReceives(i, good)
      PROVE  Typed' /\ h' = h /\ online' = online /\ rows' = rows
  <2> DEFINE p == Head(down[i])
  <2>1. p \in Reply /\ Tail(down[i]) \in Seq(Reply) /\ down' = [down EXCEPT ![i] = Tail(@)]
    BY <1>0, <1>6 DEF ClientReceives
  <2>2. down' \in [Handlers -> Seq(Reply)]
    BY <2>1 DEF Typed
  <2>3. /\ [c[i] EXCEPT !.garbled = TRUE, !.st = "gone"] \in Client
        /\ [c[i] EXCEPT !.f = [@ EXCEPT !.comp = TRUE]] \in Client
        /\ [c[i] EXCEPT !.f = [@ EXCEPT !.enc = TRUE], !.honest = good] \in Client
        /\ [c[i] EXCEPT !.st = "gone", !.kicked = p.kind # "pong"] \in Client
    BY <1>0, Zenon DEF Client, Framing
  <2>4. p.kind = "success" => [c[i] EXCEPT !.st = "play", !.name = p.arg] \in Client
    BY <1>0, <2>1 DEF Client, Reply
  <2>5. CASE p.f # c[i].f \/ p.kind \notin Expected(c[i].st)
    BY <1>6, <2>2, <2>3, <2>5 DEF ClientReceives, Typed, TypeOK
  <2>6. CASE p.kind = "keyreq"
    <3> DEFINE cl == [c[i] EXCEPT !.f = [@ EXCEPT !.enc = TRUE], !.honest = good]
    <3>1. CASE ClientSends(i, "keyresp", good, cl)
      BY <2>2, <2>3, <3>1, ClientSendsTyped DEF Typed, TypeOK
    <3>2. QED BY <1>6, <2>2, <2>3, <2>5, <2>6, <3>1 DEF ClientReceives
  <2>7. CASE p.kind = "response"
    <3>1. CASE ClientSends(i, "ping", None, c[i])
      BY <1>0, <2>2, <3>1, ClientSendsTyped DEF Typed, TypeOK
    <3>2. QED BY <1>6, <2>2, <2>3, <2>5, <2>7, <3>1 DEF ClientReceives
  <2>8. CASE p.kind \notin {"keyreq", "response"} /\ p.f = c[i].f /\ p.kind \in Expected(c[i].st)
    <3>1. /\ c' \in [Handlers -> Client]
          /\ h' = h /\ up' = up /\ online' = online /\ rows' = rows
      <4>1. CASE p.kind = "compression"
        <5>1. /\ c' = [c EXCEPT ![i] = [c[i] EXCEPT !.f = [c[i].f EXCEPT !.comp = TRUE]]]
              /\ UNCHANGED <<h, up, online, rows>>
          BY <1>6, <2>8, <4>1 DEF ClientReceives, Typed, TypeOK
        <5>2. QED BY <2>3, <5>1 DEF Typed, TypeOK
      <4>2. CASE p.kind = "success"
        BY <1>6, <2>4, <2>8, <4>2 DEF ClientReceives, Typed, TypeOK
      <4>3. CASE p.kind \notin {"compression", "success"}
        BY <1>6, <2>3, <2>8, <4>3 DEF ClientReceives, Typed, TypeOK
      <4>4. QED BY <4>1, <4>2, <4>3
    <3>2. QED BY <2>2, <3>1 DEF Typed, TypeOK
  <2>9. QED BY <2>5, <2>6, <2>7, <2>8
<1>7. QED BY <1>1, <1>2, <1>3, <1>4, <1>5, <1>6 DEF ClientStep

\* The close hooks change nothing of a row but what they count, and count each
\* hook once.
LEMMA RowCounted ==
    ASSUME NEW r \in Row, NEW k \in Nat, NEW n \in 0 .. k
    PROVE  LET s == [r EXCEPT !.ends = @ + n, !.refused = @ + k - n]
           IN  s \in Row /\ s.id = r.id /\ s.ends + s.refused = r.ends + r.refused + k
<1> DEFINE a == r.ends + n
           b == r.refused + k - n
<1>1. r.ends \in Nat /\ r.refused \in Nat
  BY DEF Row
<1>2. a \in Nat /\ b \in Nat /\ a + b = r.ends + r.refused + k
  BY <1>1
<1> HIDE DEF a, b
<1>3. LET s == [r EXCEPT !.ends = a, !.refused = b]
      IN  s \in Row /\ s.id = r.id /\ s.ends = a /\ s.refused = b
  BY <1>2 DEF Row
<1>4. QED BY <1>2, <1>3 DEF a, b

\* A step of the handler keeps the types, too: it knows who its player is when it says so.
LEMMA HandlerStepTyped ==
    ASSUME Known, NEW i \in Handlers, HandlerStep(i)
    PROVE  Typed' /\ c' = c
<1>0. /\ Typed /\ h[i] \in Handler /\ h[i].r \in Framing /\ h[i].w \in Framing
      /\ up[i] # <<>> => Head(up[i]) \in Request
  BY HeadTyped DEF Known, Typed, TypeOK, Handler
<1>1. CASE Handshake(i)
  <2>1. up' \in [Handlers -> Seq(Request)]
    BY <1>0, <1>1, ReadTyped DEF Handshake
  <2>2. CASE Kick(i, "loginkick")
    BY <1>0, <2>1, <2>2, KickTyped DEF Typed, TypeOK
  <2>3. CASE UNCHANGED <<c, down, online, rows>>
    <3>1. \A pc \in {"request", "start", "close"} : [h[i] EXCEPT !.pc = pc] \in Handler
      BY <1>0 DEF Handler
    <3>2. \E pc \in {"request", "start", "close"} : Goto(i, [h[i] EXCEPT !.pc = pc])
           \/ Kick(i, "loginkick")
      BY <1>1 DEF Handshake
    <3>3. h' \in [Handlers -> Handler]
      BY <1>0, <3>1, <3>2, GotoTyped, KickTyped
    <3>4. QED BY <1>0, <2>1, <2>3, <3>3 DEF Typed, TypeOK
  <2>4. QED BY <1>1, <2>2, <2>3 DEF Handshake
<1>2. CASE Status(i)
  <2>1. [h[i] EXCEPT !.pc = "ping"] \in Handler /\ [h[i] EXCEPT !.pc = "close"] \in Handler
    BY <1>0 DEF Handler
  <2>2. up' \in [Handlers -> Seq(Request)]
    BY <1>0, <1>2, ReadTyped DEF Status
  <2>3. down' \in [Handlers -> Seq(Reply)]
    BY <1>0, <1>2, WriteTyped DEF Status, WriteFails, Typed
  <2>4. h' \in [Handlers -> Handler]
    BY <1>0, <1>2, <2>1, GotoTyped DEF Status
  <2>5. QED BY <1>0, <1>2, <2>2, <2>3, <2>4 DEF Status, Typed, TypeOK
<1>3. CASE Ping(i)
  <2>1. [h[i] EXCEPT !.pc = "close"] \in Handler
    BY <1>0 DEF Handler
  <2>2. up' \in [Handlers -> Seq(Request)]
    BY <1>0, <1>3, ReadTyped DEF Ping
  <2>3. down' \in [Handlers -> Seq(Reply)]
    BY <1>0, <1>3, WriteTyped DEF Ping, WriteFails, Typed
  <2>4. h' \in [Handlers -> Handler]
    BY <1>0, <1>3, <2>1, GotoTyped DEF Ping
  <2>5. QED BY <1>0, <1>3, <2>2, <2>3, <2>4 DEF Ping, Typed, TypeOK
<1>4. CASE LoginStart(i)
  <2>1. up' \in [Handlers -> Seq(Request)]
    BY <1>0, <1>4, ReadTyped DEF LoginStart
  <2>2. CASE Kick(i, "loginkick")
    BY <1>0, <2>1, <2>2, KickTyped DEF Typed, TypeOK
  <2>3. CASE /\ Goto(i, [h[i] EXCEPT !.pc = "compress", !.nick = Head(up[i]).arg])
             /\ UNCHANGED <<c, down, online, rows>>
    <3>1. Head(up[i]).arg \in Nicknames
      BY <1>0, <1>4 DEF LoginStart, Reads, Request
    <3>2. [h[i] EXCEPT !.pc = "compress", !.nick = Head(up[i]).arg] \in Handler
      BY <1>0, <3>1 DEF Handler
    <3>3. QED BY <1>0, <2>1, <2>3, <3>2, GotoTyped DEF Typed, TypeOK
  <2>4. QED BY <1>4, <2>2, <2>3 DEF LoginStart
<1>5. ASSUME NEW pc, NEW k, ReadFailsAt(i, pc, k)
      PROVE  Typed' /\ c' = c
  <2>1. up' \in [Handlers -> Seq(Request)]
    BY <1>0, <1>5, ReadTyped DEF ReadFailsAt
  <2>2. Garbled(i) \in BOOLEAN
    BY <1>0, Zenon DEF Garbled, Handler
  <2>3. [h[i] EXCEPT !.pc = "close", !.garbled = Garbled(i)] \in Handler
    BY <1>0, <2>2 DEF Handler
  <2>4. QED BY <1>0, <1>5, <2>1, <2>3, GotoTyped DEF ReadFailsAt, Typed, TypeOK
<1>6. CASE Compress(i)
  <2>1. /\ [h[i] EXCEPT !.pc = "prelogin", !.r = [@ EXCEPT !.comp = TRUE],
                        !.w = [@ EXCEPT !.comp = TRUE]] \in Handler
        /\ [h[i] EXCEPT !.pc = "close"] \in Handler
    BY <1>0 DEF Handler, Framing
  <2>2. down' \in [Handlers -> Seq(Reply)]
    BY <1>0, <1>6, WriteTyped DEF Compress, WriteFails, Typed
  <2>3. h' \in [Handlers -> Handler]
    BY <1>0, <1>6, <2>1, GotoTyped DEF Compress
  <2>4. QED BY <1>0, <1>6, <2>2, <2>3 DEF Compress, Typed, TypeOK
<1>7. CASE PreLogin(i)
  <2>1. CASE Kick(i, "loginkick")
    BY <1>0, <1>7, <2>1, KickTyped DEF PreLogin, Typed, TypeOK
  <2>2. CASE Goto(i, [h[i] EXCEPT !.pc = "keyreq"]) /\ UNCHANGED <<c, down, online, rows>>
    <3>1. [h[i] EXCEPT !.pc = "keyreq"] \in Handler
      BY <1>0 DEF Handler
    <3>2. QED BY <1>0, <1>7, <2>2, <3>1, GotoTyped DEF PreLogin, Typed, TypeOK
  <2>3. CASE /\ Goto(i, [h[i] EXCEPT !.pc = "login", !.auth = FALSE, !.err = "unauthenticated",
                                     !.uuid = OfflineUUID[h[i].nick]])
             /\ UNCHANGED <<c, down, online, rows>>
    <3>1. OfflineUUID[h[i].nick] \in UUIDs
      BY <1>7, NamesAssumption DEF PreLogin, Known, Settled, Checked
    <3>2. [h[i] EXCEPT !.pc = "login", !.auth = FALSE, !.err = "unauthenticated",
                       !.uuid = OfflineUUID[h[i].nick]] \in Handler
      BY <1>0, <3>1 DEF Handler
    <3>3. QED BY <1>0, <1>7, <2>3, <3>2, GotoTyped DEF PreLogin, Typed, TypeOK
  <2>4. QED BY <1>7, <2>1, <2>2, <2>3 DEF PreLogin
<1>8. CASE KeyRequest(i)
  <2>1. /\ [h[i] EXCEPT !.pc = "keyresp"] \in Handler
        /\ [h[i] EXCEPT !.pc = "login", !.err = "failed"] \in Handler
    BY <1>0 DEF Handler
  <2>2. down' \in [Handlers -> Seq(Reply)]
    BY <1>0, <1>8, WriteTyped DEF KeyRequest, WriteFails, Typed
  <2>3. h' \in [Handlers -> Handler]
    BY <1>0, <1>8, <2>1, GotoTyped DEF KeyRequest
  <2>4. QED BY <1>0, <1>8, <2>2, <2>3 DEF KeyRequest, Typed, TypeOK
<1>9. CASE KeyResponse(i)
  <2>1. /\ [h[i] EXCEPT !.pc = "joined", !.r = [@ EXCEPT !.enc = TRUE],
                        !.w = [@ EXCEPT !.enc = TRUE], !.buf = TRUE] \in Handler
        /\ [h[i] EXCEPT !.pc = "login", !.err = "failed"] \in Handler
    BY <1>0 DEF Handler, Framing
  <2>2. up' \in [Handlers -> Seq(Request)]
    BY <1>0, <1>9, ReadTyped DEF KeyResponse
  <2>3. h' \in [Handlers -> Handler]
    BY <1>0, <1>9, <2>1, GotoTyped DEF KeyResponse
  <2>4. QED BY <1>0, <1>9, <2>2, <2>3 DEF KeyResponse, Typed, TypeOK
<1>10. CASE KeyResponseFails(i)
  <2>1. up' \in [Handlers -> Seq(Request)]
    BY <1>0, <1>10, ReadTyped DEF KeyResponseFails
  <2>2. Garbled(i) \in BOOLEAN
    BY <1>0, Zenon DEF Garbled, Handler
  <2>3. [h[i] EXCEPT !.pc = "login", !.err = "failed", !.garbled = Garbled(i)] \in Handler
    BY <1>0, <2>2 DEF Handler
  <2>4. QED BY <1>0, <1>10, <2>1, <2>3, GotoTyped DEF KeyResponseFails, Typed, TypeOK
<1>11. CASE HasJoined(i)
  <2>1. [h[i] EXCEPT !.pc = "login", !.err = "failed"] \in Handler
    BY <1>0 DEF Handler
  <2>2. ASSUME NEW a \in Answers
        PROVE  [h[i] EXCEPT !.pc = "login", !.nick = a.nick, !.uuid = a.uuid, !.joined = a]
                   \in Handler
    BY <1>0, NamesAssumption DEF Handler, Identity
  <2>3. h' \in [Handlers -> Handler]
    BY <1>0, <1>11, <2>1, <2>2, GotoTyped DEF HasJoined
  <2>4. QED BY <1>0, <1>11, <2>3 DEF HasJoined, Typed, TypeOK
<1>12. CASE LoginHandler(i)
  <2>1. CASE Kick(i, "loginkick")
    BY <1>0, <1>12, <2>1, KickTyped DEF LoginHandler, Typed, TypeOK
  <2>2. CASE Goto(i, [h[i] EXCEPT !.pc = "track"]) /\ UNCHANGED <<c, down, online, rows>>
    <3>1. [h[i] EXCEPT !.pc = "track"] \in Handler
      BY <1>0 DEF Handler
    <3>2. QED BY <1>0, <1>12, <2>2, <3>1, GotoTyped DEF LoginHandler, Typed, TypeOK
  <2>3. QED BY <1>12, <2>1, <2>2 DEF LoginHandler
<1>13. CASE TrackPlayerLogin(i)
  <2>1. CASE Kick(i, "loginkick")
    BY <1>0, <1>13, <2>1, KickTyped DEF TrackPlayerLogin, Typed, TypeOK
  <2>2. CASE /\ rows' = [rows EXCEPT ![i] = [id |-> IdentityOf(i), ends |-> 0, refused |-> 0]]
             /\ Goto(i, [h[i] EXCEPT !.pc = "success", !.hooks = @ + 1])
             /\ UNCHANGED <<c, down, online>>
    <3>1. [h[i] EXCEPT !.pc = "success", !.hooks = @ + 1] \in Handler
      <4>1. h[i].hooks \in Nat /\ h[i].hooks + 1 \in Nat
        BY <1>0 DEF Handler
      <4>2. QED BY <1>0, <4>1 DEF Handler
    <3>2. [id |-> IdentityOf(i), ends |-> 0, refused |-> 0] \in Row
      BY <1>13, IdentityTyped DEF TrackPlayerLogin, Accepted, Row
    <3>3. QED BY <1>0, <1>13, <2>2, <3>1, <3>2, GotoTyped DEF TrackPlayerLogin, Typed, TypeOK
  <2>3. QED BY <1>13, <2>1, <2>2 DEF TrackPlayerLogin
<1>14. CASE LoginSuccess(i)
  <2>1. [h[i] EXCEPT !.pc = "target"] \in Handler /\ [h[i] EXCEPT !.pc = "close"] \in Handler
    BY <1>0 DEF Handler
  <2>2. IdentityOf(i) \in Identity
    BY <1>14, IdentityTyped DEF LoginSuccess, Accepted
  <2>3. down' \in [Handlers -> Seq(Reply)]
    BY <1>0, <1>14, <2>2, WriteTyped DEF LoginSuccess, WriteFails, Typed
  <2>4. h' \in [Handlers -> Handler]
    BY <1>0, <1>14, <2>1, GotoTyped DEF LoginSuccess
  <2>5. QED BY <1>0, <1>14, <2>3, <2>4 DEF LoginSuccess, Typed, TypeOK
<1>15. CASE Connect(i)
  <2>1. CASE Kick(i, "gamekick")
    BY <1>0, <1>15, <2>1, KickTyped DEF Connect, Typed, TypeOK
  <2>2. IdentityOf(i) \in Identity
    BY <1>15, IdentityTyped DEF Connect, Accepted
  <2>3. [h[i] EXCEPT !.pc = "upwait", !.upc = "open", !.told = IdentityOf(i)] \in Handler
    BY <1>0, <2>2 DEF Handler
  <2>4. CASE ~Kick(i, "gamekick")
    <3>1. h' \in [Handlers -> Handler]
      BY <1>0, <1>15, <2>3, <2>4, GotoTyped DEF Connect
    <3>2. QED BY <1>0, <1>15, <2>4, <3>1 DEF Connect, Typed, TypeOK
  <2>5. QED BY <2>1, <2>4
<1>16. CASE UpstreamAnswers(i)
  <2>1. CASE Kick(i, "gamekick")
    BY <1>0, <1>16, <2>1, KickTyped DEF UpstreamAnswers, Typed, TypeOK
  <2>2. CASE Goto(i, [h[i] EXCEPT !.pc = "register"]) /\ UNCHANGED <<c, down, online, rows>>
    <3>1. [h[i] EXCEPT !.pc = "register"] \in Handler
      BY <1>0 DEF Handler
    <3>2. QED BY <1>0, <1>16, <2>2, <3>1, GotoTyped DEF UpstreamAnswers, Typed, TypeOK
  <2>3. QED BY <1>16, <2>1, <2>2 DEF UpstreamAnswers
<1>17. CASE Register(i)
  <2>1. CASE Kick(i, "gamekick")
    BY <1>0, <1>17, <2>1, KickTyped DEF Register, Typed, TypeOK
  <2>2. CASE /\ online' = [online EXCEPT ![Key(i)] = i]
             /\ Goto(i, [h[i] EXCEPT !.pc = "play", !.played = TRUE])
             /\ UNCHANGED <<c, down, rows>>
    <3>1. [h[i] EXCEPT !.pc = "play", !.played = TRUE] \in Handler
      BY <1>0 DEF Handler
    <3>2. QED BY <1>0, <1>17, <2>2, <3>1, GotoTyped DEF Register, Typed, TypeOK
  <2>3. QED BY <1>17, <2>1, <2>2 DEF Register
<1>18. CASE Play(i)
  BY <1>0, <1>18 DEF Play, Typed, TypeOK
<1>19. CASE PlayEnds(i)
  <2>1. Garbled(i) \in BOOLEAN
    BY <1>0, Zenon DEF Garbled, Handler
  <2>2. [h[i] EXCEPT !.pc = "close", !.garbled = Garbled(i)] \in Handler
    BY <1>0, <2>1 DEF Handler
  <2>3. QED BY <1>0, <1>19, <2>2, GotoTyped DEF PlayEnds, Typed, TypeOK
<1>20. CASE Close(i)
  <2>1. [h[i] EXCEPT !.pc = "closed", !.upc = IF @ = "open" THEN "closed" ELSE @] \in Handler
    <3> DEFINE u == IF h[i].upc = "open" THEN "closed" ELSE h[i].upc
    <3>1. u \in {"nil", "open", "closed"}
      BY <1>0 DEF Handler
    <3> HIDE DEF u
    <3>2. [h[i] EXCEPT !.pc = "closed", !.upc = u] \in Handler
      BY <1>0, <3>1 DEF Handler
    <3>3. QED BY <3>2 DEF u
  <2>2. h[i].hooks \in Nat
    BY <1>0 DEF Handler
  <2>3. CASE h[i].hooks > 0
    <3>1. rows[i] \in Row
      BY <1>0, <2>3 DEF Known, Recorded, Typed, TypeOK
    <3>2. PICK n \in 0 .. h[i].hooks :
             rows' = [rows EXCEPT ![i].ends = @ + n, ![i].refused = @ + h[i].hooks - n]
      BY <1>20, <2>3 DEF Close, CloseHooks
    <3>3. [rows[i] EXCEPT !.ends = @ + n, !.refused = @ + h[i].hooks - n] \in Row
      BY <2>2, <3>1, RowCounted
    <3>4. rows' \in [Handlers -> Row \cup {None}]
      BY <1>0, <3>2, <3>3 DEF Typed, TypeOK
    <3>5. QED BY <1>0, <1>20, <2>1, <3>4, GotoTyped DEF Close, Typed, TypeOK
  <2>4. CASE ~(h[i].hooks > 0)
    BY <1>0, <1>20, <2>1, <2>4, GotoTyped DEF Close, CloseHooks, Typed, TypeOK
  <2>5. QED BY <2>3, <2>4
<1>21. QED
  BY <1>1, <1>2, <1>3, <1>4, <1>5, <1>6, <1>7, <1>8, <1>9, <1>10, <1>11, <1>12, <1>13, <1>14,
     <1>15, <1>16, <1>17, <1>18, <1>19, <1>20 DEF HandlerStep, OwnStep

\* What one connection does is nothing to another's part of the state.
Same(j) ==
    h'[j] = h[j] /\ c'[j] = c[j] /\ up'[j] = up[j] /\ down'[j] = down[j] /\ rows'[j] = rows[j]

\* A step of one connection is none of another's.
LEMMA Elsewhere ==
    ASSUME Typed, NEW i \in Handlers, NEW j \in Handlers \ {i}, ClientStep(i) \/ HandlerStep(i)
    PROVE  Same(j)
<1> USE DEF Same, Typed, TypeOK
<1>1. \A k, a, cl : ClientSends(i, k, a, cl) => h' = h /\ c'[j] = c[j] /\ up'[j] = up[j] /\ rows' = rows
  BY DEF ClientSends
<1>2. CASE ClientStep(i)
  <2>1. h' = h /\ rows' = rows /\ c'[j] = c[j] /\ up'[j] = up[j]
    BY <1>1, <1>2 DEF ClientStep, ClientHandshake, ClientLoginStart, ClientRequest, ClientPlays,
                      ClientLeaves, ClientReceives
  <2>2. down'[j] = down[j]
    BY <1>2 DEF ClientStep, ClientHandshake, ClientLoginStart, ClientRequest, ClientPlays,
                ClientLeaves, ClientReceives
  <2>3. QED BY <2>1, <2>2
<1>3. \A g : Goto(i, g) => h'[j] = h[j]
  BY DEF Goto
<1>4. \A k, a : Write(i, k, a) \/ WriteFails(i) => down'[j] = down[j]
  BY DEF Write, WriteFails
<1>5. \A k : Kick(i, k) => h'[j] = h[j] /\ down'[j] = down[j] /\ c' = c /\ rows' = rows
  BY <1>3, <1>4 DEF Kick
<1>6. \A k, p : Reads(i, k, p) \/ ReadFails(i, k) => up'[j] = up[j]
  BY DEF Reads, ReadFails
<1>7. CASE HandlerStep(i)
  <2>1. CASE Handshake(i) \/ Status(i) \/ Ping(i) \/ LoginStart(i)
    BY <1>3, <1>4, <1>5, <1>6, <2>1 DEF Handshake, Status, Ping, LoginStart
  <2>2. CASE \E pc, k : ReadFailsAt(i, pc, k)
    BY <1>3, <1>6, <2>2 DEF ReadFailsAt
  <2>3. CASE Compress(i) \/ PreLogin(i) \/ KeyRequest(i) \/ KeyResponse(i) \/ KeyResponseFails(i)
    BY <1>3, <1>4, <1>5, <1>6, <2>3 DEF Compress, PreLogin, KeyRequest, KeyResponse, KeyResponseFails
  <2>4. CASE HasJoined(i) \/ LoginHandler(i) \/ TrackPlayerLogin(i) \/ LoginSuccess(i)
    BY <1>3, <1>4, <1>5, <2>4 DEF HasJoined, LoginHandler, TrackPlayerLogin, LoginSuccess
  <2>5. CASE Connect(i) \/ UpstreamAnswers(i) \/ Register(i) \/ Play(i) \/ PlayEnds(i) \/ Close(i)
    BY <1>3, <1>4, <1>5, <2>5
       DEF Connect, UpstreamAnswers, Register, Play, PlayEnds, Close, CloseHooks
  <2>6. QED BY <1>7, <2>1, <2>2, <2>3, <2>4, <2>5 DEF HandlerStep, OwnStep
<1>8. QED BY <1>2, <1>7

\* What a write adds to what the client has still to read.
LEMMA WriteAdds ==
    ASSUME Typed, NEW i \in Handlers, NEW k, NEW a, Write(i, k, a) \/ WriteFails(i)
    PROVE  \A m \in DOMAIN down'[i] :
               \/ m \in DOMAIN down[i] /\ down'[i][m] = down[i][m]
               \/ down'[i][m] = [kind |-> k, arg |-> a, f |-> h[i].w]
<1>1. down[i] \in Seq(Reply) /\ down \in [Handlers -> Seq(Reply)]
  BY DEF Typed
<1> DEFINE p == [kind |-> k, arg |-> a, f |-> h[i].w]
<1>2. down'[i] = down[i] \/ down'[i] = Append(down[i], p)
  BY <1>1 DEF Write, WriteFails
<1>3. /\ DOMAIN Append(down[i], p) = 1 .. Len(down[i]) + 1
      /\ DOMAIN down[i] = 1 .. Len(down[i]) /\ Len(down[i]) \in Nat
      /\ \A m \in 1 .. Len(down[i]) : Append(down[i], p)[m] = down[i][m]
      /\ Append(down[i], p)[Len(down[i]) + 1] = p
  BY <1>1
<1>4. \A m \in 1 .. Len(down[i]) + 1 : m \in 1 .. Len(down[i]) \/ m = Len(down[i]) + 1
  BY <1>3
<1>5. QED BY <1>2, <1>3, <1>4

\* Most steps leave what is known of the player as it was.
Keeps(i) ==
    /\ h'[i].nick = h[i].nick /\ h'[i].uuid = h[i].uuid /\ h'[i].joined = h[i].joined
    /\ h'[i].auth = h[i].auth /\ h'[i].err = h[i].err

Ended == {"close", "closed"}

\* A handler's step settles its player's identity once and for all.
LEMMA SettledHolds ==
    ASSUME Known, NEW i \in Handlers, HandlerStep(i)
    PROVE  Settled(i)'
<1> DEFINE p == h[i].pc
           q == h'[i].pc
<1>0. /\ Settled(i) /\ h \in [Handlers -> Handler] /\ h[i] \in Handler
      /\ q \in Ended => q \notin Early \cup Checked \cup Accepted /\ q # "login"
  BY DEF Known, Typed, TypeOK, Ended, Early, Checked, Accepted
<1>1. \A g : Goto(i, g) => h'[i] = g
  BY <1>0 DEF Goto
<1>2. ASSUME Keeps(i),
             \/ q \in Ended \/ q = p
             \/ p \in Early /\ q \in Early
             \/ p \in Checked /\ q \in Checked
             \/ p \in Accepted /\ q \in Accepted
             \/ p = "login" /\ h[i].err # "failed" /\ q \in Accepted
      PROVE  Settled(i)'
  <2>1. Right(i)' = Right(i) /\ IdentityOf(i)' = IdentityOf(i)
    BY <1>2 DEF Keeps, Right, IdentityOf
  <2>2. CASE q \in Ended \/ q = p
    BY <1>0, <1>2, <2>1, <2>2 DEF Keeps, Settled
  <2>3. CASE q \notin Ended /\ q # p
    BY <1>0, <1>2, <2>1, <2>3 DEF Keeps, Settled, Early, Checked, Accepted
  <2>4. QED BY <2>2, <2>3
<1>3. \A v : h'[i] = [h[i] EXCEPT !.pc = v] => Keeps(i) /\ q = v
  BY <1>0 DEF Keeps, Handler
<1>4. ASSUME NEW k, Kick(i, k)
      PROVE  Settled(i)'
  BY <1>1, <1>2, <1>3, <1>4 DEF Kick, Ended
<1>5. ASSUME h'[i].pc = "login", h'[i].err = "failed"
      PROVE  Settled(i)'
  BY <1>5 DEF Settled, Early, Checked, Accepted
<1>6. CASE Handshake(i)
  <2>1. CASE \E v \in {"request", "start", "close"} : h'[i] = [h[i] EXCEPT !.pc = v]
    BY <1>2, <1>3, <1>6, <2>1 DEF Handshake, Early, Ended
  <2>2. QED BY <1>1, <1>4, <1>6, <2>1 DEF Handshake
<1>7. CASE Status(i) \/ Ping(i)
  <2>1. \E v \in {"ping", "close"} : h'[i] = [h[i] EXCEPT !.pc = v]
    BY <1>1, <1>7 DEF Status, Ping
  <2>2. QED BY <1>2, <1>3, <1>7, <2>1 DEF Status, Ping, Early, Ended
<1>8. CASE LoginStart(i)
  <2>1. CASE h'[i] = [h[i] EXCEPT !.pc = "compress", !.nick = Head(up[i]).arg]
    <3>1. Head(up[i]).arg \in Nicknames
      BY <1>8, HeadTyped DEF Known, LoginStart, Reads, Request
    <3>2. /\ h'[i].pc = "compress" /\ h'[i].nick \in Nicknames
          /\ h'[i].auth = h[i].auth /\ h'[i].err = h[i].err
      BY <1>0, <2>1, <3>1 DEF Handler
    <3>3. QED BY <1>0, <1>8, <3>2 DEF LoginStart, Settled, Early, Checked, Accepted
  <2>2. QED BY <1>1, <1>4, <1>8, <2>1 DEF LoginStart
<1>9. ASSUME NEW pc, NEW k, ReadFailsAt(i, pc, k)
      PROVE  Settled(i)'
  <2>1. Keeps(i) /\ q = "close"
    BY <1>0, <1>9 DEF ReadFailsAt, Goto, Keeps, Handler
  <2>2. QED BY <1>2, <2>1 DEF Ended
<1>10. CASE Compress(i)
  <2>1. Keeps(i) /\ q \in {"prelogin", "close"}
    <3>1. CASE h'[i] = [h[i] EXCEPT !.pc = "close"]
      BY <1>0, <3>1 DEF Keeps, Handler
    <3>2. CASE h'[i] = [h[i] EXCEPT !.pc = "prelogin", !.r = [@ EXCEPT !.comp = TRUE],
                                    !.w = [@ EXCEPT !.comp = TRUE]]
      BY <1>0, <3>2 DEF Keeps, Handler
    <3>3. QED BY <1>0, <1>10, <3>1, <3>2 DEF Compress, Goto
  <2>2. QED BY <1>2, <1>10, <2>1 DEF Compress, Checked, Ended
<1>11. CASE PreLogin(i)
  <2>1. CASE h'[i] = [h[i] EXCEPT !.pc = "login", !.auth = FALSE, !.err = "unauthenticated",
                                  !.uuid = OfflineUUID[h[i].nick]]
    <3>1. h[i].nick \in Nicknames
      BY <1>0, <1>11 DEF PreLogin, Settled, Checked
    <3>2. /\ h'[i].pc = "login" /\ ~h'[i].auth /\ h'[i].nick \in Nicknames
          /\ h'[i].uuid = OfflineUUID[h'[i].nick]
      BY <1>0, <2>1, <3>1 DEF Handler
    <3>3. [nick |-> h'[i].nick, uuid |-> h'[i].uuid] \in Identity
      BY <3>2, NamesAssumption DEF Identity
    <3>4. QED BY <3>2, <3>3 DEF Settled, Right, IdentityOf, Early, Checked, Accepted
  <2>2. CASE h'[i] = [h[i] EXCEPT !.pc = "keyreq"]
    BY <1>2, <1>3, <1>11, <2>2 DEF PreLogin, Checked
  <2>3. QED BY <1>1, <1>4, <1>11, <2>1, <2>2 DEF PreLogin
<1>12. CASE KeyRequest(i) \/ KeyResponse(i) \/ KeyResponseFails(i)
  <2>1. \/ h'[i].pc = "login" /\ h'[i].err = "failed"
        \/ Keeps(i) /\ q \in {"keyresp", "joined"}
    <3>1. CASE KeyRequest(i)
      <4>1. \/ h'[i] = [h[i] EXCEPT !.pc = "keyresp"]
            \/ h'[i] = [h[i] EXCEPT !.pc = "login", !.err = "failed"]
        BY <1>0, <3>1 DEF KeyRequest, Goto
      <4>2. QED BY <1>0, <4>1 DEF Keeps, Handler
    <3>2. CASE KeyResponse(i)
      <4>1. CASE h'[i] = [h[i] EXCEPT !.pc = "login", !.err = "failed"]
        BY <1>0, <4>1 DEF Handler
      <4>2. CASE h'[i] = [h[i] EXCEPT !.pc = "joined", !.r = [@ EXCEPT !.enc = TRUE],
                                      !.w = [@ EXCEPT !.enc = TRUE], !.buf = TRUE]
        BY <1>0, <4>2 DEF Keeps, Handler
      <4>3. CASE Head(up[i]).arg
        BY <1>0, <3>2, <4>2, <4>3 DEF KeyResponse, Goto
      <4>4. CASE ~Head(up[i]).arg
        BY <1>0, <3>2, <4>1, <4>4 DEF KeyResponse, Goto
      <4>5. QED BY <4>3, <4>4
    <3>3. CASE KeyResponseFails(i)
      BY <1>0, <3>3 DEF KeyResponseFails, Goto, Keeps, Handler
    <3>4. QED BY <1>12, <3>1, <3>2, <3>3
  <2>2. p \in {"keyreq", "keyresp"}
    BY <1>12 DEF KeyRequest, KeyResponse, KeyResponseFails
  <2>3. QED BY <1>2, <1>5, <2>1, <2>2 DEF Checked
<1>13. CASE HasJoined(i)
  <2>1. ASSUME NEW a \in Answers,
               h'[i] = [h[i] EXCEPT !.pc = "login", !.nick = a.nick, !.uuid = a.uuid, !.joined = a]
        PROVE  Settled(i)'
    <3>1. a \in Identity /\ a = [nick |-> a.nick, uuid |-> a.uuid]
      BY NamesAssumption DEF Identity
    <3>2. h[i].auth
      BY <1>0, <1>13 DEF HasJoined, Settled, Checked
    <3>3. /\ h'[i].pc = "login" /\ h'[i].auth /\ h'[i].nick = a.nick /\ h'[i].uuid = a.uuid
          /\ h'[i].joined = a
      BY <1>0, <2>1, <3>2 DEF Handler
    <3>4. QED BY <3>1, <3>3 DEF Settled, Right, IdentityOf, Early, Checked, Accepted
  <2>2. CASE h'[i] = [h[i] EXCEPT !.pc = "login", !.err = "failed"]
    BY <1>0, <1>5, <2>2 DEF Handler
  <2>3. QED BY <1>1, <1>13, <2>1, <2>2 DEF HasJoined
<1>14. CASE LoginHandler(i)
  <2>1. CASE h'[i] = [h[i] EXCEPT !.pc = "track"] /\ h[i].err # "failed"
    BY <1>2, <1>3, <1>14, <2>1 DEF LoginHandler, Accepted
  <2>2. QED BY <1>1, <1>4, <1>14, <2>1 DEF LoginHandler
<1>15. CASE \/ TrackPlayerLogin(i) \/ LoginSuccess(i) \/ Connect(i) \/ UpstreamAnswers(i)
            \/ Register(i)
  <2>1. CASE \E k : Kick(i, k)
    BY <1>4, <2>1
  <2>2. CASE ~\E k : Kick(i, k)
    <3>1. Keeps(i) /\ q \in {"success", "target", "close", "upwait", "register", "play"}
      <4>1. CASE TrackPlayerLogin(i)
        <5>1. h'[i] = [h[i] EXCEPT !.pc = "success", !.hooks = @ + 1]
          BY <1>0, <2>2, <4>1 DEF TrackPlayerLogin, Goto
        <5>2. QED BY <1>0, <5>1 DEF Keeps, Handler
      <4>2. CASE LoginSuccess(i)
        BY <1>0, <2>2, <4>2 DEF LoginSuccess, Goto, Keeps, Handler
      <4>3. CASE Connect(i)
        <5>1. h'[i] = [h[i] EXCEPT !.pc = "upwait", !.upc = "open", !.told = IdentityOf(i)]
          BY <1>0, <2>2, <4>3 DEF Connect, Goto
        <5>2. QED BY <1>0, <5>1 DEF Keeps, Handler
      <4>4. CASE Register(i)
        <5>1. h'[i] = [h[i] EXCEPT !.pc = "play", !.played = TRUE]
          BY <1>0, <2>2, <4>4 DEF Register, Goto
        <5>2. QED BY <1>0, <5>1 DEF Keeps, Handler
      <4>5. CASE UpstreamAnswers(i)
        BY <1>0, <2>2, <4>5 DEF UpstreamAnswers, Goto, Keeps, Handler
      <4>6. QED BY <1>15, <4>1, <4>2, <4>3, <4>4, <4>5
    <3>2. p \in Accepted
      BY <1>15 DEF TrackPlayerLogin, LoginSuccess, Connect, UpstreamAnswers, Register, Accepted
    <3>3. QED BY <1>2, <3>1, <3>2 DEF Accepted, Ended
  <2>3. QED BY <2>1, <2>2
<1>16. CASE Play(i) \/ PlayEnds(i) \/ Close(i)
  <2>1. Keeps(i) /\ (q = p \/ q \in Ended)
    <3>1. CASE Play(i)
      BY <3>1 DEF Play, Keeps
    <3>2. CASE PlayEnds(i)
      BY <1>0, <3>2 DEF PlayEnds, Goto, Keeps, Handler, Ended
    <3>3. CASE Close(i)
      BY <1>0, <3>3 DEF Close, Goto, Keeps, Handler, Ended
    <3>4. QED BY <1>16, <3>1, <3>2, <3>3
  <2>2. QED BY <1>2, <2>1
<1>17. QED
  BY <1>6, <1>7, <1>8, <1>9, <1>10, <1>11, <1>12, <1>13, <1>14, <1>15, <1>16 DEF HandlerStep, OwnStep

\* A handler's step tells others the identity that is settled.
LEMMA RecordedHolds ==
    ASSUME Known, NEW i \in Handlers, HandlerStep(i)
    PROVE  Recorded(i)'
<1> DEFINE p == h[i].pc
           q == h'[i].pc
           NoSuccess == \A m \in DOMAIN down'[i] :
                            \/ m \in DOMAIN down[i] /\ down'[i][m] = down[i][m]
                            \/ down'[i][m].kind # "success"
           Steady == /\ h'[i].told = h[i].told /\ h'[i].hooks = h[i].hooks
                     /\ rows'[i] = rows[i] /\ c'[i] = c[i]
<1>0. /\ Typed /\ Settled(i) /\ Recorded(i) /\ h \in [Handlers -> Handler] /\ h[i] \in Handler
      /\ c' = c /\ rows \in [Handlers -> Row \cup {None}]
  BY HandlerStepTyped DEF Known, Typed, TypeOK
<1>1. ASSUME NoSuccess, Steady, p # "closed", q # "closed",
             p \in Named => q \in Named /\ Right(i)' = Right(i)
      PROVE  Recorded(i)'
  BY <1>0, <1>1 DEF Recorded
<1>2. ASSUME NEW k, NEW a, k # "success", Write(i, k, a) \/ WriteFails(i)
      PROVE  NoSuccess
  <2>1. [kind |-> k, arg |-> a, f |-> h[i].w].kind # "success"
    BY <1>2
  <2>2. \A m \in DOMAIN down'[i] :
            \/ m \in DOMAIN down[i] /\ down'[i][m] = down[i][m]
            \/ down'[i][m] = [kind |-> k, arg |-> a, f |-> h[i].w]
    BY <1>0, <1>2, WriteAdds
  <2>3. QED BY <2>1, <2>2
<1>3. ASSUME down' = down
      PROVE  NoSuccess
  BY <1>3
<1>4. \A v : h'[i] = [h[i] EXCEPT !.pc = v] =>
          q = v /\ Right(i)' = Right(i) /\ h'[i].told = h[i].told /\ h'[i].hooks = h[i].hooks
  BY <1>0 DEF Right, Handler
<1>5. ASSUME NEW k, k # "success", Kick(i, k), p # "closed"
      PROVE  Recorded(i)'
  <2>1. h'[i] = [h[i] EXCEPT !.pc = "close"] /\ rows'[i] = rows[i] /\ NoSuccess
    BY <1>0, <1>2, <1>5 DEF Kick, Goto
  <2>2. QED BY <1>0, <1>1, <1>4, <1>5, <2>1 DEF Named
<1>6. CASE Handshake(i) \/ LoginStart(i)
  <2>1. p \notin Named /\ p # "closed"
    BY <1>6 DEF Handshake, LoginStart, Named
  <2>2. CASE Kick(i, "loginkick")
    BY <1>5, <2>1, <2>2
  <2>3. CASE ~Kick(i, "loginkick")
    <3>1. \/ \E v \in {"request", "start", "close"} : h'[i] = [h[i] EXCEPT !.pc = v]
          \/ \E v : h'[i] = [h[i] EXCEPT !.pc = "compress", !.nick = v]
      BY <1>0, <1>6, <2>3 DEF Handshake, LoginStart, Goto
    <3>2. q # "closed" /\ h'[i].told = h[i].told /\ h'[i].hooks = h[i].hooks
      BY <1>0, <3>1 DEF Handler
    <3>3. down' = down /\ rows' = rows
      BY <1>6, <2>3 DEF Handshake, LoginStart
    <3>4. QED BY <1>0, <1>1, <1>3, <2>1, <3>2, <3>3
  <2>4. QED BY <2>2, <2>3
<1>7. CASE Status(i) \/ Ping(i)
  <2>1. p \notin Named /\ p # "closed" /\ rows' = rows
    BY <1>7 DEF Status, Ping, Named
  <2>2. \E v \in {"ping", "close"} : h'[i] = [h[i] EXCEPT !.pc = v]
    BY <1>0, <1>7 DEF Status, Ping, Goto
  <2>3. NoSuccess
    BY <1>2, <1>7 DEF Status, Ping
  <2>4. QED BY <1>0, <1>1, <1>4, <2>1, <2>2, <2>3
<1>8. CASE \/ \E k : \E pc \in Early : ReadFailsAt(i, pc, k)
           \/ KeyResponse(i) \/ KeyResponseFails(i) \/ HasJoined(i)
  <2>1. p \notin Named /\ down' = down /\ rows' = rows
    BY <1>8 DEF ReadFailsAt, KeyResponse, KeyResponseFails, HasJoined, Named, Early
  <2>2. q # "closed" /\ h'[i].told = h[i].told /\ h'[i].hooks = h[i].hooks
    <3>1. CASE \E k : \E pc \in Early : ReadFailsAt(i, pc, k)
      BY <1>0, <3>1 DEF ReadFailsAt, Goto, Handler
    <3>2. CASE KeyResponse(i)
      <4>1. \/ h'[i] = [h[i] EXCEPT !.pc = "login", !.err = "failed"]
            \/ h'[i] = [h[i] EXCEPT !.pc = "joined", !.r = [@ EXCEPT !.enc = TRUE],
                                    !.w = [@ EXCEPT !.enc = TRUE], !.buf = TRUE]
        BY <1>0, <3>2 DEF KeyResponse, Goto
      <4>2. QED BY <1>0, <4>1 DEF Handler
    <3>3. CASE KeyResponseFails(i)
      BY <1>0, <3>3 DEF KeyResponseFails, Goto, Handler
    <3>4. CASE HasJoined(i)
      <4>1. \/ h'[i] = [h[i] EXCEPT !.pc = "login", !.err = "failed"]
            \/ \E a \in Answers : h'[i] = [h[i] EXCEPT !.pc = "login", !.nick = a.nick,
                                                       !.uuid = a.uuid, !.joined = a]
        BY <1>0, <3>4 DEF HasJoined, Goto
      <4>2. QED BY <1>0, <4>1 DEF Handler
    <3>5. QED BY <1>8, <3>1, <3>2, <3>3, <3>4
  <2>3. QED BY <1>0, <1>1, <1>3, <2>1, <2>2 DEF Named
<1>9. CASE Compress(i) \/ KeyRequest(i)
  <2>1. p \notin Named /\ rows' = rows /\ NoSuccess
    BY <1>2, <1>9 DEF Compress, KeyRequest, Named
  <2>2. \/ \E v \in {"close", "keyresp"} : h'[i] = [h[i] EXCEPT !.pc = v]
        \/ h'[i] = [h[i] EXCEPT !.pc = "login", !.err = "failed"]
        \/ h'[i] = [h[i] EXCEPT !.pc = "prelogin", !.r = [@ EXCEPT !.comp = TRUE],
                                !.w = [@ EXCEPT !.comp = TRUE]]
    BY <1>0, <1>9 DEF Compress, KeyRequest, Goto
  <2>3. q # "closed" /\ h'[i].told = h[i].told /\ h'[i].hooks = h[i].hooks
    BY <1>0, <2>2 DEF Handler
  <2>4. QED BY <1>0, <1>1, <2>1, <2>3 DEF Named
<1>10. CASE PreLogin(i) \/ LoginHandler(i)
  <2>1. p \notin Named /\ p # "closed"
    BY <1>10 DEF PreLogin, LoginHandler, Named
  <2>2. CASE Kick(i, "loginkick")
    BY <1>5, <2>1, <2>2
  <2>3. CASE ~Kick(i, "loginkick")
    <3>1. \/ \E v \in {"keyreq", "track"} : h'[i] = [h[i] EXCEPT !.pc = v]
          \/ h'[i] = [h[i] EXCEPT !.pc = "login", !.auth = FALSE, !.err = "unauthenticated",
                                  !.uuid = OfflineUUID[h[i].nick]]
      BY <1>0, <1>10, <2>3 DEF PreLogin, LoginHandler, Goto
    <3>2. q # "closed" /\ h'[i].told = h[i].told /\ h'[i].hooks = h[i].hooks
      BY <1>0, <3>1 DEF Handler
    <3>3. down' = down /\ rows' = rows
      BY <1>10, <2>3 DEF PreLogin, LoginHandler
    <3>4. QED BY <1>0, <1>1, <1>3, <2>1, <3>2, <3>3
  <2>4. QED BY <2>2, <2>3
<1>11. CASE TrackPlayerLogin(i)
  <2>1. p = "track" /\ p \notin Named
    BY <1>11 DEF TrackPlayerLogin, Named
  <2>2. CASE Kick(i, "loginkick")
    BY <1>5, <2>1, <2>2
  <2>3. CASE ~Kick(i, "loginkick")
    <3>1. /\ h'[i] = [h[i] EXCEPT !.pc = "success", !.hooks = @ + 1] /\ down' = down
          /\ rows'[i] = [id |-> IdentityOf(i), ends |-> 0, refused |-> 0]
      BY <1>0, <1>11, <2>3 DEF TrackPlayerLogin, Goto
    <3>2. IdentityOf(i) = Right(i) /\ IdentityOf(i) \in Identity
      BY <1>0, <2>1 DEF Settled, Accepted
    <3>3. /\ q = "success" /\ Right(i)' = Right(i) /\ h'[i].told = h[i].told
          /\ h'[i].hooks = h[i].hooks + 1
      BY <1>0, <3>1 DEF Right, Handler
    <3>4. rows'[i] \in Row /\ rows'[i] # None
      BY <3>1, <3>2, NamesAssumption DEF Row
    <3>5. QED BY <1>0, <2>1, <3>1, <3>2, <3>3, <3>4 DEF Recorded, Named
  <2>4. QED BY <2>2, <2>3
<1>12. CASE LoginSuccess(i)
  <2>1. p = "success" /\ IdentityOf(i) = Right(i) /\ rows' = rows
    BY <1>0, <1>12 DEF LoginSuccess, Settled, Accepted
  <2>2. \E v \in {"target", "close"} : h'[i] = [h[i] EXCEPT !.pc = v]
    BY <1>0, <1>12 DEF LoginSuccess, Goto
  <2>3. Right(i)' = Right(i) /\ Steady /\ q \in {"target", "close"}
    BY <1>0, <1>4, <2>1, <2>2
  <2>4. \A m \in DOMAIN down'[i] :
            \/ m \in DOMAIN down[i] /\ down'[i][m] = down[i][m]
            \/ down'[i][m].arg = Right(i)
    <3>1. \A m \in DOMAIN down'[i] :
              \/ m \in DOMAIN down[i] /\ down'[i][m] = down[i][m]
              \/ down'[i][m] = [kind |-> "success", arg |-> IdentityOf(i), f |-> h[i].w]
      BY <1>0, <1>12, WriteAdds DEF LoginSuccess
    <3>2. QED BY <2>1, <3>1
  <2>5. QED BY <1>0, <2>1, <2>3, <2>4 DEF Recorded, Named
<1>13. CASE Connect(i)
  <2>1. p = "target" /\ IdentityOf(i) = Right(i)
    BY <1>0, <1>13 DEF Connect, Settled, Accepted
  <2>2. CASE Kick(i, "gamekick")
    BY <1>5, <2>1, <2>2
  <2>3. CASE ~Kick(i, "gamekick")
    <3>1. h'[i] = [h[i] EXCEPT !.pc = "upwait", !.upc = "open", !.told = IdentityOf(i)]
      BY <1>0, <1>13, <2>3 DEF Connect, Goto
    <3>2. /\ Right(i)' = Right(i) /\ h'[i].told = Right(i) /\ h'[i].hooks = h[i].hooks
          /\ q = "upwait"
      BY <1>0, <2>1, <3>1 DEF Right, Handler
    <3>3. rows' = rows /\ NoSuccess
      BY <1>2, <1>3, <1>13, <2>3 DEF Connect
    <3>4. QED BY <1>0, <2>1, <3>2, <3>3 DEF Recorded, Named
  <2>4. QED BY <2>2, <2>3
<1>14. CASE UpstreamAnswers(i)
  <2>1. p = "upwait"
    BY <1>14 DEF UpstreamAnswers
  <2>2. CASE Kick(i, "gamekick")
    BY <1>5, <2>1, <2>2
  <2>3. CASE ~Kick(i, "gamekick")
    <3>1. h'[i] = [h[i] EXCEPT !.pc = "register"] /\ down' = down /\ rows' = rows
      BY <1>0, <1>14, <2>3 DEF UpstreamAnswers, Goto
    <3>2. Right(i)' = Right(i) /\ Steady /\ q = "register"
      BY <1>0, <3>1 DEF Right, Handler
    <3>3. QED BY <1>1, <1>3, <2>1, <3>1, <3>2 DEF Named
  <2>4. QED BY <2>2, <2>3
<1>15. CASE Register(i)
  <2>1. p = "register"
    BY <1>15 DEF Register
  <2>2. CASE Kick(i, "gamekick")
    BY <1>5, <2>1, <2>2
  <2>3. CASE ~Kick(i, "gamekick")
    <3>1. h'[i] = [h[i] EXCEPT !.pc = "play", !.played = TRUE] /\ down' = down /\ rows' = rows
      BY <1>0, <1>15, <2>3 DEF Register, Goto
    <3>2. Right(i)' = Right(i) /\ Steady /\ q = "play"
      BY <1>0, <3>1 DEF Right, Handler
    <3>3. QED BY <1>1, <1>3, <2>1, <3>1, <3>2 DEF Named
  <2>4. QED BY <2>2, <2>3
<1>16. CASE Play(i)
  <2>1. p = "play" /\ h' = h /\ down' = down /\ rows' = rows
    BY <1>16 DEF Play
  <2>2. Right(i)' = Right(i)
    BY <2>1 DEF Right
  <2>3. QED BY <1>0, <1>1, <1>3, <2>1, <2>2
<1>17. CASE PlayEnds(i)
  <2>1. p = "play" /\ h'[i] = [h[i] EXCEPT !.pc = "close", !.garbled = Garbled(i)]
        /\ down' = down /\ rows' = rows
    BY <1>0, <1>17 DEF PlayEnds, Goto
  <2>2. Right(i)' = Right(i) /\ Steady /\ q = "close"
    BY <1>0, <2>1 DEF Right, Handler
  <2>3. QED BY <1>1, <1>3, <2>1, <2>2 DEF Named
<1>18. CASE Close(i)
  <2>1. p = "close" /\ down' = down
    BY <1>18 DEF Close
  <2>2. h'[i] = [h[i] EXCEPT !.pc = "closed", !.upc = IF @ = "open" THEN "closed" ELSE @]
    BY <1>0, <1>18 DEF Close, Goto
  <2>3. /\ Right(i)' = Right(i) /\ h'[i].told = h[i].told /\ h'[i].hooks = h[i].hooks
        /\ q = "closed" /\ h'[i].upc # "open"
    BY <1>0, <2>2 DEF Right, Handler
  <2>4. CASE rows[i] = None
    <3>1. rows'[i] = None
      BY <1>0, <1>18, <2>4 DEF Close, CloseHooks, Recorded
    <3>2. QED BY <1>0, <2>1, <2>3, <2>4, <3>1 DEF Recorded, Named
  <2>5. CASE rows[i] # None
    <3>1. rows[i] \in Row /\ h[i].hooks = 1 /\ rows[i].ends + rows[i].refused = 0
      BY <1>0, <2>1, <2>5 DEF Recorded
    <3>2. PICK n \in 0 .. h[i].hooks :
             rows' = [rows EXCEPT ![i].ends = @ + n, ![i].refused = @ + h[i].hooks - n]
      BY <1>18, <3>1 DEF Close, CloseHooks
    <3>3. rows'[i] = [rows[i] EXCEPT !.ends = @ + n, !.refused = @ + h[i].hooks - n]
      BY <1>0, <3>2
    <3>4. /\ rows'[i].id = rows[i].id /\ rows'[i].ends + rows'[i].refused = 1
          /\ rows'[i] \in Row
      <4>1. h[i].hooks \in Nat /\ 0 + 1 = 1
        BY <3>1
      <4> DEFINE r == rows[i]
                 k == h[i].hooks
      <4>2. LET s == [r EXCEPT !.ends = @ + n, !.refused = @ + k - n]
            IN  s \in Row /\ s.id = r.id /\ s.ends + s.refused = r.ends + r.refused + k
        BY <3>1, <4>1, RowCounted
      <4>3. QED BY <3>1, <3>3, <4>1, <4>2
    <3>5. QED BY <1>0, <2>1, <2>3, <2>5, <3>1, <3>4, NamesAssumption DEF Recorded, Named
  <2>6. QED BY <2>4, <2>5
<1>19. QED
  BY <1>6, <1>7, <1>8, <1>9, <1>10, <1>11, <1>12, <1>13, <1>14, <1>15, <1>16, <1>17, <1>18
  DEF HandlerStep, OwnStep, Early

\* A handler's step enters and removes nobody but its own player.
LEMMA RegisteredHolds ==
    ASSUME Known, NEW i \in Handlers, HandlerStep(i)
    PROVE  Registered'
<1> DEFINE p == h[i].pc
           q == h'[i].pc
<1>0. /\ Typed /\ Typed' /\ Registered /\ Settled(i)
      /\ h \in [Handlers -> Handler] /\ h[i] \in Handler
      /\ online \in [Nicknames -> Handlers \cup {None}] /\ None \notin Handlers
      /\ ToLower \in [Nicknames -> Nicknames]
      /\ \A j \in Handlers \ {i} : h'[j] = h[j] /\ Key(j)' = Key(j)
  <2>1. \A j \in Handlers \ {i} : h'[j] = h[j]
    BY Elsewhere DEF Known, Same
  <2>2. \A j \in Handlers \ {i} : Key(j)' = Key(j)
    BY <2>1 DEF Key
  <2>3. QED BY <2>1, <2>2, HandlerStepTyped, NamesAssumption DEF Known, Typed, TypeOK
<1>1. ASSUME online' = online, p # "play", q # "play"
      PROVE  Registered'
  <2>1. \A n \in Nicknames : online[n] # None => online[n] \in Handlers \ {i}
    BY <1>0, <1>1 DEF Registered, Key
  <2>2. ASSUME NEW j \in Handlers, h'[j].pc = "play"
        PROVE  h'[j].nick \in Nicknames /\ online'[ToLower[h'[j].nick]] = j
    BY <1>0, <1>1, <2>2 DEF Registered, Key
  <2>3. ASSUME NEW n \in Nicknames, online'[n] # None
        PROVE  /\ h'[online'[n]].pc = "play" /\ h'[online'[n]].nick \in Nicknames
               /\ ToLower[h'[online'[n]].nick] = n
    <3>1. online'[n] = online[n] /\ online[n] \in Handlers \ {i}
      BY <1>1, <2>1, <2>3
    <3>2. PICK j \in Handlers \ {i} : j = online[n]
      BY <3>1
    <3>3. h'[j] = h[j] /\ Key(j)' = Key(j) /\ h[j].pc = "play" /\ h[j].nick \in Nicknames /\ Key(j) = n
      BY <1>0, <2>3, <3>1, <3>2 DEF Registered, Key
    <3>4. QED BY <3>1, <3>2, <3>3 DEF Key
  <2>4. QED BY <2>2, <2>3 DEF Registered, Key
<1>2. CASE Register(i) /\ ~Kick(i, "gamekick")
  <2>1. /\ p = "register" /\ h'[i] = [h[i] EXCEPT !.pc = "play", !.played = TRUE]
        /\ online[Key(i)] = None /\ online' = [online EXCEPT ![Key(i)] = i]
    BY <1>0, <1>2 DEF Register, Goto
  <2>2. h[i].nick \in Nicknames /\ Key(i) \in Nicknames
    BY <1>0, <2>1, NamesAssumption DEF Settled, Accepted, Identity, IdentityOf, Key
  <2>3. q = "play" /\ h'[i].nick = h[i].nick /\ Key(i)' = Key(i)
    BY <1>0, <2>1 DEF Handler, Key
  <2>4. ASSUME NEW j \in Handlers, h'[j].pc = "play"
        PROVE  h'[j].nick \in Nicknames /\ online'[ToLower[h'[j].nick]] = j
    <3>1. CASE j = i
      BY <1>0, <2>1, <2>2, <2>3, <3>1 DEF Key
    <3>2. CASE j # i
      <4>1. h[j].pc = "play" /\ h[j].nick \in Nicknames /\ online[Key(j)] = j /\ Key(j) \in Nicknames
        BY <1>0, <2>4, <3>2 DEF Registered, Key
      <4>2. Key(j) # Key(i)
        BY <1>0, <2>1, <4>1
      <4>3. QED BY <1>0, <2>1, <3>2, <4>1, <4>2 DEF Key
    <3>3. QED BY <3>1, <3>2
  <2>5. ASSUME NEW n \in Nicknames, online'[n] # None
        PROVE  /\ h'[online'[n]].pc = "play" /\ h'[online'[n]].nick \in Nicknames
               /\ ToLower[h'[online'[n]].nick] = n
    <3>1. CASE n = Key(i)
      <4>1. online'[n] = i
        BY <1>0, <2>1, <2>2, <3>1
      <4>2. QED BY <2>2, <2>3, <3>1, <4>1 DEF Key
    <3>2. CASE n # Key(i)
      <4>1. online'[n] = online[n] /\ online[n] \in Handlers \ {i}
        BY <1>0, <2>1, <2>2, <2>5, <3>2 DEF Registered, Key
      <4>2. PICK j \in Handlers \ {i} : j = online[n]
        BY <4>1
      <4>3. h'[j] = h[j] /\ Key(j)' = Key(j) /\ h[j].pc = "play" /\ h[j].nick \in Nicknames
            /\ Key(j) = n
        BY <1>0, <2>5, <4>1, <4>2 DEF Registered, Key
      <4>4. QED BY <4>1, <4>2, <4>3 DEF Key
    <3>3. QED BY <3>1, <3>2
  <2>6. QED BY <2>4, <2>5 DEF Registered, Key
<1>3. CASE PlayEnds(i)
  <2>1. /\ p = "play" /\ h'[i] = [h[i] EXCEPT !.pc = "close", !.garbled = Garbled(i)]
        /\ online' = [online EXCEPT ![Key(i)] = None]
    BY <1>0, <1>3 DEF PlayEnds, Goto
  <2>2. h[i].nick \in Nicknames /\ Key(i) \in Nicknames /\ online[Key(i)] = i
    BY <1>0, <2>1 DEF Registered, Key
  <2>3. q = "close"
    BY <1>0, <2>1 DEF Handler
  <2>4. ASSUME NEW j \in Handlers, h'[j].pc = "play"
        PROVE  h'[j].nick \in Nicknames /\ online'[ToLower[h'[j].nick]] = j
    <3>1. j # i
      BY <2>3, <2>4
    <3>2. h[j].pc = "play" /\ h[j].nick \in Nicknames /\ online[Key(j)] = j /\ Key(j) \in Nicknames
      BY <1>0, <2>4, <3>1 DEF Registered, Key
    <3>3. Key(j) # Key(i)
      BY <2>2, <3>1, <3>2
    <3>4. QED BY <1>0, <2>1, <3>1, <3>2, <3>3 DEF Key
  <2>5. ASSUME NEW n \in Nicknames, online'[n] # None
        PROVE  /\ h'[online'[n]].pc = "play" /\ h'[online'[n]].nick \in Nicknames
               /\ ToLower[h'[online'[n]].nick] = n
    <3>1. n # Key(i) /\ online'[n] = online[n]
      BY <1>0, <2>1, <2>2, <2>5
    <3>2. online[n] \in Handlers \ {i}
      BY <1>0, <2>5, <3>1 DEF Registered, Key
    <3>3. PICK j \in Handlers \ {i} : j = online[n]
      BY <3>2
    <3>4. h'[j] = h[j] /\ Key(j)' = Key(j) /\ h[j].pc = "play" /\ h[j].nick \in Nicknames /\ Key(j) = n
      BY <1>0, <2>5, <3>1, <3>3 DEF Registered, Key
    <3>5. QED BY <3>1, <3>3, <3>4 DEF Key
  <2>6. QED BY <2>4, <2>5 DEF Registered, Key
<1>4. CASE Play(i)
  <2>1. h' = h /\ online' = online
    BY <1>4 DEF Play
  <2>2. QED BY <1>0, <2>1 DEF Registered, Key
<1>5. CASE ~Play(i) /\ ~PlayEnds(i) /\ (Register(i) => Kick(i, "gamekick"))
  <2>1. online' = online /\ p # "play"
    BY <1>5 DEF HandlerStep, OwnStep, Handshake, Status, Ping, LoginStart, ReadFailsAt, Compress,
                PreLogin, KeyRequest, KeyResponse, KeyResponseFails, HasJoined, LoginHandler,
                TrackPlayerLogin, LoginSuccess, Connect, UpstreamAnswers, Register, Close, Kick
  <2>2. \A v : h'[i] = [h[i] EXCEPT !.pc = v] => q = v
    BY <1>0 DEF Handler
  <2>3. \A k : Kick(i, k) => q = "close"
    BY <1>0, <2>2 DEF Kick, Goto
  <2>4. q # "play"
    <3>1. CASE Handshake(i) \/ Status(i) \/ Ping(i)
      <4>1. \/ \E k : Kick(i, k)
            \/ \E v \in {"request", "start", "close", "ping"} : h'[i] = [h[i] EXCEPT !.pc = v]
        BY <1>0, <3>1 DEF Handshake, Status, Ping, Goto
      <4>2. QED BY <2>2, <2>3, <4>1
    <3>2. CASE LoginStart(i)
      <4>1. \/ Kick(i, "loginkick")
            \/ h'[i] = [h[i] EXCEPT !.pc = "compress", !.nick = Head(up[i]).arg]
        BY <1>0, <3>2 DEF LoginStart, Goto
      <4>2. QED BY <1>0, <2>3, <4>1 DEF Handler
    <3>3. CASE \E pc, k : ReadFailsAt(i, pc, k)
      BY <1>0, <3>3 DEF ReadFailsAt, Goto, Handler
    <3>4. CASE Compress(i) \/ KeyRequest(i) \/ KeyResponse(i)
      <4>1. \/ \E v \in {"close", "keyresp"} : h'[i] = [h[i] EXCEPT !.pc = v]
            \/ h'[i] = [h[i] EXCEPT !.pc = "login", !.err = "failed"]
            \/ h'[i] = [h[i] EXCEPT !.pc = "prelogin", !.r = [@ EXCEPT !.comp = TRUE],
                                    !.w = [@ EXCEPT !.comp = TRUE]]
            \/ h'[i] = [h[i] EXCEPT !.pc = "joined", !.r = [@ EXCEPT !.enc = TRUE],
                                    !.w = [@ EXCEPT !.enc = TRUE], !.buf = TRUE]
        BY <1>0, <3>4 DEF Compress, KeyRequest, KeyResponse, Goto
      <4>2. QED BY <1>0, <4>1 DEF Handler
    <3>5. CASE KeyResponseFails(i)
      BY <1>0, <3>5 DEF KeyResponseFails, Goto, Handler
    <3>6. CASE PreLogin(i)
      <4>1. \/ Kick(i, "loginkick") \/ h'[i] = [h[i] EXCEPT !.pc = "keyreq"]
            \/ h'[i] = [h[i] EXCEPT !.pc = "login", !.auth = FALSE, !.err = "unauthenticated",
                                    !.uuid = OfflineUUID[h[i].nick]]
        BY <1>0, <3>6 DEF PreLogin, Goto
      <4>2. QED BY <1>0, <2>3, <4>1 DEF Handler
    <3>7. CASE HasJoined(i)
      <4>1. \/ h'[i] = [h[i] EXCEPT !.pc = "login", !.err = "failed"]
            \/ \E a \in Answers : h'[i] = [h[i] EXCEPT !.pc = "login", !.nick = a.nick,
                                                       !.uuid = a.uuid, !.joined = a]
        BY <1>0, <3>7 DEF HasJoined, Goto
      <4>2. QED BY <1>0, <4>1 DEF Handler
    <3>8. CASE LoginHandler(i) \/ LoginSuccess(i)
      <4>1. \/ Kick(i, "loginkick")
            \/ \E v \in {"track", "target", "close"} : h'[i] = [h[i] EXCEPT !.pc = v]
        BY <1>0, <3>8 DEF LoginHandler, LoginSuccess, Goto
      <4>2. QED BY <2>2, <2>3, <4>1
    <3>9. CASE TrackPlayerLogin(i)
      <4>1. \/ Kick(i, "loginkick")
            \/ h'[i] = [h[i] EXCEPT !.pc = "success", !.hooks = @ + 1]
        BY <1>0, <3>9 DEF TrackPlayerLogin, Goto
      <4>2. QED BY <1>0, <2>3, <4>1 DEF Handler
    <3>10. CASE Connect(i)
      <4>1. \/ Kick(i, "gamekick")
            \/ h'[i] = [h[i] EXCEPT !.pc = "upwait", !.upc = "open", !.told = IdentityOf(i)]
        BY <1>0, <3>10 DEF Connect, Goto
      <4>2. QED BY <1>0, <2>3, <4>1 DEF Handler
    <3>11. CASE UpstreamAnswers(i)
      <4>1. Kick(i, "gamekick") \/ h'[i] = [h[i] EXCEPT !.pc = "register"]
        BY <1>0, <3>11 DEF UpstreamAnswers, Goto
      <4>2. QED BY <2>2, <2>3, <4>1
    <3>12. CASE Register(i)
      BY <1>5, <2>3, <3>12
    <3>13. CASE Close(i)
      BY <1>0, <3>13 DEF Close, Goto, Handler
    <3>14. QED BY <1>5, <3>1, <3>2, <3>3, <3>4, <3>5, <3>6, <3>7, <3>8, <3>9, <3>10, <3>12, <3>13, <3>11
              DEF HandlerStep, OwnStep
  <2>5. QED BY <1>1, <2>1, <2>4
<1>6. QED BY <1>2, <1>3, <1>4, <1>5

\* A client only ever learns what the handler wrote.
LEMMA ClientStepRecorded ==
    ASSUME Known, NEW i \in Handlers, ClientStep(i)
    PROVE  Recorded(i)'
<1>0. /\ Recorded(i) /\ h' = h /\ rows' = rows /\ Right(i)' = Right(i)
      /\ c \in [Handlers -> Client] /\ c[i] \in Client
      /\ down \in [Handlers -> Seq(Reply)] /\ down[i] \in Seq(Reply)
  BY ClientStepTyped DEF Known, Typed, TypeOK, Right
<1>1. ASSUME c'[i].name = c[i].name \/ (h[i].pc \in Named /\ c'[i].name = Right(i)),
             \A m \in DOMAIN down'[i] : \E n \in DOMAIN down[i] : down'[i][m] = down[i][n]
      PROVE  Recorded(i)'
  <2>1. \A m \in DOMAIN down'[i] :
            down'[i][m].kind = "success" => h[i].pc \in Named /\ down'[i][m].arg = Right(i)
    BY <1>0, <1>1 DEF Recorded
  <2>2. c'[i].name # None => h[i].pc \in Named /\ c'[i].name = Right(i)
    BY <1>0, <1>1 DEF Recorded
  <2>3. QED BY <1>0, <2>1, <2>2 DEF Recorded
<1>2. CASE \/ \E next \in {"status", "login", "badversion", "other"} : ClientHandshake(i, next)
           \/ \E n \in Nicknames : ClientLoginStart(i, n)
           \/ ClientRequest(i) \/ ClientPlays(i) \/ ClientLeaves(i)
  <2>1. down' = down
    BY <1>2 DEF ClientHandshake, ClientLoginStart, ClientRequest, ClientPlays, ClientLeaves
  <2>2. \E v \in {"login", "status", "waiting", "pinging", "gone"} :
            c'[i] = [c[i] EXCEPT !.st = v] \/ c'[i] = c[i]
    BY <1>0, <1>2 DEF ClientHandshake, ClientLoginStart, ClientRequest, ClientPlays, ClientLeaves,
                      ClientSends
  <2>3. c'[i].name = c[i].name
    BY <1>0, <2>2 DEF Client
  <2>4. \A m \in DOMAIN down'[i] : \E n \in DOMAIN down[i] : down'[i][m] = down[i][n]
    BY <2>1
  <2>5. QED BY <1>1, <2>3, <2>4
<1>3. ASSUME NEW good \in BOOLEAN, ClientReceives(i, good)
      PROVE  Recorded(i)'
  <2> DEFINE p == Head(down[i])
  <2>1. /\ down[i] # <<>> /\ down'[i] = Tail(down[i]) /\ p = down[i][1] /\ 1 \in DOMAIN down[i]
    BY <1>0, <1>3 DEF ClientReceives
  <2>2. \A m \in DOMAIN down'[i] : \E n \in DOMAIN down[i] : down'[i][m] = down[i][n]
    <3>1. \A m \in DOMAIN down'[i] : m + 1 \in DOMAIN down[i] /\ down'[i][m] = down[i][m + 1]
      BY <1>0, <2>1
    <3>2. QED BY <3>1
  <2>3. c'[i].name = c[i].name \/ (p.kind = "success" /\ c'[i].name = p.arg)
    <3>1. CASE p.f # c[i].f \/ p.kind \notin Expected(c[i].st)
      <4>1. c'[i] = [c[i] EXCEPT !.garbled = TRUE, !.st = "gone"]
        BY <1>0, <1>3, <3>1 DEF ClientReceives
      <4>2. QED BY <1>0, <4>1 DEF Client
    <3>2. CASE p.f = c[i].f /\ p.kind \in Expected(c[i].st)
      <4>1. CASE p.kind = "compression"
        <5>1. c'[i] = [c[i] EXCEPT !.f.comp = TRUE]
          BY <1>0, <1>3, <3>2, <4>1 DEF ClientReceives
        <5>2. QED BY <1>0, <5>1 DEF Client
      <4>2. CASE p.kind = "keyreq"
        <5>1. c'[i] = [c[i] EXCEPT !.f = [@ EXCEPT !.enc = TRUE], !.honest = good]
          BY <1>0, <1>3, <3>2, <4>2 DEF ClientReceives, ClientSends
        <5>2. QED BY <1>0, <5>1 DEF Client
      <4>3. CASE p.kind = "response"
        BY <1>0, <1>3, <3>2, <4>3 DEF ClientReceives, ClientSends
      <4>4. CASE p.kind = "success"
        <5>1. c'[i] = [c[i] EXCEPT !.st = "play", !.name = p.arg]
          BY <1>0, <1>3, <3>2, <4>4 DEF ClientReceives
        <5>2. QED BY <1>0, <4>4, <5>1 DEF Client
      <4>5. CASE p.kind \notin {"compression", "keyreq", "response", "success"}
        <5>1. c'[i] = [c[i] EXCEPT !.st = "gone", !.kicked = p.kind # "pong"]
          BY <1>0, <1>3, <3>2, <4>5 DEF ClientReceives
        <5>2. QED BY <1>0, <5>1 DEF Client
      <4>6. QED BY <4>1, <4>2, <4>3, <4>4, <4>5
    <3>3. QED BY <3>1, <3>2
  <2>4. p.kind = "success" => h[i].pc \in Named /\ p.arg = Right(i)
    BY <1>0, <2>1 DEF Recorded
  <2>5. c'[i].name = c[i].name \/ (h[i].pc \in Named /\ c'[i].name = Right(i))
    BY <2>3, <2>4
  <2>6. QED BY <1>1, <2>2, <2>5
<1>4. QED BY <1>2, <1>3 DEF ClientStep

\* Known in every state.
LEMMA KnownHolds == Spec => []Known
<1>1. Init => Known
  BY InitKnown
<1>2. ASSUME Known, [Next]_vars
      PROVE  Known'
  <2>1. CASE UNCHANGED vars
    <3> USE <1>2, <2>1 DEF vars
    <3>1. Typed' /\ Registered'
      BY DEF Known, Typed, TypeOK, Registered, Key
    <3>2. \A i \in Handlers : Settled(i)' /\ Recorded(i)'
      BY DEF Known, Settled, Recorded, Right, IdentityOf
    <3>3. QED BY <3>1, <3>2 DEF Known
  <2>2. ASSUME NEW i \in Handlers, ClientStep(i) \/ HandlerStep(i)
        PROVE  Known'
    <3>1. Typed'
      BY <1>2, <2>2, ClientStepTyped, HandlerStepTyped DEF Known
    <3>2. \A j \in Handlers \ {i} : Settled(j)' /\ Recorded(j)'
      <4> TAKE j \in Handlers \ {i}
      <4>1. Same(j)
        BY <1>2, <2>2, Elsewhere DEF Known
      <4>2. QED BY <1>2, <4>1 DEF Known, Same, Settled, Recorded, Right, IdentityOf
    <3>3. CASE ClientStep(i)
      <4>1. h' = h /\ online' = online
        BY <1>2, <3>3, ClientStepTyped DEF Known
      <4>2. Registered' /\ Settled(i)'
        BY <1>2, <4>1 DEF Known, Registered, Key, Settled, Right, IdentityOf
      <4>3. Recorded(i)'
        BY <1>2, <3>3, ClientStepRecorded
      <4>4. QED BY <3>1, <3>2, <4>2, <4>3 DEF Known
    <3>4. CASE HandlerStep(i)
      BY <1>2, <3>1, <3>2, <3>4, SettledHolds, RecordedHolds, RegisteredHolds DEF Known
    <3>5. QED BY <2>2, <3>3, <3>4
  <2>3. QED BY <1>2, <2>1, <2>2 DEF Next
<1>3. QED BY <1>1, <1>2, PTL DEF Spec

-----------------------------------------------------------------------------
\* Client, upstream, registry and login table know a player under one identity,
\* whatever the names, the UUIDs and the session server's answers are.
THEOREM PlayerHasOneIdentity == Spec => []OneIdentity
<1>1. Known => OneIdentity
  <2> SUFFICES ASSUME Known PROVE OneIdentity
    OBVIOUS
  <2>1. TypeOK
    BY DEF Known, Typed
  <2>2. ASSUME NEW i \in Handlers
        PROVE  /\ c[i].name # None => c[i].name = Right(i)
               /\ h[i].told # None => h[i].told = Right(i)
               /\ rows[i] # None => rows[i].id = Right(i)
    BY DEF Known, Recorded
  <2>3. QED BY <2>1, <2>2 DEF OneIdentity, Right
<1>2. QED BY <1>1, KnownHolds, PTL

\* In PLAY there is one handler for a name, in whatever case, and one for a UUID;
\* and its login did not fail.
THEOREM PlayerLoggedInOnce == Spec => []OneLogin
<1>1. Known => OneLogin
  <2> SUFFICES ASSUME Known, NEW i \in Handlers, h[i].pc = "play"
               PROVE  /\ h[i].err # "failed"
                      /\ \A j \in Handlers \ {i} :
                             h[j].pc = "play" => h[j].uuid # h[i].uuid /\ Key(j) # Key(i)
    BY DEF OneLogin
  <2>1. h[i].err # "failed"
    BY DEF Known, Settled, Accepted
  <2>2. ASSUME NEW j \in Handlers \ {i}, h[j].pc = "play"
        PROVE  h[j].uuid # h[i].uuid /\ Key(j) # Key(i)
    <3>1. Key(j) # Key(i)
      BY <2>2 DEF Known, Registered
    <3>2. h[j].uuid = h[i].uuid => h[j].nick = h[i].nick
      <4>1. ASSUME NEW l \in Handlers, h[l].pc = "play"
            PROVE  /\ h[l].nick \in Nicknames
                   /\ h[l].auth => \E a \in Answers : a.nick = h[l].nick /\ a.uuid = h[l].uuid
                   /\ ~h[l].auth => h[l].uuid = OfflineUUID[h[l].nick]
        <5>1. IdentityOf(l) = Right(l) /\ (h[l].auth => Right(l) \in Answers)
          BY <4>1 DEF Known, Settled, Accepted
        <5>2. h[l].nick \in Nicknames
          BY <4>1 DEF Known, Registered
        <5>3. IdentityOf(l).nick = h[l].nick /\ IdentityOf(l).uuid = h[l].uuid
          BY DEF IdentityOf
        <5>4. ~h[l].auth => Right(l).uuid = OfflineUUID[h[l].nick]
          BY DEF Right
        <5>5. QED BY <5>1, <5>2, <5>3, <5>4
      <4>2. QED BY <2>2, <4>1, NamesAssumption
    <3>3. QED BY <3>1, <3>2 DEF Key
  <2>3. QED BY <2>1, <2>2
<1>2. QED BY <1>1, KnownHolds, PTL

\* A handler that has ended has left nothing open: not the upstream connection,
\* not its place in Players, and not its row, whose end it has asked for once.
THEOREM ClosedReleasesAll == Spec => []Released
<1>1. Known => Released
  <2> SUFFICES ASSUME Known, NEW i \in Handlers, h[i].pc = "closed"
               PROVE  /\ h[i].upc # "open"
                      /\ \A n \in Nicknames : online[n] # i
                      /\ rows[i] # None => rows[i].ends + rows[i].refused = 1
    BY DEF Released
  <2>1. h[i].upc # "open" /\ (rows[i] # None => rows[i].ends + rows[i].refused = 1)
    BY DEF Known, Recorded
  <2>2. \A n \in Nicknames : online[n] # i
    BY NamesAssumption DEF Known, Registered
  <2>3. QED BY <2>1, <2>2
<1>2. QED BY <1>1, KnownHolds, PTL

-----------------------------------------------------------------------------
(* What the two ends of a connection make of each other's packets.         *)

Compressed == [comp |-> TRUE, enc |-> FALSE]
Middle == {"compress", "prelogin", "keyreq", "joined", "login", "track", "success"}
Kicks == {"loginkick", "gamekick"}

\* Before a client reads the k-th packet of d it has read one of this kind.
Before(d, k, kind) == \E j \in 1 .. k - 1 : d[j].kind = kind

\* Where a client that is at st now will be in the protocol when it reads the
\* k-th packet of d; and whether f is the framing it will be in by then.
StAt(st, d, k) == IF Before(d, k, "success") THEN "play" ELSE st
Fits(f, cf, d, k) ==
    /\ f.comp <=> (cf.comp \/ Before(d, k, "compression"))
    /\ f.enc <=> (cf.enc \/ Before(d, k, "keyreq"))

\* A client cl understands what it has still to read: each packet is one it
\* expects where it will be by then, in the framing it will be in.
Understands(cl, d) ==
    /\ \A k \in DOMAIN d : d[k].kind \in Expected(StAt(cl.st, d, k))
    /\ cl.honest => \A k \in DOMAIN d : Fits(d[k].f, cl.f, d, k)

\* The handler's side of the connection: what it reads is framed the way it reads.
Framed(i) ==
    /\ h[i].r = h[i].w
    /\ ~h[i].garbled
    /\ h[i].pc \in Early \cup {"compress"} => h[i].w = Plain
    /\ h[i].pc \in {"prelogin", "keyreq", "keyresp"} => h[i].w = Compressed
    /\ h[i].pc \notin Ended => \A k \in DOMAIN up[i] : up[i][k].f = h[i].r
    /\ h[i].pc = "play" => h[i].played

\* What is unread of the client's requests is what the handler expects next.
Asked(i) ==
    LET u == up[i]
    IN  /\ h[i].pc = "handshake" =>
              /\ Len(u) <= 2
              /\ Len(u) >= 1 => u[1].kind = "handshake"
              /\ Len(u) = 2 => u[2].kind = IF u[1].arg \in {"login", "badversion"}
                                           THEN "start" ELSE "request"
        /\ h[i].pc \in {"request", "ping", "start", "keyresp"} =>
              Len(u) <= 1 /\ (Len(u) = 1 => u[1].kind = h[i].pc)
        /\ h[i].pc \in Middle => u = <<>>

\* How far a client can be ahead of its handler.
Staged(i) ==
    LET u == up[i]
        p == h[i].pc
        asksLogin == u[1].arg \in {"login", "badversion"}
    IN  /\ c[i].st = "new" => p = "handshake" /\ u = <<>>
        /\ c[i].st = "login" => \/ p = "handshake" /\ Len(u) = 1 /\ asksLogin
                                \/ p = "start" /\ u = <<>>
                                \/ p \in Ended
        /\ c[i].st = "status" => \/ p = "handshake" /\ Len(u) = 1 /\ ~asksLogin
                                 \/ p = "request" /\ u = <<>>
                                 \/ p \in Ended
        /\ c[i].st = "pinging" => \/ p = "handshake" /\ Len(u) = 2 /\ ~asksLogin
                                  \/ p = "request" /\ Len(u) = 1
                                  \/ p \in {"ping"} \cup Ended
        /\ c[i].st = "waiting" => \/ p = "handshake" /\ Len(u) = 2 /\ asksLogin
                                  \/ p = "start" /\ Len(u) = 1
                                  \/ p \notin Early
        /\ c[i].st = "play" => p \in {"target", "upwait", "register", "play"} \cup Ended

\* What the handler has written to a client that is still there.
Answered(i) ==
    LET p == h[i].pc
        d == down[i]
    IN  /\ Understands(c[i], d)
        /\ p \in Early \cup {"compress"} => c[i].f = Plain
        /\ p \in {"handshake", "request", "start", "compress"} => d = <<>>
        /\ p = "ping" => Len(d) <= 1
        /\ \A k \in DOMAIN d :
              /\ p = "ping" => d[k].kind = "response"
              /\ d[k].kind \in Kicks \cup {"pong"} => p \in Ended
              /\ d[k].kind = "keyreq" =>
                    k = Len(d) /\ d[k].f = Compressed /\ p = "keyresp" /\ up[i] = <<>> /\ c[i].honest
              /\ d[k].kind = "response" => p = "ping" /\ up[i] = <<>>
        /\ p \in Checked \cup {"login", "track", "success"} => StAt(c[i].st, d, Len(d) + 1) = "waiting"
        /\ p \in {"target", "upwait", "register", "play"} => StAt(c[i].st, d, Len(d) + 1) = "play"
        /\ c[i].honest =>
              IF p = "keyresp" THEN Fits([comp |-> TRUE, enc |-> TRUE], c[i].f, d, Len(d) + 1)
              ELSE Fits(h[i].w, c[i].f, d, Len(d) + 1)

\* A client that answered with a wrong token is on its way out.
Honest(i) ==
    /\ c[i].honest => ~c[i].garbled
    /\ ~c[i].honest => \/ h[i].pc = "keyresp" /\ up[i] # <<>>
                       \/ h[i].pc = "login" /\ h[i].err = "failed"
                       \/ h[i].pc \in Ended
    /\ h[i].pc = "keyresp" /\ up[i] # <<>> => (up[i][1].arg <=> c[i].honest)

\* The last thing a handler has written to a client it ended before PLAY is a kick.
Kicked(i) ==
    h[i].pc \in Ended /\ ~h[i].played /\ c[i].st \in {"login", "waiting", "play"} =>
        down[i] # <<>> /\ down[i][Len(down[i])].kind \in Kicks

Dialogue(i) ==
    Framed(i) /\ Asked(i) /\ Staged(i) /\ (c[i].st # "gone" => Answered(i)) /\ Honest(i) /\ Kicked(i)

\* What comes before each packet when one is written,
LEMMA BeforeAppend ==
    ASSUME NEW d \in Seq(Reply), NEW m \in Reply, NEW kind
    PROVE  /\ DOMAIN d = 1 .. Len(d) /\ DOMAIN Append(d, m) = 1 .. Len(d) + 1
           /\ Append(d, m)[Len(d) + 1] = m /\ \A k \in 1 .. Len(d) : Append(d, m)[k] = d[k]
           /\ \A k \in 1 .. Len(d) + 1 : Before(Append(d, m), k, kind) <=> Before(d, k, kind)
           /\ Before(Append(d, m), Len(d) + 2, kind) <=> (m.kind = kind \/ Before(d, Len(d) + 1, kind))
<1> DEFINE e == Append(d, m)
<1>1. /\ DOMAIN d = 1 .. Len(d) /\ DOMAIN e = 1 .. Len(d) + 1 /\ Len(d) \in Nat
      /\ e[Len(d) + 1] = m /\ \A k \in 1 .. Len(d) : e[k] = d[k]
  OBVIOUS
<1> HIDE DEF e
<1>2. ASSUME NEW k \in 1 .. Len(d) + 1
      PROVE  Before(e, k, kind) <=> Before(d, k, kind)
  <2>1. \A j \in 1 .. k - 1 : j \in 1 .. Len(d)
    BY <1>1
  <2>2. QED BY <1>1, <2>1 DEF Before
<1>3. Before(e, Len(d) + 2, kind) <=> (m.kind = kind \/ Before(d, Len(d) + 1, kind))
  <2>1. \A j : j \in 1 .. (Len(d) + 2) - 1 <=> j \in 1 .. (Len(d) + 1) - 1 \/ j = Len(d) + 1
    BY <1>1
  <2>2. \A j \in 1 .. (Len(d) + 1) - 1 : e[j] = d[j]
    BY <1>1
  <2>3. QED BY <1>1, <2>1, <2>2 DEF Before
<1>4. QED BY <1>1, <1>2, <1>3 DEF e

\* and when one is read.
LEMMA BeforeTail ==
    ASSUME NEW d \in Seq(Reply), d # <<>>, NEW kind
    PROVE  /\ Len(Tail(d)) = Len(d) - 1 /\ DOMAIN Tail(d) = 1 .. Len(d) - 1 /\ DOMAIN d = 1 .. Len(d)
           /\ Head(d) = d[1] /\ 1 \in DOMAIN d
           /\ \A k \in 1 .. Len(d) - 1 : k + 1 \in DOMAIN d /\ Tail(d)[k] = d[k + 1]
           /\ \A k \in 1 .. Len(d) : Before(d, k + 1, kind) <=> (d[1].kind = kind \/ Before(Tail(d), k, kind))
<1> DEFINE e == Tail(d)
<1>1. /\ Len(e) = Len(d) - 1 /\ DOMAIN e = 1 .. Len(d) - 1 /\ DOMAIN d = 1 .. Len(d)
      /\ Len(d) \in Nat \ {0} /\ Head(d) = d[1]
      /\ \A k \in 1 .. Len(d) - 1 : k + 1 \in 1 .. Len(d) /\ e[k] = d[k + 1]
  OBVIOUS
<1> HIDE DEF e
<1>2. ASSUME NEW k \in 1 .. Len(d)
      PROVE  Before(d, k + 1, kind) <=> (d[1].kind = kind \/ Before(e, k, kind))
  <2>1. ASSUME Before(d, k + 1, kind), d[1].kind # kind
        PROVE  Before(e, k, kind)
    <3>1. PICK j \in 1 .. (k + 1) - 1 : d[j].kind = kind
      BY <2>1 DEF Before
    <3>2. j # 1
      BY <2>1, <3>1
    <3>3. j - 1 \in 1 .. k - 1 /\ j - 1 \in 1 .. Len(d) - 1 /\ (j - 1) + 1 = j
      BY <1>1, <3>1, <3>2
    <3>4. e[j - 1].kind = kind
      BY <1>1, <3>1, <3>3
    <3>5. QED BY <3>3, <3>4 DEF Before
  <2>2. ASSUME d[1].kind = kind
        PROVE  Before(d, k + 1, kind)
    <3>1. 1 \in 1 .. (k + 1) - 1
      OBVIOUS
    <3>2. QED BY <2>2, <3>1 DEF Before
  <2>3. ASSUME Before(e, k, kind)
        PROVE  Before(d, k + 1, kind)
    <3>1. PICK j \in 1 .. k - 1 : e[j].kind = kind
      BY <2>3 DEF Before
    <3>2. j + 1 \in 1 .. (k + 1) - 1 /\ j \in 1 .. Len(d) - 1
      BY <1>1, <3>1
    <3>3. d[j + 1].kind = kind
      BY <1>1, <3>1, <3>2
    <3>4. QED BY <3>2, <3>3 DEF Before
  <2>4. QED BY <2>1, <2>2, <2>3
<1>3. QED BY <1>1, <1>2 DEF e

\* What is next is expected now.
LEMMA NextUnderstood ==
    ASSUME NEW d \in Seq(Reply), d # <<>>, NEW cl \in Client, Understands(cl, d)
    PROVE  Head(d).kind \in Expected(cl.st) /\ (cl.honest => Head(d).f = cl.f)
<1>1. Head(d) = d[1] /\ 1 \in DOMAIN d /\ d[1] \in Reply
  OBVIOUS
<1>2. \A kind : ~Before(d, 1, kind)
  BY DEF Before
<1>3. d[1].kind \in Expected(cl.st)
  BY <1>1, <1>2 DEF Understands, StAt
<1>4. ASSUME cl.honest
      PROVE  d[1].f = cl.f
  <2>1. d[1].f \in Framing /\ cl.f \in Framing
    BY <1>1 DEF Reply, Client
  <2>2. (d[1].f.comp <=> cl.f.comp) /\ (d[1].f.enc <=> cl.f.enc)
    BY <1>1, <1>2, <1>4 DEF Understands, Fits
  <2>3. QED BY <2>1, <2>2 DEF Framing
<1>5. QED BY <1>1, <1>3, <1>4

\* A packet the client will expect by then, in the framing it will be in.
LEMMA AppendUnderstood ==
    ASSUME NEW d \in Seq(Reply), NEW m \in Reply, NEW cl \in Client, Understands(cl, d),
           m.kind \in Expected(StAt(cl.st, d, Len(d) + 1)),
           cl.honest => Fits(m.f, cl.f, d, Len(d) + 1)
    PROVE  Understands(cl, Append(d, m))
<1>1. \A k \in 1 .. Len(d) + 1 : k \in 1 .. Len(d) \/ k = Len(d) + 1
  OBVIOUS
<1>2. QED BY <1>1, BeforeAppend DEF Understands, StAt, Fits

\* A client that has read the next packet understands the rest as before.
LEMMA TailUnderstood ==
    ASSUME NEW d \in Seq(Reply), d # <<>>, NEW cl \in Client, NEW cm \in Client, Understands(cl, d),
           cm.honest => cl.honest,
           cm.st = IF Head(d).kind = "success" THEN "play" ELSE cl.st,
           cm.f.comp <=> (cl.f.comp \/ Head(d).kind = "compression"),
           cm.f.enc <=> (cl.f.enc \/ Head(d).kind = "keyreq")
    PROVE  /\ Understands(cm, Tail(d))
           /\ StAt(cm.st, Tail(d), Len(Tail(d)) + 1) = StAt(cl.st, d, Len(d) + 1)
           /\ \A g : Fits(g, cl.f, d, Len(d) + 1) => Fits(g, cm.f, Tail(d), Len(Tail(d)) + 1)
<1> DEFINE e == Tail(d)
<1>1. /\ Len(e) = Len(d) - 1 /\ DOMAIN e = 1 .. Len(d) - 1 /\ Head(d) = d[1] /\ Len(d) \in Nat \ {0}
      /\ \A k \in 1 .. Len(d) - 1 : k + 1 \in DOMAIN d /\ e[k] = d[k + 1]
  BY BeforeTail
<1>2. ASSUME NEW k \in 1 .. Len(d)
      PROVE  /\ StAt(cm.st, e, k) = StAt(cl.st, d, k + 1)
             /\ \A g : Fits(g, cl.f, d, k + 1) <=> Fits(g, cm.f, e, k)
  <2>1. \A kind : Before(d, k + 1, kind) <=> (Head(d).kind = kind \/ Before(e, k, kind))
    BY <1>1, BeforeTail
  <2> HIDE DEF e
  <2>2. StAt(cm.st, e, k) = StAt(cl.st, d, k + 1)
    <3>1. CASE Before(e, k, "success")
      BY <2>1, <3>1 DEF StAt
    <3>2. CASE ~Before(e, k, "success")
      BY <2>1, <3>2 DEF StAt
    <3>3. QED BY <3>1, <3>2
  <2>3. \A g : Fits(g, cl.f, d, k + 1) <=> Fits(g, cm.f, e, k)
    BY <2>1 DEF Fits
  <2>4. QED BY <2>2, <2>3
<1> HIDE DEF e
<1>3. \A k \in DOMAIN e : k \in 1 .. Len(d) /\ k + 1 \in DOMAIN d /\ e[k] = d[k + 1]
  BY <1>1
<1>4. \A k \in DOMAIN e : e[k].kind \in Expected(StAt(cm.st, e, k))
  BY <1>2, <1>3 DEF Understands
<1>5. cm.honest => \A k \in DOMAIN e : Fits(e[k].f, cm.f, e, k)
  BY <1>2, <1>3 DEF Understands
<1>6. Len(d) \in 1 .. Len(d) /\ Len(e) + 1 = Len(d)
  BY <1>1
<1>7. QED BY <1>2, <1>4, <1>5, <1>6 DEF Understands, e

\* Nothing has been said at first.
LEMMA InitDialogue ==
    ASSUME Init, NEW i \in Handlers
    PROVE  Dialogue(i)
<1>1. h[i] = NewHandler /\ c[i] = NewClient /\ up[i] = <<>> /\ down[i] = <<>>
  BY DEF Init
<1>2. Framed(i)
  BY <1>1 DEF Framed, NewHandler, Plain
<1>3. Asked(i)
  BY <1>1 DEF Asked, NewHandler, Middle
<1>4. Staged(i)
  BY <1>1 DEF Staged, NewHandler, NewClient
<1>5. Answered(i)
  <2>1. \A kind : ~Before(<<>>, 1, kind)
    BY DEF Before
  <2>2. Understands(c[i], down[i])
    BY <1>1 DEF Understands
  <2>3. Fits(h[i].w, c[i].f, down[i], Len(down[i]) + 1)
    BY <1>1, <2>1 DEF Fits, NewHandler, NewClient, Plain
  <2>4. QED BY <1>1, <2>2, <2>3 DEF Answered, NewHandler, NewClient, Checked
<1>6. Honest(i) /\ Kicked(i)
  BY <1>1 DEF Honest, Kicked, NewHandler, NewClient, Ended
<1>7. QED BY <1>2, <1>3, <1>4, <1>5, <1>6 DEF Dialogue

\* Nothing that another connection does matters.
LEMMA SameDialogue ==
    ASSUME NEW i \in Handlers, Dialogue(i), Same(i)
    PROVE  Dialogue(i)'
BY DEF Dialogue, Same, Framed, Asked, Staged, Answered, Honest, Kicked

\* The client asks for more, at a stage where its handler can tell what it asks:
\* what it writes is in the framing its handler reads.
LEMMA SendsFramed ==
    ASSUME Typed, NEW i \in Handlers, Dialogue(i), NEW k, NEW a, NEW cl, ClientSends(i, k, a, cl),
           h[i].pc \notin Ended => c[i].f = h[i].r
    PROVE  Framed(i)'
<1>1. h' = h /\ up[i] \in Seq(Request) /\ up'[i] = Append(up[i], [kind |-> k, arg |-> a, f |-> c[i].f])
  BY DEF ClientSends, Typed
<1>2. h[i].pc \notin Ended => \A m \in DOMAIN up'[i] : up'[i][m].f = h[i].r
  <2>1. ASSUME NEW m \in DOMAIN up'[i]
        PROVE  up'[i][m] = [kind |-> k, arg |-> a, f |-> c[i].f] \/ (m \in DOMAIN up[i] /\ up'[i][m] = up[i][m])
    BY <1>1
  <2>2. QED BY <2>1 DEF Dialogue, Framed
<1>3. QED BY <1>1, <1>2 DEF Dialogue, Framed

\* A client's requests, each where the handler expects it.
LEMMA ClientAsksDialogue ==
    ASSUME Known, NEW i \in Handlers, Dialogue(i),
           \/ \E next \in {"status", "login", "badversion", "other"} : ClientHandshake(i, next)
           \/ \E n \in Nicknames : ClientLoginStart(i, n)
           \/ ClientRequest(i)
    PROVE  Dialogue(i)'
<1>0. /\ Typed /\ Framed(i) /\ Asked(i) /\ Staged(i) /\ Honest(i) /\ Kicked(i)
      /\ c[i].st # "gone" => Answered(i)
      /\ c \in [Handlers -> Client] /\ c[i] \in Client /\ up[i] \in Seq(Request)
      /\ up \in [Handlers -> Seq(Request)] /\ down[i] \in Seq(Reply)
  BY DEF Known, Dialogue, Typed, TypeOK
<1>1. PICK k, a, st :
          /\ ClientSends(i, k, a, [c[i] EXCEPT !.st = st]) /\ down' = down
          /\ \/ /\ c[i].st = "new" /\ k = "handshake"
                /\ st = IF a \in {"login", "badversion"} THEN "login" ELSE "status"
             \/ c[i].st = "login" /\ k = "start" /\ st = "waiting"
             \/ c[i].st = "status" /\ k = "request" /\ st = "pinging"
  BY DEF ClientHandshake, ClientLoginStart, ClientRequest
<1>2. /\ h' = h /\ c'[i] = [c[i] EXCEPT !.st = st] /\ Answered(i)
      /\ up'[i] = Append(up[i], [kind |-> k, arg |-> a, f |-> c[i].f])
  BY <1>0, <1>1 DEF ClientSends
<1>3. /\ c'[i].st = st /\ c'[i].f = c[i].f /\ c'[i].honest = c[i].honest
      /\ c'[i].garbled = c[i].garbled
  BY <1>0, <1>2 DEF Client
<1>4. /\ h[i].pc \in Early \cup Ended
      /\ h[i].pc = "handshake" => c[i].st \in {"new", "login", "status"}
      /\ h[i].pc \notin {"ping", "keyresp"} \cup Middle
  BY <1>0, <1>1 DEF Staged, Early, Ended, Middle
<1>5. Framed(i)'
  <2>1. h[i].pc \notin Ended => c[i].f = h[i].r
    BY <1>0, <1>2, <1>4 DEF Framed, Answered
  <2>2. QED BY <1>0, <1>1, <2>1, SendsFramed DEF Dialogue
<1>6. Len(up'[i]) = Len(up[i]) + 1 /\ Len(up[i]) \in Nat
      /\ (up[i] = <<>> => up'[i][1].kind = k /\ up'[i][1].arg = a)
      /\ (Len(up[i]) = 1 => up'[i][1] = up[i][1] /\ up'[i][2].kind = k)
  BY <1>0, <1>2
<1>7. up[i] = <<>> <=> Len(up[i]) = 0
  BY <1>0
<1>8. CASE c[i].st = "new"
  <2>1. k = "handshake" /\ h[i].pc = "handshake" /\ up[i] = <<>>
    BY <1>0, <1>1, <1>8 DEF Staged
  <2>2. Asked(i)'
    BY <1>2, <1>6, <1>7, <2>1 DEF Asked, Middle
  <2>3. Staged(i)'
    BY <1>1, <1>2, <1>3, <1>6, <1>7, <1>8, <2>1 DEF Staged
  <2>4. down[i] = <<>>
    BY <1>2, <2>1 DEF Answered
  <2>5. Answered(i)'
    <3>1. Understands(c'[i], down[i])
      BY <2>4 DEF Understands
    <3>2. Fits(h[i].w, c'[i].f, down[i], Len(down[i]) + 1) <=> Fits(h[i].w, c[i].f, down[i], Len(down[i]) + 1)
      BY <1>3
    <3>3. QED BY <1>1, <1>2, <1>3, <2>1, <2>4, <3>1, <3>2 DEF Answered, Checked
  <2>6. Honest(i)' /\ Kicked(i)'
    BY <1>0, <1>1, <1>2, <1>3, <2>1 DEF Honest, Kicked, Ended
  <2>7. QED BY <1>5, <2>2, <2>3, <2>5, <2>6 DEF Dialogue
<1>9. CASE c[i].st \in {"login", "status"}
  <2>1. Asked(i)'
    BY <1>0, <1>1, <1>2, <1>4, <1>6, <1>7, <1>9 DEF Asked, Staged, Ended, Middle
  <2>2. Staged(i)'
    <3>1. CASE c[i].st = "login"
      BY <1>0, <1>1, <1>2, <1>3, <1>6, <1>7, <3>1 DEF Staged, Early, Ended
    <3>2. CASE c[i].st = "status"
      BY <1>0, <1>1, <1>2, <1>3, <1>6, <1>7, <3>2 DEF Staged, Early, Ended
    <3>3. QED BY <1>9, <3>1, <3>2
  <2>3. Understands(c'[i], down[i])
    <3>1. CASE c[i].st = "login"
      <4>1. \A j : Expected(StAt("waiting", down[i], j)) = Expected(StAt("login", down[i], j))
        BY DEF StAt, Expected
      <4>2. QED BY <1>1, <1>2, <1>3, <3>1, <4>1 DEF Answered, Understands
    <3>2. CASE c[i].st = "status"
      <4>1. down[i] = <<>>
        BY <1>0, <1>2, <3>2, NextUnderstood DEF Answered, Expected
      <4>2. QED BY <4>1 DEF Understands
    <3>3. QED BY <1>9, <3>1, <3>2
  <2>4. Answered(i)'
    <3>1. h[i].pc \notin Checked \cup {"login", "track", "success", "target", "upwait", "register",
                                       "play", "ping", "keyresp"}
      BY <1>4 DEF Early, Ended, Checked
    <3>2. Fits(h[i].w, c'[i].f, down[i], Len(down[i]) + 1) <=> Fits(h[i].w, c[i].f, down[i], Len(down[i]) + 1)
      BY <1>3
    <3>3. \A m \in DOMAIN down[i] :
              /\ down[i][m].kind \in Kicks \cup {"pong"} => h[i].pc \in Ended
              /\ down[i][m].kind # "keyreq" /\ down[i][m].kind # "response"
      BY <1>2, <3>1 DEF Answered
    <3>4. QED BY <1>1, <1>2, <1>3, <2>3, <3>1, <3>2, <3>3 DEF Answered
  <2>5. Honest(i)'
    <3>1. h[i].pc # "keyresp"
      BY <1>4
    <3>2. QED BY <1>0, <1>2, <1>3, <3>1 DEF Honest
  <2>6. Kicked(i)'
    <3>1. CASE c[i].st = "login"
      BY <1>0, <1>1, <1>2, <1>3, <3>1 DEF Kicked
    <3>2. CASE c[i].st = "status"
      BY <1>1, <1>3, <3>2 DEF Kicked
    <3>3. QED BY <1>9, <3>1, <3>2
  <2>7. QED BY <1>5, <2>1, <2>2, <2>4, <2>5, <2>6 DEF Dialogue
<1>10. QED BY <1>1, <1>8, <1>9

\* A client in PLAY, or one that leaves.
LEMMA ClientPlaysDialogue ==
    ASSUME Known, NEW i \in Handlers, Dialogue(i), ClientPlays(i) \/ ClientLeaves(i)
    PROVE  Dialogue(i)'
<1>0. /\ Typed /\ Framed(i) /\ Asked(i) /\ Staged(i) /\ Honest(i) /\ Kicked(i)
      /\ c \in [Handlers -> Client] /\ c[i] \in Client /\ h[i] \in Handler
      /\ up[i] \in Seq(Request) /\ up \in [Handlers -> Seq(Request)] /\ down[i] \in Seq(Reply)
  BY DEF Known, Dialogue, Typed, TypeOK
<1>1. CASE ClientPlays(i)
  <2>1. /\ h' = h /\ c'[i] = c[i] /\ down' = down /\ c[i].st = "play" /\ up[i] = <<>>
        /\ ClientSends(i, "play", None, c[i]) /\ Answered(i)
        /\ up'[i] = Append(up[i], [kind |-> "play", arg |-> None, f |-> c[i].f])
    BY <1>0, <1>1 DEF ClientPlays, ClientSends, Dialogue
  <2>2. h[i].pc \in {"target", "upwait", "register", "play", "close", "closed"}
    BY <1>0, <2>1 DEF Staged, Ended
  <2>3. h[i].pc \notin Ended => c[i].f = h[i].r
    <3>1. SUFFICES ASSUME h[i].pc \notin Ended PROVE c[i].f = h[i].r
      OBVIOUS
    <3>2. c[i].honest /\ h[i].pc # "keyresp"
      BY <1>0, <2>2, <3>1 DEF Honest
    <3>3. Fits(h[i].w, c[i].f, down[i], Len(down[i]) + 1)
      BY <2>1, <3>2 DEF Answered
    <3>4. \A k \in DOMAIN down[i] : down[i][k].kind = "gamekick"
      BY <2>1 DEF Answered, Understands, StAt, Expected
    <3>5. /\ ~Before(down[i], Len(down[i]) + 1, "compression")
          /\ ~Before(down[i], Len(down[i]) + 1, "keyreq")
      BY <1>0, <3>4 DEF Before
    <3>6. h[i].w \in Framing /\ c[i].f \in Framing
      BY <1>0 DEF Handler, Client
    <3>7. (h[i].w.comp <=> c[i].f.comp) /\ (h[i].w.enc <=> c[i].f.enc)
      BY <3>3, <3>5 DEF Fits
    <3>8. h[i].w = c[i].f
      BY <3>6, <3>7 DEF Framing
    <3>9. QED BY <1>0, <3>8 DEF Framed
  <2>4. Framed(i)'
    BY <1>0, <2>1, <2>3, SendsFramed
  <2>5. Asked(i)' /\ Staged(i)'
    BY <1>0, <2>1, <2>2 DEF Asked, Staged, Middle
  <2>6. Answered(i)'
    <3>1. \A k \in DOMAIN down[i] : down[i][k].kind # "keyreq" /\ down[i][k].kind # "response"
      BY <2>1, <2>2 DEF Answered
    <3>2. QED BY <2>1, <3>1 DEF Answered
  <2>7. Honest(i)' /\ Kicked(i)'
    BY <1>0, <2>1, <2>2 DEF Honest, Kicked
  <2>8. QED BY <2>4, <2>5, <2>6, <2>7 DEF Dialogue
<1>2. CASE ClientLeaves(i)
  <2>1. h' = h /\ up' = up /\ down' = down /\ c'[i] = [c[i] EXCEPT !.st = "gone"]
    BY <1>0, <1>2 DEF ClientLeaves
  <2>2. c'[i].st = "gone" /\ c'[i].honest = c[i].honest /\ c'[i].garbled = c[i].garbled
    BY <1>0, <2>1 DEF Client
  <2>3. Framed(i)' /\ Asked(i)' /\ Staged(i)' /\ Honest(i)' /\ Kicked(i)'
    BY <1>0, <2>1, <2>2 DEF Framed, Asked, Staged, Honest, Kicked
  <2>4. QED BY <2>2, <2>3 DEF Dialogue
<1>3. QED BY <1>1, <1>2

\* A client reads a packet and goes on to where the rest finds it.
LEMMA ClientReceivesDialogue ==
    ASSUME Known, NEW i \in Handlers, Dialogue(i), NEW good \in BOOLEAN, ClientReceives(i, good)
    PROVE  Dialogue(i)'
<1> DEFINE d == down[i]
           p == Head(d)
<1>0. /\ Typed /\ Framed(i) /\ Asked(i) /\ Staged(i) /\ Honest(i) /\ Kicked(i)
      /\ c \in [Handlers -> Client] /\ c[i] \in Client /\ c[i].f \in Framing /\ h[i] \in Handler
      /\ up[i] \in Seq(Request) /\ up \in [Handlers -> Seq(Request)] /\ d \in Seq(Reply)
  BY DEF Known, Dialogue, Typed, TypeOK, Client
<1>1. /\ c[i].st # "gone" /\ d # <<>> /\ Answered(i) /\ down'[i] = Tail(d) /\ h' = h
  BY <1>0, ClientStepTyped DEF ClientReceives, ClientStep, Dialogue, Typed
<1>2. /\ p.kind \in Expected(c[i].st) /\ (c[i].honest => p.f = c[i].f)
      /\ p = d[1] /\ 1 \in DOMAIN d /\ p \in Reply
      /\ \A k \in DOMAIN Tail(d) : k + 1 \in DOMAIN d /\ Tail(d)[k] = d[k + 1]
      /\ Len(Tail(d)) = Len(d) - 1 /\ Len(d) \in Nat \ {0} /\ DOMAIN Tail(d) = 1 .. Len(d) - 1
      /\ Tail(d) \in Seq(Reply)
  <2>1. p.kind \in Expected(c[i].st) /\ (c[i].honest => p.f = c[i].f)
    BY <1>0, <1>1, NextUnderstood DEF Answered
  <2>2. QED BY <1>0, <1>1, <2>1
<1> DEFINE len == Len(d)
<1>20. len \in Nat \ {0} /\ Len(Tail(d)) = len - 1 /\ DOMAIN Tail(d) = 1 .. len - 1
  BY <1>2
<1> HIDE DEF len
\* The client leaves: it has been told to, or could not make sense of the packet.
<1>3. ASSUME h' = h, up' = up, c'[i].st = "gone", c'[i].honest = c[i].honest,
             c[i].honest => c'[i].garbled = c[i].garbled
      PROVE  Dialogue(i)'
  <2>1. Framed(i)' /\ Asked(i)' /\ Staged(i)' /\ Honest(i)' /\ Kicked(i)'
    BY <1>0, <1>3 DEF Framed, Asked, Staged, Honest, Kicked
  <2>2. QED BY <1>3, <2>1 DEF Dialogue
<1>4. CASE p.f # c[i].f
  <2>1. c'[i] = [c[i] EXCEPT !.garbled = TRUE, !.st = "gone"] /\ up' = up
    BY <1>0, <1>4 DEF ClientReceives
  <2>2. c'[i].st = "gone" /\ c'[i].honest = c[i].honest
    BY <1>0, <2>1 DEF Client
  <2>3. QED BY <1>1, <1>2, <1>3, <1>4, <2>1, <2>2
<1>5. CASE p.f = c[i].f /\ p.kind \in {"loginkick", "gamekick", "pong"}
  <2>1. c'[i] = [c[i] EXCEPT !.st = "gone", !.kicked = p.kind # "pong"] /\ up' = up
    BY <1>0, <1>2, <1>5 DEF ClientReceives
  <2>2. c'[i].st = "gone" /\ c'[i].honest = c[i].honest /\ c'[i].garbled = c[i].garbled
    BY <1>0, <2>1 DEF Client
  <2>3. QED BY <1>1, <1>3, <2>1, <2>2
<1>6. Kicked(i) /\ c[i].st \in {"login", "waiting", "play"} /\ h[i].pc \in Ended /\ ~h[i].played
      /\ p.kind \notin Kicks => Tail(d) # <<>> /\ Tail(d)[Len(Tail(d))].kind \in Kicks
  <2>1. SUFFICES ASSUME c[i].st \in {"login", "waiting", "play"}, h[i].pc \in Ended, ~h[i].played,
                        p.kind \notin Kicks
                 PROVE  Tail(d) # <<>> /\ Tail(d)[Len(Tail(d))].kind \in Kicks
    OBVIOUS
  <2>2. d[Len(d)].kind \in Kicks
    BY <1>0, <2>1 DEF Kicked
  <2>3. len # 1
    BY <1>2, <2>1, <2>2 DEF len
  <2>4. len - 1 \in 1 .. len - 1 /\ (len - 1) + 1 = len
    BY <1>20, <2>3
  <2>5. Tail(d)[len - 1] = d[len]
    BY <1>2, <1>20, <2>4
  <2>6. Tail(d) # <<>>
    BY <1>20, <2>3
  <2>7. QED BY <1>20, <2>2, <2>5, <2>6 DEF len
<1>7. CASE p.f = c[i].f /\ p.kind \in {"compression", "success"}
  <2>1. up' = up /\ h[i].pc \notin Early \cup {"compress"}
    <3>1. up' = up
      BY <1>2, <1>7 DEF ClientReceives
    <3>2. h[i].pc \notin Early \cup {"compress"}
      BY <1>1, <1>2, <1>7 DEF Answered, Early
    <3>3. QED BY <3>1, <3>2
  <2>2. c'[i] = IF p.kind = "success" THEN [c[i] EXCEPT !.st = "play", !.name = p.arg]
                ELSE [c[i] EXCEPT !.f.comp = TRUE]
    BY <1>0, <1>2, <1>7 DEF ClientReceives
  <2>3. /\ c'[i].st = IF p.kind = "success" THEN "play" ELSE c[i].st
        /\ c'[i].f.comp <=> (c[i].f.comp \/ p.kind = "compression")
        /\ c'[i].f.enc <=> c[i].f.enc
        /\ c'[i].honest = c[i].honest /\ c'[i].garbled = c[i].garbled /\ c'[i] \in Client
    <3>1. c'[i] \in Client
      BY ClientStepTyped, <1>0 DEF ClientStep, Typed, TypeOK
    <3>2. CASE p.kind = "success"
      BY <1>0, <2>2, <3>1, <3>2 DEF Client
    <3>3. CASE p.kind = "compression"
      BY <1>0, <2>2, <3>1, <3>3 DEF Client, Framing
    <3>4. QED BY <1>7, <3>2, <3>3
  <2>4. /\ Understands(c'[i], Tail(d))
        /\ StAt(c'[i].st, Tail(d), Len(Tail(d)) + 1) = StAt(c[i].st, d, Len(d) + 1)
        /\ \A g : Fits(g, c[i].f, d, Len(d) + 1) => Fits(g, c'[i].f, Tail(d), Len(Tail(d)) + 1)
    BY <1>0, <1>1, <1>7, <2>3, TailUnderstood DEF Answered
  <2>5. /\ \A k \in DOMAIN Tail(d) :
              /\ Tail(d)[k].kind \in Kicks \cup {"pong"} => h[i].pc \in Ended
              /\ Tail(d)[k].kind = "keyreq" => k = Len(Tail(d)) /\ Tail(d)[k].f = Compressed
                     /\ h[i].pc = "keyresp" /\ up[i] = <<>> /\ c[i].honest
              /\ Tail(d)[k].kind = "response" => h[i].pc = "ping" /\ up[i] = <<>>
    BY <1>1, <1>2 DEF Answered
  <2>6. Answered(i)'
    BY <1>1, <2>1, <2>3, <2>4, <2>5 DEF Answered, Early
  <2>7. Framed(i)' /\ Asked(i)' /\ Honest(i)'
    BY <1>0, <1>1, <2>1, <2>3 DEF Framed, Asked, Honest
  <2>8. Staged(i)'
    <3>1. CASE p.kind = "compression"
      BY <1>0, <1>1, <2>1, <2>3, <3>1 DEF Staged
    <3>2. CASE p.kind = "success"
      <4>1. Before(d, Len(d) + 1, "success")
        BY <1>2, <3>2 DEF Before
      <4>2. h[i].pc \notin Checked \cup {"login", "track", "success"}
        BY <1>1, <4>1 DEF Answered, StAt
      <4>3. h[i].pc \in {"target", "upwait", "register", "play"} \cup Ended
        BY <1>0, <2>1, <4>2 DEF Handler, Early, Checked, Ended
      <4>4. QED BY <1>1, <2>1, <2>3, <3>2, <4>3 DEF Staged
    <3>3. QED BY <1>7, <3>1, <3>2
  <2>9. Kicked(i)'
    <3>1. c[i].st \in {"login", "waiting", "play"}
      BY <1>2, <1>7 DEF Expected
    <3>2. QED BY <1>0, <1>1, <1>6, <1>7, <2>1, <2>3, <3>1 DEF Kicked, Kicks
  <2>10. QED BY <2>6, <2>7, <2>8, <2>9 DEF Dialogue
<1>8. CASE p.f = c[i].f /\ p.kind = "keyreq"
  <2>1. /\ d = <<p>> /\ Tail(d) = <<>> /\ p.f = Compressed /\ h[i].pc = "keyresp" /\ up[i] = <<>>
        /\ c[i].honest
    BY <1>0, <1>1, <1>2, <1>8 DEF Answered
  <2>2. /\ ClientSends(i, "keyresp", good, [c[i] EXCEPT !.f = [@ EXCEPT !.enc = TRUE], !.honest = good])
        /\ c'[i] = [c[i] EXCEPT !.f = [@ EXCEPT !.enc = TRUE], !.honest = good]
        /\ up'[i] = <<[kind |-> "keyresp", arg |-> good, f |-> c[i].f]>>
    <3>1. ClientSends(i, "keyresp", good, [c[i] EXCEPT !.f = [@ EXCEPT !.enc = TRUE], !.honest = good])
      BY <1>2, <1>8 DEF ClientReceives
    <3>2. QED BY <1>0, <2>1, <3>1 DEF ClientSends
  <2>3. /\ c'[i].st = c[i].st /\ c'[i].f.comp /\ c'[i].f.enc
        /\ c'[i].honest = good /\ c'[i].garbled = c[i].garbled
    <3>1. c[i].f \in Framing /\ c[i].f.comp
      BY <1>0, <1>8, <2>1 DEF Compressed
    <3>2. c'[i].f = [c[i].f EXCEPT !.enc = TRUE]
      BY <1>0, <2>2 DEF Client
    <3>3. c'[i].f.comp /\ c'[i].f.enc
      BY <3>1, <3>2 DEF Framing
    <3>4. QED BY <1>0, <2>2, <3>3 DEF Client
  <2>4. StAt(c[i].st, d, Len(d) + 1) = "waiting"
    BY <1>1, <2>1 DEF Answered, Checked
  <2>5. c[i].st = "waiting"
    BY <2>4 DEF StAt
  <2>6. Framed(i)'
    BY <1>0, <1>8, <2>1, <2>2, SendsFramed DEF Framed
  <2>7. Asked(i)' /\ Staged(i)'
    BY <1>1, <2>1, <2>2, <2>3, <2>5 DEF Asked, Staged, Middle, Early
  <2>8. Answered(i)'
    <3>1. \A kind : ~Before(<<>>, 1, kind)
      BY DEF Before
    <3>2. Understands(c'[i], <<>>)
      BY DEF Understands
    <3>3. Fits([comp |-> TRUE, enc |-> TRUE], c'[i].f, <<>>, 1)
      BY <2>3, <3>1 DEF Fits
    <3>4. StAt(c'[i].st, <<>>, 1) = "waiting"
      BY <2>3, <2>5, <3>1 DEF StAt
    <3>5. down'[i] = <<>> /\ Len(<<>>) + 1 = 1 /\ DOMAIN <<>> = {}
      BY <1>1, <2>1
    <3>6. QED BY <1>1, <2>1, <2>3, <3>2, <3>3, <3>4, <3>5 DEF Answered, Early, Checked
  <2>9. Honest(i)'
    BY <1>0, <1>1, <2>1, <2>2, <2>3 DEF Honest
  <2>10. Kicked(i)'
    BY <1>1, <2>1 DEF Kicked, Ended
  <2>11. QED BY <2>6, <2>7, <2>8, <2>9, <2>10 DEF Dialogue
<1>9. CASE p.f = c[i].f /\ p.kind = "response"
  <2>1. /\ Tail(d) = <<>> /\ h[i].pc = "ping" /\ up[i] = <<>> /\ c[i].f = Plain
    <3>1. h[i].pc = "ping" /\ up[i] = <<>> /\ c[i].f = Plain
      BY <1>1, <1>2, <1>9 DEF Answered, Early
    <3>2. Len(d) = 1
      <4>1. len <= 1
        BY <1>1, <3>1 DEF Answered, len
      <4>2. len = 1
        BY <1>20, <4>1
      <4>3. QED BY <4>2 DEF len
    <3>3. QED BY <1>2, <3>1, <3>2
  <2>2. /\ ClientSends(i, "ping", None, c[i]) /\ c'[i] = c[i]
        /\ up'[i] = <<[kind |-> "ping", arg |-> None, f |-> c[i].f]>>
    <3>1. ClientSends(i, "ping", None, c[i])
      BY <1>2, <1>9 DEF ClientReceives
    <3>2. QED BY <1>0, <2>1, <3>1 DEF ClientSends
  <2>3. Framed(i)'
    BY <1>0, <2>1, <2>2, SendsFramed DEF Framed, Early
  <2>4. Asked(i)' /\ Staged(i)'
    BY <1>0, <1>1, <2>1, <2>2 DEF Asked, Staged, Middle, Early
  <2>5. Answered(i)'
    <3>1. \A kind : ~Before(<<>>, 1, kind)
      BY DEF Before
    <3>2. Understands(c'[i], <<>>)
      BY DEF Understands
    <3>3. h[i].w = Plain
      BY <1>0, <2>1 DEF Framed, Early
    <3>4. Fits(h[i].w, c'[i].f, <<>>, 1)
      BY <2>1, <2>2, <3>1, <3>3 DEF Fits
    <3>5. down'[i] = <<>> /\ Len(<<>>) + 1 = 1 /\ DOMAIN <<>> = {}
      BY <1>1, <2>1
    <3>6. QED BY <1>1, <2>1, <2>2, <3>2, <3>4, <3>5 DEF Answered, Early, Checked
  <2>6. Honest(i)' /\ Kicked(i)'
    BY <1>0, <1>1, <2>1, <2>2 DEF Honest, Kicked, Ended
  <2>7. QED BY <2>3, <2>4, <2>5, <2>6 DEF Dialogue
<1>10. p.kind \in {"loginkick", "gamekick", "pong", "compression", "success", "keyreq", "response"}
  BY <1>2 DEF Reply
<1>11. QED BY <1>4, <1>5, <1>7, <1>8, <1>9, <1>10

\* What a handler writes to a client that is there is the last it has to read.
LEMMA WritesLast ==
    ASSUME Typed, NEW i \in Handlers, NEW k, NEW a, Write(i, k, a) \/ WriteFails(i), c[i].st # "gone"
    PROVE  down'[i] = Append(down[i], [kind |-> k, arg |-> a, f |-> h[i].w])
BY DEF Write, WriteFails, Typed

\* To a client that has left nothing needs to be said.
LEMMA GoneDialogue ==
    ASSUME Typed, NEW i \in Handlers, c[i].st = "gone", c'[i] = c[i],
           Framed(i)', Asked(i)', Honest(i)'
    PROVE  Dialogue(i)'
<1>1. Staged(i)' /\ Kicked(i)'
  BY DEF Staged, Kicked
<1>2. QED BY <1>1 DEF Dialogue

\* The handler ends, its last word a kick (or the answer to a ping).
LEMMA KickDialogue ==
    ASSUME Typed, NEW i \in Handlers, Dialogue(i), c' = c, NEW k \in Kicks \cup {"pong"},
           Write(i, k, None) \/ WriteFails(i),
           c[i].st # "gone" => k \in Expected(StAt(c[i].st, down[i], Len(down[i]) + 1)),
           k = "pong" => c[i].st \notin {"login", "waiting", "play"},
           c[i].st # "new", h[i].pc \notin Ended \cup {"keyresp"}, h[i].pc = "ping" => up[i] # <<>>,
           h'[i].pc = "close", h'[i].r = h[i].r, h'[i].w = h[i].w, h'[i].garbled = h[i].garbled
    PROVE  Dialogue(i)'
<1>0. /\ Framed(i) /\ Asked(i) /\ Staged(i) /\ Honest(i) /\ (c[i].st # "gone" => Answered(i))
      /\ down[i] \in Seq(Reply) /\ h[i].w \in Framing /\ c[i] \in Client
  BY DEF Dialogue, Typed, TypeOK, Handler
<1>1. Framed(i)'
  BY <1>0 DEF Framed, Ended, Early
<1>2. Asked(i)'
  BY DEF Asked, Middle
<1>3. Honest(i)'
  BY <1>0 DEF Honest, Ended
<1>4. CASE c[i].st = "gone"
  BY <1>1, <1>2, <1>3, <1>4, GoneDialogue
<1>5. CASE c[i].st # "gone"
  <2> DEFINE d == down[i]
             m == [kind |-> k, arg |-> None, f |-> h[i].w]
  <2>1. down'[i] = Append(d, m) /\ m \in Reply /\ m.kind = k /\ m.f = h[i].w
    BY <1>0, <1>5, WritesLast DEF Reply, Kicks
  <2>2. /\ DOMAIN Append(d, m) = 1 .. Len(d) + 1 /\ Len(Append(d, m)) = Len(d) + 1 /\ Len(d) \in Nat
        /\ DOMAIN d = 1 .. Len(d)
        /\ Append(d, m)[Len(d) + 1] = m /\ \A j \in 1 .. Len(d) : Append(d, m)[j] = d[j]
    BY <1>0, <2>1
  <2>3. c[i].honest => Fits(h[i].w, c[i].f, d, Len(d) + 1)
    BY <1>0, <1>5 DEF Answered
  <2>4. Understands(c[i], Append(d, m))
    BY <1>0, <1>5, <2>1, <2>3, AppendUnderstood DEF Answered
  <2>5. c[i].honest => Fits(h[i].w, c[i].f, Append(d, m), Len(d) + 2)
    BY <1>0, <2>1, <2>3, BeforeAppend DEF Fits, Kicks
  <2> HIDE DEF m
  <2>6. \A j \in DOMAIN Append(d, m) : Append(d, m)[j].kind # "keyreq" /\ Append(d, m)[j].kind # "response"
    <3>1. \A j \in 1 .. Len(d) : d[j].kind # "keyreq" /\ d[j].kind # "response"
      BY <1>0, <1>5, <2>2 DEF Answered
    <3>2. m.kind # "keyreq" /\ m.kind # "response"
      BY <2>1 DEF Kicks
    <3>3. \A j \in 1 .. Len(d) + 1 : j \in 1 .. Len(d) \/ j = Len(d) + 1
      BY <2>2
    <3>4. QED BY <2>2, <3>1, <3>2, <3>3
  <2>7. Len(down'[i]) + 1 = Len(d) + 2
    BY <2>1, <2>2
  <2>8. Answered(i)'
    BY <2>1, <2>4, <2>5, <2>6, <2>7 DEF Answered, Early, Checked, Ended
  <2>9. Staged(i)'
    BY <1>0, <1>5 DEF Staged, Ended, Early
  <2>10. Kicked(i)'
    <3>1. down'[i] # <<>> /\ down'[i][Len(down'[i])].kind = k
      <4>1. Append(d, m) # <<>>
        BY <1>0, <2>1
      <4>2. QED BY <2>1, <2>2, <4>1
    <3>2. k \in Kicks \/ c'[i].st \notin {"login", "waiting", "play"}
      OBVIOUS
    <3>3. QED BY <3>1, <3>2 DEF Kicked
  <2>11. QED BY <1>1, <1>2, <1>3, <2>8, <2>9, <2>10 DEF Dialogue
<1>6. QED BY <1>4, <1>5

\* The handler goes on without a word, at a stage where the client waits.
LEMMA QuietDialogue ==
    ASSUME Typed, NEW i \in Handlers, Dialogue(i), c' = c, up' = up, down' = down,
           \/ /\ h[i].pc \in Middle \ {"compress", "success"}
              /\ h'[i].pc \in Middle \ {"compress", "prelogin"}
           \/ h[i].pc \in {"target", "upwait", "register"} /\ h'[i].pc \in {"upwait", "register", "play"},
           h'[i].pc = "keyreq" => h[i].pc = "prelogin", h'[i].pc = "play" => h'[i].played,
           h'[i].r = h[i].r, h'[i].w = h[i].w, h'[i].garbled = h[i].garbled,
           c[i].honest \/ (h'[i].pc = "login" /\ h'[i].err = "failed")
    PROVE  Dialogue(i)'
<1>0. /\ Framed(i) /\ Asked(i) /\ Staged(i) /\ Honest(i) /\ (c[i].st # "gone" => Answered(i))
  BY DEF Dialogue
<1>1. Framed(i)'
  BY <1>0 DEF Framed, Ended, Early, Middle
<1>2. Asked(i)'
  BY <1>0 DEF Asked, Middle
<1>3. Honest(i)' /\ Kicked(i)'
  BY <1>0 DEF Honest, Kicked, Ended, Middle
<1>4. Staged(i)'
  BY <1>0 DEF Staged, Ended, Early, Middle
<1>5. ASSUME c[i].st # "gone"
      PROVE  Answered(i)'
  <2>1. /\ Understands(c[i], down[i])
        /\ \A k \in DOMAIN down[i] :
              /\ down[i][k].kind \notin Kicks \cup {"pong"}
              /\ down[i][k].kind # "keyreq" /\ down[i][k].kind # "response"
        /\ c[i].honest => Fits(h[i].w, c[i].f, down[i], Len(down[i]) + 1)
    BY <1>0, <1>5 DEF Answered, Middle, Ended
  <2>2. /\ h'[i].pc \in Middle => StAt(c[i].st, down[i], Len(down[i]) + 1) = "waiting"
        /\ h'[i].pc \notin Middle => StAt(c[i].st, down[i], Len(down[i]) + 1) = "play"
    BY <1>0, <1>5 DEF Answered, Middle, Checked
  <2>3. QED BY <2>1, <2>2 DEF Answered, Middle, Early, Checked
<1>6. QED BY <1>1, <1>2, <1>3, <1>4, <1>5 DEF Dialogue

\* A read that fails finds the client gone: whatever a client has written is what
\* the handler expects, in the framing it reads.
LEMMA ReadFailsGone ==
    ASSUME Typed, NEW i \in Handlers, Dialogue(i),
           h[i].pc \in Early \cup {"keyresp"}, ReadFails(i, h[i].pc)
    PROVE  c[i].st = "gone" /\ up' = up /\ up[i] = <<>> /\ Garbled(i) = FALSE
<1>0. Framed(i) /\ Asked(i) /\ up[i] \in Seq(Request) /\ h[i] \in Handler
  BY DEF Dialogue, Typed, TypeOK
<1>1. up[i] # <<>> => Head(up[i]).kind = h[i].pc /\ Head(up[i]).f = h[i].r
  <2>1. SUFFICES ASSUME up[i] # <<>> PROVE Head(up[i]).kind = h[i].pc /\ Head(up[i]).f = h[i].r
    OBVIOUS
  <2>2. Head(up[i]) = up[i][1] /\ 1 \in DOMAIN up[i] /\ Len(up[i]) \in Nat \ {0}
    BY <1>0, <2>1
  <2>3. up[i][1].f = h[i].r
    BY <1>0, <2>2 DEF Framed, Early, Ended
  <2>4. up[i][1].kind = h[i].pc
    <3>1. CASE h[i].pc = "handshake"
      BY <1>0, <2>2, <3>1 DEF Asked
    <3>2. CASE h[i].pc \in {"request", "ping", "start", "keyresp"}
      <4>1. Len(up[i]) = 1
        <5>1. PICK n \in Nat \ {0} : n = Len(up[i])
          BY <2>2
        <5>2. n <= 1
          BY <1>0, <3>2, <5>1 DEF Asked
        <5>3. n = 1
          BY <5>2
        <5>4. QED BY <5>1, <5>3
      <4>2. QED BY <1>0, <3>2, <4>1 DEF Asked
    <3>3. QED BY <3>1, <3>2 DEF Early
  <2>5. QED BY <2>2, <2>3, <2>4
<1>2. c[i].st = "gone" /\ up' = up /\ up[i] = <<>>
  BY <1>1 DEF ReadFails
<1>3. h[i].garbled = FALSE
  BY <1>0 DEF Framed, Handler
<1>4. QED BY <1>2, <1>3 DEF Garbled

\* A handler whose client has gone.
LEMMA ReadFailsDialogue ==
    ASSUME Known, NEW i \in Handlers, Dialogue(i),
           (\E pc \in Early : ReadFailsAt(i, pc, pc)) \/ KeyResponseFails(i)
    PROVE  Dialogue(i)'
<1>0. Typed /\ Framed(i) /\ Asked(i) /\ Honest(i) /\ h[i] \in Handler /\ h \in [Handlers -> Handler]
  BY DEF Known, Dialogue, Typed, TypeOK
<1>1. /\ c[i].st = "gone" /\ up' = up /\ up[i] = <<>> /\ Garbled(i) = FALSE
      /\ h[i].pc \in Early \cup {"keyresp"} /\ c' = c
  <2>1. h[i].pc \in Early \cup {"keyresp"} /\ ReadFails(i, h[i].pc) /\ c' = c
    BY DEF ReadFailsAt, KeyResponseFails
  <2>2. QED BY <1>0, <2>1, ReadFailsGone
<1>2. \/ h'[i] = [h[i] EXCEPT !.pc = "close", !.garbled = FALSE]
      \/ h'[i] = [h[i] EXCEPT !.pc = "login", !.err = "failed", !.garbled = FALSE]
  BY <1>0, <1>1 DEF ReadFailsAt, KeyResponseFails, Goto
<1>3. /\ h'[i].r = h[i].r /\ h'[i].w = h[i].w /\ h'[i].garbled = FALSE
      /\ h'[i].pc = "close" \/ (h'[i].pc = "login" /\ h'[i].err = "failed")
  BY <1>0, <1>2 DEF Handler
<1>4. Framed(i)'
  BY <1>0, <1>1, <1>3 DEF Framed, Early, Ended
<1>5. Asked(i)'
  BY <1>1, <1>3 DEF Asked, Middle
<1>6. Honest(i)'
  BY <1>0, <1>1, <1>3 DEF Honest, Ended
<1>7. QED BY <1>0, <1>1, <1>4, <1>5, <1>6, GoneDialogue

\* A handler that has read all there is ends, or closes, without a word.
LEMMA EndDialogue ==
    ASSUME Known, NEW i \in Handlers, Dialogue(i), Play(i) \/ PlayEnds(i) \/ Close(i)
    PROVE  Dialogue(i)'
<1>0. /\ Typed /\ Framed(i) /\ Asked(i) /\ Staged(i) /\ Honest(i) /\ Kicked(i)
      /\ (c[i].st # "gone" => Answered(i))
      /\ h[i] \in Handler /\ h \in [Handlers -> Handler]
      /\ up[i] \in Seq(Request) /\ up \in [Handlers -> Seq(Request)]
  BY DEF Known, Dialogue, Typed, TypeOK
<1>1. c' = c /\ down' = down
  BY DEF Play, PlayEnds, Close
<1>2. CASE Play(i)
  <2>1. h' = h /\ up'[i] = Tail(up[i]) /\ up[i] # <<>> /\ h[i].pc = "play"
    BY <1>0, <1>2 DEF Play
  <2>2. \A k \in DOMAIN Tail(up[i]) : k + 1 \in DOMAIN up[i] /\ Tail(up[i])[k] = up[i][k + 1]
    BY <1>0, <2>1
  <2>3. \A k \in DOMAIN up'[i] : up'[i][k].f = h[i].r
    BY <1>0, <2>1, <2>2 DEF Framed, Ended
  <2>4. Framed(i)'
    BY <1>0, <2>1, <2>3 DEF Framed
  <2>5. Asked(i)' /\ Staged(i)' /\ Honest(i)' /\ Kicked(i)'
    BY <1>0, <1>1, <2>1 DEF Asked, Staged, Honest, Kicked, Middle, Ended
  <2>6. c[i].st # "gone" => Answered(i)'
    BY <1>0, <1>1, <2>1 DEF Answered
  <2>7. QED BY <1>1, <2>4, <2>5, <2>6 DEF Dialogue
<1>3. CASE PlayEnds(i) \/ Close(i)
  <2>1. up' = up /\ h[i].pc \in {"play", "close"}
    BY <1>3 DEF PlayEnds, Close
  <2>2. /\ h'[i].pc \in Ended /\ h'[i].r = h[i].r /\ h'[i].w = h[i].w /\ ~h'[i].garbled
        /\ h'[i].played = h[i].played
    <3>1. CASE PlayEnds(i)
      <4>1. Garbled(i) = FALSE
        <5>1. h[i].garbled = FALSE
          BY <1>0 DEF Framed, Handler
        <5>2. ASSUME up[i] # <<>>
              PROVE  Head(up[i]).f = h[i].r
          <6>1. Head(up[i]) = up[i][1] /\ 1 \in DOMAIN up[i]
            BY <1>0, <5>2
          <6>2. QED BY <1>0, <3>1, <6>1 DEF Framed, PlayEnds, Ended
        <5>3. QED BY <5>1, <5>2 DEF Garbled
      <4>2. h'[i] = [h[i] EXCEPT !.pc = "close", !.garbled = FALSE]
        BY <1>0, <3>1, <4>1 DEF PlayEnds, Goto
      <4>3. QED BY <1>0, <4>2 DEF Handler, Ended
    <3>2. CASE Close(i)
      <4>1. h'[i] = [h[i] EXCEPT !.pc = "closed", !.upc = IF @ = "open" THEN "closed" ELSE @]
        BY <1>0, <3>2 DEF Close, Goto
      <4>2. h'[i].pc = "closed" /\ h'[i].r = h[i].r /\ h'[i].w = h[i].w
            /\ h'[i].garbled = h[i].garbled /\ h'[i].played = h[i].played
        BY <1>0, <4>1 DEF Handler
      <4>3. QED BY <1>0, <4>2 DEF Ended, Framed
    <3>3. QED BY <1>3, <3>1, <3>2
  <2>3. Framed(i)' /\ Asked(i)'
    BY <1>0, <2>1, <2>2 DEF Framed, Asked, Ended, Early, Middle
  <2>4. Staged(i)'
    BY <1>0, <1>1, <2>1, <2>2 DEF Staged, Ended, Early
  <2>5. Honest(i)'
    BY <1>0, <1>1, <2>1, <2>2 DEF Honest, Ended
  <2>6. Kicked(i)'
    BY <1>0, <1>1, <2>1, <2>2 DEF Kicked, Framed, Ended
  <2>7. ASSUME c[i].st # "gone"
        PROVE  Answered(i)'
    <3>1. \A k \in DOMAIN down[i] : down[i][k].kind # "keyreq" /\ down[i][k].kind # "response"
      BY <1>0, <2>1, <2>7 DEF Answered
    <3>2. QED BY <1>0, <1>1, <2>1, <2>2, <2>7, <3>1 DEF Answered, Ended, Early, Checked
  <2>8. QED BY <1>1, <2>3, <2>4, <2>5, <2>6, <2>7 DEF Dialogue
<1>4. QED BY <1>2, <1>3

\* The steps after the key exchange, and before it, that read nothing.
LEMMA DecidesDialogue ==
    ASSUME Known, NEW i \in Handlers, Dialogue(i),
           \/ PreLogin(i) \/ HasJoined(i) \/ LoginHandler(i) \/ TrackPlayerLogin(i) \/ Connect(i)
           \/ UpstreamAnswers(i) \/ Register(i)
    PROVE  Dialogue(i)'
<1>0. /\ Typed /\ Framed(i) /\ Asked(i) /\ Staged(i) /\ Honest(i)
      /\ (c[i].st # "gone" => Answered(i))
      /\ h[i] \in Handler /\ h \in [Handlers -> Handler]
  BY DEF Known, Dialogue, Typed, TypeOK
<1>1. /\ c' = c /\ up' = up
      /\ h[i].pc \in {"prelogin", "joined", "login", "track", "target", "upwait", "register"}
  BY DEF PreLogin, HasJoined, LoginHandler, TrackPlayerLogin, Connect, UpstreamAnswers, Register, Kick
<1>2. c[i].st # "new" /\ h[i].pc \notin Ended \cup {"keyresp", "ping"}
  BY <1>0, <1>1 DEF Staged, Ended
<1>3. ASSUME NEW k \in Kicks, Write(i, k, None) \/ WriteFails(i),
             k = "gamekick" <=> h[i].pc \in {"target", "upwait", "register"},
             h'[i].pc = "close", h'[i].r = h[i].r, h'[i].w = h[i].w, h'[i].garbled = h[i].garbled
      PROVE  Dialogue(i)'
  <2>1. c[i].st # "gone" => k \in Expected(StAt(c[i].st, down[i], Len(down[i]) + 1))
    <3>1. ASSUME c[i].st # "gone"
          PROVE  StAt(c[i].st, down[i], Len(down[i]) + 1)
                     = IF h[i].pc \in {"target", "upwait", "register"} THEN "play" ELSE "waiting"
      BY <1>0, <1>1, <3>1 DEF Answered, Checked
    <3>2. Expected("play") = {"gamekick"} /\ "loginkick" \in Expected("waiting")
      BY DEF Expected
    <3>3. k \in {"loginkick", "gamekick"}
      BY DEF Kicks
    <3>4. QED BY <1>3, <3>1, <3>2, <3>3
  <2>2. k # "pong"
    BY DEF Kicks
  <2>3. QED BY <1>0, <1>1, <1>2, <1>3, <2>1, <2>2, KickDialogue
<1>4. ASSUME NEW k, Kick(i, k), k \in Kicks,
             k = "gamekick" <=> h[i].pc \in {"target", "upwait", "register"}
      PROVE  Dialogue(i)'
  <2>1. h'[i] = [h[i] EXCEPT !.pc = "close"]
    BY <1>0, <1>4 DEF Kick, Goto
  <2>2. /\ h'[i].pc = "close" /\ h'[i].r = h[i].r /\ h'[i].w = h[i].w
        /\ h'[i].garbled = h[i].garbled
    BY <1>0, <2>1 DEF Handler
  <2>3. QED BY <1>3, <1>4, <2>2 DEF Kick
<1> DEFINE Same2 == h'[i].r = h[i].r /\ h'[i].w = h[i].w /\ h'[i].garbled = h[i].garbled
<1>5. CASE PreLogin(i)
  <2>1. CASE Kick(i, "loginkick")
    BY <1>4, <1>5, <2>1 DEF PreLogin, Kicks
  <2>2. CASE ~Kick(i, "loginkick")
    <3>1. \/ h'[i] = [h[i] EXCEPT !.pc = "keyreq"]
          \/ h'[i] = [h[i] EXCEPT !.pc = "login", !.auth = FALSE, !.err = "unauthenticated",
                                  !.uuid = OfflineUUID[h[i].nick]]
      BY <1>0, <1>5, <2>2 DEF PreLogin, Goto
    <3>2. Same2 /\ h'[i].pc \in {"keyreq", "login"}
      BY <1>0, <3>1 DEF Handler
    <3>3. h[i].pc = "prelogin" /\ down' = down /\ c[i].honest
      BY <1>0, <1>5, <2>2 DEF PreLogin, Honest, Ended
    <3>4. QED BY <1>0, <1>1, <3>2, <3>3, QuietDialogue DEF Middle
  <2>3. QED BY <2>1, <2>2
<1>6. CASE HasJoined(i)
  <2>1. \/ h'[i] = [h[i] EXCEPT !.pc = "login", !.err = "failed"]
        \/ \E a \in Answers : h'[i] = [h[i] EXCEPT !.pc = "login", !.nick = a.nick,
                                                   !.uuid = a.uuid, !.joined = a]
    BY <1>0, <1>6 DEF HasJoined, Goto
  <2>2. Same2 /\ h'[i].pc = "login"
    BY <1>0, <2>1 DEF Handler
  <2>3. h[i].pc = "joined" /\ down' = down /\ c[i].honest
    BY <1>0, <1>6 DEF HasJoined, Honest, Ended
  <2>4. QED BY <1>0, <1>1, <2>2, <2>3, QuietDialogue DEF Middle
<1>7. CASE LoginHandler(i) \/ TrackPlayerLogin(i)
  <2>1. CASE Kick(i, "loginkick")
    BY <1>4, <1>7, <2>1 DEF LoginHandler, TrackPlayerLogin, Kicks
  <2>2. CASE ~Kick(i, "loginkick")
    <3>1. \/ h'[i] = [h[i] EXCEPT !.pc = "track"]
          \/ h'[i] = [h[i] EXCEPT !.pc = "success", !.hooks = @ + 1]
      BY <1>0, <1>7, <2>2 DEF LoginHandler, TrackPlayerLogin, Goto
    <3>2. Same2 /\ h'[i].pc \in {"track", "success"}
      BY <1>0, <3>1 DEF Handler
    <3>3. h[i].pc \in {"login", "track"} /\ down' = down
      BY <1>7, <2>2 DEF LoginHandler, TrackPlayerLogin
    <3>4. c[i].honest
      <4>1. h[i].pc = "login" => h[i].err # "failed"
        BY <1>7, <2>2 DEF LoginHandler, TrackPlayerLogin
      <4>2. QED BY <1>0, <3>3, <4>1 DEF Honest, Ended
    <3>5. QED BY <1>0, <1>1, <3>2, <3>3, <3>4, QuietDialogue DEF Middle
  <2>3. QED BY <2>1, <2>2
<1>8. CASE Connect(i)
  <2>1. h[i].pc = "target" /\ c[i].honest
    BY <1>0, <1>8 DEF Connect, Honest, Ended
  <2>2. CASE Kick(i, "gamekick")
    BY <1>4, <2>1, <2>2 DEF Kicks
  <2>3. CASE ~Kick(i, "gamekick")
    <3>1. /\ h'[i] = [h[i] EXCEPT !.pc = "upwait", !.upc = "open", !.told = IdentityOf(i)]
          /\ down' = down
      BY <1>0, <1>8, <2>3 DEF Connect, Goto
    <3>2. Same2 /\ h'[i].pc = "upwait"
      BY <1>0, <3>1 DEF Handler
    <3>3. QED BY <1>0, <1>1, <2>1, <3>1, <3>2, QuietDialogue
  <2>4. QED BY <2>2, <2>3
<1>9. CASE UpstreamAnswers(i)
  <2>1. h[i].pc = "upwait" /\ c[i].honest
    BY <1>0, <1>9 DEF UpstreamAnswers, Honest, Ended
  <2>2. CASE Kick(i, "gamekick")
    BY <1>4, <2>1, <2>2 DEF Kicks
  <2>3. CASE ~Kick(i, "gamekick")
    <3>1. h'[i] = [h[i] EXCEPT !.pc = "register"] /\ down' = down
      BY <1>0, <1>9, <2>3 DEF UpstreamAnswers, Goto
    <3>2. Same2 /\ h'[i].pc = "register"
      BY <1>0, <3>1 DEF Handler
    <3>3. QED BY <1>0, <1>1, <2>1, <3>1, <3>2, QuietDialogue
  <2>4. QED BY <2>2, <2>3
<1>10. CASE Register(i)
  <2>1. h[i].pc = "register" /\ c[i].honest
    BY <1>0, <1>10 DEF Register, Honest, Ended
  <2>2. CASE Kick(i, "gamekick")
    BY <1>4, <2>1, <2>2 DEF Kicks
  <2>3. CASE ~Kick(i, "gamekick")
    <3>1. h'[i] = [h[i] EXCEPT !.pc = "play", !.played = TRUE] /\ down' = down
      BY <1>0, <1>10, <2>3 DEF Register, Goto
    <3>2. Same2 /\ h'[i].pc = "play" /\ h'[i].played
      BY <1>0, <3>1 DEF Handler
    <3>3. QED BY <1>0, <1>1, <2>1, <3>1, <3>2, QuietDialogue
  <2>4. QED BY <2>2, <2>3
<1>11. QED BY <1>5, <1>6, <1>7, <1>8, <1>10, <1>9

\* The steps that write the next packet of the login.
LEMMA TellsDialogue ==
    ASSUME Known, NEW i \in Handlers, Dialogue(i), Compress(i) \/ KeyRequest(i) \/ LoginSuccess(i)
    PROVE  Dialogue(i)'
<1> DEFINE d == down[i]
<1>0. /\ Typed /\ Framed(i) /\ Asked(i) /\ Staged(i) /\ Honest(i)
      /\ (c[i].st # "gone" => Answered(i))
      /\ h[i] \in Handler /\ h \in [Handlers -> Handler] /\ d \in Seq(Reply)
      /\ h[i].w \in Framing /\ c[i] \in Client /\ c[i].f \in Framing /\ Len(d) \in Nat
  BY DEF Known, Dialogue, Typed, TypeOK, Handler, Client
<1>1. c' = c /\ up' = up /\ up[i] = <<>> /\ h[i].pc \in {"compress", "keyreq", "success"} /\ c[i].honest
  <2>1. c' = c /\ up' = up /\ h[i].pc \in {"compress", "keyreq", "success"}
    BY DEF Compress, KeyRequest, LoginSuccess
  <2>2. QED BY <1>0, <2>1 DEF Asked, Honest, Middle, Ended
<1>2. PICK q \in {"prelogin", "keyresp", "target", "close", "login"} :
          /\ h'[i].pc = q /\ h'[i].r = h'[i].w /\ h'[i].garbled = h[i].garbled
          /\ h'[i].w = IF q = "prelogin" THEN Compressed ELSE h[i].w
          /\ \/ /\ q = "prelogin" /\ h[i].pc = "compress"
                /\ Write(i, "compression", None)
             \/ q = "keyresp" /\ h[i].pc = "keyreq" /\ Write(i, "keyreq", None)
             \/ /\ q = "target" /\ h[i].pc = "success"
                /\ Write(i, "success", IdentityOf(i)) /\ IdentityOf(i) \in Identity
             \/ q \in {"close", "login"} /\ WriteFails(i)
  <2>1. CASE Compress(i)
    <3>1. CASE WriteFails(i) /\ h'[i] = [h[i] EXCEPT !.pc = "close"]
      <4>1. /\ h'[i].pc = "close" /\ h'[i].r = h[i].r /\ h'[i].w = h[i].w
            /\ h'[i].garbled = h[i].garbled
        BY <1>0, <3>1 DEF Handler
      <4>2. QED BY <1>0, <3>1, <4>1 DEF Framed
    <3>2. CASE /\ Write(i, "compression", None)
               /\ h'[i] = [h[i] EXCEPT !.pc = "prelogin", !.r = [@ EXCEPT !.comp = TRUE],
                                       !.w = [@ EXCEPT !.comp = TRUE]]
      <4>1. h[i].pc = "compress" /\ h[i].w = Plain /\ h[i].r = Plain
        BY <1>0, <2>1 DEF Compress, Framed
      <4>2. /\ h'[i].pc = "prelogin" /\ h'[i].r = [Plain EXCEPT !.comp = TRUE]
            /\ h'[i].w = [Plain EXCEPT !.comp = TRUE] /\ h'[i].garbled = h[i].garbled
        BY <1>0, <3>2, <4>1 DEF Handler
      <4>3. [Plain EXCEPT !.comp = TRUE] = Compressed
        <5>1. Plain \in Framing /\ Compressed \in Framing
          BY DEF Plain, Compressed, Framing
        <5> DEFINE f == [Plain EXCEPT !.comp = TRUE]
        <5>2. f \in Framing /\ (f.comp <=> TRUE) /\ (f.enc <=> Plain.enc)
          BY <5>1 DEF Framing
        <5>3. (Plain.enc <=> FALSE) /\ (Compressed.comp <=> TRUE) /\ (Compressed.enc <=> FALSE)
          BY DEF Plain, Compressed
        <5> HIDE DEF f
        <5>4. f = Compressed
          BY <5>1, <5>2, <5>3 DEF Framing
        <5>5. QED BY <5>4 DEF f
      <4>4. QED BY <3>2, <4>1, <4>2, <4>3
    <3>3. QED BY <1>0, <2>1, <3>1, <3>2 DEF Compress, Goto
  <2>2. CASE KeyRequest(i)
    <3>1. \/ Write(i, "keyreq", None) /\ h'[i] = [h[i] EXCEPT !.pc = "keyresp"]
          \/ WriteFails(i) /\ h'[i] = [h[i] EXCEPT !.pc = "login", !.err = "failed"]
      BY <1>0, <2>2 DEF KeyRequest, Goto
    <3>2. /\ h'[i].r = h[i].r /\ h'[i].w = h[i].w /\ h'[i].garbled = h[i].garbled
          /\ \/ Write(i, "keyreq", None) /\ h'[i].pc = "keyresp"
             \/ WriteFails(i) /\ h'[i].pc = "login"
      BY <1>0, <3>1 DEF Handler
    <3>3. h[i].pc = "keyreq" /\ h[i].r = h[i].w
      BY <1>0, <2>2 DEF KeyRequest, Framed
    <3>4. QED BY <3>2, <3>3
  <2>3. CASE LoginSuccess(i)
    <3>1. \/ Write(i, "success", IdentityOf(i)) /\ h'[i] = [h[i] EXCEPT !.pc = "target"]
          \/ WriteFails(i) /\ h'[i] = [h[i] EXCEPT !.pc = "close"]
      BY <1>0, <2>3 DEF LoginSuccess, Goto
    <3>2. /\ h'[i].r = h[i].r /\ h'[i].w = h[i].w /\ h'[i].garbled = h[i].garbled
          /\ \/ Write(i, "success", IdentityOf(i)) /\ h'[i].pc = "target"
             \/ WriteFails(i) /\ h'[i].pc = "close"
      BY <1>0, <3>1 DEF Handler
    <3>3. h[i].pc = "success" /\ h[i].r = h[i].w /\ IdentityOf(i) \in Identity
      BY <1>0, <2>3, IdentityTyped DEF LoginSuccess, Framed, Accepted
    <3>4. QED BY <3>2, <3>3
  <2>4. QED BY <2>1, <2>2, <2>3
<1>3. Framed(i)'
  BY <1>0, <1>1, <1>2 DEF Framed, Early, Ended, Compressed
<1>4. Asked(i)'
  BY <1>1, <1>2 DEF Asked
<1>5. Honest(i)'
  BY <1>0, <1>1, <1>2 DEF Honest
<1>6. CASE c[i].st = "gone"
  BY <1>0, <1>1, <1>3, <1>4, <1>5, <1>6, GoneDialogue
<1>7. CASE c[i].st # "gone"
  <2>1. PICK k, a :
          /\ Write(i, k, a)
          /\ \/ k = "compression" /\ q = "prelogin" /\ h[i].pc = "compress" /\ a = None
             \/ k = "keyreq" /\ q = "keyresp" /\ h[i].pc = "keyreq" /\ a = None
             \/ k = "success" /\ q = "target" /\ h[i].pc = "success" /\ a \in Identity
    BY <1>2, <1>7 DEF WriteFails
  <2> DEFINE m == [kind |-> k, arg |-> a, f |-> h[i].w]
             e == Append(d, m)
  <2>2. down'[i] = e /\ m \in Reply /\ m.kind = k /\ m.f = h[i].w
    BY <1>0, <1>7, <2>1, WritesLast DEF Reply
  <2>3. /\ DOMAIN e = 1 .. Len(d) + 1 /\ Len(e) = Len(d) + 1 /\ DOMAIN d = 1 .. Len(d)
        /\ e[Len(d) + 1] = m /\ \A j \in 1 .. Len(d) : e[j] = d[j]
        /\ \A j \in 1 .. Len(d) + 1 : j \in 1 .. Len(d) \/ j = Len(d) + 1
    BY <1>0, <2>2
  <2>4. /\ StAt(c[i].st, d, Len(d) + 1) = "waiting" /\ Fits(h[i].w, c[i].f, d, Len(d) + 1)
        /\ h[i].pc = "compress" => d = <<>> /\ c[i].f = Plain
        /\ \A j \in DOMAIN d : d[j].kind \notin {"loginkick", "gamekick", "pong", "keyreq", "response"}
    BY <1>0, <1>1, <1>7 DEF Answered, Checked, Ended, Kicks
  <2>5. Understands(c[i], e)
    <3>1. k \in Expected("waiting")
      BY <2>1 DEF Expected
    <3>2. QED BY <1>0, <1>7, <2>2, <2>4, <3>1, AppendUnderstood DEF Answered
  <2>6. \A kind : Before(e, Len(d) + 2, kind) <=> (k = kind \/ Before(d, Len(d) + 1, kind))
    BY <1>0, <2>2, BeforeAppend
  <2> HIDE DEF m, e
  <2>7. StAt(c[i].st, e, Len(d) + 2) = IF k = "success" THEN "play" ELSE "waiting"
    <3>1. ~Before(d, Len(d) + 1, "success") /\ c[i].st = "waiting"
      BY <2>4 DEF StAt
    <3>2. Before(e, Len(d) + 2, "success") <=> k = "success"
      BY <2>6, <3>1
    <3>3. QED BY <3>1, <3>2 DEF StAt
  <2>8. IF q = "keyresp" THEN Fits([comp |-> TRUE, enc |-> TRUE], c[i].f, e, Len(d) + 2)
        ELSE Fits(h'[i].w, c[i].f, e, Len(d) + 2)
    <3>1. CASE q = "prelogin"
      <4>1. d = <<>> /\ c[i].f = Plain /\ k = "compression" /\ h'[i].w = Compressed
        BY <1>2, <2>1, <2>4, <3>1
      <4>2. ~Before(d, Len(d) + 1, "keyreq")
        BY <1>0, <2>3, <2>4 DEF Before
      <4>3. QED BY <2>6, <3>1, <4>1, <4>2 DEF Fits, Plain, Compressed
    <3>2. CASE q = "keyresp"
      <4>1. k = "keyreq" /\ h[i].w = Compressed
        BY <1>0, <2>1, <3>2 DEF Framed
      <4>2. QED BY <2>4, <2>6, <3>2, <4>1 DEF Fits, Compressed
    <3>3. CASE q = "target"
      <4>1. k = "success" /\ h'[i].w = h[i].w
        BY <1>2, <2>1, <3>3
      <4>2. QED BY <2>4, <2>6, <3>3, <4>1 DEF Fits
    <3>4. QED BY <2>1, <3>1, <3>2, <3>3
  <2>9. \A j \in DOMAIN e :
              /\ e[j].kind \notin {"loginkick", "gamekick", "pong", "response"}
              /\ e[j].kind = "keyreq" => j = Len(e) /\ e[j].f = Compressed /\ q = "keyresp"
    <3>1. k = "keyreq" => q = "keyresp" /\ h[i].w = Compressed
      BY <1>0, <2>1 DEF Framed
    <3>2. k \notin {"loginkick", "gamekick", "pong", "response"}
      BY <2>1
    <3>3. QED BY <2>2, <2>3, <2>4, <3>1, <3>2
  <2>10. Len(down'[i]) + 1 = Len(d) + 2
    BY <1>0, <2>2, <2>3
  <2>11. Answered(i)'
    BY <1>1, <1>2, <2>1, <2>2, <2>5, <2>7, <2>8, <2>9, <2>10 DEF Answered, Early, Checked, Kicks
  <2>12. Staged(i)'
    BY <1>0, <1>1, <1>2, <1>7, <2>1 DEF Staged, Early, Ended
  <2>13. Kicked(i)'
    BY <1>2, <2>1 DEF Kicked, Ended
  <2>14. QED BY <1>1, <1>3, <1>4, <1>5, <2>11, <2>12, <2>13 DEF Dialogue
<1>8. QED BY <1>6, <1>7

\* What a handler finds when it reads, and what is left then.
LEMMA ReadsNext ==
    ASSUME Typed, NEW i \in Handlers, Dialogue(i), NEW k, Reads(i, k, Head(up[i])),
           h[i].pc \in Early \cup {"keyresp"}
    PROVE  /\ up[i] # <<>> /\ Len(up[i]) >= 1 /\ Head(up[i]) = up[i][1] /\ up'[i] = Tail(up[i])
           /\ Len(up'[i]) = Len(up[i]) - 1 /\ Len(up[i]) \in Nat
           /\ h[i].pc # "handshake" => up'[i] = <<>>
           /\ Len(up[i]) = 2 => up'[i][1] = up[i][2]
           /\ \A m \in DOMAIN up'[i] : up'[i][m].f = h[i].r
           /\ c[i].st # "new"
<1>0. Framed(i) /\ Asked(i) /\ Staged(i) /\ up[i] \in Seq(Request) /\ up \in [Handlers -> Seq(Request)]
  BY DEF Dialogue, Typed
<1>1. up[i] # <<>> /\ up'[i] = Tail(up[i])
  BY <1>0 DEF Reads
<1>2. PICK n \in Nat \ {0} : n = Len(up[i]) /\ DOMAIN up[i] = 1 .. n
  BY <1>0, <1>1
<1>3. /\ Head(up[i]) = up[i][1] /\ Len(up'[i]) = n - 1 /\ DOMAIN up'[i] = 1 .. n - 1
      /\ \A m \in 1 .. n - 1 : m + 1 \in DOMAIN up[i] /\ up'[i][m] = up[i][m + 1]
  BY <1>0, <1>1, <1>2
<1>4. \A m \in DOMAIN up'[i] : up'[i][m].f = h[i].r
  BY <1>0, <1>3 DEF Framed, Early, Ended
<1>5. h[i].pc # "handshake" => up'[i] = <<>>
  <2>1. SUFFICES ASSUME h[i].pc # "handshake" PROVE up'[i] = <<>>
    OBVIOUS
  <2>2. n <= 1
    BY <1>0, <1>2, <2>1 DEF Asked, Early
  <2>3. n = 1
    BY <2>2
  <2>4. Len(up'[i]) = 0
    BY <1>3, <2>3
  <2>5. up'[i] \in Seq(Request)
    BY <1>0, <1>1
  <2>6. QED BY <2>4, <2>5
<1>6. n = 2 => up'[i][1] = up[i][2]
  BY <1>3
<1>7. c[i].st # "new"
  BY <1>0, <1>1 DEF Staged
<1>8. n >= 1
  BY <1>2
<1>9. QED BY <1>1, <1>2, <1>3, <1>4, <1>5, <1>6, <1>7, <1>8

\* The handshake and the login's start.
LEMMA GreetsDialogue ==
    ASSUME Known, NEW i \in Handlers, Dialogue(i), Handshake(i) \/ LoginStart(i)
    PROVE  Dialogue(i)'
<1> DEFINE u == up[i]
<1>0. /\ Typed /\ Framed(i) /\ Asked(i) /\ Staged(i) /\ Honest(i)
      /\ (c[i].st # "gone" => Answered(i))
      /\ h[i] \in Handler /\ h \in [Handlers -> Handler] /\ c[i] \in Client /\ c \in [Handlers -> Client]
      /\ down[i] \in Seq(Reply) /\ u \in Seq(Request)
  BY DEF Known, Dialogue, Typed, TypeOK
<1>1. PICK k \in {"handshake", "start"} : h[i].pc = k /\ Reads(i, k, Head(u))
  BY DEF Handshake, LoginStart
<1>2. /\ u # <<>> /\ Len(u) >= 1 /\ Head(u) = u[1] /\ up'[i] = Tail(u)
      /\ Len(up'[i]) = Len(u) - 1 /\ Len(u) \in Nat
      /\ h[i].pc # "handshake" => up'[i] = <<>>
      /\ Len(u) = 2 => up'[i][1] = u[2]
      /\ \A m \in DOMAIN up'[i] : up'[i][m].f = h[i].r
      /\ c[i].st # "new"
  BY <1>0, <1>1, ReadsNext DEF Early
<1>3. /\ c' = c /\ c[i].honest
      /\ c[i].st # "gone" => down[i] = <<>>
  <2>1. c' = c
    BY HandlerStepTyped DEF HandlerStep, OwnStep
  <2>2. c[i].honest
    BY <1>0, <1>1 DEF Honest, Ended
  <2>3. QED BY <1>0, <1>1, <2>1, <2>2 DEF Answered
<1>4. ASSUME Kick(i, "loginkick"),
             c[i].st # "gone" => c[i].st \in {"login", "waiting"}
      PROVE  Dialogue(i)'
  <2>1. h'[i] = [h[i] EXCEPT !.pc = "close"]
    BY <1>0, <1>4 DEF Kick, Goto
  <2>2. h'[i].pc = "close" /\ h'[i].r = h[i].r /\ h'[i].w = h[i].w /\ h'[i].garbled = h[i].garbled
    BY <1>0, <2>1 DEF Handler
  <2>3. c[i].st # "gone" => "loginkick" \in Expected(StAt(c[i].st, down[i], Len(down[i]) + 1))
    <3>1. ASSUME c[i].st # "gone"
          PROVE  ~Before(down[i], Len(down[i]) + 1, "success")
      BY <1>3, <3>1 DEF Before
    <3>2. QED BY <1>4, <3>1 DEF StAt, Expected
  <2>4. h[i].pc \notin Ended \cup {"keyresp", "ping"}
    BY <1>1 DEF Ended
  <2>5. QED BY <1>0, <1>2, <1>3, <1>4, <2>2, <2>3, <2>4, KickDialogue DEF Kick, Kicks
<1>5. ASSUME h'[i].r = h[i].r, h'[i].w = h[i].w, h'[i].garbled = h[i].garbled, down' = down,
             h'[i].pc \in {"request", "start", "close", "compress"},
             Asked(i)', Staged(i)',
             h'[i].pc = "close" => c[i].st \notin {"login", "waiting", "play"}
      PROVE  Dialogue(i)'
  <2>1. Framed(i)'
    BY <1>0, <1>1, <1>2, <1>5 DEF Framed, Early, Ended
  <2>2. Honest(i)' /\ Kicked(i)'
    BY <1>0, <1>3, <1>5 DEF Honest, Kicked, Ended
  <2>3. ASSUME c[i].st # "gone"
        PROVE  Answered(i)'
    <3>1. down'[i] = <<>> /\ Len(<<>>) + 1 = 1 /\ DOMAIN <<>> = {}
      BY <1>3, <1>5, <2>3
    <3>2. Understands(c[i], <<>>)
      BY DEF Understands
    <3>3. c[i].f = Plain /\ Fits(h'[i].w, c[i].f, <<>>, 1)
      BY <1>0, <1>1, <1>3, <1>5, <2>3, <3>1 DEF Answered, Early
    <3>4. h'[i].pc = "compress" => StAt(c[i].st, <<>>, 1) = "waiting"
      <4>1. ~Before(<<>>, 1, "success")
        BY DEF Before
      <4>2. h'[i].pc = "compress" => c[i].st = "waiting"
        BY <1>0, <1>3, <1>5, <2>3 DEF Staged, Ended, Client
      <4>3. QED BY <4>1, <4>2 DEF StAt
    <3>5. QED BY <1>3, <1>5, <3>1, <3>2, <3>3, <3>4 DEF Answered, Early, Checked
  <2>4. QED BY <1>3, <1>5, <2>1, <2>2, <2>3 DEF Dialogue
<1>6. CASE Handshake(i)
  <2> DEFINE asksLogin == u[1].arg \in {"login", "badversion"}
  <2>1. h[i].pc = "handshake" /\ Len(u) \in {1, 2} /\ u[1].kind = "handshake"
        /\ (Len(u) = 2 => u[2].kind = IF asksLogin THEN "start" ELSE "request")
    <3>1. h[i].pc = "handshake"
      BY <1>6 DEF Handshake
    <3>2. PICK n \in Nat : n = Len(u)
      BY <1>2
    <3>3. n <= 2 /\ n >= 1
      BY <1>0, <1>2, <3>1, <3>2 DEF Asked
    <3>4. n = 1 \/ n = 2
      BY <3>3
    <3>5. QED BY <1>0, <1>2, <3>1, <3>2, <3>4 DEF Asked
  <2>2. /\ c[i].st \in {"login", "waiting"} => asksLogin
        /\ c[i].st \in {"status", "pinging"} => ~asksLogin
        /\ c[i].st \in {"login", "status"} => Len(u) = 1
        /\ c[i].st \in {"waiting", "pinging"} => Len(u) = 2
        /\ c[i].st \in {"login", "status", "waiting", "pinging", "gone"}
    BY <1>0, <1>2, <2>1 DEF Staged, Ended, Early, Client
  <2>3. CASE u[1].arg = "badversion" /\ Kick(i, "loginkick")
    BY <1>4, <2>2, <2>3
  <2>4. CASE ~(u[1].arg = "badversion" /\ Kick(i, "loginkick"))
    <3>1. PICK q \in {"request", "start", "close"} :
              /\ h'[i] = [h[i] EXCEPT !.pc = q] /\ down' = down
              /\ u[1].arg # "badversion"
              /\ q = "start" <=> u[1].arg = "login"
              /\ q = "request" <=> u[1].arg = "status"
      BY <1>0, <1>2, <1>6, <2>4 DEF Handshake, Goto
    <3>2. h'[i].pc = q /\ h'[i].r = h[i].r /\ h'[i].w = h[i].w /\ h'[i].garbled = h[i].garbled
      BY <1>0, <3>1 DEF Handler
    <3>3. asksLogin <=> q = "start"
      BY <3>1
    <3>4. up'[i] \in Seq(Request) /\ (Len(u) = 1 => up'[i] = <<>>) /\ (Len(u) = 2 => Len(up'[i]) = 1)
      BY <1>0, <1>2
    <3>5. Asked(i)'
      <4>1. q = "close" => Asked(i)'
        BY <3>2 DEF Asked, Middle
      <4>2. q # "close" => (Len(u) = 2 => u[2].kind = q)
        BY <2>1, <3>1, <3>3
      <4>3. Len(<<>>) = 0
        OBVIOUS
      <4>4. ASSUME q # "close"
            PROVE  Asked(i)'
        <5>1. Len(up'[i]) <= 1 /\ (Len(up'[i]) = 1 => up'[i][1].kind = q)
          <6>1. CASE Len(u) = 1
            BY <3>4, <4>3, <6>1
          <6>2. CASE Len(u) = 2
            <7>1. up'[i][1] = u[2]
              BY <1>2, <6>2
            <7>2. u[2].kind = q
              BY <4>2, <4>4, <6>2
            <7>3. Len(up'[i]) = 1
              BY <3>4, <6>2
            <7>4. QED BY <7>1, <7>2, <7>3
          <6>3. QED BY <2>1, <6>1, <6>2
        <5>2. QED BY <3>2, <4>4, <5>1 DEF Asked, Middle
      <4>5. QED BY <4>1, <4>4
    <3>6. Staged(i)'
      BY <1>3, <2>1, <2>2, <3>1, <3>2, <3>3, <3>4 DEF Staged, Ended
    <3>7. q = "close" => c[i].st \notin {"login", "waiting", "play"}
      BY <2>2, <3>1, <3>3
    <3>8. QED BY <1>5, <3>1, <3>2, <3>5, <3>6, <3>7
  <2>5. QED BY <2>3, <2>4
<1>7. CASE LoginStart(i)
  <2>1. h[i].pc = "start" /\ up'[i] = <<>>
    BY <1>2, <1>7 DEF LoginStart
  <2>2. c[i].st \in {"waiting", "gone"}
    BY <1>0, <1>2, <2>1 DEF Staged, Ended, Early, Client
  <2>3. CASE Kick(i, "loginkick")
    BY <1>4, <2>2, <2>3
  <2>4. CASE ~Kick(i, "loginkick")
    <3>1. h'[i] = [h[i] EXCEPT !.pc = "compress", !.nick = Head(u).arg] /\ down' = down
      BY <1>0, <1>7, <2>4 DEF LoginStart, Goto
    <3>2. h'[i].pc = "compress" /\ h'[i].r = h[i].r /\ h'[i].w = h[i].w /\ h'[i].garbled = h[i].garbled
      BY <1>0, <3>1 DEF Handler
    <3>3. Asked(i)'
      BY <2>1, <3>2 DEF Asked
    <3>4. Staged(i)'
      BY <1>3, <2>2, <3>2 DEF Staged, Early
    <3>5. QED BY <1>5, <3>1, <3>2, <3>3, <3>4
  <2>5. QED BY <2>3, <2>4
<1>8. QED BY <1>6, <1>7

\* A status request and a ping.
LEMMA StatusDialogue ==
    ASSUME Known, NEW i \in Handlers, Dialogue(i), Status(i) \/ Ping(i)
    PROVE  Dialogue(i)'
<1> DEFINE d == down[i]
<1>0. /\ Typed /\ Framed(i) /\ Asked(i) /\ Staged(i) /\ Honest(i)
      /\ (c[i].st # "gone" => Answered(i))
      /\ h[i] \in Handler /\ h \in [Handlers -> Handler] /\ c[i] \in Client
      /\ d \in Seq(Reply) /\ h[i].w \in Framing
  BY DEF Known, Dialogue, Typed, TypeOK, Handler
<1>1. PICK k \in {"request", "ping"} : h[i].pc = k /\ Reads(i, k, Head(up[i]))
  BY DEF Status, Ping
<1>2. up[i] # <<>> /\ up'[i] = <<>> /\ c[i].st # "new" /\ c' = c /\ c[i].honest
  <2>1. up[i] # <<>> /\ up'[i] = <<>> /\ c[i].st # "new"
    BY <1>0, <1>1, ReadsNext DEF Early
  <2>2. c' = c /\ c[i].honest
    BY <1>0, <1>1, HandlerStepTyped DEF HandlerStep, OwnStep, Honest, Ended
  <2>3. QED BY <2>1, <2>2
<1>3. c[i].st \in {"pinging", "gone"}
  <2>1. Len(up[i]) # 0
    BY <1>0, <1>2 DEF Typed
  <2>2. QED BY <1>0, <1>1, <1>2, <2>1 DEF Staged, Ended, Early, Client
<1>4. c[i].st # "gone" => d = <<>>
  <2>1. ASSUME c[i].st # "gone"
        PROVE  d = <<>>
    <3>1. CASE h[i].pc = "request"
      BY <1>0, <2>1, <3>1 DEF Answered
    <3>2. CASE h[i].pc = "ping"
      <4>1. \A j \in DOMAIN d : d[j].kind = "response" => up[i] = <<>>
        BY <1>0, <2>1 DEF Answered
      <4>2. \A j \in DOMAIN d : d[j].kind = "response"
        BY <1>0, <2>1, <3>2 DEF Answered
      <4>3. DOMAIN d = {}
        BY <1>2, <4>1, <4>2
      <4>4. Len(d) = 0
        <5>1. PICK n \in Nat : n = Len(d) /\ DOMAIN d = 1 .. n
          BY <1>0
        <5>2. n # 0 => 1 \in 1 .. n
          OBVIOUS
        <5>3. n = 0
          BY <4>3, <5>1, <5>2
        <5>4. QED BY <5>1, <5>3
      <4>5. QED BY <1>0, <4>4
    <3>3. QED BY <1>1, <3>1, <3>2
  <2>2. QED BY <2>1
<1>5. CASE Ping(i)
  <2>1. h'[i] = [h[i] EXCEPT !.pc = "close"] /\ (Write(i, "pong", None) \/ WriteFails(i)) /\ h[i].pc = "ping"
    BY <1>0, <1>5 DEF Ping, Goto
  <2>2. h'[i].pc = "close" /\ h'[i].r = h[i].r /\ h'[i].w = h[i].w /\ h'[i].garbled = h[i].garbled
    BY <1>0, <2>1 DEF Handler
  <2>3. c[i].st # "gone" => "pong" \in Expected(StAt(c[i].st, d, Len(d) + 1))
    <3>1. ASSUME c[i].st # "gone"
          PROVE  ~Before(d, Len(d) + 1, "success")
      BY <1>4, <3>1 DEF Before
    <3>2. QED BY <1>3, <3>1 DEF StAt, Expected
  <2>4. QED BY <1>0, <1>2, <1>3, <2>1, <2>2, <2>3, KickDialogue DEF Ended
<1>6. CASE Status(i)
  <2>1. PICK q \in {"ping", "close"} :
            /\ h'[i] = [h[i] EXCEPT !.pc = q] /\ h[i].pc = "request"
            /\ \/ q = "ping" /\ Write(i, "response", None)
               \/ q = "close" /\ WriteFails(i)
    BY <1>0, <1>6 DEF Status, Goto
  <2>2. h'[i].pc = q /\ h'[i].r = h[i].r /\ h'[i].w = h[i].w /\ h'[i].garbled = h[i].garbled
    BY <1>0, <2>1 DEF Handler
  <2>3. Framed(i)'
    BY <1>0, <1>2, <2>1, <2>2 DEF Framed, Early, Ended
  <2>4. Asked(i)' /\ Honest(i)'
    BY <1>0, <1>2, <2>1, <2>2 DEF Asked, Honest, Middle, Ended
  <2>5. CASE c[i].st = "gone"
    BY <1>0, <1>2, <2>3, <2>4, <2>5, GoneDialogue
  <2>6. CASE c[i].st = "pinging"
    <3> DEFINE m == [kind |-> "response", arg |-> None, f |-> h[i].w]
    <3>1. q = "ping" /\ Write(i, "response", None)
      BY <2>1, <2>6 DEF WriteFails
    <3>2. down'[i] = Append(d, m) /\ m \in Reply
      BY <1>0, <2>6, <3>1, WritesLast DEF Reply
    <3>3. down'[i] = <<m>> /\ d = <<>>
      <4>1. d = <<>>
        BY <1>4, <2>6
      <4> HIDE DEF m
      <4>2. Append(<<>>, m) = <<m>>
        OBVIOUS
      <4>3. QED BY <3>2, <4>1, <4>2
    <3>4. h[i].w = Plain /\ c[i].f = Plain
      BY <1>0, <2>1, <2>6 DEF Framed, Answered, Early
    <3>5. \A kind : ~Before(d, Len(d) + 1, kind)
      BY <3>3 DEF Before
    <3>6. Fits(m.f, c[i].f, d, Len(d) + 1)
      BY <3>4, <3>5 DEF Fits
    <3>7. m.kind \in Expected(StAt(c[i].st, d, Len(d) + 1))
      BY <2>6, <3>5 DEF StAt, Expected
    <3>8. Understands(c[i], down'[i])
      BY <1>0, <2>6, <3>2, <3>6, <3>7, AppendUnderstood DEF Answered
    <3>9. Fits(h'[i].w, c[i].f, down'[i], Len(down'[i]) + 1)
      <4>1. \A kind \in {"compression", "keyreq"} : ~Before(<<m>>, 2, kind)
        BY DEF Before
      <4>2. Len(<<m>>) + 1 = 2
        OBVIOUS
      <4>3. QED BY <2>2, <3>3, <3>4, <4>1, <4>2 DEF Fits
    <3>10. Len(down'[i]) <= 1 /\ \A j \in DOMAIN down'[i] : down'[i][j].kind = "response"
      BY <3>3
    <3>11. Answered(i)'
      BY <1>2, <2>2, <3>1, <3>4, <3>8, <3>9, <3>10 DEF Answered, Early, Checked, Kicks
    <3>12. Staged(i)' /\ Kicked(i)'
      BY <1>2, <2>2, <2>6, <3>1 DEF Staged, Kicked
    <3>13. QED BY <1>2, <2>3, <2>4, <3>11, <3>12 DEF Dialogue
  <2>7. QED BY <1>3, <2>5, <2>6
<1>7. QED BY <1>5, <1>6

\* From the key's response on both sides are enciphered.
LEMMA KeyResponseDialogue ==
    ASSUME Known, NEW i \in Handlers, Dialogue(i), KeyResponse(i)
    PROVE  Dialogue(i)'
<1>0. /\ Typed /\ Framed(i) /\ Asked(i) /\ Staged(i) /\ Honest(i)
      /\ (c[i].st # "gone" => Answered(i))
      /\ h[i] \in Handler /\ h \in [Handlers -> Handler] /\ c[i] \in Client
      /\ h[i].w \in Framing /\ h[i].r = h[i].w /\ h[i].w = Compressed
  BY DEF Known, Dialogue, Typed, TypeOK, Handler, Framed, KeyResponse
<1>1. /\ h[i].pc = "keyresp" /\ up[i] # <<>> /\ Head(up[i]) = up[i][1] /\ up'[i] = <<>>
      /\ c' = c /\ down' = down
      /\ up[i][1].arg <=> c[i].honest
  BY <1>0, ReadsNext DEF KeyResponse, Honest
<1>2. PICK q \in {"joined", "login"} :
          /\ h'[i].pc = q /\ h'[i].r = h'[i].w /\ h'[i].garbled = h[i].garbled
          /\ q = "joined" => c[i].honest /\ h'[i].w.comp /\ h'[i].w.enc
          /\ q = "login" => ~c[i].honest /\ h'[i].err = "failed"
  <2>1. CASE Head(up[i]).arg
    <3>1. h'[i] = [h[i] EXCEPT !.pc = "joined", !.r = [h[i].r EXCEPT !.enc = TRUE],
                               !.w = [h[i].w EXCEPT !.enc = TRUE], !.buf = TRUE]
      BY <1>0, <2>1 DEF KeyResponse, Goto
    <3>2. /\ h'[i].pc = "joined" /\ h'[i].r = [h[i].r EXCEPT !.enc = TRUE]
          /\ h'[i].w = [h[i].w EXCEPT !.enc = TRUE] /\ h'[i].garbled = h[i].garbled
      BY <1>0, <3>1 DEF Handler
    <3>3. h[i].w.comp
      BY <1>0 DEF Compressed
    <3>4. h'[i].w.comp /\ h'[i].w.enc
      BY <1>0, <3>2, <3>3 DEF Framing
    <3>5. QED BY <1>0, <1>1, <2>1, <3>2, <3>4
  <2>2. CASE ~Head(up[i]).arg
    <3>1. h'[i] = [h[i] EXCEPT !.pc = "login", !.err = "failed"]
      BY <1>0, <2>2 DEF KeyResponse, Goto
    <3>2. /\ h'[i].pc = "login" /\ h'[i].r = h[i].r /\ h'[i].w = h[i].w /\ h'[i].err = "failed"
          /\ h'[i].garbled = h[i].garbled
      BY <1>0, <3>1 DEF Handler
    <3>3. QED BY <1>0, <1>1, <2>2, <3>2
  <2>3. QED BY <2>1, <2>2
<1>3. Framed(i)'
  BY <1>0, <1>1, <1>2 DEF Framed, Early
<1>4. Asked(i)' /\ Honest(i)'
  BY <1>0, <1>1, <1>2 DEF Asked, Honest
<1>5. Staged(i)' /\ Kicked(i)'
  BY <1>0, <1>1, <1>2 DEF Staged, Kicked, Early, Ended
<1>6. ASSUME c[i].st # "gone"
      PROVE  Answered(i)'
  <2>1. /\ Understands(c[i], down[i]) /\ StAt(c[i].st, down[i], Len(down[i]) + 1) = "waiting"
        /\ \A k \in DOMAIN down[i] :
              down[i][k].kind \notin Kicks \cup {"pong"} /\ down[i][k].kind \notin {"keyreq", "response"}
        /\ c[i].honest => Fits([comp |-> TRUE, enc |-> TRUE], c[i].f, down[i], Len(down[i]) + 1)
    BY <1>0, <1>1, <1>6 DEF Answered, Checked, Ended
  <2>2. c[i].honest => Fits(h'[i].w, c[i].f, down[i], Len(down[i]) + 1)
    BY <1>2, <2>1 DEF Fits
  <2>3. QED BY <1>1, <1>2, <2>1, <2>2 DEF Answered, Early, Checked
<1>7. QED BY <1>1, <1>3, <1>4, <1>5, <1>6 DEF Dialogue

Dialogues == \A i \in Handlers : Dialogue(i)

\* Every dialogue in every state.
LEMMA DialoguesHold == Spec => []Dialogues
<1>1. Init => Dialogues
  BY InitDialogue DEF Dialogues
<1>2. ASSUME Known, [Next]_vars, Dialogues
      PROVE  Dialogues'
  <2> USE DEF Dialogues
  <2>1. CASE UNCHANGED vars
    BY <1>2, <2>1, SameDialogue DEF vars, Same
  <2>2. ASSUME NEW i \in Handlers, ClientStep(i) \/ HandlerStep(i), NEW j \in Handlers
        PROVE  Dialogue(j)'
    <3>1. CASE j # i
      BY <1>2, <2>2, <3>1, Elsewhere, SameDialogue DEF Known
    <3>2. CASE ClientStep(i) /\ j = i
      BY <1>2, <3>2, ClientAsksDialogue, ClientPlaysDialogue, ClientReceivesDialogue DEF ClientStep
    <3>3. CASE HandlerStep(i) /\ j = i
      BY <1>2, <3>3, GreetsDialogue, StatusDialogue, ReadFailsDialogue, TellsDialogue,
         DecidesDialogue, KeyResponseDialogue, EndDialogue DEF HandlerStep, OwnStep, Early
    <3>4. QED BY <2>2, <3>1, <3>2, <3>3
  <2>3. QED BY <1>2, <2>1, <2>2 DEF Next
<1>3. QED BY <1>1, <1>2, KnownHolds, PTL DEF Spec

\* Every packet reaches the other side in the framing and the protocol state that
\* side is in when it reads it.
THEOREM DialogueUnderstood == Spec => []Understood
<1>1. Dialogues => Understood
  BY DEF Dialogues, Understood, Dialogue, Honest, Framed
<1>2. QED BY <1>1, DialoguesHold, PTL

\* A client that waits for an answer to its login is not dropped without a kick.
THEOREM DroppedOnlyWithAKick == Spec => []KickTold
<1>1. Dialogues => KickTold
  BY DEF Dialogues, KickTold, Dialogue, Kicked, Ended, Kicks
<1>2. QED BY <1>1, DialoguesHold, PTL
=============================================================================
