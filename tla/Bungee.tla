------------------------------- MODULE Bungee -------------------------------
(***************************************************************************)
(* filters/bungeecord over the sessions' command queues: the commands that *)
(* move players, the questions servers ask in plugin messages, and the     *)
(* list of upstream servers that /greload replaces.                        *)
(*                                                                         *)
(* A command or a plugin message is handled by its session's main          *)
(* goroutine; it pushes commands into its own queue and into the queues of *)
(* other sessions, which are the only things shared.  Queries of the       *)
(* registry and of the server list that only make text (/glist, /find,     *)
(* /ip, /gperms, /proxystats) show as lines of chat.                       *)
(***************************************************************************)
EXTENDS Naturals, Sequences, FiniteSets

CONSTANTS
    Sessions,
    Files,          \* contents upstreams.yml may have: sets of server names
    Bad,            \* contents that cannot be read, parsed or resolved
    Cap,            \* capacity of commandChan
    MaxWork         \* bound: commands and plugin messages handled

Servers == UNION Files

ASSUME BungeeAssumption ==
    /\ Files # {} /\ Bad \notin Files /\ \A f \in Files : f \subseteq Servers
    /\ IsFiniteSet(Sessions) /\ Cap \in Nat \ {0} /\ MaxWork \in Nat

VARIABLES
    file,               \* upstreams.yml
    UpstreamServerMap,  \* the names it has commands for; protected by UpstreamLock
    Players,            \* the registry
    session,            \* session -> its handler
    moved,              \* history: <<session, n>>: reconnect command n has been executed
    told,               \* history: n -> how many players command n says it has sent
    work                \* commands and plugin messages so far

vars == <<file, UpstreamServerMap, Players, session, moved, told, work>>

\* at: "loop", "join" (Execute waits for JoinGame), "send" (in Range), "swap" (in
\* LoadUpstreams), "stuck" (pushing into its own full queue) or "over".
\* asked and got: the questions of the server it is connected to, and the answers that
\* have reached it; registered: whether the server has been sent minecraft:register.
NewSession == [at |-> "new", conn |-> 0, joined |-> FALSE, registered |-> FALSE, queue |-> <<>>,
               asked |-> <<>>, got |-> <<>>, todo |-> {}, n |-> 0, count |-> 0]

Init ==
    /\ file \in Files \ {{}} /\ UpstreamServerMap = file
    /\ Players = {}
    /\ session = [s \in Sessions |-> NewSession]
    /\ moved = {}
    /\ told = [n \in {} |-> 0]
    /\ work = 0

-----------------------------------------------------------------------------
HasRoom(s) == Len(session[s].queue) < Cap

\* The sessions ss after pushing command c to session s without blocking.
Push(ss, s, c) == IF Len(ss[s].queue) < Cap THEN [ss EXCEPT ![s].queue = Append(@, c)] ELSE ss
Pushed(s, c) == Push(session, s, c)

\* The commands: where a reconnect goes does not matter here, only which command sent it.
Reconnect(n) == [k |-> "reconnect", conn |-> 0, n |-> n]
Register == [k |-> "register", conn |-> 0, n |-> 0]
Answer(conn, n) == [k |-> "answer", conn |-> conn, n |-> n]
Chat == [k |-> "chat", conn |-> 0, n |-> 0]

\* One command or plugin message more is handled by session s.
Work(s) == session[s].at = "loop" /\ work < MaxWork /\ work' = work + 1

\* Session s leaves the main loop: an error ends it, and it is unregistered.
End(s) ==
    /\ session' = [session EXCEPT ![s].at = "over"]
    /\ Players' = Players \ {s}

-----------------------------------------------------------------------------
(* Sessions, as far as the filter depends on them.                         *)

Connect(s) ==
    /\ session[s].at = "new"
    /\ session' = [session EXCEPT ![s].at = "loop", ![s].conn = 1]
    /\ Players' = Players \cup {s}
    /\ UNCHANGED <<file, UpstreamServerMap, moved, told, work>>

\* The player leaves, or a filter fails: a plugin message that cannot be read or has an
\* unknown subchannel does.
Leave(s) ==
    /\ session[s].at = "loop"
    /\ End(s)
    /\ UNCHANGED <<file, UpstreamServerMap, moved, told, work>>

\* The message that makes the server send plugin messages is queued; if that fails,
\* so does the filter, and with it the session.
joinFilter(s) ==
    IF HasRoom(s)
    THEN /\ session' = [Pushed(s, Register) EXCEPT ![s].at = "loop", ![s].joined = TRUE]
         /\ UNCHANGED Players
    ELSE End(s)

\* JoinGame arrives: as a packet after the login, or awaited by ReconnectCommand.
JoinGame(s) ==
    /\ session[s].at = "join" \/ (session[s].at = "loop" /\ ~session[s].joined)
    /\ joinFilter(s)
    /\ UNCHANGED <<file, UpstreamServerMap, moved, told, work>>

\* The main loop takes a command from the queue.  A new connection begins with nothing
\* asked; what the queue still holds stays in it.
Execute(s) ==
    LET c == Head(session[s].queue)
        rest == [session[s] EXCEPT !.queue = Tail(@)]
    IN  /\ session[s].at = "loop" /\ session[s].queue # <<>>
        /\ \/ /\ c.k = "reconnect"
              /\ session' = [session EXCEPT ![s] =
                    [rest EXCEPT !.at = "join", !.conn = @ + 1, !.joined = FALSE,
                                 !.registered = FALSE, !.asked = <<>>, !.got = <<>>]]
              /\ moved' = IF c.n = 0 THEN moved ELSE moved \cup {<<s, c.n>>}
           \/ /\ c.k = "register"
              /\ session' = [session EXCEPT ![s] = [rest EXCEPT !.registered = TRUE]]
              /\ UNCHANGED moved
           \/ /\ c.k = "answer"
              /\ session' = [session EXCEPT ![s] = [rest EXCEPT !.got = Append(@, c)]]
              /\ UNCHANGED moved
           \/ /\ c.k = "chat"
              /\ session' = [session EXCEPT ![s] = rest]
              /\ UNCHANGED moved
        /\ UNCHANGED <<file, UpstreamServerMap, Players, told, work>>

\* The upstream cannot be reached, or closes the connection before JoinGame.
ConnectFails(s) ==
    /\ session[s].at = "join"
    /\ End(s)
    /\ UNCHANGED <<file, UpstreamServerMap, moved, told, work>>

-----------------------------------------------------------------------------
(* Commands.                                                               *)

\* /server <to>, and the plugin message Connect: a blocking push into the own queue, which
\* nobody else empties.  An unknown server is an error of the plugin message only.
Switch(s, to, plugin) ==
    /\ Work(s)
    /\ IF to \in UpstreamServerMap
       THEN /\ session' = IF ~HasRoom(s) THEN [session EXCEPT ![s].at = "stuck"]
                          ELSE IF plugin THEN Pushed(s, Reconnect(0))
                          ELSE Push(Pushed(s, Reconnect(0)), s, Chat)
            /\ UNCHANGED Players
       ELSE IF plugin THEN End(s) ELSE session' = Pushed(s, Chat) /\ UNCHANGED Players
    /\ UNCHANGED <<file, UpstreamServerMap, moved, told>>

\* /send all and /send current: looks the server up and begins to Range over the players.
\* Which of them are on the server of "current" is a matter of when it is read.
SendAll(s, to) ==
    /\ Work(s)
    /\ IF to \in UpstreamServerMap
       THEN \E sent \in SUBSET Players :
               session' = [session EXCEPT ![s].at = "send", ![s].todo = sent, ![s].n = work']
       ELSE session' = Pushed(s, Chat)
    /\ UNCHANGED <<file, UpstreamServerMap, Players, moved, told>>

\* Mutant of SendNext: every player is counted.
SendNextAll(s, p) ==
    /\ session[s].at = "send" /\ p \in session[s].todo
    /\ session' = [Pushed(p, Reconnect(session[s].n)) EXCEPT
                        ![s].todo = @ \ {p}, ![s].count = @ + 1]
    /\ UNCHANGED <<file, UpstreamServerMap, Players, moved, told, work>>

SendNext(s, p) ==
    /\ session[s].at = "send" /\ p \in session[s].todo
    /\ session' = [Pushed(p, Reconnect(session[s].n)) EXCEPT
                        ![s].todo = @ \ {p}, ![s].count = @ + IF HasRoom(p) THEN 1 ELSE 0]
    /\ UNCHANGED <<file, UpstreamServerMap, Players, moved, told, work>>

\* "Sent %d players to %s"
SendDone(s) ==
    /\ session[s].at = "send" /\ session[s].todo = {}
    /\ session' = [Pushed(s, Chat) EXCEPT ![s].at = "loop", ![s].n = 0, ![s].count = 0]
    /\ told' = [n \in DOMAIN told \cup {session[s].n} |->
                    IF n = session[s].n THEN session[s].count ELSE told[n]]
    /\ UNCHANGED <<file, UpstreamServerMap, Players, moved, work>>

\* /send <player>, and the plugin message ConnectOther.  The command says what came of it, the
\* plugin message fails only if the server is unknown.
SendOne(s, p, to, plugin) ==
    /\ Work(s)
    /\ IF to \in UpstreamServerMap
       THEN /\ LET sent == IF p \notin Players THEN session
                           ELSE Pushed(p, Reconnect(IF plugin THEN 0 ELSE work'))
               IN  session' = IF plugin THEN sent ELSE Push(sent, s, Chat)
            /\ told' = IF plugin \/ p \notin Players THEN told
                       ELSE [n \in DOMAIN told \cup {work'} |->
                                IF n # work' THEN told[n] ELSE IF HasRoom(p) THEN 1 ELSE 0]
            /\ UNCHANGED Players
       ELSE /\ IF plugin THEN End(s) ELSE session' = Pushed(s, Chat) /\ UNCHANGED Players
            /\ UNCHANGED told
    /\ UNCHANGED <<file, UpstreamServerMap, moved>>

\* /alert and the plugin messages Message, Broadcast and Broadcast2, which have a line for
\* the players to; and a command that only answers its own player.  A full queue swallows
\* the line.  (That Broadcast meets the players one by one is in module PlayerManager.)
SendChatMessage(s, to) ==
    /\ Work(s)
    /\ session' = [p \in Sessions |-> IF p \in to THEN Pushed(p, Chat)[p] ELSE session[p]]
    /\ UNCHANGED <<file, UpstreamServerMap, Players, moved, told>>

\* Mutant of Query: the server is not told when the answer cannot be queued.
QueryQuiet(s) ==
    /\ Work(s)
    /\ session[s].registered
    /\ session' = [Pushed(s, Answer(session[s].conn, work')) EXCEPT ![s].asked = Append(@, work')]
    /\ UNCHANGED <<file, UpstreamServerMap, Players, moved, told>>

\* The plugin messages IP, PlayerCount, PlayerList, GetServer and GetServers, which a server
\* sends once the channel is registered: the answer is queued, or the session ends.
Query(s) ==
    /\ Work(s)
    /\ session[s].registered
    /\ IF HasRoom(s)
       THEN /\ session' = [Pushed(s, Answer(session[s].conn, work')) EXCEPT
                                ![s].asked = Append(@, work')]
            /\ UNCHANGED Players
       ELSE End(s)
    /\ UNCHANGED <<file, UpstreamServerMap, moved, told>>

-----------------------------------------------------------------------------
(* LoadUpstreams.                                                          *)

Edit ==
    /\ work < MaxWork
    /\ work' = work + 1
    /\ file' \in Files \cup {Bad}
    /\ UNCHANGED <<UpstreamServerMap, Players, session, moved, told>>

\* Mutant of ReadUpstreams: the map is emptied before it is filled again.
ReadUpstreamsInPlace(s) ==
    /\ Work(s)
    /\ session' = IF file \in {Bad, {}} THEN Pushed(s, Chat)
                  ELSE [session EXCEPT ![s].at = "swap", ![s].todo = file]
    /\ UpstreamServerMap' = {}
    /\ UNCHANGED <<file, Players, moved, told>>

\* /greload: the file is read; one that is broken or has no servers is refused.
ReadUpstreams(s) ==
    /\ Work(s)
    /\ session' = IF file \in {Bad, {}} THEN Pushed(s, Chat)
                  ELSE [session EXCEPT ![s].at = "swap", ![s].todo = file]
    /\ UNCHANGED <<file, UpstreamServerMap, Players, moved, told>>

SwapUpstreams(s) ==
    /\ session[s].at = "swap"
    /\ UpstreamServerMap' = session[s].todo
    /\ session' = [Pushed(s, Chat) EXCEPT ![s].at = "loop", ![s].todo = {}]
    /\ UNCHANGED <<file, Players, moved, told, work>>

-----------------------------------------------------------------------------
Next ==
    \/ Edit
    \/ \E s \in Sessions :
          \/ Connect(s) \/ Leave(s) \/ JoinGame(s) \/ Execute(s) \/ ConnectFails(s)
          \/ SendDone(s) \/ Query(s) \/ ReadUpstreams(s) \/ SwapUpstreams(s)
          \/ \E to \in Servers : SendAll(s, to) \/ \E plugin \in BOOLEAN : Switch(s, to, plugin)
          \/ \E to \in SUBSET Players : SendChatMessage(s, to)
          \/ \E p \in Sessions :
                \/ SendNext(s, p)
                \/ \E to \in Servers, plugin \in BOOLEAN : SendOne(s, p, to, plugin)

Spec == Init /\ [][Next]_vars

-----------------------------------------------------------------------------
Queued(s, k) == {i \in DOMAIN session[s].queue : session[s].queue[i].k = k}

\* A server that has let the player join is sent the registration of the plugin channel,
\* or it waits in the queue, however full the queue is and however often the player moves.
Registered ==
    \A s \in Sessions :
        session[s].at # "over" /\ session[s].joined =>
            session[s].registered \/ Queued(s, "register") # {}

\* The questions of the server a player is connected to are answered in order and once: the
\* answers it has got and those in the queue, wherever they stand among the answers to an
\* earlier server and the other commands, are one by one the answers to what it has asked.
AnswersInOrder ==
    \A s \in Sessions :
        LET all == session[s].got \o session[s].queue
            asked == session[s].asked
            mine == {i \in DOMAIN all : all[i].k = "answer" /\ all[i].conn = session[s].conn}
        IN  session[s].at # "over" =>
                \E place \in [DOMAIN asked -> mine] :
                    /\ mine = {place[i] : i \in DOMAIN asked}
                    /\ \A i, j \in DOMAIN asked : i < j => place[i] < place[j]
                    /\ \A i \in DOMAIN asked : all[place[i]].n = asked[i]

\* What a server needs from the proxy it gets, in order, or the session is over.
ServerServed == Registered /\ AnswersInOrder

\* The players whom command n has moved, or whose queue holds its order.
Ordered(n) ==
    {s \in Sessions : \/ <<s, n>> \in moved
                      \/ \E i \in DOMAIN session[s].queue :
                            session[s].queue[i].k = "reconnect" /\ session[s].queue[i].n = n}

\* As many players as a /send has told of are moved, or have the order in their queue.
SendCounts == \A n \in DOMAIN told : told[n] = Cardinality(Ordered(n))

\* A server that every version of the file names can be looked up at any time, whatever
\* reloads are under way.
AlwaysListed ==
    \A name \in Servers : (\A f \in Files \ {{}} : name \in f) => name \in UpstreamServerMap
=============================================================================
