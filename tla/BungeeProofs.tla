---------------------------- MODULE BungeeProofs ----------------------------
(***************************************************************************)
(* Proofs about Bungee: servers get their registration and their answers   *)
(* (ServerServed), /send tells the truth (SendCounts), and a reload takes  *)
(* away no server that stays in the file (AlwaysListed).  Most steps do    *)
(* nothing to a session but append to its queue (Quiet).                   *)
(* And about Texts: strings for servers are what Java writes and reads     *)
(* (AgreesWithJava), and chat shows what its codes ask for (Faithful).     *)
(***************************************************************************)
EXTENDS Bungee, Texts, FiniteSetTheorems, SequenceTheorems, TLAPS

Command == [k : {"reconnect", "register", "answer", "chat"}, conn : Nat, n : Nat]
Handler ==
    [at : {"new", "loop", "join", "send", "swap", "stuck", "over"}, conn : Nat,
     joined : BOOLEAN, registered : BOOLEAN, queue : Seq(Command), asked : Seq(Nat),
     got : Seq(Command), todo : SUBSET (Sessions \cup Servers), n : Nat, count : Nat]

TypeOK ==
    /\ file \in Files \cup {Bad}
    /\ Players \subseteq Sessions
    /\ session \in [Sessions -> Handler]
    /\ moved \subseteq Sessions \X Nat
    /\ told \in [DOMAIN told -> Nat] /\ DOMAIN told \subseteq Nat
    /\ work \in Nat

\* Nothing is reloaded but a file with servers.
Listed ==
    /\ UpstreamServerMap \in Files \ {{}}
    /\ \A s \in Sessions : session[s].at = "swap" => session[s].todo \in Files \ {{}}

\* Who is walked by /send is a player.
Walks == \A s \in Sessions : session[s].at = "send" => session[s].todo \subseteq Sessions

Shaped == TypeOK /\ Listed /\ Walks

-----------------------------------------------------------------------------
(* What a step does to one session.                                        *)

\* q becomes q2 by commands of C that are put behind it.
Adds(q, q2, C) ==
    /\ Len(q) <= Len(q2)
    /\ \A i \in 1 .. Len(q) : q2[i] = q[i]
    /\ \A i \in Len(q) + 1 .. Len(q2) : q2[i] \in C

\* Nothing but the queue, and where the goroutine is, differs.
Kept(r, r2) ==
    /\ r2.conn = r.conn /\ r2.joined = r.joined /\ r2.registered = r.registered
    /\ r2.asked = r.asked /\ r2.got = r.got
    /\ r2.at = "new" <=> r.at = "new"
    /\ r.at = "over" => r2.at = "over"

\* Nor does the walk of a /send.
Walking(r, r2) == r2.at = r.at /\ r2.todo = r.todo /\ r2.n = r.n /\ r2.count = r.count

\* Commands that are no answers.
NoAnswer == {c \in Command : c.k # "answer"}

Quiet(C) ==
    \A p \in Sessions :
        Kept(session[p], session'[p]) /\ Adds(session[p].queue, session'[p].queue, C)

\* What Push makes of the sessions.
LEMMA PushIs ==
    ASSUME NEW ss \in [Sessions -> Handler], NEW p \in Sessions, NEW c \in Command
    PROVE  /\ Push(ss, p, c) \in [Sessions -> Handler]
           /\ \A q \in Sessions :
                 /\ Kept(ss[q], Push(ss, p, c)[q]) /\ Walking(ss[q], Push(ss, p, c)[q])
                 /\ Adds(ss[q].queue, Push(ss, p, c)[q].queue, {c})
                 /\ q # p => Push(ss, p, c)[q] = ss[q]
           /\ Push(ss, p, c)[p].queue = IF Len(ss[p].queue) < Cap
                                        THEN Append(ss[p].queue, c) ELSE ss[p].queue
<1>0. ss[p] \in Handler /\ ss[p].queue \in Seq(Command)
  BY DEF Handler
<1>1. CASE Len(ss[p].queue) < Cap
  <2> DEFINE r == [ss[p] EXCEPT !.queue = Append(ss[p].queue, c)]
  <2>1. Push(ss, p, c) = [ss EXCEPT ![p] = r]
    BY <1>1 DEF Push
  <2>2. r \in Handler
    <3>1. Append(ss[p].queue, c) \in Seq(Command)
      BY <1>0
    <3>2. QED BY <1>0, <3>1 DEF Handler
  <2>3. /\ r.at = ss[p].at /\ r.conn = ss[p].conn /\ r.joined = ss[p].joined
        /\ r.registered = ss[p].registered /\ r.asked = ss[p].asked /\ r.got = ss[p].got
        /\ r.todo = ss[p].todo /\ r.n = ss[p].n /\ r.count = ss[p].count
        /\ r.queue = Append(ss[p].queue, c)
    BY <1>0 DEF Handler
  <2> HIDE DEF r
  <2>4. Adds(ss[p].queue, r.queue, {c})
    BY <1>0, <2>3 DEF Adds
  <2>5. \A q \in Sessions : Adds(ss[q].queue, ss[q].queue, {c})
    BY DEF Adds, Handler
  <2>6. QED BY <1>1, <2>1, <2>2, <2>3, <2>4, <2>5 DEF Kept, Walking
<1>2. CASE ~(Len(ss[p].queue) < Cap)
  <2>1. \A q \in Sessions : Adds(ss[q].queue, ss[q].queue, {c})
    BY DEF Adds, Handler
  <2>2. QED BY <1>2, <2>1 DEF Push, Kept, Walking
<1>3. QED BY <1>1, <1>2

\* Commands are commands.
LEMMA Commands ==
    /\ Register \in NoAnswer /\ Chat \in NoAnswer /\ \A n \in Nat : Reconnect(n) \in NoAnswer
    /\ \A conn, n \in Nat : Answer(conn, n) \in Command
    /\ NoAnswer \subseteq Command
BY DEF Register, Chat, Reconnect, Answer, NoAnswer, Command

\* What is put behind more is put behind the first.
LEMMA AddsMore ==
    ASSUME NEW q \in Seq(Command), NEW q1 \in Seq(Command), NEW q2 \in Seq(Command),
           NEW C, NEW D, C \subseteq D, Adds(q, q1, C), Adds(q1, q2, D)
    PROVE  Adds(q, q2, D)
BY DEF Adds

\* A step of s: the others' goroutines stay where they are.
Effect(s, C) ==
    /\ session' \in [Sessions -> Handler]
    /\ Quiet(C)
    /\ \A q \in Sessions \ {s} : Walking(session[q], session'[q])

\* Commands of C have been pushed, and nothing else.
Filled(ss, C) ==
    /\ ss \in [Sessions -> Handler]
    /\ \A q \in Sessions : /\ Kept(session[q], ss[q]) /\ Walking(session[q], ss[q])
                           /\ Adds(session[q].queue, ss[q].queue, C)

\* Nothing pushed is nothing changed.
LEMMA NothingFilled == TypeOK => Filled(session, {})
BY DEF TypeOK, Filled, Kept, Walking, Adds, Handler

\* One more push.
LEMMA PushFilled ==
    ASSUME TypeOK, NEW ss, NEW C, Filled(ss, C), NEW p \in Sessions, NEW c \in Command
    PROVE  Filled(Push(ss, p, c), C \cup {c})
<1> DEFINE st == Push(ss, p, c)
<1>1. /\ st \in [Sessions -> Handler]
      /\ \A q \in Sessions :
            /\ Kept(ss[q], st[q]) /\ Walking(ss[q], st[q])
            /\ Adds(ss[q].queue, st[q].queue, {c})
  BY PushIs DEF Filled
<1> HIDE DEF st
<1>2. ASSUME NEW q \in Sessions
      PROVE  Adds(session[q].queue, st[q].queue, C \cup {c})
  <2>1. /\ session[q].queue \in Seq(Command) /\ ss[q].queue \in Seq(Command)
        /\ st[q].queue \in Seq(Command)
    BY <1>1 DEF TypeOK, Filled, Handler
  <2>2. Adds(ss[q].queue, st[q].queue, C \cup {c})
    BY <1>1 DEF Adds
  <2>3. QED BY <2>1, <2>2, AddsMore DEF Filled
<1>3. ASSUME NEW q \in Sessions
      PROVE  Kept(session[q], st[q]) /\ Walking(session[q], st[q])
  <2>1. Kept(session[q], ss[q]) /\ Walking(session[q], ss[q])
    BY DEF Filled
  <2>2. Kept(ss[q], st[q]) /\ Walking(ss[q], st[q])
    BY <1>1
  <2>3. QED BY <2>1, <2>2 DEF Kept, Walking
<1>4. QED BY <1>1, <1>2, <1>3 DEF Filled, st

\* A single push.
LEMMA PushedFilled ==
    ASSUME TypeOK, NEW p \in Sessions, NEW c \in Command
    PROVE  Filled(Pushed(p, c), {c})
BY NothingFilled, PushFilled DEF Pushed

\* Then s goes elsewhere.
LEMMA ThenEffect ==
    ASSUME NEW ss, NEW C, Filled(ss, C), NEW s \in Sessions, NEW r \in Handler,
           Kept(ss[s], r), r.queue = ss[s].queue, session' = [ss EXCEPT ![s] = r]
    PROVE  Effect(s, C)
BY DEF Filled, Effect, Quiet, Kept, Walking

\* Pushes let every goroutine stay where it is.
LEMMA FilledEffect ==
    ASSUME NEW C, Filled(session', C), NEW s \in Sessions
    PROVE  Effect(s, C) /\ Walking(session[s], session'[s])
BY DEF Filled, Effect, Quiet

\* An effect with fewer commands is one with more.
LEMMA MoreEffect ==
    ASSUME NEW C, NEW D, C \subseteq D, NEW s \in Sessions, Effect(s, C)
    PROVE  Effect(s, D)
BY DEF Effect, Quiet, Adds

-----------------------------------------------------------------------------
(* The steps that are quiet.                                               *)

\* Idle commands, which are neither answers nor orders of a /send.
Idle == {c \in NoAnswer : c.k = "reconnect" => c.n = 0}

\* The end of a session.
LEMMA EndEffect ==
    ASSUME TypeOK, NEW s \in Sessions, End(s), session[s].at # "new"
    PROVE  /\ Effect(s, {}) /\ session'[s].at = "over" /\ session'[s].count = session[s].count
           /\ Players' \subseteq Sessions
<1> DEFINE r == [session[s] EXCEPT !.at = "over"]
<1>1. session[s] \in Handler /\ r \in Handler
  BY DEF TypeOK, Handler
<1>2. Kept(session[s], r) /\ r.queue = session[s].queue /\ r.count = session[s].count
  BY <1>1 DEF Kept, Handler
<1>3. session' = [session EXCEPT ![s] = r]
  BY DEF End
<1>4. Effect(s, {})
  <2> HIDE DEF r
  <2>1. QED BY <1>1, <1>2, <1>3, NothingFilled, ThenEffect
<1>5. QED BY <1>1, <1>2, <1>3, <1>4 DEF End, TypeOK

\* /server and the Connect message, which may fail, wait or get stuck.
LEMMA SwitchEffect ==
    ASSUME TypeOK, NEW s \in Sessions, NEW to, NEW plugin \in BOOLEAN, Switch(s, to, plugin)
    PROVE  /\ Effect(s, Idle) /\ session'[s].at \in {"loop", "stuck", "over"}
           /\ session'[s].count = session[s].count
           /\ Players' \subseteq Sessions
<1>0. session[s] \in Handler /\ session[s].at = "loop"
  BY DEF TypeOK, Switch, Work
<1>1. CASE to \in UpstreamServerMap /\ ~HasRoom(s)
  <2> DEFINE r == [session[s] EXCEPT !.at = "stuck"]
  <2>1. r \in Handler /\ Kept(session[s], r) /\ r.queue = session[s].queue /\ r.count = session[s].count
    BY <1>0 DEF Kept, Handler
  <2>2. session' = [session EXCEPT ![s] = r]
    BY <1>1 DEF Switch
  <2>3. Effect(s, {})
    <3> HIDE DEF r
    <3>1. QED BY <2>1, <2>2, NothingFilled, ThenEffect
  <2>4. QED BY <1>0, <1>1, <2>1, <2>2, <2>3, MoreEffect DEF Switch, TypeOK
<1>2. CASE to \in UpstreamServerMap /\ HasRoom(s)
  <2>1. Reconnect(0) \in Idle /\ Chat \in Idle /\ Idle \subseteq Command
    BY Commands DEF Idle, Reconnect, Chat
  <2>2. Filled(Pushed(s, Reconnect(0)), {Reconnect(0)})
    BY <2>1, PushedFilled
  <2>3. Filled(Push(Pushed(s, Reconnect(0)), s, Chat), {Reconnect(0)} \cup {Chat})
    BY <2>1, <2>2, PushFilled
  <2>4. Filled(session', {Reconnect(0)}) \/ Filled(session', {Reconnect(0)} \cup {Chat})
    BY <1>2, <2>2, <2>3 DEF Switch
  <2>5. Effect(s, Idle) /\ Walking(session[s], session'[s])
    BY <2>1, <2>4, FilledEffect, MoreEffect
  <2>6. QED BY <1>0, <1>2, <2>5 DEF Switch, Walking, TypeOK
<1>3. CASE to \notin UpstreamServerMap /\ plugin
  BY <1>0, <1>3, EndEffect, MoreEffect DEF Switch
<1>4. CASE to \notin UpstreamServerMap /\ ~plugin
  <2>1. Chat \in Idle /\ Chat \in Command
    BY Commands DEF Idle, Chat
  <2>2. Filled(session', {Chat})
    BY <1>4, <2>1, PushedFilled DEF Switch
  <2>3. Effect(s, Idle) /\ Walking(session[s], session'[s])
    BY <2>1, <2>2, FilledEffect, MoreEffect
  <2>4. QED BY <1>0, <1>4, <2>3 DEF Switch, Walking, TypeOK
<1>5. QED BY <1>1, <1>2, <1>3, <1>4

\* The begin of a /send to everybody.
LEMMA SendAllEffect ==
    ASSUME TypeOK, NEW s \in Sessions, NEW to, SendAll(s, to)
    PROVE  /\ Effect(s, Idle) /\ session'[s].count = session[s].count
           /\ session'[s].at \in {"loop", "send"}
           /\ session'[s].at = "send" =>
                 /\ session'[s].n = work' /\ session'[s].todo \subseteq Sessions
                 /\ \A q \in Sessions : session'[q].queue = session[q].queue
<1>0. session[s] \in Handler /\ session[s].at = "loop" /\ work' \in Nat
  <2>1. work \in Nat /\ work' = work + 1 /\ session[s].at = "loop"
    BY DEF TypeOK, SendAll, Work
  <2>2. QED BY <2>1 DEF TypeOK
<1>1. CASE to \in UpstreamServerMap
  <2>1. PICK sent \in SUBSET Players :
            session' = [session EXCEPT ![s].at = "send", ![s].todo = sent, ![s].n = work']
    BY <1>1 DEF SendAll
  <2> DEFINE r == [session[s] EXCEPT !.at = "send", !.todo = sent, !.n = work']
  <2>2. sent \subseteq Sessions
    BY DEF TypeOK
  <2>3. /\ r \in Handler /\ Kept(session[s], r) /\ r.queue = session[s].queue
        /\ r.count = session[s].count /\ r.at = "send" /\ r.todo = sent /\ r.n = work'
    BY <1>0, <2>2 DEF Kept, Handler
  <2>4. session' = [session EXCEPT ![s] = r]
    BY <2>1
  <2> HIDE DEF r
  <2>5. Effect(s, {})
    BY <2>3, <2>4, NothingFilled, ThenEffect
  <2>6. Effect(s, Idle)
    BY <2>5, MoreEffect
  <2>7. QED BY <1>0, <2>2, <2>3, <2>4, <2>6 DEF TypeOK
<1>2. CASE to \notin UpstreamServerMap
  <2>1. Chat \in Idle /\ Chat \in Command
    BY Commands DEF Idle, Chat
  <2>2. Filled(session', {Chat})
    BY <1>2, <2>1, PushedFilled DEF SendAll
  <2>3. Effect(s, Idle) /\ Walking(session[s], session'[s])
    BY <2>1, <2>2, FilledEffect, MoreEffect
  <2>4. QED BY <1>0, <2>3 DEF Walking
<1>3. QED BY <1>1, <1>2

\* A /send orders its next player, if there is room.
LEMMA SendNextEffect ==
    ASSUME TypeOK, NEW s \in Sessions, NEW p \in Sessions, SendNext(s, p)
    PROVE  /\ Effect(s, {Reconnect(session[s].n)})
           /\ session'[s].at = "send" /\ session'[s].n = session[s].n
           /\ session'[s].todo = session[s].todo \ {p}
           /\ session'[s].count = session[s].count + (IF HasRoom(p) THEN 1 ELSE 0)
           /\ session'[p].queue = IF HasRoom(p)
                                  THEN Append(session[p].queue, Reconnect(session[s].n))
                                  ELSE session[p].queue
           /\ \A q \in Sessions \ {p} : session'[q].queue = session[q].queue
<1> DEFINE c == Reconnect(session[s].n)
           ss == Pushed(p, c)
           k == IF HasRoom(p) THEN 1 ELSE 0
           r == [ss[s] EXCEPT !.todo = session[s].todo \ {p}, !.count = session[s].count + k]
<1>1. session[s] \in Handler /\ session[s].at = "send" /\ k \in Nat /\ session \in [Sessions -> Handler]
  BY DEF TypeOK, SendNext
<1>2. c \in Command
  BY <1>1, Commands DEF Handler
<1> HIDE DEF c, k
<1>3. /\ Filled(ss, {c})
      /\ ss[p].queue = IF HasRoom(p) THEN Append(session[p].queue, c) ELSE session[p].queue
      /\ \A q \in Sessions \ {p} : ss[q] = session[q]
  <2>1. Filled(ss, {c})
    BY <1>2, PushedFilled
  <2>2. /\ ss[p].queue = IF Len(session[p].queue) < Cap
                         THEN Append(session[p].queue, c) ELSE session[p].queue
        /\ \A q \in Sessions \ {p} : ss[q] = session[q]
    <3>1. /\ Push(session, p, c)[p].queue = IF Len(session[p].queue) < Cap
                         THEN Append(session[p].queue, c) ELSE session[p].queue
          /\ \A q \in Sessions : q # p => Push(session, p, c)[q] = session[q]
      BY <1>1, <1>2, PushIs, Zenon
    <3>2. QED BY <3>1 DEF Pushed
  <2> HIDE DEF ss
  <2>3. QED BY <2>1, <2>2 DEF HasRoom
<1>4. /\ ss[s] \in Handler /\ Walking(session[s], ss[s]) /\ Kept(session[s], ss[s])
      /\ ss \in [Sessions -> Handler]
  BY <1>3 DEF Filled
<1>5. session' = [ss EXCEPT ![s].todo = @ \ {p}, ![s].count = @ + k]
  BY DEF SendNext, c, k
<1> HIDE DEF ss
<1>6. session' = [ss EXCEPT ![s] = r]
  BY <1>4, <1>5 DEF Walking
<1>7. /\ r \in Handler /\ Kept(ss[s], r) /\ r.queue = ss[s].queue
      /\ r.todo = session[s].todo \ {p} /\ r.count = session[s].count + k
      /\ r.at = ss[s].at /\ r.n = ss[s].n
  <2>1. session[s].todo \ {p} \in SUBSET (Sessions \cup Servers) /\ session[s].count + k \in Nat
    BY <1>1 DEF Handler
  <2>2. QED BY <1>4, <2>1 DEF Kept, Handler
<1> HIDE DEF r
<1>8. Effect(s, {c})
  BY <1>3, <1>6, <1>7, ThenEffect
<1>9. /\ session'[s].at = "send" /\ session'[s].n = session[s].n
      /\ session'[s].todo = session[s].todo \ {p} /\ session'[s].count = session[s].count + k
  BY <1>1, <1>4, <1>6, <1>7 DEF Walking
<1>10. \A q \in Sessions : session'[q].queue = ss[q].queue
  BY <1>4, <1>6, <1>7
<1>11. QED BY <1>3, <1>8, <1>9, <1>10 DEF c, k

\* The end of a /send.
LEMMA SendDoneEffect ==
    ASSUME TypeOK, NEW s \in Sessions, SendDone(s)
    PROVE  /\ Effect(s, Idle) /\ session'[s].at = "loop" /\ session'[s].count = 0
<1> DEFINE ss == Pushed(s, Chat)
           r == [ss[s] EXCEPT !.at = "loop", !.n = 0, !.count = 0]
<1>1. Chat \in Idle /\ Chat \in Command
  BY Commands DEF Idle, Chat
<1>2. Filled(ss, {Chat})
  BY <1>1, PushedFilled
<1>3. /\ ss[s] \in Handler /\ Walking(session[s], ss[s]) /\ Kept(session[s], ss[s])
      /\ ss \in [Sessions -> Handler] /\ session[s].at = "send"
  BY <1>2 DEF Filled, SendDone
<1>4. session' = [ss EXCEPT ![s].at = "loop", ![s].n = 0, ![s].count = 0]
  BY DEF SendDone
<1> HIDE DEF ss
<1>5. session' = [ss EXCEPT ![s] = r]
  BY <1>4
<1>6. /\ r \in Handler /\ Kept(ss[s], r) /\ r.queue = ss[s].queue
      /\ r.at = "loop" /\ r.count = 0
  BY <1>3 DEF Kept, Walking, Handler
<1> HIDE DEF r
<1>7. Effect(s, Idle)
  <2>1. Effect(s, {Chat})
    BY <1>2, <1>5, <1>6, ThenEffect
  <2>2. QED BY <1>1, <2>1, MoreEffect
<1>8. QED BY <1>3, <1>5, <1>6, <1>7

\* The second half of a reload of the server list.
LEMMA SwapEffect ==
    ASSUME TypeOK, NEW s \in Sessions, SwapUpstreams(s)
    PROVE  /\ Effect(s, Idle) /\ session'[s].at = "loop" /\ session'[s].count = session[s].count
<1> DEFINE ss == Pushed(s, Chat)
           r == [ss[s] EXCEPT !.at = "loop", !.todo = {}]
<1>1. Chat \in Idle /\ Chat \in Command
  BY Commands DEF Idle, Chat
<1>2. Filled(ss, {Chat})
  BY <1>1, PushedFilled
<1>3. /\ ss[s] \in Handler /\ Walking(session[s], ss[s]) /\ Kept(session[s], ss[s])
      /\ ss \in [Sessions -> Handler] /\ session[s].at = "swap"
  BY <1>2 DEF Filled, SwapUpstreams
<1>4. session' = [ss EXCEPT ![s].at = "loop", ![s].todo = {}]
  BY DEF SwapUpstreams
<1> HIDE DEF ss
<1>5. session' = [ss EXCEPT ![s] = r]
  BY <1>4
<1>6. /\ r \in Handler /\ Kept(ss[s], r) /\ r.queue = ss[s].queue
      /\ r.at = "loop" /\ r.count = ss[s].count
  BY <1>3 DEF Kept, Walking, Handler
<1> HIDE DEF r
<1>7. Effect(s, Idle)
  <2>1. Effect(s, {Chat})
    BY <1>2, <1>5, <1>6, ThenEffect
  <2>2. QED BY <1>1, <2>1, MoreEffect
<1>8. QED BY <1>3, <1>5, <1>6, <1>7 DEF Walking

\* The first half, which may fail.
LEMMA ReadEffect ==
    ASSUME TypeOK, NEW s \in Sessions, ReadUpstreams(s)
    PROVE  /\ Effect(s, Idle) /\ session'[s].at \in {"loop", "swap"}
           /\ session'[s].count = session[s].count
           /\ session'[s].at = "swap" => file \in Files \ {{}} /\ session'[s].todo = file
<1>0. session[s] \in Handler /\ session[s].at = "loop"
  BY DEF TypeOK, ReadUpstreams, Work
<1>1. CASE file \in {Bad, {}}
  <2>1. Chat \in Idle /\ Chat \in Command
    BY Commands DEF Idle, Chat
  <2>2. Filled(session', {Chat})
    BY <1>1, <2>1, PushedFilled DEF ReadUpstreams
  <2>3. Effect(s, Idle) /\ Walking(session[s], session'[s])
    BY <2>1, <2>2, FilledEffect, MoreEffect
  <2>4. QED BY <1>0, <2>3 DEF Walking
<1>2. CASE file \notin {Bad, {}}
  <2> DEFINE r == [session[s] EXCEPT !.at = "swap", !.todo = file]
  <2>1. file \in Files \ {{}} /\ file \subseteq Servers
    BY <1>2 DEF TypeOK, Servers
  <2>2. /\ r \in Handler /\ Kept(session[s], r) /\ r.queue = session[s].queue
        /\ r.count = session[s].count /\ r.at = "swap" /\ r.todo = file
    BY <1>0, <2>1 DEF Kept, Handler
  <2>3. session' = [session EXCEPT ![s] = r]
    BY <1>2 DEF ReadUpstreams
  <2> HIDE DEF r
  <2>4. Effect(s, Idle)
    <3>1. Effect(s, {})
      BY <2>2, <2>3, NothingFilled, ThenEffect
    <3>2. QED BY <3>1, MoreEffect
  <2>5. QED BY <1>0, <2>1, <2>2, <2>3, <2>4 DEF TypeOK
<1>3. QED BY <1>1, <1>2

\* A line of chat.
LEMMA ChatEffect ==
    ASSUME TypeOK, NEW s \in Sessions, NEW to, SendChatMessage(s, to)
    PROVE  Effect(s, Idle) /\ Walking(session[s], session'[s])
<1>1. Chat \in Idle /\ Chat \in Command
  BY Commands DEF Idle, Chat
<1>2. Filled(session', {Chat})
  <2>1. \A p \in Sessions : Filled(Pushed(p, Chat), {Chat})
    BY <1>1, PushedFilled
  <2>2. \A p \in Sessions : /\ session'[p] \in {Pushed(p, Chat)[p], session[p]}
                            /\ session' = [q \in Sessions |-> session'[q]]
    BY DEF SendChatMessage
  <2>3. Filled(session, {Chat})
    BY NothingFilled DEF Filled, Adds
  <2>4. QED BY <2>1, <2>2, <2>3 DEF Filled
<1>3. QED BY <1>1, <1>2, FilledEffect, MoreEffect

\* A /send of one player, which tells of it only if there was room.
LEMMA SendOneEffect ==
    ASSUME TypeOK, NEW s \in Sessions, NEW p \in Sessions, NEW to, NEW plugin \in BOOLEAN,
           SendOne(s, p, to, plugin)
    PROVE  /\ Effect(s, Idle \cup {Reconnect(work')})
           /\ session'[s].at \in {"loop", "over"} /\ session'[s].count = session[s].count
           /\ Players' \subseteq Sessions
           /\ told' # told =>
                 /\ \A q \in Sessions : q # p \/ ~HasRoom(p) =>
                        Adds(session[q].queue, session'[q].queue, Idle)
                 /\ HasRoom(p) => \E i \in DOMAIN session'[p].queue :
                                      session'[p].queue[i] = Reconnect(work')
<1>0. /\ session[s] \in Handler /\ session[s].at = "loop" /\ work' \in Nat
      /\ session \in [Sessions -> Handler] /\ Players \subseteq Sessions
  <2>1. work \in Nat /\ work' = work + 1 /\ session[s].at = "loop"
    BY DEF TypeOK, SendOne, Work
  <2>2. QED BY <2>1 DEF TypeOK
<1>1. /\ Chat \in Idle /\ Chat \in Command /\ Reconnect(0) \in Idle /\ Reconnect(0) \in Command
      /\ Reconnect(work') \in Command
  BY <1>0, Commands DEF Idle, Chat, Reconnect
<1>2. ASSUME NEW C, C \subseteq Idle \cup {Reconnect(work')}, Filled(session', C), UNCHANGED Players
      PROVE  /\ Effect(s, Idle \cup {Reconnect(work')})
             /\ session'[s].at = "loop" /\ session'[s].count = session[s].count
             /\ Players' \subseteq Sessions
  BY <1>0, <1>2, FilledEffect, MoreEffect DEF Walking
<1>3. CASE to \in UpstreamServerMap /\ plugin
  <2>1. Filled(Pushed(p, Reconnect(0)), {Reconnect(0)}) /\ Filled(session, {})
    BY <1>1, PushedFilled, NothingFilled
  <2>2. session' = session \/ session' = Pushed(p, Reconnect(0))
    BY <1>3 DEF SendOne
  <2>3. UNCHANGED <<told, Players>>
    BY <1>3 DEF SendOne
  <2>4. QED BY <1>1, <1>2, <2>1, <2>2, <2>3
<1>4. CASE to \in UpstreamServerMap /\ ~plugin /\ p \notin Players
  <2>1. session' = Pushed(s, Chat) /\ UNCHANGED <<told, Players>>
    BY <1>4 DEF SendOne, Pushed
  <2>2. Filled(session', {Chat})
    BY <1>1, <2>1, PushedFilled
  <2>3. QED BY <1>1, <1>2, <2>1, <2>2
<1>5. CASE to \in UpstreamServerMap /\ ~plugin /\ p \in Players
  <2> DEFINE c == Reconnect(work')
             ss == Pushed(p, c)
  <2>1. session' = Push(ss, s, Chat) /\ UNCHANGED Players
    BY <1>5 DEF SendOne
  <2>2. c \in Command
    BY <1>1
  <2>3. Filled(ss, {c})
    BY <2>2, PushedFilled
  <2>4. /\ ss[p].queue = IF Len(session[p].queue) < Cap
                         THEN Append(session[p].queue, c) ELSE session[p].queue
        /\ \A q \in Sessions : q # p => ss[q] = session[q]
    <3> HIDE DEF c
    <3>1. /\ Push(session, p, c)[p].queue = IF Len(session[p].queue) < Cap
                         THEN Append(session[p].queue, c) ELSE session[p].queue
          /\ \A q \in Sessions : q # p => Push(session, p, c)[q] = session[q]
      BY <1>0, <2>2, PushIs, Zenon
    <3>2. QED BY <3>1 DEF Pushed
  <2> HIDE DEF ss, c
  <2>5. Filled(session', {c} \cup {Chat})
    BY <1>1, <2>1, <2>3, PushFilled
  <2>6. ss \in [Sessions -> Handler]
    BY <2>3 DEF Filled
  <2>7. \A q \in Sessions : Adds(ss[q].queue, session'[q].queue, {Chat})
    BY <1>1, <2>1, <2>6, PushIs
  <2>8. ASSUME NEW q \in Sessions, q # p \/ ~HasRoom(p)
        PROVE  Adds(session[q].queue, session'[q].queue, Idle)
    <3>1. ss[q].queue = session[q].queue
      BY <2>4, <2>8 DEF HasRoom
    <3>2. QED BY <1>1, <2>7, <3>1 DEF Adds
  <2>9. ASSUME HasRoom(p)
        PROVE  \E i \in DOMAIN session'[p].queue : session'[p].queue[i] = c
    <3>1. /\ session[p].queue \in Seq(Command) /\ session'[p].queue \in Seq(Command)
          /\ ss[p].queue = Append(session[p].queue, c)
      BY <1>0, <2>4, <2>5, <2>9 DEF HasRoom, Filled, Handler
    <3>2. /\ Len(ss[p].queue) = Len(session[p].queue) + 1
          /\ ss[p].queue[Len(session[p].queue) + 1] = c
          /\ Len(session[p].queue) \in Nat
      BY <3>1
    <3>3. /\ Len(session[p].queue) + 1 <= Len(session'[p].queue)
          /\ session'[p].queue[Len(session[p].queue) + 1] = c
      <4>1. Adds(ss[p].queue, session'[p].queue, {Chat})
        BY <2>7
      <4>2. Len(session[p].queue) + 1 \in 1 .. Len(ss[p].queue)
        BY <3>2
      <4>3. QED BY <3>2, <4>1, <4>2 DEF Adds
    <3>4. QED BY <3>1, <3>2, <3>3
  <2>10. {c} \cup {Chat} \subseteq Idle \cup {Reconnect(work')}
    BY <1>1 DEF c
  <2>11. QED BY <1>2, <2>1, <2>5, <2>8, <2>9, <2>10 DEF c
<1>6. CASE to \notin UpstreamServerMap /\ plugin
  <2>1. End(s) /\ told' = told
    BY <1>6 DEF SendOne
  <2>2. /\ Effect(s, {}) /\ session'[s].at = "over" /\ session'[s].count = session[s].count
        /\ Players' \subseteq Sessions
    BY <1>0, <2>1, EndEffect
  <2>3. Effect(s, Idle \cup {Reconnect(work')})
    BY <2>2, MoreEffect
  <2>4. QED BY <2>1, <2>2, <2>3
<1>7. CASE to \notin UpstreamServerMap /\ ~plugin
  <2>1. session' = Pushed(s, Chat) /\ UNCHANGED <<told, Players>>
    BY <1>7 DEF SendOne
  <2>2. Filled(session', {Chat})
    BY <1>1, <2>1, PushedFilled
  <2>3. QED BY <1>1, <1>2, <2>1, <2>2
<1>8. QED BY <1>3, <1>4, <1>5, <1>6, <1>7

-----------------------------------------------------------------------------
(* The steps that are not quiet; they change one session.                  *)

\* Only s changes.
Only(s) ==
    /\ session' \in [Sessions -> Handler]
    /\ \A q \in Sessions \ {s} : session'[q] = session[q]

\* A session connects for the first time.
LEMMA ConnectIs ==
    ASSUME TypeOK, NEW s \in Sessions, Connect(s)
    PROVE  /\ Only(s) /\ session[s].at = "new"
           /\ session'[s] = [session[s] EXCEPT !.at = "loop", !.conn = 1]
           /\ session'[s].at = "loop" /\ session'[s].conn = 1
           /\ session'[s].joined = session[s].joined /\ session'[s].queue = session[s].queue
           /\ session'[s].asked = session[s].asked /\ session'[s].got = session[s].got
           /\ session'[s].count = session[s].count
<1> DEFINE r == [session[s] EXCEPT !.at = "loop", !.conn = 1]
<1>1. session[s] \in Handler /\ session[s].at = "new" /\ session' = [session EXCEPT ![s] = r]
  BY DEF TypeOK, Connect
<1>2. r \in Handler
  BY <1>1 DEF Handler
<1>3. /\ r.at = "loop" /\ r.conn = 1 /\ r.joined = session[s].joined /\ r.queue = session[s].queue
      /\ r.asked = session[s].asked /\ r.got = session[s].got /\ r.count = session[s].count
  BY <1>1 DEF Handler
<1>4. session'[s] = r
  BY <1>1 DEF TypeOK
<1>5. Only(s)
  BY <1>1, <1>2 DEF TypeOK, Only
<1>6. QED BY <1>1, <1>3, <1>4, <1>5

\* A player has joined: the registration is in the queue, or the session over.
LEMMA JoinIs ==
    ASSUME TypeOK, NEW s \in Sessions, joinFilter(s), session[s].at \in {"loop", "join"}
    PROVE  /\ Only(s)
           /\ Adds(session[s].queue, session'[s].queue, {Register})
           /\ session'[s].conn = session[s].conn
           /\ session'[s].asked = session[s].asked /\ session'[s].got = session[s].got
           /\ session'[s].count = session[s].count
           /\ \/ session'[s].at = "over"
              \/ /\ session'[s].at = "loop"
                 /\ \E i \in DOMAIN session'[s].queue : session'[s].queue[i].k = "register"
           /\ Players' \subseteq Sessions
<1>0. session[s] \in Handler /\ session \in [Sessions -> Handler] /\ session[s].queue \in Seq(Command)
  BY DEF TypeOK, Handler
<1>1. CASE HasRoom(s)
  <2> DEFINE ss == Pushed(s, Register)
             r == [ss[s] EXCEPT !.at = "loop", !.joined = TRUE]
  <2>1. Register \in Command
    BY DEF Register, Command
  <2>2. Filled(ss, {Register})
    BY <2>1, PushedFilled
  <2>3. /\ ss[s].queue = IF Len(session[s].queue) < Cap
                         THEN Append(session[s].queue, Register) ELSE session[s].queue
        /\ \A q \in Sessions : q # s => ss[q] = session[q]
    <3>1. /\ Push(session, s, Register)[s].queue
                = IF Len(session[s].queue) < Cap
                  THEN Append(session[s].queue, Register) ELSE session[s].queue
          /\ \A q \in Sessions : q # s => Push(session, s, Register)[q] = session[q]
      BY <1>0, <2>1, PushIs, Zenon
    <3>2. QED BY <3>1 DEF Pushed
  <2>4. session' = [ss EXCEPT ![s].at = "loop", ![s].joined = TRUE] /\ Players' = Players
    BY <1>1 DEF joinFilter
  <2> HIDE DEF ss
  <2>5. /\ ss \in [Sessions -> Handler] /\ ss[s] \in Handler
        /\ Kept(session[s], ss[s]) /\ Walking(session[s], ss[s])
        /\ Adds(session[s].queue, ss[s].queue, {Register})
    BY <2>2 DEF Filled
  <2>6. session' = [ss EXCEPT ![s] = r]
    BY <2>4
  <2>7. /\ r \in Handler /\ r.at = "loop" /\ r.queue = ss[s].queue /\ r.conn = ss[s].conn
        /\ r.asked = ss[s].asked /\ r.got = ss[s].got /\ r.count = ss[s].count
    BY <2>5 DEF Handler
  <2> HIDE DEF r
  <2>8. Only(s) /\ session'[s] = r
    BY <2>3, <2>5, <2>6, <2>7 DEF Only
  <2>9. \E i \in DOMAIN r.queue : r.queue[i].k = "register"
    <3>1. r.queue = Append(session[s].queue, Register)
      BY <1>1, <2>3, <2>7 DEF HasRoom
    <3>2. /\ Len(session[s].queue) + 1 \in DOMAIN r.queue
          /\ r.queue[Len(session[s].queue) + 1] = Register
      BY <1>0, <2>1, <3>1
    <3>3. QED BY <3>2 DEF Register
  <2>10. QED BY <2>4, <2>5, <2>7, <2>8, <2>9 DEF Kept, Walking, TypeOK
<1>2. CASE ~HasRoom(s)
  <2> DEFINE r == [session[s] EXCEPT !.at = "over"]
  <2>1. session' = [session EXCEPT ![s] = r] /\ Players' \subseteq Sessions
    BY <1>2 DEF joinFilter, End, TypeOK
  <2>2. /\ r \in Handler /\ r.at = "over" /\ r.queue = session[s].queue /\ r.conn = session[s].conn
        /\ r.asked = session[s].asked /\ r.got = session[s].got /\ r.count = session[s].count
    BY <1>0 DEF Handler
  <2> HIDE DEF r
  <2>3. session'[s] = r /\ Only(s)
    BY <1>0, <2>1, <2>2 DEF Only
  <2>4. Adds(session[s].queue, r.queue, {Register})
    BY <1>0, <2>2 DEF Adds
  <2>5. QED BY <2>1, <2>2, <2>3, <2>4
<1>3. QED BY <1>1, <1>2

\* A question is answered behind what is queued, or the session is over.
LEMMA QueryIs ==
    ASSUME TypeOK, NEW s \in Sessions, Query(s)
    PROVE  /\ Only(s) /\ session[s].at = "loop" /\ Players' \subseteq Sessions
           /\ session'[s].conn = session[s].conn /\ session'[s].got = session[s].got
           /\ session'[s].joined = session[s].joined /\ session'[s].registered
           /\ session'[s].count = session[s].count
           /\ \/ session'[s].at = "over" /\ session'[s].queue = session[s].queue
                 /\ session'[s].asked = session[s].asked
              \/ /\ session'[s].at = "loop"
                 /\ session'[s].queue = Append(session[s].queue, Answer(session[s].conn, work'))
                 /\ session'[s].asked = Append(session[s].asked, work')
<1>0. /\ session[s] \in Handler /\ session \in [Sessions -> Handler] /\ session[s].at = "loop"
      /\ session[s].conn \in Nat /\ work' \in Nat /\ session[s].asked \in Seq(Nat)
      /\ session[s].registered
  <2>1. work \in Nat /\ work' = work + 1 /\ session[s].at = "loop" /\ session[s].registered
    BY DEF TypeOK, Query, Work
  <2>2. session[s] \in Handler /\ session \in [Sessions -> Handler]
    BY DEF TypeOK
  <2>3. QED BY <2>1, <2>2 DEF Handler
<1>1. CASE HasRoom(s)
  <2> DEFINE c == Answer(session[s].conn, work')
             ss == Pushed(s, c)
             r == [ss[s] EXCEPT !.asked = Append(ss[s].asked, work')]
  <2>1. c \in Command
    BY <1>0, Commands
  <2>2. session' = [ss EXCEPT ![s].asked = Append(@, work')] /\ Players' = Players
    BY <1>1 DEF Query
  <2> HIDE DEF c
  <2>3. Filled(ss, {c})
    BY <2>1, PushedFilled
  <2>4. /\ ss[s].queue = IF Len(session[s].queue) < Cap
                         THEN Append(session[s].queue, c) ELSE session[s].queue
        /\ \A q \in Sessions : q # s => ss[q] = session[q]
    <3>1. /\ Push(session, s, c)[s].queue = IF Len(session[s].queue) < Cap
                  THEN Append(session[s].queue, c) ELSE session[s].queue
          /\ \A q \in Sessions : q # s => Push(session, s, c)[q] = session[q]
      BY <1>0, <2>1, PushIs, Zenon
    <3>2. QED BY <3>1 DEF Pushed
  <2> HIDE DEF ss
  <2>5. /\ ss \in [Sessions -> Handler] /\ ss[s] \in Handler
        /\ Kept(session[s], ss[s]) /\ Walking(session[s], ss[s])
    BY <2>3 DEF Filled
  <2>6. session' = [ss EXCEPT ![s] = r]
    BY <2>2
  <2>7. Append(ss[s].asked, work') \in Seq(Nat)
    BY <1>0, <2>5 DEF Kept
  <2>8. /\ r \in Handler /\ r.at = ss[s].at /\ r.queue = ss[s].queue /\ r.conn = ss[s].conn
        /\ r.asked = Append(ss[s].asked, work') /\ r.got = ss[s].got /\ r.count = ss[s].count
        /\ r.joined = ss[s].joined /\ r.registered = ss[s].registered
    BY <2>5, <2>7 DEF Handler
  <2> HIDE DEF r
  <2>9. Only(s) /\ session'[s] = r
    BY <2>4, <2>5, <2>6, <2>8 DEF Only
  <2>10. r.queue = Append(session[s].queue, c)
    BY <1>1, <2>4, <2>8 DEF HasRoom
  <2>11. QED BY <1>0, <2>2, <2>5, <2>8, <2>9, <2>10 DEF Kept, Walking, TypeOK, c
<1>2. CASE ~HasRoom(s)
  <2> DEFINE r == [session[s] EXCEPT !.at = "over"]
  <2>1. session' = [session EXCEPT ![s] = r] /\ Players' \subseteq Sessions
    BY <1>2 DEF Query, End, TypeOK
  <2>2. /\ r \in Handler /\ r.at = "over" /\ r.queue = session[s].queue /\ r.conn = session[s].conn
        /\ r.asked = session[s].asked /\ r.got = session[s].got /\ r.count = session[s].count
        /\ r.joined = session[s].joined /\ r.registered = session[s].registered
    BY <1>0 DEF Handler
  <2> HIDE DEF r
  <2>3. session'[s] = r /\ Only(s)
    BY <1>0, <2>1, <2>2 DEF Only
  <2>4. QED BY <1>0, <2>1, <2>2, <2>3
<1>3. QED BY <1>1, <1>2

\* The first command leaves the queue; a reconnect begins a connection.
LEMMA ExecuteIs ==
    ASSUME TypeOK, NEW s \in Sessions, Execute(s)
    PROVE  /\ Only(s) /\ session[s].at = "loop" /\ session[s].queue # <<>>
           /\ session'[s].queue = Tail(session[s].queue) /\ session'[s].count = session[s].count
           /\ \/ /\ Head(session[s].queue).k = "reconnect" /\ session'[s].at = "join"
                 /\ session'[s].conn = session[s].conn + 1 /\ ~session'[s].joined
                 /\ session'[s].asked = <<>> /\ session'[s].got = <<>>
              \/ /\ session'[s].at = "loop" /\ Head(session[s].queue).k # "reconnect"
                 /\ session'[s].conn = session[s].conn
                 /\ session'[s].joined = session[s].joined
                 /\ session'[s].registered
                    <=> (session[s].registered \/ Head(session[s].queue).k = "register")
                 /\ session'[s].asked = session[s].asked
                 /\ session'[s].got = IF Head(session[s].queue).k = "answer"
                                      THEN Append(session[s].got, Head(session[s].queue))
                                      ELSE session[s].got
<1> DEFINE c == Head(session[s].queue)
           r == [session[s] EXCEPT !.queue = Tail(session[s].queue)]
<1>0. /\ session[s] \in Handler /\ session \in [Sessions -> Handler] /\ session[s].at = "loop"
      /\ session[s].queue # <<>>
  BY DEF TypeOK, Execute
<1>1. /\ session[s].queue \in Seq(Command) /\ session[s].got \in Seq(Command)
      /\ session[s].asked \in Seq(Nat) /\ session[s].conn \in Nat
  BY <1>0 DEF Handler
<1>2. c \in Command /\ Tail(session[s].queue) \in Seq(Command)
  BY <1>0, <1>1
<1>3. /\ r \in Handler /\ r.queue = Tail(session[s].queue) /\ r.at = session[s].at
      /\ r.conn = session[s].conn /\ r.joined = session[s].joined
      /\ r.registered = session[s].registered /\ r.asked = session[s].asked
      /\ r.got = session[s].got /\ r.count = session[s].count
  BY <1>0, <1>2 DEF Handler
<1>4. \/ /\ c.k = "reconnect"
         /\ session' = [session EXCEPT ![s] =
                [r EXCEPT !.at = "join", !.conn = @ + 1, !.joined = FALSE,
                          !.registered = FALSE, !.asked = <<>>, !.got = <<>>]]
      \/ /\ c.k = "register"
         /\ session' = [session EXCEPT ![s] = [r EXCEPT !.registered = TRUE]]
      \/ /\ c.k = "answer"
         /\ session' = [session EXCEPT ![s] = [r EXCEPT !.got = Append(@, c)]]
      \/ /\ c.k = "chat"
         /\ session' = [session EXCEPT ![s] = r]
  BY DEF Execute
<1> HIDE DEF c, r
<1>5. ASSUME NEW r2 \in Handler, session' = [session EXCEPT ![s] = r2]
      PROVE  Only(s) /\ session'[s] = r2
  BY <1>0, <1>5 DEF Only
<1>6. CASE c.k = "reconnect"
  <2> DEFINE r2 == [r EXCEPT !.at = "join", !.conn = r.conn + 1, !.joined = FALSE,
                             !.registered = FALSE, !.asked = <<>>, !.got = <<>>]
  <2>1. session' = [session EXCEPT ![s] = r2]
    BY <1>4, <1>6
  <2>2. /\ r2 \in Handler /\ r2.at = "join" /\ r2.conn = r.conn + 1 /\ ~r2.joined
        /\ r2.asked = <<>> /\ r2.got = <<>> /\ r2.queue = r.queue /\ r2.count = r.count
    <3>1. r.conn + 1 \in Nat /\ <<>> \in Seq(Nat) /\ <<>> \in Seq(Command)
      BY <1>1, <1>3
    <3>2. QED BY <1>3, <3>1 DEF Handler
  <2> HIDE DEF r2
  <2>3. QED BY <1>0, <1>3, <1>5, <1>6, <2>1, <2>2 DEF c
<1>7. CASE c.k = "register"
  <2> DEFINE r2 == [r EXCEPT !.registered = TRUE]
  <2>1. session' = [session EXCEPT ![s] = r2]
    BY <1>4, <1>7
  <2>2. /\ r2 \in Handler /\ r2.at = r.at /\ r2.conn = r.conn /\ r2.joined = r.joined
        /\ r2.asked = r.asked /\ r2.got = r.got /\ r2.queue = r.queue /\ r2.count = r.count
        /\ r2.registered
    BY <1>3 DEF Handler
  <2> HIDE DEF r2
  <2>3. QED BY <1>0, <1>3, <1>5, <1>7, <2>1, <2>2 DEF c
<1>8. CASE c.k = "answer"
  <2> DEFINE r2 == [r EXCEPT !.got = Append(r.got, c)]
  <2>1. session' = [session EXCEPT ![s] = r2]
    BY <1>4, <1>8
  <2>2. Append(r.got, c) \in Seq(Command)
    BY <1>1, <1>2, <1>3
  <2>3. /\ r2 \in Handler /\ r2.at = r.at /\ r2.conn = r.conn /\ r2.joined = r.joined
        /\ r2.asked = r.asked /\ r2.queue = r.queue /\ r2.count = r.count
        /\ r2.registered = r.registered /\ r2.got = Append(r.got, c)
    BY <1>3, <2>2 DEF Handler
  <2> HIDE DEF r2
  <2>4. Only(s) /\ session'[s] = r2
    BY <1>5, <2>1, <2>3
  <2> HIDE DEF r2
  <2>5. Head(session[s].queue) = c
    BY DEF c
  <2>6. /\ session'[s].at = "loop" /\ session'[s].conn = session[s].conn
        /\ session'[s].joined = session[s].joined
        /\ session'[s].registered = session[s].registered
        /\ session'[s].asked = session[s].asked /\ session'[s].got = Append(session[s].got, c)
        /\ session'[s].queue = Tail(session[s].queue) /\ session'[s].count = session[s].count
    BY <1>0, <1>3, <2>3, <2>4
  <2>7. QED BY <1>0, <1>8, <2>4, <2>5, <2>6
<1>9. CASE c.k = "chat"
  <2>1. session' = [session EXCEPT ![s] = r]
    BY <1>4, <1>9
  <2>2. Only(s) /\ session'[s] = r
    BY <1>3, <1>5, <2>1
  <2>3. Head(session[s].queue) = c
    BY DEF c
  <2>4. /\ session'[s].at = "loop" /\ session'[s].conn = session[s].conn
        /\ session'[s].joined = session[s].joined
        /\ session'[s].registered = session[s].registered
        /\ session'[s].asked = session[s].asked /\ session'[s].got = session[s].got
        /\ session'[s].queue = Tail(session[s].queue) /\ session'[s].count = session[s].count
    BY <1>0, <1>3, <2>2
  <2>5. QED BY <1>0, <1>9, <2>2, <2>3, <2>4
<1>10. QED BY <1>4, <1>6, <1>7, <1>8, <1>9

-----------------------------------------------------------------------------
(* The shape of the state, and the server list.                            *)

\* The shape of the initial state.
LEMMA InitShaped == Init => Shaped
<1> SUFFICES ASSUME Init PROVE Shaped
  OBVIOUS
<1>1. NewSession \in Handler /\ NewSession.at = "new"
  BY DEF NewSession, Handler
<1>2. QED BY <1>1, BungeeAssumption DEF Init, Shaped, TypeOK, Listed, Walks

\* A step in which s, if it reads the list, has read a file with servers, and, if it walks,
\* walks players.
LEMMA EffectShaped ==
    ASSUME Shaped, NEW s \in Sessions, session' \in [Sessions -> Handler],
           \A q \in Sessions \ {s} : Walking(session[q], session'[q]),
           \/ Walking(session[s], session'[s])
           \/ /\ session'[s].at = "swap" => session'[s].todo \in Files \ {{}}
              /\ session'[s].at = "send" => session'[s].todo \subseteq Sessions,
           UNCHANGED UpstreamServerMap
    PROVE  Listed' /\ Walks'
BY DEF Shaped, Listed, Walks, Walking

\* Where one session changes, the others' walks do not.
LEMMA OnlyWalking ==
    ASSUME NEW s \in Sessions, Only(s)
    PROVE  \A q \in Sessions \ {s} : Walking(session[q], session'[q])
BY DEF Only, Walking

\* No step spoils the shape.
LEMMA StepShaped == Shaped /\ [Next]_vars => Shaped'
<1> SUFFICES ASSUME Shaped, [Next]_vars PROVE Shaped'
  OBVIOUS
<1>0. TypeOK /\ Listed /\ Walks /\ work \in Nat /\ work + 1 \in Nat
  BY DEF Shaped, TypeOK
<1>1. CASE Edit
  BY <1>0, <1>1 DEF Edit, Shaped, TypeOK, Listed, Walks
<1>2. CASE UNCHANGED vars
  BY <1>0, <1>2 DEF vars, Shaped, TypeOK, Listed, Walks
<1>3. ASSUME NEW s \in Sessions, session' \in [Sessions -> Handler], Players' \subseteq Sessions,
             UNCHANGED <<file, moved, told>>, work' \in {work, work + 1}
      PROVE  TypeOK'
  BY <1>0, <1>3 DEF TypeOK
<1>4. ASSUME NEW s \in Sessions, Connect(s)
      PROVE  Shaped'
  <2>1. Only(s) /\ session'[s].at = "loop"
    BY <1>0, <1>4, ConnectIs
  <2>2. TypeOK'
    BY <1>0, <1>3, <1>4, <2>1 DEF Connect, Only, TypeOK
  <2>3. Listed' /\ Walks'
    BY <1>4, <2>1, EffectShaped, OnlyWalking DEF Only, Connect
  <2>4. QED BY <2>2, <2>3 DEF Shaped
<1>5. ASSUME NEW s \in Sessions, Leave(s) \/ ConnectFails(s)
      PROVE  Shaped'
  <2>1. End(s) /\ session[s].at # "new" /\ UNCHANGED <<file, moved, told, work, UpstreamServerMap>>
    BY <1>5 DEF Leave, ConnectFails
  <2>2. Effect(s, {}) /\ session'[s].at = "over" /\ Players' \subseteq Sessions
    BY <1>0, <2>1, EndEffect
  <2>3. QED BY <1>3, <2>1, <2>2, EffectShaped DEF Effect, Shaped
<1>6. ASSUME NEW s \in Sessions, JoinGame(s)
      PROVE  Shaped'
  <2>1. joinFilter(s) /\ session[s].at \in {"loop", "join"}
        /\ UNCHANGED <<file, moved, told, work, UpstreamServerMap>>
    BY <1>6 DEF JoinGame
  <2>2. Only(s) /\ session'[s].at \in {"over", "loop"} /\ Players' \subseteq Sessions
    BY <1>0, <2>1, JoinIs
  <2>3. QED BY <1>3, <2>1, <2>2, EffectShaped, OnlyWalking DEF Only, Shaped
<1>7. ASSUME NEW s \in Sessions, Execute(s)
      PROVE  Shaped'
  <2>1. Only(s) /\ session'[s].at \in {"join", "loop"}
    BY <1>0, <1>7, ExecuteIs
  <2>2. Listed' /\ Walks'
    BY <1>7, <2>1, EffectShaped, OnlyWalking DEF Only, Execute
  <2>3. moved' \subseteq Sessions \X Nat
    <3>1. session[s].queue \in Seq(Command) /\ session[s].queue # <<>>
      BY <1>0, <1>7 DEF Execute, TypeOK, Handler
    <3>2. Head(session[s].queue) \in Command
      BY <3>1
    <3>3. Head(session[s].queue).n \in Nat
      BY <3>2 DEF Command
    <3>4. moved' = moved \/ moved' = moved \cup {<<s, Head(session[s].queue).n>>}
      BY <1>7 DEF Execute
    <3>5. QED BY <1>0, <3>3, <3>4 DEF TypeOK
  <2>4. TypeOK'
    BY <1>0, <1>7, <2>1, <2>3 DEF Execute, Only, TypeOK
  <2>5. QED BY <2>2, <2>4 DEF Shaped
<1>8. ASSUME NEW s \in Sessions, SendDone(s)
      PROVE  Shaped'
  <2>1. Effect(s, Idle) /\ session'[s].at = "loop"
    BY <1>0, <1>8, SendDoneEffect
  <2>2. Listed' /\ Walks'
    BY <1>8, <2>1, EffectShaped DEF Effect, SendDone
  <2>3. session[s].n \in Nat /\ session[s].count \in Nat
    BY <1>0 DEF TypeOK, Handler
  <2>4. told' \in [DOMAIN told' -> Nat] /\ DOMAIN told' \subseteq Nat
    BY <1>0, <1>8, <2>3 DEF SendDone, TypeOK
  <2>5. TypeOK'
    BY <1>0, <1>8, <2>1, <2>4 DEF SendDone, Effect, TypeOK
  <2>6. QED BY <2>2, <2>5 DEF Shaped
<1>9. ASSUME NEW s \in Sessions, Query(s)
      PROVE  Shaped'
  <2>1. Only(s) /\ session'[s].at \in {"over", "loop"} /\ Players' \subseteq Sessions
    BY <1>0, <1>9, QueryIs
  <2>2. UNCHANGED <<file, moved, told, UpstreamServerMap>> /\ work' = work + 1
    BY <1>9 DEF Query, Work
  <2>3. QED BY <1>3, <2>1, <2>2, EffectShaped, OnlyWalking DEF Only, Shaped
<1>10. ASSUME NEW s \in Sessions, ReadUpstreams(s)
       PROVE  Shaped'
  <2>1. /\ Effect(s, Idle) /\ session'[s].at \in {"loop", "swap"}
        /\ session'[s].at = "swap" => file \in Files \ {{}} /\ session'[s].todo = file
    BY <1>0, <1>10, ReadEffect
  <2>2. UNCHANGED <<file, moved, told, UpstreamServerMap, Players>> /\ work' = work + 1
    BY <1>10 DEF ReadUpstreams, Work
  <2>3. Players' \subseteq Sessions
    BY <1>0, <2>2 DEF TypeOK
  <2>4. Listed' /\ Walks'
    BY <2>1, <2>2, EffectShaped DEF Effect
  <2>5. QED BY <1>3, <2>1, <2>2, <2>3, <2>4 DEF Effect, Shaped
<1>11. ASSUME NEW s \in Sessions, SwapUpstreams(s)
       PROVE  Shaped'
  <2>1. Effect(s, Idle) /\ session'[s].at = "loop"
    BY <1>0, <1>11, SwapEffect
  <2>2. UpstreamServerMap' \in Files \ {{}}
    BY <1>0, <1>11 DEF SwapUpstreams, Listed
  <2>3. Listed' /\ Walks'
    BY <1>0, <2>1, <2>2 DEF Effect, Walking, Listed, Walks
  <2>4. TypeOK'
    BY <1>0, <1>11, <2>1 DEF SwapUpstreams, Effect, TypeOK
  <2>5. QED BY <2>3, <2>4 DEF Shaped
<1>12. ASSUME NEW s \in Sessions, NEW to, SendAll(s, to)
       PROVE  Shaped'
  <2>1. /\ Effect(s, Idle) /\ session'[s].at \in {"loop", "send"}
        /\ session'[s].at = "send" => session'[s].todo \subseteq Sessions
    BY <1>0, <1>12, SendAllEffect
  <2>2. UNCHANGED <<file, moved, told, UpstreamServerMap, Players>> /\ work' = work + 1
    BY <1>12 DEF SendAll, Work
  <2>3. Players' \subseteq Sessions
    BY <1>0, <2>2 DEF TypeOK
  <2>4. Listed' /\ Walks'
    BY <2>1, <2>2, EffectShaped DEF Effect
  <2>5. QED BY <1>3, <2>1, <2>2, <2>3, <2>4 DEF Effect, Shaped
<1>13. ASSUME NEW s \in Sessions, NEW to, NEW plugin \in BOOLEAN, Switch(s, to, plugin)
       PROVE  Shaped'
  <2>1. Effect(s, Idle) /\ session'[s].at \in {"loop", "stuck", "over"} /\ Players' \subseteq Sessions
    BY <1>0, <1>13, SwitchEffect
  <2>2. UNCHANGED <<file, moved, told, UpstreamServerMap>> /\ work' = work + 1
    BY <1>13 DEF Switch, Work
  <2>3. Listed' /\ Walks'
    BY <2>1, <2>2, EffectShaped DEF Effect
  <2>4. QED BY <1>3, <2>1, <2>2, <2>3 DEF Effect, Shaped
<1>14. ASSUME NEW s \in Sessions, NEW to, SendChatMessage(s, to)
       PROVE  Shaped'
  <2>1. Effect(s, Idle) /\ Walking(session[s], session'[s])
    BY <1>0, <1>14, ChatEffect
  <2>2. UNCHANGED <<file, moved, told, UpstreamServerMap, Players>> /\ work' = work + 1
    BY <1>14 DEF SendChatMessage, Work
  <2>3. Players' \subseteq Sessions
    BY <1>0, <2>2 DEF TypeOK
  <2>4. Listed' /\ Walks'
    BY <2>1, <2>2, EffectShaped DEF Effect
  <2>5. QED BY <1>3, <2>1, <2>2, <2>3, <2>4 DEF Effect, Shaped
<1>15. ASSUME NEW s \in Sessions, NEW p \in Sessions, SendNext(s, p)
       PROVE  Shaped'
  <2>1. /\ Effect(s, {Reconnect(session[s].n)}) /\ session'[s].at = "send"
        /\ session'[s].todo = session[s].todo \ {p}
    BY <1>0, <1>15, SendNextEffect
  <2>2. UNCHANGED <<file, moved, told, UpstreamServerMap, Players, work>> /\ session[s].at = "send"
    BY <1>15 DEF SendNext
  <2>3. Players' \subseteq Sessions /\ session[s].todo \subseteq Sessions
    BY <1>0, <2>2 DEF TypeOK, Walks
  <2>4. Listed' /\ Walks'
    BY <2>1, <2>2, <2>3, EffectShaped DEF Effect
  <2>5. QED BY <1>3, <2>1, <2>2, <2>3, <2>4 DEF Effect, Shaped
<1>16. ASSUME NEW s \in Sessions, NEW p \in Sessions, NEW to, NEW plugin \in BOOLEAN,
              SendOne(s, p, to, plugin)
       PROVE  Shaped'
  <2>1. /\ Effect(s, Idle \cup {Reconnect(work')}) /\ session'[s].at \in {"loop", "over"}
        /\ Players' \subseteq Sessions
    BY <1>0, <1>16, SendOneEffect
  <2>2. UNCHANGED <<file, moved, UpstreamServerMap>> /\ work' = work + 1
    BY <1>16 DEF SendOne, Work
  <2>3. Listed' /\ Walks'
    BY <2>1, <2>2, EffectShaped DEF Effect
  <2>4. told' \in [DOMAIN told' -> Nat] /\ DOMAIN told' \subseteq Nat
    <3>1. \/ told' = told
          \/ told' = [n \in DOMAIN told \cup {work'} |->
                          IF n # work' THEN told[n] ELSE IF HasRoom(p) THEN 1 ELSE 0]
      BY <1>16 DEF SendOne
    <3>2. work' \in Nat
      BY <1>0, <2>2
    <3>3. QED BY <1>0, <3>1, <3>2 DEF TypeOK
  <2>5. TypeOK'
    BY <1>0, <2>1, <2>2, <2>4 DEF Effect, TypeOK
  <2>6. QED BY <2>3, <2>5 DEF Shaped
<1>17. QED
  BY <1>1, <1>2, <1>4, <1>5, <1>6, <1>7, <1>8, <1>9, <1>10, <1>11, <1>12, <1>13, <1>14, <1>15,
     <1>16 DEF Next

\* The shape of every state.
LEMMA ShapedHolds == Spec => []Shaped
<1>1. QED BY InitShaped, StepShaped, PTL DEF Spec

\* A server that every version of the file names can be looked up at any time: a reload
\* replaces the list at once, and never by the contents of a broken or empty file.
THEOREM AlwaysListedHolds == Spec => []AlwaysListed
<1>1. Shaped => AlwaysListed
  BY DEF Shaped, Listed, AlwaysListed
<1>2. QED BY <1>1, ShapedHolds, PTL

-----------------------------------------------------------------------------
(* What /send tells.                                                       *)

\* Commands have numbers of their own up to work, and a /send under way has counted whom it
\* has sent so far and walks the others.
Sending ==
    /\ \A s \in Sessions, n \in Nat : session[s].at = "send" /\ session[s].n = n =>
          /\ n \in 1 .. work /\ n \notin DOMAIN told
          /\ session[s].count = Cardinality(Ordered(n))
          /\ session[s].todo \cap Ordered(n) = {}
    /\ \A s \in Sessions : session[s].at # "send" => session[s].count = 0
    /\ \A s, p \in Sessions :
          session[s].at = "send" /\ session[p].at = "send" /\ s # p => session[s].n # session[p].n

Numbered ==
    /\ 0 \notin DOMAIN told
    /\ \A n \in Nat : n > work => n \notin DOMAIN told /\ Ordered(n) = {}

Counted == Sending /\ Numbered /\ SendCounts

\* Only a reconnect with its number makes an order of a command.
IsOrder(c, n) == c.k = "reconnect" /\ c.n = n

\* Commands that are no orders of a /send leave its orders alone.
LEMMA QueueOrders ==
    ASSUME NEW q \in Seq(Command), NEW q2 \in Seq(Command), NEW C, Adds(q, q2, C), NEW n,
           \A c \in C : ~IsOrder(c, n)
    PROVE  (\E i \in DOMAIN q2 : IsOrder(q2[i], n)) <=> (\E i \in DOMAIN q : IsOrder(q[i], n))
<1>1. PICK a \in Nat, b \in Nat : a = Len(q) /\ b = Len(q2)
  OBVIOUS
<1>2. DOMAIN q = 1 .. a /\ DOMAIN q2 = 1 .. b /\ a <= b
  BY <1>1 DEF Adds
<1>3. \A i \in 1 .. a : q2[i] = q[i]
  BY <1>1 DEF Adds
<1>4. \A i \in a + 1 .. b : ~IsOrder(q2[i], n)
  BY <1>1 DEF Adds
<1>5. \A i \in 1 .. b : i \in 1 .. a \/ i \in a + 1 .. b
  OBVIOUS
<1>6. QED BY <1>2, <1>3, <1>4, <1>5

\* So it is to the numbers of no command that a step adds orders which adds none with it.
LEMMA OrdersStay ==
    ASSUME TypeOK, session' \in [Sessions -> Handler], UNCHANGED moved, NEW C, NEW n,
           \A q \in Sessions : Adds(session[q].queue, session'[q].queue, C),
           \A c \in C : ~IsOrder(c, n)
    PROVE  Ordered(n)' = Ordered(n)
<1>1. \A q \in Sessions : session[q].queue \in Seq(Command) /\ session'[q].queue \in Seq(Command)
  BY DEF TypeOK, Handler
<1>2. \A q \in Sessions :
        (\E i \in DOMAIN session'[q].queue : IsOrder(session'[q].queue[i], n))
        <=> (\E i \in DOMAIN session[q].queue : IsOrder(session[q].queue[i], n))
  BY <1>1, QueueOrders
<1>3. QED BY <1>2 DEF Ordered, IsOrder

\* Nor does a step that pushes only idle commands.
LEMMA IdleOrders ==
    ASSUME TypeOK, NEW s \in Sessions, Effect(s, Idle), UNCHANGED moved, NEW n \in Nat \ {0}
    PROVE  Ordered(n)' = Ordered(n)
<1>1. \A c \in Idle : ~IsOrder(c, n)
  BY DEF Idle, IsOrder
<1>2. QED BY <1>1, OrdersStay DEF Effect, Quiet

\* Who is ordered by a /send is a finite set of sessions.
LEMMA OrderedFinite == \A n : IsFiniteSet(Ordered(n)) /\ Ordered(n) \subseteq Sessions
BY FS_Subset, BungeeAssumption DEF Ordered

\* A step that adds no order, and after which s does not walk.
LEMMA SameOrders ==
    ASSUME TypeOK, Counted, session' \in [Sessions -> Handler],
           \A n \in Nat \ {0} : Ordered(n)' = Ordered(n),
           UNCHANGED told, work' \in {work, work + 1}, NEW s \in Sessions,
           \A q \in Sessions \ {s} : Walking(session[q], session'[q]),
           \/ Walking(session[s], session'[s])
           \/ session'[s].at # "send" /\ session'[s].count = 0
    PROVE  Counted'
<1>0. work \in Nat /\ work' \in Nat /\ work <= work' /\ DOMAIN told \subseteq Nat
  BY DEF TypeOK
<1>1. Sending'
  <2>1. ASSUME NEW q \in Sessions, session'[q].at = "send"
        PROVE  /\ session[q].at = "send" /\ session'[q].n = session[q].n
               /\ session'[q].todo = session[q].todo /\ session'[q].count = session[q].count
    BY <2>1 DEF Walking
  <2>2. ASSUME NEW q \in Sessions, NEW n \in Nat, session'[q].at = "send", session'[q].n = n
        PROVE  /\ n \in 1 .. work' /\ n \notin DOMAIN told'
               /\ session'[q].count = Cardinality(Ordered(n)')
               /\ session'[q].todo \cap Ordered(n)' = {}
    <3>1. /\ n \in 1 .. work /\ n \notin DOMAIN told
          /\ session[q].count = Cardinality(Ordered(n))
          /\ session[q].todo \cap Ordered(n) = {}
      BY <2>1, <2>2 DEF Counted, Sending
    <3>2. Ordered(n)' = Ordered(n)
      BY <3>1
    <3>3. QED BY <1>0, <2>1, <2>2, <3>1, <3>2
  <2>3. ASSUME NEW q \in Sessions, session'[q].at # "send"
        PROVE  session'[q].count = 0
    BY <2>3 DEF Counted, Sending, Walking
  <2>4. \A q, p \in Sessions :
          session'[q].at = "send" /\ session'[p].at = "send" /\ q # p => session'[q].n # session'[p].n
    BY <2>1 DEF Counted, Sending
  <2>5. QED BY <2>2, <2>3, <2>4 DEF Sending
<1>2. Numbered'
  BY <1>0 DEF Counted, Numbered
<1>3. SendCounts'
  <2>1. \A n \in DOMAIN told : n \in Nat \ {0}
    BY <1>0 DEF Counted, Numbered
  <2>2. QED BY <2>1 DEF Counted, SendCounts
<1>4. QED BY <1>1, <1>2, <1>3 DEF Counted

\* The end of a step that orders nothing.
LEMMA OnlyOrders ==
    ASSUME TypeOK, NEW s \in Sessions, Only(s), UNCHANGED moved,
           NEW C, Adds(session[s].queue, session'[s].queue, C), \A c \in C : c.k # "reconnect",
           NEW n \in Nat \ {0}
    PROVE  Ordered(n)' = Ordered(n)
<1>1. \A q \in Sessions : Adds(session[q].queue, session'[q].queue, C)
  <2>1. \A q \in Sessions : session[q].queue \in Seq(Command)
    BY DEF TypeOK, Handler
  <2>2. \A q \in Sessions : Adds(session[q].queue, session[q].queue, C)
    BY <2>1 DEF Adds
  <2>3. QED BY <2>2 DEF Only
<1>2. \A c \in C : ~IsOrder(c, n)
  BY DEF IsOrder
<1>3. QED BY <1>1, <1>2, OrdersStay DEF Only

\* An order that is executed is one no more, but remembered.
LEMMA ExecuteOrders ==
    ASSUME TypeOK, NEW s \in Sessions, Execute(s), NEW n \in Nat \ {0}
    PROVE  Ordered(n)' = Ordered(n)
<1> DEFINE q == session[s].queue
           c == Head(session[s].queue)
<1>1. /\ Only(s) /\ session'[s].queue = Tail(q) /\ q # <<>> /\ q \in Seq(Command)
  BY ExecuteIs DEF TypeOK, Handler
<1>2. moved' = moved \cup (IF c.k = "reconnect" /\ c.n # 0 THEN {<<s, c.n>>} ELSE {})
  BY DEF Execute
<1> HIDE DEF q, c
<1>3. (\E i \in DOMAIN q : IsOrder(q[i], n))
      <=> IsOrder(c, n) \/ \E i \in DOMAIN Tail(q) : IsOrder(Tail(q)[i], n)
  <2>1. PICK a \in Nat : a = Len(q) /\ a >= 1
    BY <1>1
  <2>2. DOMAIN q = 1 .. a /\ DOMAIN Tail(q) = 1 .. a - 1
    BY <1>1, <2>1
  <2>3. \A i \in 1 .. a - 1 : Tail(q)[i] = q[i + 1]
    BY <1>1, <2>1
  <2>4. c = q[1]
    BY <1>1 DEF c, q
  <2>5. \A i \in 1 .. a : i = 1 \/ (i - 1 \in 1 .. a - 1 /\ (i - 1) + 1 = i)
    OBVIOUS
  <2>6. \A i \in 1 .. a - 1 : i + 1 \in 1 .. a
    OBVIOUS
  <2>7. 1 \in 1 .. a
    BY <2>1
  <2>8. ASSUME NEW i \in 1 .. a, IsOrder(q[i], n)
        PROVE  IsOrder(c, n) \/ \E j \in 1 .. a - 1 : IsOrder(Tail(q)[j], n)
    <3>1. CASE i = 1
      BY <2>4, <2>8, <3>1
    <3>2. CASE i - 1 \in 1 .. a - 1 /\ (i - 1) + 1 = i
      <4>1. Tail(q)[i - 1] = q[i]
        BY <2>3, <3>2
      <4>2. QED BY <2>8, <3>2, <4>1
    <3>3. QED BY <2>5, <3>1, <3>2
  <2>9. QED BY <2>2, <2>3, <2>4, <2>6, <2>7, <2>8
<1>4. \A p \in Sessions : p # s => (<<p, n>> \in moved' <=> <<p, n>> \in moved)
  BY <1>2
<1>5. <<s, n>> \in moved' <=> <<s, n>> \in moved \/ IsOrder(c, n)
  BY <1>2 DEF IsOrder
<1>6. ASSUME NEW p \in Sessions
      PROVE  p \in Ordered(n)' <=> p \in Ordered(n)
  <2>1. p \in Ordered(n)' <=> \/ <<p, n>> \in moved'
                              \/ \E i \in DOMAIN session'[p].queue : IsOrder(session'[p].queue[i], n)
    BY DEF Ordered, IsOrder
  <2>2. p \in Ordered(n) <=> \/ <<p, n>> \in moved
                             \/ \E i \in DOMAIN session[p].queue : IsOrder(session[p].queue[i], n)
    BY DEF Ordered, IsOrder
  <2>3. CASE p = s
    <3>1. session[p].queue = q /\ session'[p].queue = Tail(q)
      BY <1>1, <2>3 DEF q
    <3>2. QED BY <1>3, <1>5, <2>1, <2>2, <2>3, <3>1
  <2>4. CASE p # s
    BY <1>1, <1>4, <2>1, <2>2, <2>4 DEF Only
  <2>5. QED BY <2>3, <2>4
<1>7. Ordered(n)' \subseteq Sessions /\ Ordered(n) \subseteq Sessions
  BY DEF Ordered
<1>8. QED BY <1>6, <1>7

\* A player with room in its queue gets the order, and nobody else does.
LEMMA OneOrdered ==
    ASSUME TypeOK, NEW p \in Sessions, NEW n \in Nat \ {0}, UNCHANGED moved,
           session' \in [Sessions -> Handler],
           \A q \in Sessions : q # p \/ ~HasRoom(p) => Adds(session[q].queue, session'[q].queue, Idle),
           HasRoom(p) => \E i \in DOMAIN session'[p].queue : IsOrder(session'[p].queue[i], n)
    PROVE  Ordered(n)' = IF HasRoom(p) THEN Ordered(n) \cup {p} ELSE Ordered(n)
<1>1. \A c \in Idle : ~IsOrder(c, n)
  BY DEF Idle, IsOrder
<1>2. ASSUME NEW q \in Sessions, q # p \/ ~HasRoom(p)
      PROVE  q \in Ordered(n)' <=> q \in Ordered(n)
  <2>1. session[q].queue \in Seq(Command) /\ session'[q].queue \in Seq(Command)
    BY DEF TypeOK, Handler
  <2>2. (\E i \in DOMAIN session'[q].queue : IsOrder(session'[q].queue[i], n))
        <=> (\E i \in DOMAIN session[q].queue : IsOrder(session[q].queue[i], n))
    BY <1>1, <1>2, <2>1, QueueOrders
  <2>3. QED BY <2>2 DEF Ordered, IsOrder
<1>3. HasRoom(p) => p \in Ordered(n)'
  BY DEF Ordered, IsOrder
<1>4. Ordered(n)' \subseteq Sessions /\ Ordered(n) \subseteq Sessions
  BY DEF Ordered
<1>5. QED BY <1>2, <1>3, <1>4

\* Before any command nothing has been ordered.
LEMMA InitCounted == Init => Counted
<1> SUFFICES ASSUME Init PROVE Counted
  OBVIOUS
<1>1. DOMAIN told = {} /\ moved = {}
  BY DEF Init
<1>2. \A s \in Sessions : session[s].at = "new" /\ session[s].count = 0 /\ session[s].queue = <<>>
  BY DEF Init, NewSession
<1>3. \A n : Ordered(n) = {}
  BY <1>1, <1>2 DEF Ordered
<1>4. QED BY <1>1, <1>2, <1>3 DEF Counted, Sending, Numbered, SendCounts

\* Every step keeps count.
LEMMA StepCounted == Shaped /\ Counted /\ [Next]_vars => Counted'
<1> SUFFICES ASSUME Shaped, Counted, [Next]_vars PROVE Counted'
  OBVIOUS
<1>0. /\ TypeOK /\ Walks /\ work \in Nat /\ work + 1 \in Nat
      /\ session \in [Sessions -> Handler] /\ DOMAIN told \subseteq Nat
  BY DEF Shaped, TypeOK
<1>1. CASE Edit
  <2>1. UNCHANGED <<session, moved, told>> /\ work' = work + 1
    BY <1>1 DEF Edit
  <2>2. \A n : Ordered(n)' = Ordered(n)
    BY <2>1 DEF Ordered
  <2>3. Sending'
    BY <1>0, <2>1, <2>2 DEF Counted, Sending
  <2>4. Numbered' /\ SendCounts'
    BY <1>0, <2>1, <2>2 DEF Counted, Numbered, SendCounts
  <2>5. QED BY <2>3, <2>4 DEF Counted
<1>2. CASE UNCHANGED vars
  <2>1. UNCHANGED <<session, moved, told, work>>
    BY <1>2 DEF vars
  <2>2. \A n : Ordered(n)' = Ordered(n)
    BY <2>1 DEF Ordered
  <2>3. Sending'
    BY <1>0, <2>1, <2>2 DEF Counted, Sending
  <2>4. Numbered' /\ SendCounts'
    BY <1>0, <2>1, <2>2 DEF Counted, Numbered, SendCounts
  <2>5. QED BY <2>3, <2>4 DEF Counted
\* An idle step of s, which does not begin or end a walk.
<1>3. ASSUME NEW s \in Sessions, Effect(s, Idle), UNCHANGED <<moved, told>>,
             work' \in {work, work + 1},
             \/ Walking(session[s], session'[s])
             \/ session'[s].at # "send" /\ session'[s].count = 0
      PROVE  Counted'
  <2>1. \A n \in Nat \ {0} : Ordered(n)' = Ordered(n)
    BY <1>0, <1>3, IdleOrders
  <2>2. QED BY <1>0, <1>3, <2>1, SameOrders DEF Effect
\* A step of s that changes only s.
<1>4. ASSUME NEW s \in Sessions, Only(s), UNCHANGED told, work' \in {work, work + 1},
             \A n \in Nat \ {0} : Ordered(n)' = Ordered(n),
             session'[s].at # "send" /\ session'[s].count = 0
      PROVE  Counted'
  BY <1>0, <1>4, SameOrders, OnlyWalking DEF Only
<1>5. \A s \in Sessions : session[s].at # "send" => session[s].count = 0
  BY DEF Counted, Sending
<1>6. ASSUME NEW s \in Sessions, Connect(s)
      PROVE  Counted'
  <2>1. Only(s) /\ session'[s].at = "loop" /\ session[s].at = "new"
        /\ session'[s].queue = session[s].queue /\ session'[s].count = session[s].count
    BY <1>0, <1>6, ConnectIs
  <2>2. UNCHANGED <<moved, told, work>>
    BY <1>6 DEF Connect
  <2>3. Adds(session[s].queue, session'[s].queue, {})
    BY <1>0, <2>1 DEF Adds, Handler
  <2>4. \A n \in Nat \ {0} : Ordered(n)' = Ordered(n)
    BY <1>0, <2>1, <2>2, <2>3, OnlyOrders
  <2>5. QED BY <1>4, <1>5, <2>1, <2>2, <2>4
<1>7. ASSUME NEW s \in Sessions, Leave(s) \/ ConnectFails(s)
      PROVE  Counted'
  <2>1. End(s) /\ session[s].at \in {"loop", "join"} /\ UNCHANGED <<moved, told, work>>
    BY <1>7 DEF Leave, ConnectFails
  <2>2. /\ Effect(s, {}) /\ session'[s].at = "over" /\ session'[s].count = session[s].count
    BY <1>0, <2>1, EndEffect
  <2>3. Effect(s, Idle)
    BY <2>2, MoreEffect
  <2>4. QED BY <1>3, <1>5, <2>1, <2>2, <2>3
<1>8. ASSUME NEW s \in Sessions, JoinGame(s)
      PROVE  Counted'
  <2>1. joinFilter(s) /\ session[s].at \in {"loop", "join"} /\ UNCHANGED <<moved, told, work>>
    BY <1>8 DEF JoinGame
  <2>2. /\ Only(s) /\ session'[s].at # "send" /\ session'[s].count = session[s].count
        /\ Adds(session[s].queue, session'[s].queue, {Register})
    BY <1>0, <2>1, JoinIs
  <2>3. Register.k # "reconnect"
    BY DEF Register
  <2>4. \A n \in Nat \ {0} : Ordered(n)' = Ordered(n)
    BY <1>0, <2>1, <2>2, <2>3, OnlyOrders
  <2>5. QED BY <1>4, <1>5, <2>1, <2>2, <2>4
<1>9. ASSUME NEW s \in Sessions, Execute(s)
      PROVE  Counted'
  <2>1. /\ Only(s) /\ session'[s].at # "send" /\ session[s].at = "loop"
        /\ session'[s].count = session[s].count
    BY <1>0, <1>9, ExecuteIs
  <2>2. UNCHANGED <<told, work>>
    BY <1>9 DEF Execute
  <2>3. \A n \in Nat \ {0} : Ordered(n)' = Ordered(n)
    BY <1>0, <1>9, ExecuteOrders
  <2>4. QED BY <1>4, <1>5, <2>1, <2>2, <2>3
<1>10. ASSUME NEW s \in Sessions, Query(s)
       PROVE  Counted'
  <2>1. /\ Only(s) /\ session'[s].at # "send" /\ session[s].at = "loop"
        /\ session'[s].count = session[s].count
        /\ \/ session'[s].queue = session[s].queue
           \/ session'[s].queue = Append(session[s].queue, Answer(session[s].conn, work'))
    BY <1>0, <1>10, QueryIs
  <2>2. UNCHANGED <<moved, told>> /\ work' = work + 1
    BY <1>10 DEF Query, Work
  <2> DEFINE c == Answer(session[s].conn, work')
  <2>3. c.k # "reconnect"
    BY DEF Answer
  <2> HIDE DEF c
  <2>4. Adds(session[s].queue, session'[s].queue, {c})
    <3>1. session[s].queue \in Seq(Command)
      BY <1>0 DEF Handler
    <3>2. session'[s].queue = session[s].queue \/ session'[s].queue = Append(session[s].queue, c)
      BY <2>1 DEF c
    <3>3. QED BY <3>1, <3>2 DEF Adds
  <2>5. \A n \in Nat \ {0} : Ordered(n)' = Ordered(n)
    BY <1>0, <2>1, <2>2, <2>3, <2>4, OnlyOrders
  <2>6. QED BY <1>4, <1>5, <2>1, <2>2, <2>5
<1>11. ASSUME NEW s \in Sessions, ReadUpstreams(s) \/ SwapUpstreams(s)
       PROVE  Counted'
  <2>1. session[s].at \in {"loop", "swap"} /\ UNCHANGED <<moved, told>> /\ work' \in {work, work + 1}
    BY <1>11 DEF ReadUpstreams, SwapUpstreams, Work
  <2>2. /\ Effect(s, Idle) /\ session'[s].at \in {"loop", "swap"}
        /\ session'[s].count = session[s].count
    BY <1>0, <1>11, ReadEffect, SwapEffect
  <2>3. QED BY <1>3, <1>5, <2>1, <2>2
<1>12. ASSUME NEW s \in Sessions, NEW to, NEW plugin \in BOOLEAN, Switch(s, to, plugin)
       PROVE  Counted'
  <2>1. session[s].at = "loop" /\ UNCHANGED <<moved, told>> /\ work' = work + 1
    BY <1>12 DEF Switch, Work
  <2>2. /\ Effect(s, Idle) /\ session'[s].at \in {"loop", "stuck", "over"}
        /\ session'[s].count = session[s].count
    BY <1>0, <1>12, SwitchEffect
  <2>3. QED BY <1>3, <1>5, <2>1, <2>2
<1>13. ASSUME NEW s \in Sessions, NEW to, SendChatMessage(s, to)
       PROVE  Counted'
  <2>1. UNCHANGED <<moved, told>> /\ work' = work + 1
    BY <1>13 DEF SendChatMessage, Work
  <2>2. Effect(s, Idle) /\ Walking(session[s], session'[s])
    BY <1>0, <1>13, ChatEffect
  <2>3. QED BY <1>3, <2>1, <2>2
\* A walk begins under a number that nothing has.
<1>14. ASSUME NEW s \in Sessions, NEW to, SendAll(s, to)
       PROVE  Counted'
  <2>1. session[s].at = "loop" /\ UNCHANGED <<moved, told>> /\ work' = work + 1
    BY <1>14 DEF SendAll, Work
  <2>2. /\ Effect(s, Idle) /\ session'[s].count = session[s].count
        /\ session'[s].at \in {"loop", "send"}
        /\ session'[s].at = "send" => session'[s].n = work' /\ session'[s].todo \subseteq Sessions
    BY <1>0, <1>14, SendAllEffect
  <2>3. CASE session'[s].at = "loop"
    BY <1>3, <1>5, <2>1, <2>2, <2>3
  <2>4. CASE session'[s].at = "send"
    <3>1. \A n \in Nat \ {0} : Ordered(n)' = Ordered(n)
      BY <1>0, <2>1, <2>2, IdleOrders
    <3>2. \A q \in Sessions \ {s} : Walking(session[q], session'[q])
      BY <2>2 DEF Effect
    <3>3. Numbered'
      BY <1>0, <2>1, <3>1 DEF Counted, Numbered
    <3>4. SendCounts'
      <4>1. \A n \in DOMAIN told : n \in Nat \ {0}
        BY <1>0 DEF Counted, Numbered
      <4>2. QED BY <2>1, <3>1, <4>1 DEF Counted, SendCounts
    <3>5. ASSUME NEW q \in Sessions, NEW n \in Nat, session'[q].at = "send", session'[q].n = n
          PROVE  /\ n \in 1 .. work' /\ n \notin DOMAIN told'
                 /\ session'[q].count = Cardinality(Ordered(n)')
                 /\ session'[q].todo \cap Ordered(n)' = {}
                 /\ q # s => n <= work
      <4>1. CASE q = s
        <5>1. n = work + 1 /\ n \in 1 .. work' /\ n > work /\ n # 0
          BY <1>0, <2>1, <2>2, <3>5, <4>1
        <5>2. Ordered(n)' = {} /\ n \notin DOMAIN told
          BY <3>1, <5>1 DEF Counted, Numbered
        <5>3. session'[q].count = 0
          BY <1>5, <2>1, <2>2, <4>1
        <5>4. QED BY <2>1, <4>1, <5>1, <5>2, <5>3, FS_EmptySet
      <4>2. CASE q # s
        <5>1. /\ session[q].at = "send" /\ session[q].n = n
              /\ session'[q].count = session[q].count /\ session'[q].todo = session[q].todo
          BY <3>2, <3>5, <4>2 DEF Walking
        <5>2. /\ n \in 1 .. work /\ n \notin DOMAIN told
              /\ session[q].count = Cardinality(Ordered(n))
              /\ session[q].todo \cap Ordered(n) = {}
          BY <5>1 DEF Counted, Sending
        <5>3. Ordered(n)' = Ordered(n) /\ n \in 1 .. work'
          BY <1>0, <2>1, <3>1, <5>2
        <5>4. QED BY <1>0, <2>1, <5>1, <5>2, <5>3
      <4>3. QED BY <4>1, <4>2
    <3>6. \A q \in Sessions : session'[q].at # "send" => session'[q].count = 0
      BY <2>4, <3>2, <1>5 DEF Walking
    <3>7. \A q, p \in Sessions :
            session'[q].at = "send" /\ session'[p].at = "send" /\ q # p => session'[q].n # session'[p].n
      <4>1. \A q \in Sessions \ {s} : session'[q].at = "send" =>
                session[q].at = "send" /\ session'[q].n = session[q].n /\ session'[q].n \in Nat
        BY <1>0, <3>2 DEF Walking, Handler
      <4>2. \A q \in Sessions \ {s} : session'[q].at = "send" => session'[q].n <= work
        BY <3>5, <4>1
      <4>3. session'[s].n = work + 1
        BY <2>1, <2>2, <2>4
      <4>4. \A q \in Sessions \ {s} : session'[q].at = "send" => session'[q].n # session'[s].n
        BY <1>0, <4>1, <4>2, <4>3
      <4>5. \A q, p \in Sessions \ {s} :
              session'[q].at = "send" /\ session'[p].at = "send" /\ q # p => session'[q].n # session'[p].n
        BY <4>1 DEF Counted, Sending
      <4>6. QED BY <4>4, <4>5
    <3>8. Sending'
      BY <3>5, <3>6, <3>7 DEF Sending
    <3>9. QED BY <3>3, <3>4, <3>8 DEF Counted
  <2>5. QED BY <2>2, <2>3, <2>4
\* The next player of a walk gets the order if there is room, and is counted if it does.
<1>15. ASSUME NEW s \in Sessions, NEW p \in Sessions, SendNext(s, p)
       PROVE  Counted'
  <2>1. /\ session[s].at = "send" /\ p \in session[s].todo
        /\ UNCHANGED <<moved, told, work>>
    BY <1>15 DEF SendNext
  <2>2. PICK n \in Nat : n = session[s].n
    BY <1>0 DEF Handler
  <2>3. /\ n \in 1 .. work /\ n \notin DOMAIN told
        /\ session[s].count = Cardinality(Ordered(n))
        /\ session[s].todo \cap Ordered(n) = {}
    BY <2>1, <2>2 DEF Counted, Sending
  <2>4. /\ Effect(s, {Reconnect(n)})
        /\ session'[s].at = "send" /\ session'[s].n = n
        /\ session'[s].todo = session[s].todo \ {p}
        /\ session'[s].count = session[s].count + (IF HasRoom(p) THEN 1 ELSE 0)
        /\ session'[p].queue = IF HasRoom(p) THEN Append(session[p].queue, Reconnect(n))
                               ELSE session[p].queue
        /\ \A q \in Sessions \ {p} : session'[q].queue = session[q].queue
    BY <1>0, <1>15, <2>2, SendNextEffect
  <2>5. \A m \in Nat \ {0, n} : Ordered(m)' = Ordered(m)
    <3>1. ASSUME NEW m \in Nat \ {0, n}
          PROVE  Ordered(m)' = Ordered(m)
      <4>1. \A c \in {Reconnect(n)} : ~IsOrder(c, m)
        BY DEF Reconnect, IsOrder
      <4>2. /\ session' \in [Sessions -> Handler] /\ UNCHANGED moved
            /\ \A q \in Sessions : Adds(session[q].queue, session'[q].queue, {Reconnect(n)})
        BY <2>1, <2>4 DEF Effect, Quiet
      <4>3. QED BY <1>0, <4>1, <4>2, OrdersStay
    <3>2. QED BY <3>1
  <2>6. Ordered(n)' = IF HasRoom(p) THEN Ordered(n) \cup {p} ELSE Ordered(n)
    <3>1. \A q \in Sessions : session[q].queue \in Seq(Command)
      BY <1>0 DEF Handler
    <3>2. \A q \in Sessions : q # p \/ ~HasRoom(p) => Adds(session[q].queue, session'[q].queue, Idle)
      BY <2>4, <3>1 DEF Adds
    <3>3. ASSUME HasRoom(p)
          PROVE  \E i \in DOMAIN session'[p].queue : IsOrder(session'[p].queue[i], n)
      <4>1. session'[p].queue = Append(session[p].queue, Reconnect(n))
        BY <2>4, <3>3
      <4>2. /\ Len(session[p].queue) + 1 \in DOMAIN session'[p].queue
            /\ session'[p].queue[Len(session[p].queue) + 1] = Reconnect(n)
        BY <2>2, <3>1, <4>1, Commands
      <4>3. QED BY <4>2 DEF IsOrder, Reconnect
    <3>4. n \in Nat \ {0} /\ session' \in [Sessions -> Handler]
      BY <2>3, <2>4 DEF Effect
    <3>5. QED BY <1>0, <2>1, <3>2, <3>3, <3>4, OneOrdered
  <2>7. Cardinality(Ordered(n)') = session'[s].count
    <3>1. IsFiniteSet(Ordered(n)) /\ p \notin Ordered(n)
      BY <2>1, <2>3, OrderedFinite
    <3>2. Cardinality(Ordered(n)) \in Nat
      BY <3>1, FS_CardinalityType
    <3>3. Cardinality(Ordered(n) \cup {p}) = Cardinality(Ordered(n)) + 1
      BY <3>1, FS_AddElement
    <3>4. QED BY <2>3, <2>4, <2>6, <3>2, <3>3
  <2>8. \A q \in Sessions \ {s} : Walking(session[q], session'[q])
    BY <2>4 DEF Effect
  <2>9. Sending'
    <3>1. ASSUME NEW q \in Sessions, NEW m \in Nat, session'[q].at = "send", session'[q].n = m
          PROVE  /\ m \in 1 .. work' /\ m \notin DOMAIN told'
                 /\ session'[q].count = Cardinality(Ordered(m)')
                 /\ session'[q].todo \cap Ordered(m)' = {}
      <4>1. CASE q = s
        <5>1. m = n
          BY <2>4, <3>1, <4>1
        <5>2. session'[s].todo \cap Ordered(n)' = {}
          BY <2>3, <2>4, <2>6
        <5>3. QED BY <2>1, <2>3, <2>7, <4>1, <5>1, <5>2
      <4>2. CASE q # s
        <5>1. /\ session[q].at = "send" /\ session[q].n = m
              /\ session'[q].count = session[q].count /\ session'[q].todo = session[q].todo
          BY <2>8, <3>1, <4>2 DEF Walking
        <5>2. /\ m \in 1 .. work /\ m \notin DOMAIN told
              /\ session[q].count = Cardinality(Ordered(m))
              /\ session[q].todo \cap Ordered(m) = {}
          BY <5>1 DEF Counted, Sending
        <5>3. m # n
          BY <2>1, <2>2, <4>2, <5>1 DEF Counted, Sending
        <5>4. Ordered(m)' = Ordered(m)
          BY <2>5, <5>2, <5>3
        <5>5. QED BY <2>1, <5>1, <5>2, <5>4
      <4>3. QED BY <4>1, <4>2
    <3>2. \A q \in Sessions : session'[q].at # "send" => session'[q].count = 0
      BY <1>5, <2>4, <2>8 DEF Walking
    <3>3. \A q, r \in Sessions :
            session'[q].at = "send" /\ session'[r].at = "send" /\ q # r => session'[q].n # session'[r].n
      <4>1. \A q \in Sessions : session'[q].at = session[q].at /\ session'[q].n = session[q].n
        BY <2>1, <2>2, <2>4, <2>8 DEF Walking
      <4>2. QED BY <4>1 DEF Counted, Sending
    <3>4. QED BY <3>1, <3>2, <3>3 DEF Sending
  <2>10. Numbered'
    <3>1. ASSUME NEW m \in Nat, m > work
          PROVE  Ordered(m)' = {}
      <4>1. m # 0 /\ m # n
        BY <1>0, <2>3, <3>1
      <4>2. QED BY <2>5, <3>1, <4>1 DEF Counted, Numbered
    <3>2. QED BY <2>1, <3>1 DEF Counted, Numbered
  <2>11. SendCounts'
    <3>1. \A m \in DOMAIN told : m \in Nat \ {0, n}
      BY <1>0, <2>3 DEF Counted, Numbered
    <3>2. QED BY <2>1, <2>5, <3>1 DEF Counted, SendCounts
  <2>12. QED BY <2>9, <2>10, <2>11 DEF Counted
\* A walk has ended: its count is told.
<1>16. ASSUME NEW s \in Sessions, SendDone(s)
       PROVE  Counted'
  <2>1. session[s].at = "send" /\ UNCHANGED <<moved, work>>
    BY <1>16 DEF SendDone
  <2>2. PICK n \in Nat : n = session[s].n
    BY <1>0 DEF Handler
  <2>3. told' = [m \in DOMAIN told \cup {n} |-> IF m = n THEN session[s].count ELSE told[m]]
    BY <1>16, <2>2 DEF SendDone
  <2>4. Effect(s, Idle) /\ session'[s].at = "loop" /\ session'[s].count = 0
    BY <1>0, <1>16, SendDoneEffect
  <2>5. \A m \in Nat \ {0} : Ordered(m)' = Ordered(m)
    BY <1>0, <2>1, <2>4, IdleOrders
  <2>6. n \in 1 .. work /\ session[s].count = Cardinality(Ordered(n))
    BY <2>1, <2>2 DEF Counted, Sending
  <2>7. \A q \in Sessions \ {s} : Walking(session[q], session'[q])
    BY <2>4 DEF Effect
  <2>8. Sending'
    <3>1. ASSUME NEW q \in Sessions, NEW m \in Nat, session'[q].at = "send", session'[q].n = m
          PROVE  /\ m \in 1 .. work' /\ m \notin DOMAIN told'
                 /\ session'[q].count = Cardinality(Ordered(m)')
                 /\ session'[q].todo \cap Ordered(m)' = {}
      <4>1. q # s
        BY <2>4, <3>1
      <4>2. /\ session[q].at = "send" /\ session[q].n = m
            /\ session'[q].count = session[q].count /\ session'[q].todo = session[q].todo
        BY <2>7, <3>1, <4>1 DEF Walking
      <4>3. /\ m \in 1 .. work /\ m \notin DOMAIN told
            /\ session[q].count = Cardinality(Ordered(m))
            /\ session[q].todo \cap Ordered(m) = {}
        BY <4>2 DEF Counted, Sending
      <4>4. m # n
        BY <2>1, <2>2, <4>1, <4>2 DEF Counted, Sending
      <4>5. Ordered(m)' = Ordered(m)
        BY <2>5, <4>3
      <4>6. QED BY <2>1, <2>3, <4>2, <4>3, <4>4, <4>5
    <3>2. \A q \in Sessions : session'[q].at # "send" => session'[q].count = 0
      BY <1>5, <2>4, <2>7 DEF Walking
    <3>3. \A q, r \in Sessions :
            session'[q].at = "send" /\ session'[r].at = "send" /\ q # r => session'[q].n # session'[r].n
      <4>1. \A q \in Sessions : session'[q].at = "send" =>
                session'[q].at = session[q].at /\ session'[q].n = session[q].n
        BY <2>4, <2>7 DEF Walking
      <4>2. QED BY <4>1 DEF Counted, Sending
    <3>4. QED BY <3>1, <3>2, <3>3 DEF Sending
  <2>9. Numbered'
    <3>1. 0 \notin DOMAIN told'
      BY <2>3, <2>6 DEF Counted, Numbered
    <3>2. ASSUME NEW m \in Nat, m > work
          PROVE  m \notin DOMAIN told' /\ Ordered(m)' = {}
      <4>1. m # 0 /\ m # n
        BY <1>0, <2>6, <3>2
      <4>2. QED BY <2>3, <2>5, <3>2, <4>1 DEF Counted, Numbered
    <3>3. QED BY <2>1, <3>1, <3>2 DEF Numbered
  <2>10. SendCounts'
    <3>1. \A m \in DOMAIN told : m \in Nat \ {0}
      BY <1>0 DEF Counted, Numbered
    <3>2. ASSUME NEW m \in DOMAIN told'
          PROVE  told'[m] = Cardinality(Ordered(m)')
      <4>1. CASE m = n
        BY <2>3, <2>5, <2>6, <4>1
      <4>2. CASE m # n
        <5>1. m \in DOMAIN told /\ told'[m] = told[m]
          BY <2>3, <3>2, <4>2
        <5>2. QED BY <2>5, <3>1, <5>1 DEF Counted, SendCounts
      <4>3. QED BY <4>1, <4>2
    <3>3. QED BY <3>2 DEF SendCounts
  <2>11. QED BY <2>8, <2>9, <2>10 DEF Counted
\* /send <player> tells of one player or of none.
<1>17. ASSUME NEW s \in Sessions, NEW p \in Sessions, NEW to, NEW plugin \in BOOLEAN,
              SendOne(s, p, to, plugin)
       PROVE  Counted'
  <2>1. session[s].at = "loop" /\ UNCHANGED moved /\ work' = work + 1
    BY <1>17 DEF SendOne, Work
  <2>2. PICK n \in Nat : n = work + 1
    BY <1>0
  <2>3. \/ told' = told
        \/ told' = [m \in DOMAIN told \cup {n} |->
                        IF m # n THEN told[m] ELSE IF HasRoom(p) THEN 1 ELSE 0]
    BY <1>17, <2>1, <2>2 DEF SendOne
  <2>4. /\ Effect(s, Idle \cup {Reconnect(n)})
        /\ session'[s].at \in {"loop", "over"} /\ session'[s].count = session[s].count
        /\ told' # told =>
              /\ \A q \in Sessions : q # p \/ ~HasRoom(p) =>
                     Adds(session[q].queue, session'[q].queue, Idle)
              /\ HasRoom(p) => \E i \in DOMAIN session'[p].queue :
                                   session'[p].queue[i] = Reconnect(n)
    BY <1>0, <1>17, <2>1, <2>2, SendOneEffect
  <2>5. \A m \in Nat \ {0, n} : Ordered(m)' = Ordered(m)
    <3>1. ASSUME NEW m \in Nat \ {0, n}
          PROVE  Ordered(m)' = Ordered(m)
      <4>1. \A c \in Idle \cup {Reconnect(n)} : ~IsOrder(c, m)
        BY DEF Reconnect, IsOrder, Idle
      <4>2. QED BY <1>0, <2>1, <2>4, <4>1, OrdersStay DEF Effect, Quiet
    <3>2. QED BY <3>1
  <2>6. n # 0 /\ n > work /\ n \notin DOMAIN told /\ Ordered(n) = {}
    BY <1>0, <2>2 DEF Counted, Numbered
  <2>7. told' # told => Cardinality(Ordered(n)') = (IF HasRoom(p) THEN 1 ELSE 0)
    <3>1. SUFFICES ASSUME told' # told
                   PROVE  Cardinality(Ordered(n)') = (IF HasRoom(p) THEN 1 ELSE 0)
      OBVIOUS
    <3>2. HasRoom(p) => \E i \in DOMAIN session'[p].queue : IsOrder(session'[p].queue[i], n)
      BY <2>4, <3>1 DEF IsOrder, Reconnect
    <3>3. n \in Nat \ {0} /\ session' \in [Sessions -> Handler]
      BY <2>4, <2>6 DEF Effect
    <3>4. Ordered(n)' = IF HasRoom(p) THEN Ordered(n) \cup {p} ELSE Ordered(n)
      BY <1>0, <2>1, <2>4, <3>1, <3>2, <3>3, OneOrdered
    <3>5. Ordered(n)' = IF HasRoom(p) THEN {p} ELSE {}
      BY <2>6, <3>4
    <3>6. QED BY <3>5, FS_EmptySet, FS_Singleton
  <2>8. \A q \in Sessions \ {s} : Walking(session[q], session'[q])
    BY <2>4 DEF Effect
  <2>9. ASSUME NEW q \in Sessions, session'[q].at = "send"
        PROVE  /\ session[q].at = "send" /\ session'[q].n = session[q].n
               /\ session'[q].todo = session[q].todo /\ session'[q].count = session[q].count
    BY <2>4, <2>8, <2>9 DEF Walking
  <2>10. Sending'
    <3>1. ASSUME NEW q \in Sessions, NEW m \in Nat, session'[q].at = "send", session'[q].n = m
          PROVE  /\ m \in 1 .. work' /\ m \notin DOMAIN told'
                 /\ session'[q].count = Cardinality(Ordered(m)')
                 /\ session'[q].todo \cap Ordered(m)' = {}
      <4>1. /\ m \in 1 .. work /\ m \notin DOMAIN told
            /\ session[q].count = Cardinality(Ordered(m))
            /\ session[q].todo \cap Ordered(m) = {}
        BY <2>9, <3>1 DEF Counted, Sending
      <4>2. m # n /\ m # 0 /\ m \in 1 .. work'
        BY <1>0, <2>1, <2>6, <4>1
      <4>3. Ordered(m)' = Ordered(m) /\ m \notin DOMAIN told'
        BY <2>3, <2>5, <4>1, <4>2
      <4>4. QED BY <2>9, <3>1, <4>1, <4>2, <4>3
    <3>2. \A q \in Sessions : session'[q].at # "send" => session'[q].count = 0
      BY <1>5, <2>1, <2>4, <2>8 DEF Walking
    <3>3. \A q, r \in Sessions :
            session'[q].at = "send" /\ session'[r].at = "send" /\ q # r => session'[q].n # session'[r].n
      BY <2>9 DEF Counted, Sending
    <3>4. QED BY <3>1, <3>2, <3>3 DEF Sending
  <2>11. Numbered'
    <3>1. 0 \notin DOMAIN told'
      BY <2>3, <2>6 DEF Counted, Numbered
    <3>2. ASSUME NEW m \in Nat, m > work'
          PROVE  m \notin DOMAIN told' /\ Ordered(m)' = {}
      <4>1. m # 0 /\ m # n /\ m > work
        BY <1>0, <2>1, <2>2, <3>2
      <4>2. QED BY <2>3, <2>5, <4>1 DEF Counted, Numbered
    <3>3. QED BY <3>1, <3>2 DEF Numbered
  <2>12. SendCounts'
    <3>1. \A m \in DOMAIN told : m \in Nat \ {0, n}
      BY <1>0, <2>6 DEF Counted, Numbered
    <3>2. ASSUME NEW m \in DOMAIN told'
          PROVE  told'[m] = Cardinality(Ordered(m)')
      <4>1. CASE m \in DOMAIN told
        <5>1. told'[m] = told[m]
          BY <2>3, <3>1, <4>1
        <5>2. QED BY <2>5, <3>1, <4>1, <5>1 DEF Counted, SendCounts
      <4>2. CASE m \notin DOMAIN told
        <5>1. m = n /\ told' # told /\ told'[m] = IF HasRoom(p) THEN 1 ELSE 0
          BY <2>3, <3>2, <4>2
        <5>2. QED BY <2>7, <5>1
      <4>3. QED BY <4>1, <4>2
    <3>3. QED BY <3>2 DEF SendCounts
  <2>13. QED BY <2>10, <2>11, <2>12 DEF Counted
<1>18. QED
  BY <1>1, <1>2, <1>6, <1>7, <1>8, <1>9, <1>10, <1>11, <1>12, <1>13, <1>14, <1>15, <1>16, <1>17
     DEF Next

\* As many players as a /send has told of are moved, or have the order in their queue,
\* whatever the queues held and whoever leaves or is moved while it walks.
THEOREM SendTellsTheTruth == Spec => []SendCounts
<1>1. Shaped /\ Counted => SendCounts
  BY DEF Counted
<1>2. Init => Counted
  BY InitCounted
<1>3. QED BY <1>1, <1>2, StepCounted, ShapedHolds, PTL DEF Spec

-----------------------------------------------------------------------------
(* What a server needs.                                                    *)

\* ServerServed, and what it takes, in terms of one session.
Registers(r) ==
    r.at # "over" /\ r.joined =>
        r.registered \/ \E i \in DOMAIN r.queue : r.queue[i].k = "register"

All(r) == r.got \o r.queue
Mine(r) == {i \in DOMAIN All(r) : All(r)[i].k = "answer" /\ All(r)[i].conn = r.conn}
Answered(r) ==
    r.at # "over" =>
        \E where \in [DOMAIN r.asked -> Mine(r)] :
            /\ Mine(r) = {where[i] : i \in DOMAIN r.asked}
            /\ \A i, j \in DOMAIN r.asked : i < j => where[i] < where[j]
            /\ \A i \in DOMAIN r.asked : All(r)[where[i]].n = r.asked[i]

\* No answer is for a connection to come.
Timely(r) ==
    /\ \A i \in DOMAIN r.queue : r.queue[i].k = "answer" => r.queue[i].conn \in 1 .. r.conn
    /\ IF r.at = "new" THEN r.conn = 0 /\ ~r.joined /\ r.asked = <<>> /\ r.got = <<>>
                       ELSE r.conn >= 1

Served(r) == Registers(r) /\ Answered(r) /\ Timely(r)

Serving == \A s \in Sessions : Served(session[s])

\* Answers keep their order, wherever they are moved to.
LEMMA AnsweredMoves ==
    ASSUME NEW r \in Handler, NEW r2 \in Handler, r2.asked = r.asked, r.at # "over", Answered(r),
           NEW m \in [Mine(r) -> Mine(r2)], Mine(r2) = {m[i] : i \in Mine(r)},
           \A i, j \in Mine(r) : i < j => m[i] < m[j],
           \A i \in Mine(r) : All(r2)[m[i]].n = All(r)[i].n
    PROVE  Answered(r2)
<1>1. PICK where \in [DOMAIN r.asked -> Mine(r)] :
            /\ Mine(r) = {where[i] : i \in DOMAIN r.asked}
            /\ \A i, j \in DOMAIN r.asked : i < j => where[i] < where[j]
            /\ \A i \in DOMAIN r.asked : All(r)[where[i]].n = r.asked[i]
  BY DEF Answered
<1> DEFINE place2 == [i \in DOMAIN r.asked |-> m[where[i]]]
<1>2. place2 \in [DOMAIN r2.asked -> Mine(r2)]
  OBVIOUS
<1>3. Mine(r2) = {place2[i] : i \in DOMAIN r2.asked}
  <2>1. \A k \in Mine(r2) : \E j \in Mine(r) : k = m[j]
    OBVIOUS
  <2>2. \A j \in Mine(r) : \E i \in DOMAIN r.asked : j = where[i]
    BY <1>1
  <2>3. \A k \in Mine(r2) : \E i \in DOMAIN r2.asked : k = place2[i]
    BY <2>1, <2>2
  <2>4. \A i \in DOMAIN r2.asked : place2[i] \in Mine(r2)
    BY <1>2
  <2> HIDE DEF place2
  <2>5. QED BY <2>3, <2>4
<1>4. \A i, j \in DOMAIN r2.asked : i < j => place2[i] < place2[j]
  BY <1>1
<1>5. \A i \in DOMAIN r2.asked : All(r2)[place2[i]].n = r2.asked[i]
  BY <1>1
<1> HIDE DEF place2
<1>6. QED BY <1>2, <1>3, <1>4, <1>5 DEF Answered

\* What is received comes before what is queued.
LEMMA AllIs ==
    ASSUME NEW r \in Handler
    PROVE  /\ DOMAIN All(r) = 1 .. Len(r.got) + Len(r.queue)
           /\ \A i \in 1 .. Len(r.got) : All(r)[i] = r.got[i]
           /\ \A i \in Len(r.got) + 1 .. Len(r.got) + Len(r.queue) :
                 All(r)[i] = r.queue[i - Len(r.got)]
<1>1. r.got \in Seq(Command) /\ r.queue \in Seq(Command)
  BY DEF Handler
<1>2. /\ All(r) \in Seq(Command) /\ Len(All(r)) = Len(r.got) + Len(r.queue)
      /\ \A i \in 1 .. Len(r.got) + Len(r.queue) :
            All(r)[i] = IF i <= Len(r.got) THEN r.got[i] ELSE r.queue[i - Len(r.got)]
  BY <1>1, ConcatProperties DEF All
<1>3. DOMAIN All(r) = 1 .. Len(r.got) + Len(r.queue)
  BY <1>2
<1>4. PICK a \in Nat, b \in Nat : a = Len(r.got) /\ b = Len(r.queue)
  BY <1>1
<1>5. /\ \A i \in 1 .. a : i \in 1 .. a + b /\ i <= a
      /\ \A i \in a + 1 .. a + b : i \in 1 .. a + b /\ ~(i <= a)
  OBVIOUS
<1>6. QED BY <1>2, <1>3, <1>4, <1>5

\* Only answers matter, and only the first command can be one that is gone.
LEMMA AddsAnswered ==
    ASSUME NEW r \in Handler, NEW r2 \in Handler, r2.conn = r.conn, r2.asked = r.asked,
           r2.got = r.got, NEW C, C \subseteq NoAnswer, Adds(r.queue, r2.queue, C),
           r.at = "over" => r2.at = "over", Answered(r)
    PROVE  Answered(r2)
<1> SUFFICES ASSUME r.at # "over" PROVE Answered(r2)
  BY DEF Answered
<1>1. PICK a \in Nat, b \in Nat, b2 \in Nat :
          a = Len(r.got) /\ b = Len(r.queue) /\ b2 = Len(r2.queue)
  BY DEF Handler
<1>2. /\ b <= b2 /\ \A i \in 1 .. b : r2.queue[i] = r.queue[i]
      /\ \A i \in b + 1 .. b2 : r2.queue[i] \in NoAnswer
  BY <1>1 DEF Adds
<1>3. /\ DOMAIN All(r) = 1 .. a + b
      /\ \A i \in 1 .. a : All(r)[i] = r.got[i]
      /\ \A i \in a + 1 .. a + b : All(r)[i] = r.queue[i - a]
  BY <1>1, AllIs
<1>4. /\ DOMAIN All(r2) = 1 .. a + b2
      /\ \A i \in 1 .. a : All(r2)[i] = r.got[i]
      /\ \A i \in a + 1 .. a + b2 : All(r2)[i] = r2.queue[i - a]
  BY <1>1, AllIs
<1>5. \A i \in 1 .. a + b : i \in 1 .. a + b2 /\ All(r2)[i] = All(r)[i]
  <2>1. ASSUME NEW i \in 1 .. a + b
        PROVE  i \in 1 .. a + b2 /\ All(r2)[i] = All(r)[i]
    <3>1. CASE i \in 1 .. a
      BY <1>2, <1>3, <1>4, <3>1
    <3>2. CASE i \in a + 1 .. a + b
      <4>1. i - a \in 1 .. b /\ i \in a + 1 .. a + b2
        BY <1>2, <3>2
      <4>2. QED BY <1>2, <1>3, <1>4, <3>2, <4>1
    <3>3. QED BY <3>1, <3>2
  <2>2. QED BY <2>1
<1>6. \A i \in 1 .. a + b2 : i \in 1 .. a + b \/ All(r2)[i] \in NoAnswer
  <2>1. ASSUME NEW i \in 1 .. a + b2, i \notin 1 .. a + b
        PROVE  All(r2)[i] \in NoAnswer
    <3>1. i \in a + 1 .. a + b2 /\ i - a \in b + 1 .. b2
      BY <2>1
    <3>2. QED BY <1>2, <1>4, <3>1
  <2>2. QED BY <2>1
<1>7. Mine(r2) = Mine(r)
  BY <1>3, <1>4, <1>5, <1>6 DEF Mine, NoAnswer
<1> DEFINE m == [i \in Mine(r) |-> i]
<1>8. /\ m \in [Mine(r) -> Mine(r2)] /\ Mine(r2) = {m[i] : i \in Mine(r)}
      /\ \A i, j \in Mine(r) : i < j => m[i] < m[j]
  BY <1>7
<1>9. \A i \in Mine(r) : All(r2)[m[i]].n = All(r)[i].n
  BY <1>3, <1>5 DEF Mine
<1> HIDE DEF m
<1>10. QED BY <1>8, <1>9, AnsweredMoves

\* An answer that is executed moves from the queue to what is received, in where.
LEMMA ReceiveAnswered ==
    ASSUME NEW r \in Handler, NEW r2 \in Handler, r2.conn = r.conn, r2.asked = r.asked,
           r.queue # <<>>, r2.queue = Tail(r.queue), r2.got = Append(r.got, Head(r.queue)),
           r.at # "over", Answered(r)
    PROVE  Answered(r2)
<1>1. r.got \in Seq(Command) /\ r.queue \in Seq(Command) /\ Head(r.queue) \in Command
  BY DEF Handler
<1>2. PICK a \in Nat, b \in Nat : a = Len(r.got) /\ b = Len(r.queue)
  BY <1>1
<1>0. b >= 1
  BY <1>1, <1>2
<1>3. /\ Len(r2.got) = a + 1 /\ Len(r2.queue) = b - 1
      /\ \A i \in 1 .. a : r2.got[i] = r.got[i]
      /\ r2.got[a + 1] = r.queue[1]
      /\ \A i \in 1 .. b - 1 : r2.queue[i] = r.queue[i + 1]
  BY <1>1, <1>2
<1>4. /\ DOMAIN All(r) = 1 .. a + b
      /\ \A i \in 1 .. a : All(r)[i] = r.got[i]
      /\ \A i \in a + 1 .. a + b : All(r)[i] = r.queue[i - a]
  BY <1>2, AllIs
<1>5. PICK a2 \in Nat, b2 \in Nat : a2 = a + 1 /\ b2 = b - 1
  <2>1. a + 1 \in Nat /\ b - 1 \in Nat
    BY <1>0
  <2>2. QED BY <2>1
<1>6. /\ DOMAIN All(r2) = 1 .. a2 + b2
      /\ \A i \in 1 .. a2 : All(r2)[i] = r2.got[i]
      /\ \A i \in a2 + 1 .. a2 + b2 : All(r2)[i] = r2.queue[i - a2]
  <2>1. Len(r2.got) = a2 /\ Len(r2.queue) = b2
    BY <1>3, <1>5
  <2>2. QED BY <2>1, AllIs
<1>7. DOMAIN All(r2) = DOMAIN All(r)
  BY <1>4, <1>5, <1>6
<1>8. \A i \in DOMAIN All(r) : All(r2)[i] = All(r)[i]
  <2>1. ASSUME NEW i \in 1 .. a + b
        PROVE  All(r2)[i] = All(r)[i]
    <3>1. CASE i \in 1 .. a
      <4>1. i \in 1 .. a2
        BY <1>5, <3>1
      <4>2. QED BY <1>3, <1>4, <1>6, <3>1, <4>1
    <3>2. CASE i = a + 1
      <4>1. i \in 1 .. a2 /\ i \in a + 1 .. a + b /\ i - a = 1
        BY <1>0, <1>5, <3>2
      <4>2. QED BY <1>3, <1>4, <1>6, <3>2, <4>1
    <3>3. CASE i \in a + 2 .. a + b
      <4>1. /\ i \in a2 + 1 .. a2 + b2 /\ i \in a + 1 .. a + b
            /\ i - a2 \in 1 .. b - 1 /\ (i - a2) + 1 = i - a
        BY <1>0, <1>5, <3>3
      <4>2. PICK k \in 1 .. b - 1 : k = i - a2 /\ k + 1 = i - a
        BY <4>1
      <4>3. All(r2)[i] = r2.queue[k] /\ All(r)[i] = r.queue[k + 1]
        BY <1>4, <1>6, <4>1, <4>2
      <4>4. QED BY <1>3, <4>3
    <3>4. QED BY <2>1, <3>1, <3>2, <3>3
  <2>2. QED BY <1>4, <2>1
<1>9. Mine(r2) = Mine(r)
  BY <1>7, <1>8 DEF Mine
<1> DEFINE m == [i \in Mine(r) |-> i]
<1>10. /\ m \in [Mine(r) -> Mine(r2)] /\ Mine(r2) = {m[i] : i \in Mine(r)}
       /\ \A i, j \in Mine(r) : i < j => m[i] < m[j]
  BY <1>9
<1>11. \A i \in Mine(r) : All(r2)[m[i]].n = All(r)[i].n
  BY <1>8 DEF Mine
<1> HIDE DEF m
<1>12. QED BY <1>10, <1>11, AnsweredMoves

\* A command of another kind leaves the queue, and the answers behind it move up.
LEMMA LeaveAnswered ==
    ASSUME NEW r \in Handler, NEW r2 \in Handler, r2.conn = r.conn, r2.asked = r.asked,
           r.queue # <<>>, r2.queue = Tail(r.queue), r2.got = r.got,
           Head(r.queue).k # "answer", r.at # "over", Answered(r)
    PROVE  Answered(r2)
<1>1. r.got \in Seq(Command) /\ r.queue \in Seq(Command)
  BY DEF Handler
<1>2. PICK a \in Nat, b \in Nat : a = Len(r.got) /\ b = Len(r.queue)
  BY <1>1
<1>0. b >= 1
  BY <1>1, <1>2
<1>3. /\ Len(r2.queue) = b - 1 /\ r.queue[1].k # "answer"
      /\ \A i \in 1 .. b - 1 : r2.queue[i] = r.queue[i + 1]
  BY <1>1, <1>2
<1>4. /\ DOMAIN All(r) = 1 .. a + b
      /\ \A i \in 1 .. a : All(r)[i] = r.got[i]
      /\ \A i \in a + 1 .. a + b : All(r)[i] = r.queue[i - a]
  BY <1>2, AllIs
<1>5. PICK b2 \in Nat : b2 = b - 1
  BY <1>0
<1>6. /\ DOMAIN All(r2) = 1 .. a + b2
      /\ \A i \in 1 .. a : All(r2)[i] = r.got[i]
      /\ \A i \in a + 1 .. a + b2 : All(r2)[i] = r2.queue[i - a]
  <2>1. Len(r2.got) = a /\ Len(r2.queue) = b2 /\ r2.got = r.got
    BY <1>2, <1>3, <1>5
  <2>2. QED BY <2>1, AllIs
<1> DEFINE new(i) == IF i <= a THEN i ELSE i - 1
<1>7. All(r)[a + 1].k # "answer"
  <2>1. a + 1 \in a + 1 .. a + b /\ (a + 1) - a = 1
    BY <1>0
  <2>2. QED BY <1>3, <1>4, <2>1
<1>8. ASSUME NEW i \in 1 .. a + b, i # a + 1
      PROVE  new(i) \in 1 .. a + b2 /\ All(r2)[new(i)] = All(r)[i]
  <2>1. CASE i \in 1 .. a
    BY <1>4, <1>6, <2>1
  <2>2. CASE i \in a + 2 .. a + b
    <3>1. /\ new(i) = i - 1 /\ i - 1 \in a + 1 .. a + b2 /\ i \in a + 1 .. a + b
          /\ (i - 1) - a \in 1 .. b - 1 /\ ((i - 1) - a) + 1 = i - a
      BY <1>5, <2>2
    <3>2. QED BY <1>3, <1>4, <1>6, <3>1
  <2>3. QED BY <1>8, <2>1, <2>2
<1>9. Mine(r) \subseteq 1 .. a + b /\ a + 1 \notin Mine(r)
  BY <1>4, <1>7 DEF Mine
<1>10. \A i \in Mine(r) : new(i) \in Mine(r2)
  <2>1. ASSUME NEW i \in Mine(r)
        PROVE  new(i) \in Mine(r2)
    <3>1. new(i) \in 1 .. a + b2 /\ All(r2)[new(i)] = All(r)[i]
      BY <1>8, <1>9
    <3> HIDE DEF new
    <3>2. QED BY <1>6, <3>1 DEF Mine
  <2>2. QED BY <2>1
<1>11. ASSUME NEW j \in Mine(r2)
       PROVE  \E i \in Mine(r) : j = new(i)
  <2>1. j \in 1 .. a + b2
    BY <1>6 DEF Mine
  <2>2. PICK i \in 1 .. a + b : i # a + 1 /\ new(i) = j
    <3>1. CASE j <= a
      <4>1. j \in 1 .. a + b /\ j # a + 1 /\ new(j) = j
        BY <2>1, <3>1
      <4>2. QED BY <4>1
    <3>2. CASE j > a
      <4>1. j + 1 \in 1 .. a + b /\ j + 1 # a + 1 /\ new(j + 1) = j
        BY <1>5, <2>1, <3>2
      <4>2. QED BY <4>1
    <3>3. QED BY <2>1, <3>1, <3>2
  <2>3. All(r2)[j] = All(r)[i]
    BY <1>8, <2>2
  <2>4. i \in Mine(r)
    BY <1>4, <2>3 DEF Mine
  <2>5. QED BY <2>2, <2>4
<1>12. \A i, j \in Mine(r) : i < j => new(i) < new(j)
  BY <1>9
<1> DEFINE m == [i \in Mine(r) |-> new(i)]
<1>13. \A i \in Mine(r) : All(r2)[m[i]].n = All(r)[i].n
  BY <1>8, <1>9
<1>14. \A i, j \in Mine(r) : i < j => m[i] < m[j]
  BY <1>12
<1> HIDE DEF new
<1>15. m \in [Mine(r) -> Mine(r2)] /\ Mine(r2) = {m[i] : i \in Mine(r)}
  BY <1>10, <1>11
<1> HIDE DEF m
<1>16. QED BY <1>13, <1>14, <1>15, AnsweredMoves

\* A question that is answered behind all others is answered last.
LEMMA AskedAnswered ==
    ASSUME NEW r \in Handler, NEW r2 \in Handler, NEW n \in Nat, r2.conn = r.conn, r2.got = r.got,
           r2.asked = Append(r.asked, n), r2.queue = Append(r.queue, Answer(r.conn, n)),
           r.at # "over", Answered(r)
    PROVE  Answered(r2)
<1>1. r.got \in Seq(Command) /\ r.queue \in Seq(Command) /\ r.asked \in Seq(Nat) /\ r.conn \in Nat
  BY DEF Handler
<1>2. PICK a \in Nat, b \in Nat, d \in Nat : a = Len(r.got) /\ b = Len(r.queue) /\ d = Len(r.asked)
  BY <1>1
<1> DEFINE c == Answer(r.conn, n)
<1>3. c \in Command /\ c.k = "answer" /\ c.conn = r.conn /\ c.n = n
  BY <1>1 DEF Answer, Command
<1> HIDE DEF c
<1>4. /\ Len(r2.queue) = b + 1 /\ r2.queue[b + 1] = c
      /\ \A i \in 1 .. b : r2.queue[i] = r.queue[i]
  BY <1>1, <1>2, <1>3 DEF c
<1>5. /\ DOMAIN r.asked = 1 .. d /\ DOMAIN r2.asked = 1 .. d + 1 /\ r2.asked[d + 1] = n
      /\ \A i \in 1 .. d : r2.asked[i] = r.asked[i]
  BY <1>1, <1>2
<1>6. /\ DOMAIN All(r) = 1 .. a + b
      /\ \A i \in 1 .. a : All(r)[i] = r.got[i]
      /\ \A i \in a + 1 .. a + b : All(r)[i] = r.queue[i - a]
  BY <1>2, AllIs
<1>7. PICK b2 \in Nat : b2 = b + 1
  OBVIOUS
<1>8. /\ DOMAIN All(r2) = 1 .. a + b2
      /\ \A i \in 1 .. a : All(r2)[i] = r.got[i]
      /\ \A i \in a + 1 .. a + b2 : All(r2)[i] = r2.queue[i - a]
  <2>1. Len(r2.got) = a /\ Len(r2.queue) = b2 /\ r2.got = r.got
    BY <1>2, <1>4, <1>7
  <2>2. QED BY <2>1, AllIs
<1>9. \A i \in 1 .. a + b : All(r2)[i] = All(r)[i]
  <2>1. ASSUME NEW i \in 1 .. a + b
        PROVE  All(r2)[i] = All(r)[i]
    <3>1. CASE i \in 1 .. a
      BY <1>6, <1>8, <3>1
    <3>2. CASE i \in a + 1 .. a + b
      <4>1. i - a \in 1 .. b /\ i \in a + 1 .. a + b2
        BY <1>7, <3>2
      <4>2. QED BY <1>4, <1>6, <1>8, <3>2, <4>1
    <3>3. QED BY <3>1, <3>2
  <2>2. QED BY <2>1
<1> DEFINE e == a + b2
<1>10. All(r2)[e] = c /\ e \in 1 .. e /\ e = (a + b) + 1
  <2>1. e \in a + 1 .. a + b2 /\ e - a = b + 1 /\ e \in 1 .. e /\ e = (a + b) + 1
    BY <1>7
  <2>2. QED BY <1>4, <1>8, <2>1
<1>11. DOMAIN All(r2) = (1 .. a + b) \cup {e}
  <2>1. DOMAIN All(r2) = 1 .. (a + b) + 1
    BY <1>7, <1>8
  <2>2. 1 .. (a + b) + 1 = (1 .. a + b) \cup {(a + b) + 1}
    OBVIOUS
  <2>3. QED BY <1>10, <2>1, <2>2
<1> HIDE DEF e
<1>12. Mine(r2) = Mine(r) \cup {e} /\ Mine(r) \subseteq 1 .. a + b
  <2>1. e \notin 1 .. a + b
    BY <1>10
  <2>2. QED BY <1>3, <1>6, <1>9, <1>10, <1>11, <2>1 DEF Mine
<1>13. PICK where \in [1 .. d -> Mine(r)] :
            /\ Mine(r) = {where[i] : i \in 1 .. d}
            /\ \A i, j \in 1 .. d : i < j => where[i] < where[j]
            /\ \A i \in 1 .. d : All(r)[where[i]].n = r.asked[i]
  BY <1>5 DEF Answered
<1> DEFINE place2 == [i \in 1 .. d + 1 |-> IF i <= d THEN where[i] ELSE e]
<1>14. /\ \A i \in 1 .. d : place2[i] = where[i] /\ place2[i] \in Mine(r)
       /\ place2[d + 1] = e
       /\ \A i \in 1 .. d + 1 : i \in 1 .. d \/ i = d + 1
       /\ \A i \in 1 .. d : i \in 1 .. d + 1
       /\ d + 1 \in 1 .. d + 1
  OBVIOUS
<1>15. place2 \in [1 .. d + 1 -> Mine(r2)]
  <2>1. \A i \in 1 .. d + 1 : (IF i <= d THEN where[i] ELSE e) \in Mine(r2)
    BY <1>12
  <2>2. QED BY <2>1
<1> HIDE DEF place2
<1>16. Mine(r2) = {place2[i] : i \in 1 .. d + 1}
  <2>1. \A k \in Mine(r) : \E i \in 1 .. d : k = place2[i]
    BY <1>13, <1>14
  <2>2. \A k \in Mine(r2) : \E i \in 1 .. d + 1 : k = place2[i]
    BY <1>12, <1>14, <2>1
  <2>3. \A i \in 1 .. d + 1 : place2[i] \in Mine(r2)
    BY <1>15
  <2>4. QED BY <2>2, <2>3
<1>17. \A i, j \in 1 .. d + 1 : i < j => place2[i] < place2[j]
  <2>1. ASSUME NEW i \in 1 .. d + 1, NEW j \in 1 .. d + 1, i < j
        PROVE  place2[i] < place2[j]
    <3>1. i \in 1 .. d
      BY <2>1
    <3>2. CASE j \in 1 .. d
      BY <1>13, <1>14, <2>1, <3>1, <3>2
    <3>3. CASE j = d + 1
      <4>1. place2[i] \in 1 .. a + b /\ place2[j] = e
        BY <1>12, <1>14, <3>1, <3>3
      <4>2. QED BY <1>10, <4>1
    <3>4. QED BY <1>14, <3>2, <3>3
  <2>2. QED BY <2>1
<1>18. \A i \in 1 .. d + 1 : All(r2)[place2[i]].n = r2.asked[i]
  <2>1. ASSUME NEW i \in 1 .. d
        PROVE  All(r2)[place2[i]].n = r2.asked[i]
    <3>1. place2[i] \in 1 .. a + b /\ place2[i] = where[i]
      BY <1>12, <1>14
    <3>2. QED BY <1>5, <1>9, <1>13, <3>1
  <2>2. All(r2)[place2[d + 1]].n = r2.asked[d + 1]
    BY <1>3, <1>5, <1>10, <1>14
  <2>3. QED BY <1>14, <2>1, <2>2
<1>19. QED BY <1>5, <1>15, <1>16, <1>17, <1>18 DEF Answered

\* Commands that are no answers leave a session served.
LEMMA AddsServed ==
    ASSUME NEW r \in Handler, NEW r2 \in Handler, Kept(r, r2), NEW C, C \subseteq NoAnswer,
           Adds(r.queue, r2.queue, C), Served(r)
    PROVE  Served(r2)
<1>1. PICK b \in Nat, b2 \in Nat : b = Len(r.queue) /\ b2 = Len(r2.queue)
  BY DEF Handler
<1>2. /\ DOMAIN r.queue = 1 .. b /\ DOMAIN r2.queue = 1 .. b2
      /\ b <= b2 /\ \A i \in 1 .. b : r2.queue[i] = r.queue[i]
      /\ \A i \in b + 1 .. b2 : r2.queue[i] \in NoAnswer
  <2>1. r.queue \in Seq(Command) /\ r2.queue \in Seq(Command)
    BY DEF Handler
  <2>2. QED BY <1>1, <2>1 DEF Adds
<1>3. /\ \A i \in 1 .. b : i \in 1 .. b2
      /\ \A i \in 1 .. b2 : i \in 1 .. b \/ i \in b + 1 .. b2
  BY <1>2
<1>4. Registers(r2)
  BY <1>2, <1>3 DEF Served, Registers, Kept
<1>5. Answered(r2)
  BY AddsAnswered DEF Served, Kept
<1>6. Timely(r2)
  <2>1. \A i \in DOMAIN r2.queue : r2.queue[i].k = "answer" => r2.queue[i].conn \in 1 .. r2.conn
    BY <1>2, <1>3 DEF Served, Timely, Kept, NoAnswer
  <2>2. QED BY <2>1 DEF Served, Timely, Kept
<1>7. QED BY <1>4, <1>5, <1>6 DEF Served

\* The answers to a new connection are none, and so are its questions.
LEMMA NoneAnswered ==
    ASSUME NEW r \in Handler, r.asked = <<>>, r.got = <<>>,
           \A i \in DOMAIN r.queue : r.queue[i].k = "answer" => r.queue[i].conn # r.conn
    PROVE  Answered(r)
<1>1. r.queue \in Seq(Command) /\ Len(r.got) = 0 /\ DOMAIN r.asked = {}
  BY DEF Handler
<1>2. PICK b \in Nat : b = Len(r.queue) /\ DOMAIN r.queue = 1 .. b
  BY <1>1
<1>3. DOMAIN All(r) = 1 .. b /\ \A i \in 1 .. b : All(r)[i] = r.queue[i]
  <2>1. /\ DOMAIN All(r) = 1 .. 0 + b
        /\ \A i \in 0 + 1 .. 0 + b : All(r)[i] = r.queue[i - 0]
    BY <1>1, <1>2, AllIs
  <2>2. \A i \in 1 .. b : i \in 0 + 1 .. 0 + b /\ i - 0 = i
    OBVIOUS
  <2>3. QED BY <2>1, <2>2
<1>4. Mine(r) = {}
  BY <1>2, <1>3 DEF Mine
<1> DEFINE where == [i \in {} |-> 0]
<1>5. where \in [DOMAIN r.asked -> Mine(r)]
  BY <1>1
<1>6. Mine(r) = {where[i] : i \in DOMAIN r.asked}
  BY <1>1, <1>4
<1>7. QED BY <1>1, <1>5, <1>6 DEF Answered

\* The execution of the next command.
LEMMA ExecuteServed ==
    ASSUME TypeOK, Serving, NEW s \in Sessions, Execute(s)
    PROVE  Served(session[s])'
<1> DEFINE r == session[s]
           r2 == session'[s]
           c == Head(session[s].queue)
<1>1. /\ Only(s) /\ r.at = "loop" /\ r.queue # <<>> /\ r2.queue = Tail(r.queue)
      /\ \/ /\ c.k = "reconnect" /\ r2.at = "join" /\ r2.conn = r.conn + 1 /\ ~r2.joined
            /\ r2.asked = <<>> /\ r2.got = <<>>
         \/ /\ r2.at = "loop" /\ c.k # "reconnect" /\ r2.conn = r.conn /\ r2.joined = r.joined
            /\ r2.registered <=> (r.registered \/ c.k = "register")
            /\ r2.asked = r.asked
            /\ r2.got = IF c.k = "answer" THEN Append(r.got, c) ELSE r.got
  BY ExecuteIs
<1>2. r \in Handler /\ r2 \in Handler /\ Served(r)
  BY <1>1 DEF TypeOK, Only, Serving
<1>3. r.queue \in Seq(Command)
  BY <1>2 DEF Handler
<1>4. c = Head(r.queue)
  OBVIOUS
<1> HIDE DEF r, r2, c
<1>5. PICK b \in Nat : b = Len(r.queue)
  BY <1>3
<1>6. /\ b >= 1 /\ DOMAIN r.queue = 1 .. b /\ DOMAIN r2.queue = 1 .. b - 1 /\ c = r.queue[1]
      /\ \A i \in 1 .. b - 1 : r2.queue[i] = r.queue[i + 1]
  BY <1>1, <1>3, <1>4, <1>5
<1>7. /\ \A i \in 1 .. b - 1 : i + 1 \in 1 .. b
      /\ \A i \in 1 .. b : i = 1 \/ (i - 1 \in 1 .. b - 1 /\ (i - 1) + 1 = i)
  OBVIOUS
<1>8. r.conn \in Nat /\ r.conn >= 1
  BY <1>1, <1>2 DEF Served, Timely, Handler
<1>9. \A i \in DOMAIN r2.queue : r2.queue[i].k = "answer" => r2.queue[i].conn \in 1 .. r.conn
  BY <1>2, <1>6, <1>7 DEF Served, Timely
<1>10. Timely(r2)
  <2>1. r2.conn \in {r.conn, r.conn + 1} /\ r2.at # "new"
    BY <1>1
  <2>2. r2.conn >= 1 /\ 1 .. r.conn \subseteq 1 .. r2.conn
    BY <1>8, <2>1
  <2>3. QED BY <1>9, <2>1, <2>2 DEF Timely
<1>11. CASE c.k = "reconnect"
  <2>1. Registers(r2)
    BY <1>1, <1>11 DEF Registers
  <2>2. \A i \in DOMAIN r2.queue : r2.queue[i].k = "answer" => r2.queue[i].conn # r2.conn
    <3>1. r2.conn = r.conn + 1 /\ r.conn + 1 \notin 1 .. r.conn
      BY <1>1, <1>8, <1>11
    <3>2. QED BY <1>9, <3>1
  <2>3. Answered(r2)
    BY <1>1, <1>2, <1>11, <2>2, NoneAnswered
  <2>4. Served(r2)
    BY <1>10, <2>1, <2>3 DEF Served
  <2>5. QED BY <2>4 DEF r2, Served, Registers, Answered, Timely, Mine, All
<1>12. CASE c.k # "reconnect"
  <2>1. /\ r2.at = "loop" /\ r2.conn = r.conn /\ r2.joined = r.joined
        /\ r2.registered <=> (r.registered \/ c.k = "register")
        /\ r2.asked = r.asked
        /\ r2.got = IF c.k = "answer" THEN Append(r.got, c) ELSE r.got
    BY <1>1, <1>12
  <2>2. Registers(r2)
    <3>1. SUFFICES ASSUME r2.joined, ~r2.registered
                   PROVE  \E i \in DOMAIN r2.queue : r2.queue[i].k = "register"
      BY DEF Registers
    <3>2. r.joined /\ ~r.registered /\ c.k # "register"
      BY <2>1, <3>1
    <3>3. PICK i \in 1 .. b : r.queue[i].k = "register"
      BY <1>1, <1>2, <1>6, <3>2 DEF Served, Registers
    <3>5. i # 1
      BY <1>6, <3>2, <3>3
    <3>6. i - 1 \in 1 .. b - 1 /\ r2.queue[i - 1] = r.queue[i]
      BY <1>6, <1>7, <3>5
    <3>7. QED BY <1>6, <3>3, <3>6
  <2>3. Answered(r2)
    <3>1. CASE c.k = "answer"
      BY <1>1, <1>2, <1>4, <2>1, <3>1, ReceiveAnswered DEF Served
    <3>2. CASE c.k # "answer"
      BY <1>1, <1>2, <1>4, <2>1, <3>2, LeaveAnswered DEF Served
    <3>3. QED BY <3>1, <3>2
  <2>4. Served(r2)
    BY <1>10, <2>2, <2>3 DEF Served
  <2>5. QED BY <2>4 DEF r2, Served, Registers, Answered, Timely, Mine, All
<1>13. QED BY <1>11, <1>12

\* A question is put behind the earlier ones, and so is its answer if there is room.
LEMMA QueryServed ==
    ASSUME TypeOK, Serving, NEW s \in Sessions, Query(s)
    PROVE  Served(session[s])'
<1> DEFINE r == session[s]
           r2 == session'[s]
           n == work'
<1>1. /\ Only(s) /\ r.at = "loop" /\ r2.conn = r.conn /\ r2.got = r.got
      /\ r2.joined = r.joined /\ r2.registered
      /\ \/ r2.at = "over" /\ r2.queue = r.queue /\ r2.asked = r.asked
         \/ /\ r2.at = "loop" /\ r2.queue = Append(r.queue, Answer(r.conn, n))
            /\ r2.asked = Append(r.asked, n)
  BY QueryIs
<1>2. r \in Handler /\ r2 \in Handler /\ Served(r)
  BY <1>1 DEF TypeOK, Only, Serving
<1>3. n \in Nat
  <2>1. work \in Nat /\ n = work + 1
    BY DEF TypeOK, Query, Work
  <2>2. QED BY <2>1
<1> HIDE DEF r, r2, n
<1>4. r.queue \in Seq(Command) /\ r.conn \in Nat /\ r.conn >= 1
  BY <1>1, <1>2 DEF Handler, Served, Timely
<1>5. Registers(r2)
  BY <1>1 DEF Registers
<1>6. Answered(r2)
  <2>1. CASE r2.at = "over"
    BY <2>1 DEF Answered
  <2>2. CASE r2.at = "loop"
    BY <1>1, <1>2, <1>3, <2>2, AskedAnswered DEF Served
  <2>3. QED BY <1>1, <2>1, <2>2
<1>7. Timely(r2)
  <2>1. r2.at # "new" /\ r2.conn >= 1
    BY <1>1, <1>4
  <2>2. ASSUME NEW i \in DOMAIN r2.queue, r2.queue[i].k = "answer"
        PROVE  r2.queue[i].conn \in 1 .. r.conn
    <3>1. CASE r2.queue = r.queue
      BY <1>2, <2>2, <3>1 DEF Served, Timely
    <3>2. CASE r2.queue = Append(r.queue, Answer(r.conn, n))
      <4>1. PICK b \in Nat : b = Len(r.queue)
        BY <1>4
      <4>2. Answer(r.conn, n) \in Command /\ Answer(r.conn, n).conn = r.conn
        BY <1>3, <1>4, Commands DEF Answer
      <4>3. /\ DOMAIN r.queue = 1 .. b /\ DOMAIN r2.queue = 1 .. b + 1
            /\ r2.queue[b + 1] = Answer(r.conn, n)
            /\ \A j \in 1 .. b : r2.queue[j] = r.queue[j]
        BY <1>4, <3>2, <4>1, <4>2
      <4>4. i \in 1 .. b \/ i = b + 1
        BY <2>2, <4>3
      <4>5. r.conn \in 1 .. r.conn
        BY <1>4
      <4>6. QED BY <1>2, <2>2, <4>2, <4>3, <4>4, <4>5 DEF Served, Timely
    <3>3. QED BY <1>1, <3>1, <3>2
  <2>3. QED BY <1>1, <2>1, <2>2 DEF Timely
<1>8. Served(r2)
  BY <1>5, <1>6, <1>7 DEF Served
<1>9. QED BY <1>8 DEF r2, Served, Registers, Answered, Timely, Mine, All

\* A JoinGame registers the channel.
LEMMA JoinServed ==
    ASSUME TypeOK, Serving, NEW s \in Sessions, joinFilter(s), session[s].at \in {"loop", "join"}
    PROVE  Served(session[s])'
<1> DEFINE r == session[s]
           r2 == session'[s]
<1>1. /\ Only(s) /\ Adds(r.queue, r2.queue, {Register}) /\ r2.conn = r.conn
      /\ r2.asked = r.asked /\ r2.got = r.got
      /\ \/ r2.at = "over"
         \/ r2.at = "loop" /\ \E i \in DOMAIN r2.queue : r2.queue[i].k = "register"
  BY JoinIs
<1>2. r \in Handler /\ r2 \in Handler /\ Served(r) /\ r.at \in {"loop", "join"}
  BY <1>1 DEF TypeOK, Only, Serving
<1> HIDE DEF r, r2
<1>3. {Register} \subseteq NoAnswer
  BY Commands
<1>4. Registers(r2)
  BY <1>1 DEF Registers
<1>5. Answered(r2)
  BY <1>1, <1>2, <1>3, AddsAnswered DEF Served
<1>6. Timely(r2)
  <2>1. r.queue \in Seq(Command) /\ r2.queue \in Seq(Command)
    BY <1>2 DEF Handler
  <2>2. PICK b \in Nat, b2 \in Nat : b = Len(r.queue) /\ b2 = Len(r2.queue)
    BY <2>1
  <2>3. /\ DOMAIN r.queue = 1 .. b /\ DOMAIN r2.queue = 1 .. b2 /\ b <= b2
        /\ \A i \in 1 .. b : r2.queue[i] = r.queue[i]
        /\ \A i \in b + 1 .. b2 : r2.queue[i] \in NoAnswer
    BY <1>1, <1>3, <2>1, <2>2 DEF Adds
  <2>4. \A i \in 1 .. b2 : i \in 1 .. b \/ i \in b + 1 .. b2
    OBVIOUS
  <2>5. \A i \in DOMAIN r2.queue : r2.queue[i].k = "answer" => r2.queue[i].conn \in 1 .. r2.conn
    BY <1>1, <1>2, <2>3, <2>4 DEF Served, Timely, NoAnswer
  <2>6. QED BY <1>1, <1>2, <2>5 DEF Served, Timely
<1>7. Served(r2)
  BY <1>4, <1>5, <1>6 DEF Served
<1>8. QED BY <1>7 DEF r2, Served, Registers, Answered, Timely, Mine, All

\* A session that connects has asked nothing.
LEMMA ConnectServed ==
    ASSUME TypeOK, Serving, NEW s \in Sessions, Connect(s)
    PROVE  Served(session[s])'
<1> DEFINE r == session[s]
           r2 == session'[s]
<1>1. /\ Only(s) /\ r.at = "new" /\ r2.at = "loop" /\ r2.conn = 1 /\ r2.joined = r.joined
      /\ r2.queue = r.queue /\ r2.asked = r.asked /\ r2.got = r.got
  BY ConnectIs
<1>2. r \in Handler /\ r2 \in Handler /\ Served(r)
  BY <1>1 DEF TypeOK, Only, Serving
<1> HIDE DEF r, r2
<1>3. /\ r.conn = 0 /\ ~r.joined /\ r.asked = <<>> /\ r.got = <<>>
      /\ \A i \in DOMAIN r.queue : r.queue[i].k = "answer" => r.queue[i].conn \in 1 .. 0
  BY <1>1, <1>2 DEF Served, Timely
<1>4. \A i \in DOMAIN r2.queue : r2.queue[i].k # "answer"
  BY <1>1, <1>3
<1>5. Answered(r2)
  BY <1>1, <1>2, <1>3, <1>4, NoneAnswered
<1>6. Registers(r2) /\ Timely(r2)
  BY <1>1, <1>3, <1>4 DEF Registers, Timely
<1>7. Served(r2)
  BY <1>5, <1>6 DEF Served
<1>8. QED BY <1>7 DEF r2, Served, Registers, Answered, Timely, Mine, All

\* Nobody is connected at first.
LEMMA InitServing == Init => Serving
<1> SUFFICES ASSUME Init, NEW s \in Sessions PROVE Served(session[s])
  BY DEF Serving
<1>1. session[s] = NewSession
  BY DEF Init
<1>2. /\ session[s].at = "new" /\ session[s].conn = 0 /\ ~session[s].joined
      /\ session[s].queue = <<>> /\ session[s].asked = <<>> /\ session[s].got = <<>>
  BY <1>1 DEF NewSession
<1>3. session[s] \in Handler
  BY InitShaped DEF Shaped, TypeOK
<1>4. Registers(session[s]) /\ Timely(session[s])
  BY <1>2 DEF Registers, Timely
<1>5. Answered(session[s])
  BY <1>2, <1>3, NoneAnswered
<1>6. QED BY <1>4, <1>5 DEF Served

\* A quiet step of one session serves everybody as before.
LEMMA EffectServing ==
    ASSUME TypeOK, Serving, NEW s \in Sessions, NEW C, C \subseteq NoAnswer, Effect(s, C)
    PROVE  Serving'
<1>1. ASSUME NEW p \in Sessions
      PROVE  Served(session[p])'
  <2> DEFINE r2 == session'[p]
  <2>1. session[p] \in Handler /\ r2 \in Handler /\ Served(session[p])
    BY DEF TypeOK, Effect, Serving
  <2>2. Kept(session[p], r2) /\ Adds(session[p].queue, r2.queue, C)
    BY DEF Effect, Quiet
  <2> HIDE DEF r2
  <2>3. Served(r2)
    BY <2>1, <2>2, AddsServed
  <2>4. QED BY <2>3 DEF r2, Served, Registers, Answered, Timely, Mine, All
<1>2. QED BY <1>1 DEF Serving

\* A session that a step leaves alone is served as before.
LEMMA SameServed ==
    ASSUME NEW p \in Sessions, session'[p] = session[p], Served(session[p])
    PROVE  Served(session[p])'
<1> DEFINE r2 == session'[p]
<1>1. r2 = session[p]
  OBVIOUS
<1> HIDE DEF r2
<1>2. Served(r2)
  BY <1>1
<1>3. QED BY <1>2 DEF r2, Served, Registers, Answered, Timely, Mine, All

\* Where one session changes it is enough to look at that one.
LEMMA OnlyServing ==
    ASSUME TypeOK, Serving, NEW s \in Sessions, Only(s), Served(session[s])'
    PROVE  Serving'
<1>1. ASSUME NEW p \in Sessions
      PROVE  Served(session[p])'
  <2>1. CASE p = s
    BY <2>1
  <2>2. CASE p # s
    <3>1. session'[p] = session[p]
      BY <2>2 DEF Only
    <3>2. Served(session[p])
      BY DEF Serving
    <3>3. QED BY <3>1, <3>2, SameServed
  <2>3. QED BY <2>1, <2>2
<1>2. QED BY <1>1 DEF Serving

\* Every step keeps everybody served.
LEMMA StepServing == Shaped /\ Serving /\ [Next]_vars => Serving'
<1> SUFFICES ASSUME Shaped, Serving, [Next]_vars PROVE Serving'
  OBVIOUS
<1>0. TypeOK /\ session \in [Sessions -> Handler] /\ work \in Nat
  BY DEF Shaped, TypeOK
<1>1. CASE Edit \/ UNCHANGED vars
  <2>1. session' = session
    BY <1>1 DEF Edit, vars
  <2>2. ASSUME NEW p \in Sessions
        PROVE  Served(session[p])'
    <3>1. session'[p] = session[p] /\ Served(session[p])
      BY <2>1 DEF Serving
    <3>2. QED BY <3>1, SameServed
  <2>3. QED BY <2>2 DEF Serving
<1>2. Idle \subseteq NoAnswer
  BY DEF Idle
<1>3. ASSUME NEW s \in Sessions, Connect(s)
      PROVE  Serving'
  BY <1>0, <1>3, ConnectIs, ConnectServed, OnlyServing
<1>4. ASSUME NEW s \in Sessions, Leave(s) \/ ConnectFails(s)
      PROVE  Serving'
  <2>1. End(s) /\ session[s].at # "new"
    BY <1>4 DEF Leave, ConnectFails
  <2>2. Effect(s, {})
    BY <1>0, <2>1, EndEffect
  <2>3. QED BY <1>0, <2>2, EffectServing
<1>5. ASSUME NEW s \in Sessions, JoinGame(s)
      PROVE  Serving'
  <2>1. joinFilter(s) /\ session[s].at \in {"loop", "join"}
    BY <1>5 DEF JoinGame
  <2>2. Only(s)
    BY <1>0, <2>1, JoinIs
  <2>3. QED BY <1>0, <2>1, <2>2, JoinServed, OnlyServing
<1>6. ASSUME NEW s \in Sessions, Execute(s)
      PROVE  Serving'
  <2>1. Only(s)
    BY <1>0, <1>6, ExecuteIs
  <2>2. QED BY <1>0, <1>6, <2>1, ExecuteServed, OnlyServing
<1>7. ASSUME NEW s \in Sessions, Query(s)
      PROVE  Serving'
  <2>1. Only(s)
    BY <1>0, <1>7, QueryIs
  <2>2. QED BY <1>0, <1>7, <2>1, QueryServed, OnlyServing
<1>8. ASSUME NEW s \in Sessions, SendDone(s) \/ ReadUpstreams(s) \/ SwapUpstreams(s)
      PROVE  Serving'
  <2>1. Effect(s, Idle)
    BY <1>0, <1>8, SendDoneEffect, ReadEffect, SwapEffect
  <2>2. QED BY <1>0, <1>2, <2>1, EffectServing
<1>9. ASSUME NEW s \in Sessions, NEW to, SendAll(s, to) \/ SendChatMessage(s, to)
      PROVE  Serving'
  <2>1. Effect(s, Idle)
    BY <1>0, <1>9, SendAllEffect, ChatEffect
  <2>2. QED BY <1>0, <1>2, <2>1, EffectServing
<1>10. ASSUME NEW s \in Sessions, NEW to, NEW plugin \in BOOLEAN, Switch(s, to, plugin)
       PROVE  Serving'
  <2>1. Effect(s, Idle)
    BY <1>0, <1>10, SwitchEffect
  <2>2. QED BY <1>0, <1>2, <2>1, EffectServing
<1>11. ASSUME NEW s \in Sessions, NEW p \in Sessions, SendNext(s, p)
       PROVE  Serving'
  <2>1. Effect(s, {Reconnect(session[s].n)})
    BY <1>0, <1>11, SendNextEffect
  <2>2. session[s].n \in Nat
    BY <1>0 DEF Handler
  <2>3. {Reconnect(session[s].n)} \subseteq NoAnswer
    BY <2>2, Commands
  <2>4. QED BY <1>0, <2>1, <2>3, EffectServing
<1>12. ASSUME NEW s \in Sessions, NEW p \in Sessions, NEW to, NEW plugin \in BOOLEAN,
              SendOne(s, p, to, plugin)
       PROVE  Serving'
  <2>1. Effect(s, Idle \cup {Reconnect(work')})
    BY <1>0, <1>12, SendOneEffect
  <2>2. work' \in Nat
    <3>1. work' = work + 1
      BY <1>12 DEF SendOne, Work
    <3>2. QED BY <1>0, <3>1
  <2>3. Idle \cup {Reconnect(work')} \subseteq NoAnswer
    BY <1>2, <2>2, Commands
  <2>4. QED BY <1>0, <2>1, <2>3, EffectServing
<1>13. QED
  BY <1>1, <1>3, <1>4, <1>5, <1>6, <1>7, <1>8, <1>9, <1>10, <1>11, <1>12 DEF Next

\* A server that has let a player join gets the registration of its channel, and what it
\* asks is answered in order and once, for any number of sessions and capacity of the
\* queues, and however often the player moves on.
THEOREM ServersAreServed == Spec => []ServerServed
<1>1. Serving => ServerServed
  <2> SUFFICES ASSUME Serving PROVE ServerServed
    OBVIOUS
  <2>1. \A s \in Sessions : Registers(session[s]) /\ Answered(session[s])
    BY DEF Serving, Served
  <2>2. Registered
    BY <2>1 DEF Registered, Registers, Queued
  <2>3. AnswersInOrder
    BY <2>1 DEF AnswersInOrder, Answered, Mine, All
  <2>4. QED BY <2>2, <2>3 DEF ServerServed
<1>2. QED BY <1>1, InitServing, StepServing, ShapedHolds, PTL DEF Spec

-----------------------------------------------------------------------------
(* Sequences of sequences in a row.                                        *)

\* A set of numbers that is not empty has a least one.
LEMMA Least ==
    ASSUME NEW T \in SUBSET Nat, T # {}
    PROVE  \E x \in T : \A y \in T : x <= y
<1> DEFINE Segments == {1 .. x : x \in T}
<1>1. Segments \subseteq FiniteSubsetsOf(Nat) /\ Segments # {}
  <2>1. ASSUME NEW x \in T
        PROVE  1 .. x \in FiniteSubsetsOf(Nat)
    BY FS_Interval DEF FiniteSubsetsOf
  <2>2. QED BY <2>1
<1>2. \E d \in Segments : \A e \in Segments : <<e, d>> \notin StrictSubsetOrdering(Nat)
  <2>1. IsWellFoundedOn(StrictSubsetOrdering(Nat), FiniteSubsetsOf(Nat))
    BY FS_StrictSubsetOrderingWellFounded
  <2>2. QED BY <1>1, <2>1, WFMin, Zenon
<1>3. PICK x \in T : \A y \in T : <<1 .. y, 1 .. x>> \notin StrictSubsetOrdering(Nat)
  BY <1>2
<1>4. ASSUME NEW y \in T, y < x
      PROVE  FALSE
  <2>1. x \in 1 .. x /\ x \notin 1 .. y
    BY <1>4
  <2>2. 1 .. y \subseteq 1 .. x /\ 1 .. y # 1 .. x
    BY <2>1, <1>4
  <2>3. 1 .. y \in SUBSET Nat /\ 1 .. x \in SUBSET Nat
    OBVIOUS
  <2>4. QED BY <2>2, <2>3, <1>3 DEF StrictSubsetOrdering
<1>5. QED BY <1>4

\* Induction, with the property as a set.
LEMMA Induction ==
    ASSUME NEW P \in SUBSET Nat, 0 \in P, \A n \in P : n + 1 \in P
    PROVE  \A n \in Nat : n \in P
<1> DEFINE T == Nat \ P
<1>1. SUFFICES ASSUME T # {} PROVE FALSE
  OBVIOUS
<1>2. PICK x \in T : \A y \in T : x <= y
  BY <1>1, Least
<1>3. x \in Nat /\ x # 0
  OBVIOUS
<1>4. x - 1 \in P
  BY <1>2, <1>3
<1>5. QED BY <1>4, <1>3

\* step gives the i-th value of a function from the one before it.
Steps(step, S) == step \in [Nat -> [S -> S]]
\* f is the function on 0 .. n that has it as its step.
Follows(f, n, start, step) == f[0] = start /\ \A i \in 1 .. n : f[i] = step[i][f[i - 1]]

\* A function on 0 .. n can be defined by recursion: by its value at 0 and by a step that
\* gives a value from the one before it.
LEMMA Recursion ==
    ASSUME NEW S, NEW start \in S, NEW step, Steps(step, S), NEW n \in Nat
    PROVE  \E f \in [0 .. n -> S] : Follows(f, n, start, step)
<1> DEFINE Fits(f, k) == f[0] = start /\ \A i \in 1 .. k : f[i] = step[i][f[i - 1]]
           P == {k \in Nat : \E f \in [0 .. k -> S] : Fits(f, k)}
<1>1. 0 \in P
  <2>1. [i \in 0 .. 0 |-> start] \in [0 .. 0 -> S] /\ Fits([i \in 0 .. 0 |-> start], 0)
    OBVIOUS
  <2>2. QED BY <2>1
<1>2. ASSUME NEW k \in P PROVE k + 1 \in P
  <2>1. PICK f \in [0 .. k -> S] : Fits(f, k)
    OBVIOUS
  <2>2. f[k] \in S /\ step[k + 1][f[k]] \in S
    BY DEF Steps
  <2> DEFINE g == [i \in 0 .. k + 1 |-> IF i = k + 1 THEN step[k + 1][f[k]] ELSE f[i]]
  <2>3. g \in [0 .. k + 1 -> S]
    BY <2>2
  <2>4. g[0] = start
    BY <2>1
  <2>5. ASSUME NEW i \in 1 .. k + 1 PROVE g[i] = step[i][g[i - 1]]
    <3>1. CASE i = k + 1
      BY <3>1
    <3>2. CASE i # k + 1
      <4>1. i \in 1 .. k /\ i - 1 \in 0 .. k /\ i \in 0 .. k + 1 /\ i - 1 \in 0 .. k + 1 /\ i - 1 # k + 1
        BY <3>2
      <4>2. g[i] = f[i] /\ g[i - 1] = f[i - 1]
        BY <4>1, <3>2
      <4>3. QED BY <4>1, <4>2, <2>1
    <3>3. QED BY <3>1, <3>2
  <2> HIDE DEF g
  <2>6. Fits(g, k + 1)
    BY <2>4, <2>5
  <2> HIDE DEF Fits
  <2>7. QED BY <2>3, <2>6
<1> HIDE DEF P
<1>3. P \in SUBSET Nat
  BY DEF P
<1>4. n \in P
  BY <1>1, <1>2, <1>3, Induction
<1>5. QED BY <1>4 DEF P, Follows

\* Two functions begin alike, and go on alike where they were alike before.
Alike(f, g, n) == f[0] = g[0] /\ \A i \in 1 .. n : f[i - 1] = g[i - 1] => f[i] = g[i]

\* Then they are alike at the end: a recursive function is the one that satisfies its equation.
LEMMA AlikeAtEnd ==
    ASSUME NEW n \in Nat, NEW f, NEW g, Alike(f, g, n)
    PROVE  f[n] = g[n]
<1> DEFINE T == {i \in 0 .. n : f[i] # g[i]}
<1>1. SUFFICES ASSUME T # {} PROVE FALSE
  OBVIOUS
<1>2. T \in SUBSET Nat
  OBVIOUS
<1>3. PICK x \in T : \A y \in T : x <= y
  <2> HIDE DEF T
  <2>1. QED BY <1>1, <1>2, Least
<1>4. x # 0 /\ x \in 1 .. n
  BY DEF Alike
<1>5. x - 1 \in 0 .. n /\ x - 1 \notin T
  BY <1>3, <1>4
<1>6. QED BY <1>4, <1>5 DEF Alike


\* Java!FlattenSeq is a recursive function of the number of sequences that are in the row so far.
LEMMA FlattenFunction ==
    ASSUME NEW S, NEW q \in Seq(Seq(S)), q # <<>>
    PROVE  \E f \in [0 .. Len(q) - 1 -> Seq(S)] :
               /\ f[0] = q[1] /\ \A i \in 1 .. Len(q) - 1 : f[i] = f[i - 1] \o q[i + 1]
               /\ Java!FlattenSeq(q) = f[Len(q) - 1]
<1> DEFINE n == Len(q)
           T == Seq(S)
           step == [i \in Nat |-> [x \in T |-> IF i + 1 \in 1 .. n THEN x \o q[i + 1] ELSE x]]
           F(g) == [i \in 1 .. n |-> IF i = 1 THEN q[i] ELSE g[i - 1] \o q[i]]
           g == CHOOSE h : h = F(h)
<1>1. n \in Nat \ {0} /\ \A i \in 1 .. n : q[i] \in T
  BY EmptySeq
<1>2. \A x \in T, y \in T : x \o y \in T
  OBVIOUS
<1>3. Steps(step, T)
  <2> HIDE DEF T
  <2>1. QED BY <1>1, <1>2 DEF Steps
<1>4. \A i \in 1 .. n - 1, x \in T : step[i][x] = x \o q[i + 1]
  OBVIOUS
<1> DEFINE start == q[1]
           m == n - 1
<1>5. m \in Nat /\ start \in T
  BY <1>1
<1> HIDE DEF step, T
<1>6. \E f \in [0 .. m -> T] : Follows(f, m, start, step)
  <2> HIDE DEF m, start
  <2>1. QED BY <1>3, <1>5, Recursion
<1>7. PICK f \in [0 .. m -> T] : Follows(f, m, start, step)
  BY <1>6
<1>8. f[0] = q[1] /\ \A i \in 1 .. n - 1 : f[i] = f[i - 1] \o q[i + 1]
  <2>1. ASSUME NEW i \in 1 .. n - 1 PROVE f[i] = f[i - 1] \o q[i + 1]
    <3>1. i - 1 \in 0 .. m
      BY <1>1
    <3>2. f[i - 1] \in T
      BY <1>7, <3>1
    <3>3. f[i] = step[i][f[i - 1]]
      BY <1>7 DEF Follows
    <3>4. QED BY <3>2, <3>3, <1>4
  <2>2. QED BY <2>1, <1>7 DEF Follows
<1>9. \E h : h = F(h)
  <2> DEFINE h == [i \in 1 .. n |-> f[i - 1]]
  <2>1. ASSUME NEW i \in 1 .. n PROVE h[i] = F(h)[i]
    <3>1. CASE i = 1
      BY <3>1, <1>1, <1>8
    <3>2. CASE i # 1
      <4>1. i - 1 \in 1 .. n - 1 /\ i - 1 \in 1 .. n /\ (i - 1) + 1 = i
        BY <1>1, <3>2
      <4>2. h[i] = f[i - 1] /\ h[i - 1] = f[i - 1 - 1]
        BY <4>1
      <4>3. f[i - 1] = f[i - 1 - 1] \o q[i]
        BY <1>8, <4>1
      <4> HIDE DEF h
      <4>4. QED BY <3>2, <4>2, <4>3
    <3>3. QED BY <3>1, <3>2
  <2>2. h = F(h)
    BY <2>1
  <2>3. QED BY <2>2
<1>10. g = F(g)
  <2> HIDE DEF F
  <2>1. QED BY <1>9
<1>11. Java!FlattenSeq(q) = g[n]
  BY <1>1 DEF Java!FlattenSeq
<1> HIDE DEF g
<1> DEFINE h == [i \in 0 .. m |-> g[i + 1]]
<1>12. Alike(h, f, m)
  <2>1. h[0] = f[0]
    BY <1>1, <1>8, <1>10
  <2>2. ASSUME NEW i \in 1 .. m, h[i - 1] = f[i - 1] PROVE h[i] = f[i]
    <3>1. i - 1 \in 0 .. m /\ i \in 0 .. m /\ i + 1 \in 1 .. n /\ i + 1 # 1 /\ (i + 1) - 1 = i /\ (i - 1) + 1 = i
      BY <1>1
    <3>2. h[i] = g[i + 1] /\ h[i - 1] = g[i]
      BY <3>1
    <3>3. g[i + 1] = g[i] \o q[i + 1]
      BY <1>10, <3>1
    <3> HIDE DEF h
    <3>4. QED BY <2>2, <3>2, <3>3, <1>8
  <2>3. QED BY <2>1, <2>2 DEF Alike
<1>2a. h[m] = f[m] /\ h[m] = g[n]
  <2>1. h[m] = g[n]
    BY <1>1
  <2> HIDE DEF h, m
  <2>2. h[m] = f[m]
    BY <1>5, <1>12, AlikeAtEnd
  <2>3. QED BY <2>1, <2>2
<1>14. QED BY <1>7, <1>8, <1>11, <1>2a DEF T

\* One more sequence goes behind the others.
LEMMA FlattenAppend ==
    ASSUME NEW S, NEW q \in Seq(Seq(S)), NEW e \in Seq(S)
    PROVE  /\ Java!FlattenSeq(q) \in Seq(S)
           /\ Java!FlattenSeq(Append(q, e)) = Java!FlattenSeq(q) \o e
<1>1. CASE q = <<>>
  <2>1. Append(q, e) = <<e>> /\ <<e>> \in Seq(Seq(S)) /\ <<e>> # <<>> /\ Len(<<e>>) = 1 /\ <<e>>[1] = e
    BY <1>1
  <2> DEFINE one == <<e>>
  <2>2. one \in Seq(Seq(S)) /\ one # <<>> /\ Len(one) = 1 /\ one[1] = e
    BY <2>1
  <2> HIDE DEF one
  <2>3. Java!FlattenSeq(one) = e
    <3>1. \E f \in [0 .. Len(one) - 1 -> Seq(S)] :
               /\ f[0] = one[1] /\ \A i \in 1 .. Len(one) - 1 : f[i] = f[i - 1] \o one[i + 1]
               /\ Java!FlattenSeq(one) = f[Len(one) - 1]
      BY <2>2, FlattenFunction
    <3>2. QED BY <2>2, <3>1
  <2>4. Java!FlattenSeq(q) = <<>>
    BY <1>1 DEF Java!FlattenSeq
  <2>5. <<>> \o e = e /\ <<>> \in Seq(S)
    OBVIOUS
  <2>6. QED BY <2>1, <2>3, <2>4, <2>5 DEF one
<1>2. CASE q # <<>>
  <2> DEFINE r == Append(q, e)
             n == Len(q)
  <2>1. /\ n \in Nat \ {0} /\ r \in Seq(Seq(S)) /\ r # <<>> /\ Len(r) = n + 1
        /\ r[n + 1] = e /\ \A i \in 1 .. n : r[i] = q[i]
    BY <1>2, EmptySeq
  <2> HIDE DEF r
  <2>2. PICK f \in [0 .. Len(q) - 1 -> Seq(S)] :
               /\ f[0] = q[1] /\ \A i \in 1 .. Len(q) - 1 : f[i] = f[i - 1] \o q[i + 1]
               /\ Java!FlattenSeq(q) = f[Len(q) - 1]
    BY <1>2, FlattenFunction
  <2>3. PICK g \in [0 .. Len(r) - 1 -> Seq(S)] :
               /\ g[0] = r[1] /\ \A i \in 1 .. Len(r) - 1 : g[i] = g[i - 1] \o r[i + 1]
               /\ Java!FlattenSeq(r) = g[Len(r) - 1]
    <3>1. \E g \in [0 .. Len(r) - 1 -> Seq(S)] :
               /\ g[0] = r[1] /\ \A i \in 1 .. Len(r) - 1 : g[i] = g[i - 1] \o r[i + 1]
               /\ Java!FlattenSeq(r) = g[Len(r) - 1]
      BY <2>1, FlattenFunction
    <3>2. QED BY <3>1
  <2> DEFINE m == n - 1
  <2>4. Alike(g, f, m)
    <3>1. g[0] = f[0]
      BY <2>1, <2>2, <2>3
    <3>2. ASSUME NEW i \in 1 .. m, g[i - 1] = f[i - 1] PROVE g[i] = f[i]
      <4>1. i \in 1 .. Len(r) - 1 /\ i \in 1 .. Len(q) - 1 /\ i + 1 \in 1 .. n
        BY <2>1
      <4>2. g[i] = g[i - 1] \o r[i + 1] /\ r[i + 1] = q[i + 1] /\ f[i] = f[i - 1] \o q[i + 1]
        BY <4>1, <2>1, <2>2, <2>3
      <4>3. QED BY <3>2, <4>2
    <3>3. QED BY <3>1, <3>2 DEF Alike
  <2>5. m \in Nat
    BY <2>1
  <2>6. g[m] = f[m]
    <3> HIDE DEF m
    <3>1. QED BY <2>4, <2>5, AlikeAtEnd
  <2>7. g[n] = g[m] \o e
    <3>1. n \in 1 .. Len(r) - 1
      BY <2>1
    <3>2. QED BY <2>1, <2>3, <3>1
  <2>8. Java!FlattenSeq(q) = f[m] /\ Java!FlattenSeq(r) = g[n] /\ f[m] \in Seq(S)
    <3>1. Len(r) - 1 = n /\ m \in 0 .. Len(q) - 1
      BY <2>1
    <3>2. QED BY <2>2, <2>3, <3>1
  <2>9. QED BY <2>6, <2>7, <2>8 DEF r
<1>3. QED BY <1>1, <1>2

-----------------------------------------------------------------------------
(* The strings of plugin messages.                                         *)

Byte == {b \in Nat : b <= 255}

\* The bytes e are in w from place i on.
Holds(w, i, e) == \A j \in 1 .. Len(e) : w[i + j - 1] = e[j]

\* Every character begins in w where the one before it ends.
Starts(s, w, st) ==
    /\ st \in [1 .. Len(s) + 1 -> Nat] /\ st[1] = 1 /\ Len(w) = st[Len(s) + 1] - 1
    /\ \A k, l \in 1 .. Len(s) + 1 : k < l => st[k] < st[l]
    /\ \A k \in 1 .. Len(s) : /\ st[k + 1] = st[k] + Len(Java!WriteChar(s[k]))
                              /\ st[k + 1] <= Len(w) + 1
                              /\ Holds(w, st[k], Java!WriteChar(s[k]))
    /\ \A i \in 1 .. Len(w) : \E k \in 1 .. Len(s) : st[k] <= i /\ i < st[k + 1]

\* Code points that one UTF-16 unit is enough for, without the halves of two.
Small == {c \in Nat : c <= 65535 /\ ~Java!Surrogate(c)}
Laid(s, w) == s \in Seq(Small) /\ w \in Seq(Byte) /\ \E st : Starts(s, w, st)

\* A number is made of its digits.
LEMMA Digits64 ==
    ASSUME NEW c \in Nat, c <= 65535
    PROVE  \E high, mid, low \in Nat :
               /\ high < 16 /\ mid < 64 /\ low < 64 /\ c = high * 4096 + mid * 64 + low
               /\ c % 64 = low /\ (c \div 64) % 64 = mid /\ (c \div 4096) % 16 = high
<1>1. c % 64 \in Nat /\ c % 64 < 64
  OBVIOUS
<1>2. c \div 4096 \in Nat /\ c \div 4096 < 16 /\ (c \div 4096) % 16 = c \div 4096
  OBVIOUS
<1>3. (c \div 64) % 64 \in Nat /\ (c \div 64) % 64 < 64
  OBVIOUS
<1>4. c = (c \div 4096) * 4096 + ((c \div 64) % 64) * 64 + (c % 64)
  OBVIOUS
<1> DEFINE low == c % 64
           mid == (c \div 64) % 64
           high == c \div 4096
<1>5. /\ low \in Nat /\ mid \in Nat /\ high \in Nat /\ low < 64 /\ mid < 64 /\ high < 16
      /\ c = high * 4096 + mid * 64 + low /\ (c \div 4096) % 16 = high
  BY <1>1, <1>2, <1>3, <1>4
<1>6. c % 64 = low /\ (c \div 64) % 64 = mid
  OBVIOUS
<1> HIDE DEF low, mid, high
<1>7. QED BY <1>5, <1>6

\* A number in five and six bits.
LEMMA Digits32 ==
    ASSUME NEW c \in Nat, c <= 2047
    PROVE  \E up, low \in Nat :
               up < 32 /\ low < 64 /\ c = up * 64 + low /\ c % 64 = low /\ (c \div 64) % 32 = up
<1>1. c % 64 \in Nat /\ c % 64 < 64
  OBVIOUS
<1>2. c \div 64 \in Nat /\ c \div 64 < 32 /\ (c \div 64) % 32 = c \div 64
  OBVIOUS
<1>3. c = (c \div 64) * 64 + (c % 64)
  OBVIOUS
<1> DEFINE low == c % 64
           up == c \div 64
<1>4. low \in Nat /\ up \in Nat /\ low < 64 /\ up < 32 /\ c = up * 64 + low /\ (c \div 64) % 32 = up
  BY <1>1, <1>2, <1>3
<1>5. c % 64 = low
  OBVIOUS
<1> HIDE DEF low, up
<1>6. QED BY <1>4, <1>5

\* A character is encoded as one to three bytes.
Encodes(c, e) ==
    \/ c > 0 /\ c <= 127 /\ e = <<c>>
    \/ \E up, low \in Nat :
           up < 32 /\ low < 64 /\ c = up * 64 + low /\ e = <<192 + up, 128 + low>>
    \/ \E high, mid, low \in Nat :
           /\ high < 16 /\ mid < 64 /\ low < 64
           /\ c = high * 4096 + mid * 64 + low /\ e = <<224 + high, 128 + mid, 128 + low>>

\* What WriteChar writes of a character has the digits of its number.
LEMMA WriteCharEncodes ==
    ASSUME NEW c \in Nat, c <= 65535
    PROVE  Encodes(c, Java!WriteChar(c))
<1>1. CASE c <= 127 /\ c # 0
  <2>1. c > 0 /\ c <= 127 /\ Java!WriteChar(c) = <<c>>
    BY <1>1 DEF Java!WriteChar, Java!One
  <2>2. QED BY <2>1 DEF Encodes
<1>2. CASE ~(c <= 127 /\ c # 0) /\ c <= 2047
  <2>1. c \in Nat /\ c <= 2047
    BY <1>2
  <2>2. PICK up, low \in Nat :
               up < 32 /\ low < 64 /\ c = up * 64 + low /\ c % 64 = low /\ (c \div 64) % 32 = up
    BY <2>1, Digits32
  <2>3. Java!WriteChar(c) = Java!Two(c)
    BY <1>2 DEF Java!WriteChar
  <2>4. Java!Two(c) = <<192 + up, 128 + low>>
    BY <2>2 DEF Java!Two
  <2>5. QED BY <2>2, <2>3, <2>4 DEF Encodes
<1>3. CASE ~(c <= 127 /\ c # 0) /\ ~(c <= 2047)
  <2>1. PICK high, mid, low \in Nat :
               /\ high < 16 /\ mid < 64 /\ low < 64 /\ c = high * 4096 + mid * 64 + low
               /\ c % 64 = low /\ (c \div 64) % 64 = mid /\ (c \div 4096) % 16 = high
    BY Digits64
  <2>2. Java!WriteChar(c) = Java!Three(c)
    BY <1>3 DEF Java!WriteChar
  <2>3. Java!Three(c) = <<224 + high, 128 + mid, 128 + low>>
    BY <2>1 DEF Java!Three
  <2>4. QED BY <2>1, <2>2, <2>3 DEF Encodes
<1>4. QED BY <1>1, <1>2, <1>3

\* What the loop of ReadJavaUTF makes of n bytes at place i.
Decoded(w, i, n) ==
    Java!Rune(CASE n = 1 -> w[i]
                [] n = 2 -> (w[i] % 32) * 64 + (w[i + 1] % 64)
                [] n = 3 -> (w[i] % 16) * 4096 + (w[i + 1] % 64) * 64 + (w[i + 2] % 64))

\* The first byte says how many there are, the others are no first bytes, and together they
\* give the character.
Decodes(c, e, w, i) ==
    /\ e \in Seq(Byte) /\ Len(e) \in 1 .. 3
    /\ Java!CharSize(w[i]) = Len(e) /\ Decoded(w, i, Len(e)) = c
    /\ \A j \in 2 .. Len(e) : Java!CharSize(w[i + j - 1]) = 0

\* And they are read back where they stand, by a size that only the first byte has.
LEMMA CharBack ==
    ASSUME NEW c \in Small, NEW e, Encodes(c, e), NEW w, NEW i \in Nat, Holds(w, i, e)
    PROVE  Decodes(c, e, w, i)
<1>1. c \in Nat /\ c <= 65535 /\ Java!Rune(c) = c
  BY DEF Small, Java!Rune
<1>2. CASE c > 0 /\ c <= 127 /\ e = <<c>>
  <2>1. Len(e) = 1 /\ e[1] = c /\ c \in Byte /\ e \in Seq(Byte)
    BY <1>1, <1>2 DEF Byte
  <2>2. w[i] = c
    BY <2>1 DEF Holds
  <2>3. Java!CharSize(c) = 1
    BY <1>1, <1>2 DEF Java!CharSize
  <2>4. QED BY <1>1, <2>1, <2>2, <2>3 DEF Decoded, Decodes
<1>3. ASSUME NEW up \in Nat, NEW low \in Nat, up < 32, low < 64, c = up * 64 + low,
             e = <<192 + up, 128 + low>>
      PROVE  Decodes(c, e, w, i)
  <2>1. 192 + up \in Byte /\ 128 + low \in Byte
    BY <1>3 DEF Byte
  <2>2. Len(e) = 2 /\ e[1] = 192 + up /\ e[2] = 128 + low /\ e \in Seq(Byte)
    BY <1>3, <2>1
  <2>3. w[i] = 192 + up /\ w[i + 1] = 128 + low
    BY <2>2 DEF Holds
  <2>4. (192 + up) % 32 = up /\ (128 + low) % 64 = low
    BY <1>3
  <2>5. Java!CharSize(192 + up) = 2 /\ Java!CharSize(128 + low) = 0
    BY <1>3 DEF Java!CharSize
  <2>6. Decoded(w, i, 2) = Java!Rune(up * 64 + low)
    BY <2>3, <2>4 DEF Decoded
  <2>7. \A j \in 2 .. 2 : w[i + j - 1] = 128 + low
    BY <2>3
  <2>8. QED BY <1>1, <1>3, <2>2, <2>3, <2>5, <2>6, <2>7 DEF Decodes
<1>4. ASSUME NEW high \in Nat, NEW mid \in Nat, NEW low \in Nat, high < 16, mid < 64, low < 64,
             c = high * 4096 + mid * 64 + low, e = <<224 + high, 128 + mid, 128 + low>>
      PROVE  Decodes(c, e, w, i)
  <2>1. 224 + high \in Byte /\ 128 + low \in Byte /\ 128 + mid \in Byte
    BY <1>4 DEF Byte
  <2>2. /\ Len(e) = 3 /\ e[1] = 224 + high /\ e[2] = 128 + mid /\ e[3] = 128 + low
        /\ e \in Seq(Byte)
    BY <1>4, <2>1
  <2>3. w[i] = 224 + high /\ w[i + 1] = 128 + mid /\ w[i + 2] = 128 + low
    BY <2>2 DEF Holds
  <2>4. (224 + high) % 16 = high /\ (128 + mid) % 64 = mid /\ (128 + low) % 64 = low
    BY <1>4
  <2>5. /\ Java!CharSize(224 + high) = 3 /\ Java!CharSize(128 + low) = 0
        /\ Java!CharSize(128 + mid) = 0
    BY <1>4 DEF Java!CharSize
  <2>6. Decoded(w, i, 3) = Java!Rune(high * 4096 + mid * 64 + low)
    BY <2>3, <2>4 DEF Decoded
  <2>7. \A j \in 2 .. 3 : w[i + j - 1] = 128 + mid \/ w[i + j - 1] = 128 + low
    BY <2>3
  <2>8. QED BY <1>1, <1>4, <2>2, <2>3, <2>5, <2>6, <2>7 DEF Decodes
<1>5. QED BY <1>2, <1>3, <1>4 DEF Encodes

\* An encoded character is a sequence of bytes.
LEMMA CharBytes ==
    ASSUME NEW c \in Small
    PROVE  Java!WriteChar(c) \in Seq(Byte) /\ Len(Java!WriteChar(c)) \in 1 .. 3
<1> DEFINE e == Java!WriteChar(c)
<1>1. Holds(e, 1, e)
  BY DEF Holds
<1>2. Encodes(c, e)
  BY WriteCharEncodes DEF Small
<1> HIDE DEF e
<1>3. Decodes(c, e, e, 1)
  BY <1>1, <1>2, CharBack
<1>4. QED BY <1>3 DEF Decodes, e

\* No text lies in no bytes.
LEMMA LaidEmpty == Laid(<<>>, <<>>)
<1> DEFINE st == [k \in 1 .. 1 |-> 1]
<1>1. Starts(<<>>, <<>>, st)
  BY DEF Starts
<1>2. QED BY <1>1 DEF Laid

\* One more character begins where the text has ended.
LEMMA LaidAppend ==
    ASSUME NEW s, NEW w, Laid(s, w), NEW c \in Small
    PROVE  Laid(Append(s, c), w \o Java!WriteChar(c))
<1> DEFINE e == Java!WriteChar(c)
           n == Len(s)
           s2 == Append(s, c)
           w2 == w \o e
<1>1. PICK st : Starts(s, w, st)
  BY DEF Laid
<1>2. /\ e \in Seq(Byte) /\ Len(e) \in 1 .. 3 /\ s \in Seq(Small) /\ w \in Seq(Byte) /\ n \in Nat
      /\ Len(w) \in Nat
  BY CharBytes DEF Laid
<1>2a. Len(e) \in Nat /\ Len(e) > 0
  <2> HIDE DEF e
  <2>1. Len(e) \in 1 .. 3
    BY <1>2
  <2>2. QED BY <2>1
<1>3. /\ s2 \in Seq(Small) /\ Len(s2) = n + 1 /\ s2[n + 1] = c
      /\ \A k \in 1 .. n : s2[k] = s[k]
  BY <1>2
<1>4. /\ w2 \in Seq(Byte) /\ Len(w2) = Len(w) + Len(e)
      /\ \A i \in 1 .. Len(w) + Len(e) : w2[i] = IF i <= Len(w) THEN w[i] ELSE e[i - Len(w)]
  <2> HIDE DEF e
  <2>1. QED BY <1>2, ConcatProperties
<1> DEFINE st2 == [k \in 1 .. n + 2 |-> IF k = n + 2 THEN st[n + 1] + Len(e) ELSE st[k]]
<1>5. /\ st \in [1 .. n + 1 -> Nat] /\ st[1] = 1 /\ Len(w) = st[n + 1] - 1
      /\ \A k, l \in 1 .. n + 1 : k < l => st[k] < st[l]
      /\ \A k \in 1 .. n : /\ st[k + 1] = st[k] + Len(Java!WriteChar(s[k]))
                           /\ st[k + 1] <= Len(w) + 1
                           /\ Holds(w, st[k], Java!WriteChar(s[k]))
      /\ \A i \in 1 .. Len(w) : \E k \in 1 .. n : st[k] <= i /\ i < st[k + 1]
  BY <1>1 DEF Starts
<1>6. /\ st2 \in [1 .. n + 2 -> Nat] /\ st2[n + 2] = st[n + 1] + Len(e)
      /\ \A k \in 1 .. n + 1 : st2[k] = st[k]
  <2> HIDE DEF e, n
  <2>1. n + 1 \in 1 .. n + 1 /\ n + 2 \in 1 .. n + 2 /\ 1 .. n + 1 \subseteq 1 .. n + 2
    BY <1>2
  <2>2. st[n + 1] + Len(e) \in Nat
    BY <1>2, <1>5, <2>1
  <2>3. ASSUME NEW k \in 1 .. n + 1 PROVE k # n + 2 /\ st2[k] = st[k]
    <3>1. k # n + 2
      BY <1>2
    <3>2. QED BY <2>1, <3>1
  <2>4. \A k \in 1 .. n + 2 : k = n + 2 \/ k \in 1 .. n + 1
    BY <1>2
  <2>5. \A k \in 1 .. n + 2 : st2[k] \in Nat
    BY <1>5, <2>2, <2>4
  <2>6. QED BY <2>1, <2>3, <2>5
<1> HIDE DEF e, s2, w2, st2, n
<1>7. st2[1] = 1 /\ Len(w2) = st2[n + 2] - 1
  BY <1>2, <1>4, <1>5, <1>6
<1>8. ASSUME NEW k \in 1 .. n + 2, NEW l \in 1 .. n + 2, k < l PROVE st2[k] < st2[l]
  <2>1. CASE l = n + 2
    <3>1. k \in 1 .. n + 1 /\ st2[k] = st[k] /\ st[k] \in Nat
      BY <1>2, <1>5, <1>6, <1>8, <2>1
    <3>2. n + 1 \in 1 .. n + 1 /\ st[n + 1] \in Nat
      BY <1>2, <1>5
    <3>3. st[k] <= st[n + 1]
      <4>1. CASE k = n + 1
        BY <3>2, <4>1
      <4>2. CASE k # n + 1
        <5>1. k < n + 1
          BY <1>2, <3>1, <4>2
        <5>2. st[k] < st[n + 1]
          BY <1>5, <3>1, <3>2, <5>1
        <5>3. QED BY <3>1, <3>2, <5>2
      <4>3. QED BY <4>1, <4>2
    <3>4. st2[l] = st[n + 1] + Len(e) /\ Len(e) \in Nat /\ Len(e) > 0
      <4>1. Len(e) \in Nat /\ Len(e) > 0
        BY <1>2a
      <4>2. st2[l] = st[n + 1] + Len(e)
        BY <1>6, <2>1
      <4>3. QED BY <4>1, <4>2
    <3>5. QED BY <3>1, <3>2, <3>3, <3>4
  <2>2. CASE l # n + 2
    <3>1. k \in 1 .. n + 1 /\ l \in 1 .. n + 1
      BY <1>2, <1>8, <2>2
    <3>2. QED BY <1>5, <1>6, <1>8, <3>1
  <2>3. QED BY <2>1, <2>2
<1>9. ASSUME NEW k \in 1 .. n + 1
      PROVE  /\ st2[k + 1] = st2[k] + Len(Java!WriteChar(s2[k]))
             /\ st2[k + 1] <= Len(w2) + 1
             /\ Holds(w2, st2[k], Java!WriteChar(s2[k]))
  <2>1. CASE k = n + 1
    <3>1. s2[k] = c /\ st2[k + 1] = st[n + 1] + Len(e) /\ st2[k] = st[n + 1] /\ k + 1 = n + 2
      BY <1>2, <1>3, <1>6, <2>1
    <3>2. Holds(w2, st[n + 1], e)
      <4>1. ASSUME NEW j \in 1 .. Len(e) PROVE w2[st[n + 1] + j - 1] = e[j]
        <5>1. st[n + 1] + j - 1 = Len(w) + j /\ Len(w) + j \in 1 .. Len(w) + Len(e)
              /\ ~(Len(w) + j <= Len(w)) /\ (Len(w) + j) - Len(w) = j
          BY <1>2, <1>5
        <5>2. QED BY <1>4, <5>1
      <4>2. QED BY <4>1 DEF Holds
    <3>3. Java!WriteChar(s2[k]) = e
      BY <3>1 DEF e
    <3>4. st2[k + 1] <= Len(w2) + 1
      <4>1. st2[k + 1] \in Nat /\ Len(w2) = st2[k + 1] - 1
        BY <1>2, <1>6, <1>7, <3>1
      <4>2. QED BY <4>1
    <3>5. QED BY <3>1, <3>2, <3>3, <3>4
  <2>2. CASE k # n + 1
    <3>0. k \in 1 .. n /\ k + 1 \in 1 .. n + 1 /\ k \in Nat /\ k >= 1 /\ 1 \in 1 .. n + 1
      BY <1>2, <2>2
    <3>1. /\ s2[k] = s[k] /\ st2[k] = st[k] /\ st2[k + 1] = st[k + 1]
          /\ st[k] \in Nat /\ st[k + 1] \in Nat
      BY <1>3, <1>5, <1>6, <3>0
    <3>2. st[k] >= 1
      <4>1. CASE k = 1
        BY <1>5, <4>1
      <4>2. CASE k # 1
        <5>1. 1 < k
          BY <3>0, <4>2
        <5>2. st[1] < st[k]
          BY <1>5, <3>0, <5>1
        <5>3. QED BY <1>5, <3>1, <5>2
      <4>3. QED BY <4>1, <4>2
    <3> DEFINE f == Java!WriteChar(s[k])
    <3>3. st[k + 1] = st[k] + Len(f) /\ st[k + 1] <= Len(w) + 1 /\ Holds(w, st[k], f)
      BY <1>5, <3>0
    <3>4. f \in Seq(Byte) /\ Len(f) \in Nat
      <4>1. s[k] \in Small
        BY <1>2, <3>0 DEF n
      <4>2. QED BY <4>1, CharBytes
    <3> HIDE DEF f
    <3>5. Holds(w2, st[k], f)
      <4>1. ASSUME NEW j \in 1 .. Len(f) PROVE w2[st[k] + j - 1] = f[j]
        <5>0. j \in Nat /\ 1 <= j /\ j <= Len(f) /\ Len(e) \in Nat
          BY <1>2, <3>4
        <5>1. st[k] + j - 1 <= Len(w) /\ st[k] + j - 1 \in 1 .. Len(w) + Len(e)
          <6> HIDE DEF Small
          <6>1. st[k] + Len(f) <= Len(w) + 1 /\ Len(f) \in Nat /\ Len(w) \in Nat /\ st[k] \in Nat
            BY <1>2, <3>1, <3>3, <3>4
          <6>2. st[k] + j - 1 <= Len(w) /\ st[k] + j - 1 \in Nat /\ st[k] + j - 1 >= 1
            BY <5>0, <6>1, <3>2
          <6>3. QED BY <5>0, <6>1, <6>2
        <5>2. w2[st[k] + j - 1] = w[st[k] + j - 1]
          BY <1>4, <5>1
        <5>3. QED BY <3>3, <5>2 DEF Holds
      <4>2. QED BY <4>1 DEF Holds
    <3>6. st[k + 1] <= Len(w2) + 1
      BY <1>2, <1>4, <3>1, <3>3
    <3>7. QED BY <3>1, <3>3, <3>5, <3>6 DEF f
  <2>3. QED BY <2>1, <2>2
<1>10. ASSUME NEW i \in 1 .. Len(w2) PROVE \E k \in 1 .. n + 1 : st2[k] <= i /\ i < st2[k + 1]
  <2>1. CASE i <= Len(w)
    <3>1. PICK k \in 1 .. n : st[k] <= i /\ i < st[k + 1]
      <4>1. i \in 1 .. Len(w)
        BY <1>2, <2>1
      <4>2. QED BY <1>5, <4>1
    <3>2. k \in 1 .. n + 1 /\ k + 1 \in 1 .. n + 1
      BY <1>2
    <3>3. st2[k] = st[k] /\ st2[k + 1] = st[k + 1]
      BY <1>6, <3>2
    <3>4. QED BY <3>1, <3>2, <3>3
  <2>2. CASE ~(i <= Len(w))
    <3>1. n + 1 \in 1 .. n + 1 /\ (n + 1) + 1 = n + 2 /\ st2[n + 1] = st[n + 1]
      BY <1>2, <1>6
    <3>2. st[n + 1] <= i /\ i < st2[n + 2]
      <4>1. n + 1 \in 1 .. n + 1 /\ st[n + 1] \in Nat /\ Len(w) = st[n + 1] - 1
        BY <1>2, <1>5
      <4>2. st2[n + 2] = st[n + 1] + Len(e) /\ Len(e) \in Nat
        BY <1>2, <1>6
      <4>3. i \in Nat /\ i <= Len(w) + Len(e)
        BY <1>2, <1>4
      <4>4. QED BY <2>2, <4>1, <4>2, <4>3
    <3>3. QED BY <3>1, <3>2
  <2>3. QED BY <2>1, <2>2
<1>11. Starts(s2, w2, st2)
  <2>1. Len(s2) + 1 = n + 2 /\ Len(s2) = n + 1
    BY <1>2, <1>3
  <2>2. QED BY <2>1, <1>6, <1>7, <1>8, <1>9, <1>10 DEF Starts
<1>12. QED BY <1>3, <1>4, <1>11 DEF Laid, s2, w2, e

\* ReadJavaUTF reads a text from where its characters lie: from the start of one it goes to
\* the start of the next, and nowhere else.
LEMMA ReadsLaid ==
    ASSUME NEW s, NEW w, Laid(s, w)
    PROVE  Java!ReadJavaUTF(w) = s
<1> DEFINE n == Len(s)
           N == Len(w)
           F(r) == [i \in 1 .. N + 1 |->
                       LET m == Java!CharSize(w[i])
                       IN  IF i > N THEN <<>>
                           ELSE IF m = 0 \/ i + m - 1 > N THEN Java!Error
                           ELSE <<Decoded(w, i, m)>> \o r[i + m]]
           read == CHOOSE r : r = F(r)
<1>1. PICK st : Starts(s, w, st)
  BY DEF Laid
<1>2. s \in Seq(Small) /\ w \in Seq(Byte) /\ n \in Nat /\ N \in Nat
  BY DEF Laid
<1>3. Java!ReadJavaUTF(w) = read[1]
  BY DEF Java!ReadJavaUTF, Decoded
<1> HIDE DEF n, N
<1>4. /\ st \in [1 .. n + 1 -> Nat] /\ st[1] = 1 /\ N = st[n + 1] - 1
      /\ \A k, l \in 1 .. n + 1 : k < l => st[k] < st[l]
      /\ \A k \in 1 .. n : /\ st[k + 1] = st[k] + Len(Java!WriteChar(s[k]))
                           /\ st[k + 1] <= N + 1
                           /\ Holds(w, st[k], Java!WriteChar(s[k]))
      /\ \A i \in 1 .. N : \E k \in 1 .. n : st[k] <= i /\ i < st[k + 1]
  BY <1>1 DEF Starts, n, N
<1>5. \A k \in 1 .. n + 1 : st[k] \in 1 .. N + 1
  <2>1. ASSUME NEW k \in 1 .. n + 1 PROVE st[k] \in 1 .. N + 1
    <3>1. k \in Nat /\ 1 \in 1 .. n + 1 /\ n + 1 \in 1 .. n + 1
      BY <1>2
    <3>2. st[k] \in Nat /\ st[1] = 1 /\ st[n + 1] \in Nat /\ st[n + 1] = N + 1
      BY <1>2, <1>4, <3>1
    <3>3. st[k] >= 1
      <4>1. CASE k = 1
        BY <3>2, <4>1
      <4>2. CASE k # 1
        <5>1. st[1] < st[k]
          BY <1>4, <3>1, <4>2
        <5>2. QED BY <3>2, <5>1
      <4>3. QED BY <4>1, <4>2
    <3>4. st[k] <= st[n + 1]
      <4>1. CASE k = n + 1
        BY <3>2, <4>1
      <4>2. CASE k # n + 1
        <5>1. k < n + 1
          BY <1>2, <4>2
        <5>2. st[k] < st[n + 1]
          BY <1>4, <3>1, <5>1
        <5>3. QED BY <3>2, <5>2
      <4>3. QED BY <4>1, <4>2
    <3>5. QED BY <1>2, <3>2, <3>3, <3>4
  <2>2. QED BY <2>1
<1>6. ASSUME NEW k \in 1 .. n + 1, NEW l \in 1 .. n + 1, st[k] = st[l] PROVE k = l
  <2>1. k \in Nat /\ l \in Nat /\ st[k] \in Nat
    BY <1>2, <1>4
  <2>2. ~(k < l) /\ ~(l < k)
    BY <1>4, <1>6, <2>1
  <2>3. QED BY <2>1, <2>2
<1>7. ASSUME NEW k \in 1 .. n
      PROVE  /\ Java!CharSize(w[st[k]]) \in 1 .. 3
             /\ st[k + 1] = st[k] + Java!CharSize(w[st[k]])
             /\ Decoded(w, st[k], Java!CharSize(w[st[k]])) = s[k]
             /\ \A i \in st[k] + 1 .. st[k + 1] - 1 : Java!CharSize(w[i]) = 0
  <2> DEFINE e == Java!WriteChar(s[k])
  <2>1. s[k] \in Small /\ k \in 1 .. n + 1 /\ k + 1 \in 1 .. n + 1
    BY <1>2 DEF n
  <2>2. Encodes(s[k], e)
    BY <2>1, WriteCharEncodes DEF Small
  <2>3. st[k] \in Nat /\ st[k + 1] \in Nat /\ Holds(w, st[k], e) /\ st[k + 1] = st[k] + Len(e)
    BY <1>4, <2>1
  <2> HIDE DEF e
  <2>4. Decodes(s[k], e, w, st[k])
    BY <2>1, <2>2, <2>3, CharBack
  <2>5. /\ Java!CharSize(w[st[k]]) = Len(e) /\ Len(e) \in 1 .. 3
        /\ Decoded(w, st[k], Len(e)) = s[k]
        /\ \A j \in 2 .. Len(e) : Java!CharSize(w[st[k] + j - 1]) = 0
    BY <2>4 DEF Decodes
  <2>6. ASSUME NEW i \in st[k] + 1 .. st[k + 1] - 1 PROVE Java!CharSize(w[i]) = 0
    <3>1. i \in Nat /\ st[k] + 1 <= i /\ i <= st[k + 1] - 1
      BY <2>3
    <3>2. Len(e) \in Nat
      BY <2>5
    <3> DEFINE j == (i - st[k]) + 1
    <3>3. j \in 2 .. Len(e) /\ st[k] + j - 1 = i
      BY <2>3, <3>1, <3>2
    <3> HIDE DEF j
    <3>4. QED BY <2>5, <3>3
  <2>7. QED BY <2>3, <2>5, <2>6
<1>8. ASSUME NEW k \in 1 .. n PROVE <<s[k]>> \o SubSeq(s, k + 1, n) = SubSeq(s, k, n)
  <2>1. s[k] \in Small
    BY <1>2 DEF n
  <2>2. QED BY <1>2, <1>8, <2>1 DEF n
<1>9. SubSeq(s, n + 1, n) = <<>> /\ SubSeq(s, 1, n) = s
  BY <1>2 DEF n
<1> DEFINE want == [i \in 1 .. N + 1 |->
                       IF \E k \in 1 .. n + 1 : st[k] = i
                       THEN SubSeq(s, CHOOSE k \in 1 .. n + 1 : st[k] = i, n)
                       ELSE Java!Error]
<1>10. \A k \in 1 .. n + 1 : want[st[k]] = SubSeq(s, k, n)
  <2>1. ASSUME NEW k \in 1 .. n + 1 PROVE want[st[k]] = SubSeq(s, k, n)
    <3>1. \A l \in 1 .. n + 1 : st[l] = st[k] <=> l = k
      BY <1>6
    <3>2. (CHOOSE l \in 1 .. n + 1 : st[l] = st[k]) = k
      BY <3>1
    <3>3. QED BY <1>5, <3>2
  <2>2. QED BY <2>1
<1>11. \A i \in 1 .. N + 1 : (\A k \in 1 .. n + 1 : st[k] # i) => want[i] = Java!Error
  OBVIOUS
<1>12. DOMAIN want = 1 .. N + 1 /\ want = [i \in 1 .. N + 1 |-> want[i]]
  OBVIOUS
<1> HIDE DEF want
<1>13. ASSUME NEW i \in 1 .. N + 1, NEW r, \A k \in 1 .. n : i = st[k] => r[st[k + 1]] = SubSeq(s, k + 1, n)
       PROVE  F(r)[i] = want[i]
  <2> DEFINE m == Java!CharSize(w[i])
             next == <<Decoded(w, i, m)>> \o r[i + m]
  <2>1. F(r)[i] = IF i > N THEN <<>> ELSE IF m = 0 \/ i + m - 1 > N THEN Java!Error ELSE next
    BY <1>13
  <2> HIDE DEF F, next
  <2>2. CASE i = N + 1
    <3>1. n + 1 \in 1 .. n + 1 /\ i = st[n + 1] /\ i > N
      BY <1>2, <1>4, <2>2
    <3>2. want[i] = <<>>
      BY <1>9, <1>10, <3>1
    <3>3. QED BY <2>1, <3>1, <3>2
  <2>3. CASE i # N + 1
    <3>1. i \in 1 .. N /\ ~(i > N)
      BY <1>2, <2>3
    <3>2. PICK k \in 1 .. n : st[k] <= i /\ i < st[k + 1]
      BY <1>4, <3>1
    <3>3. k \in 1 .. n + 1 /\ k + 1 \in 1 .. n + 1 /\ k \in Nat
      BY <1>2
    <3>3a. st[k] \in Nat /\ st[k + 1] \in Nat /\ st[k + 1] <= N + 1
      BY <1>4, <3>3
    <3>4. CASE i = st[k]
      <4>1. m \in Nat /\ m # 0 /\ st[k + 1] = i + m /\ Decoded(w, i, m) = s[k]
        BY <1>7, <3>4
      <4>2. ~(i + m - 1 > N)
        BY <1>2, <3>3a, <4>1
      <4>3. next = <<s[k]>> \o SubSeq(s, k + 1, n)
        BY <1>13, <3>4, <4>1 DEF next
      <4>4. next = SubSeq(s, k, n)
        BY <1>8, <4>3
      <4>5. want[i] = SubSeq(s, k, n)
        BY <1>10, <3>3, <3>4
      <4>6. QED BY <2>1, <3>1, <4>1, <4>2, <4>4, <4>5
    <3>5. CASE i # st[k]
      <4>1. i \in st[k] + 1 .. st[k + 1] - 1
        BY <3>1, <3>2, <3>3a, <3>5
      <4>2. m = 0
        BY <1>7, <4>1
      <4>3. \A l \in 1 .. n + 1 : st[l] # i
        <5>1. ASSUME NEW l \in 1 .. n + 1, st[l] = i PROVE FALSE
          <6>1. l \in Nat /\ ~(l = k) /\ ~(l = k + 1)
            BY <1>2, <3>2, <3>3a, <3>5, <5>1
          <6>2. CASE l < k
            <7>1. st[l] < st[k]
              BY <1>4, <3>3, <6>2
            <7>2. QED BY <3>1, <3>2, <3>3a, <5>1, <7>1
          <6>3. CASE k + 1 < l
            <7>1. st[k + 1] < st[l]
              BY <1>4, <3>3, <6>3
            <7>2. QED BY <3>1, <3>2, <3>3a, <5>1, <7>1
          <6>4. QED BY <3>3, <6>1, <6>2, <6>3
        <5>2. QED BY <5>1
      <4>4. want[i] = Java!Error
        BY <1>11, <4>3
      <4>5. QED BY <2>1, <3>1, <4>2, <4>4
    <3>6. QED BY <3>4, <3>5
  <2>4. QED BY <2>2, <2>3
<1>14. want = F(want)
  <2>1. \A i \in 1 .. N + 1 : F(want)[i] = want[i]
    <3> HIDE DEF F
    <3>1. \A k \in 1 .. n : want[st[k + 1]] = SubSeq(s, k + 1, n)
      <4>1. \A k \in 1 .. n : k + 1 \in 1 .. n + 1
        BY <1>2
      <4>2. QED BY <1>10, <4>1
    <3>2. QED BY <1>13, <3>1
  <2>2. F(want) = [i \in 1 .. N + 1 |-> F(want)[i]]
    OBVIOUS
  <2> HIDE DEF F
  <2>3. QED BY <1>12, <2>1, <2>2
<1>15. read = F(read)
  <2> HIDE DEF F
  <2>1. QED BY <1>14
<1> HIDE DEF read, F
<1> DEFINE f == [i \in 0 .. n |-> read[st[n + 1 - i]]]
           g == [i \in 0 .. n |-> SubSeq(s, n + 1 - i, n)]
<1>16. Alike(f, g, n)
  <2>1. f[0] = g[0]
    <3>1. n + 1 \in 1 .. n + 1 /\ st[n + 1] = N + 1 /\ N + 1 \in 1 .. N + 1
      BY <1>2, <1>4
    <3>2. \A k \in 1 .. n : N + 1 # st[k]
      <4>1. \A k \in 1 .. n : k \in 1 .. n + 1 /\ k # n + 1
        BY <1>2
      <4>2. QED BY <1>6, <3>1, <4>1
    <3>3. F(read)[N + 1] = want[N + 1]
      BY <1>13, <3>1, <3>2
    <3>4. read[N + 1] = SubSeq(s, n + 1, n)
      BY <1>10, <1>15, <3>1, <3>3
    <3>5. 0 \in 0 .. n /\ n + 1 - 0 = n + 1
      BY <1>2
    <3>6. QED BY <3>1, <3>4, <3>5
  <2>2. ASSUME NEW i \in 1 .. n, f[i - 1] = g[i - 1] PROVE f[i] = g[i]
    <3> DEFINE k == n + 1 - i
    <3>1. /\ k \in 1 .. n /\ k \in 1 .. n + 1 /\ n + 1 - (i - 1) = k + 1
          /\ i \in 0 .. n /\ i - 1 \in 0 .. n
      BY <1>2
    <3>2. read[st[k + 1]] = SubSeq(s, k + 1, n)
      BY <2>2, <3>1
    <3>3. f[i] = read[st[k]] /\ g[i] = SubSeq(s, k, n)
      BY <3>1
    <3> HIDE DEF k, f, g
    <3>4. \A l \in 1 .. n : st[k] = st[l] => read[st[l + 1]] = SubSeq(s, l + 1, n)
      <4>1. \A l \in 1 .. n : st[k] = st[l] => l = k
        <5>1. \A l \in 1 .. n : l \in 1 .. n + 1
          BY <1>2
        <5>2. QED BY <1>6, <3>1, <5>1
      <4>2. QED BY <3>2, <4>1
    <3>5. st[k] \in 1 .. N + 1
      BY <1>5, <3>1
    <3>6. F(read)[st[k]] = want[st[k]]
      BY <1>13, <3>4, <3>5
    <3>7. QED BY <1>10, <1>15, <3>1, <3>3, <3>6
  <2>3. QED BY <2>1, <2>2 DEF Alike
<1>17. f[n] = g[n]
  <2> HIDE DEF f, g
  <2>1. QED BY <1>2, <1>16, AlikeAtEnd
<1>18. read[1] = s
  <2>1. n \in 0 .. n /\ n + 1 - n = 1
    BY <1>2
  <2>2. QED BY <1>4, <1>9, <1>17, <2>1
<1>19. QED BY <1>3, <1>18

AllSmall(s) == \A i \in DOMAIN s : s[i] <= 65535
Chosen(s) == [i \in DOMAIN s |-> Java!WriteChar(s[i])]
AsUnits(s) == [i \in DOMAIN s |-> Java!Units(s[i])]

\* The text typed so far lies in what would be written of it, and Java has a unit for each
\* of its characters; and what has been written is of the text.
Legible(s) == AllSmall(s) => /\ Java!FlattenSeq(AsUnits(s)) = s
                             /\ Laid(s, Java!FlattenSeq(Chosen(s)))
Strings ==
    /\ text \in Seq(Chars) /\ Legible(text)
    /\ at = "proxy" => wire = Java!WriteJavaUTF(text)
    /\ at = "java" => wire = Java!JavaWriteUTF(text)

\* A sequence with one element more, place by place.
LEMMA AppendOne ==
    ASSUME NEW S, NEW q \in Seq(S), NEW e \in S, NEW n, n = Len(q)
    PROVE  Append(q, e) = [i \in 1 .. n + 1 |-> IF i = n + 1 THEN e ELSE q[i]]
<1>1. n \in Nat /\ Append(q, e) \in Seq(S) /\ Len(Append(q, e)) = n + 1
      /\ Append(q, e)[n + 1] = e /\ \A i \in 1 .. n : Append(q, e)[i] = q[i]
  BY AppendProperties
<1>2. Append(q, e) = [i \in 1 .. n + 1 |-> Append(q, e)[i]]
  <2> DEFINE r == Append(q, e)
  <2>1. r \in Seq(S) /\ Len(r) = n + 1
    BY <1>1
  <2> HIDE DEF r
  <2>2. r = [i \in 1 .. n + 1 |-> r[i]]
    BY <2>1
  <2>3. QED BY <2>2 DEF r
<1>3. \A i \in 1 .. n + 1 : i = n + 1 \/ i \in 1 .. n
  BY <1>1
<1> DEFINE r == Append(q, e)
<1> HIDE DEF r
<1>4. \A i \in 1 .. n + 1 : r[i] = IF i = n + 1 THEN e ELSE q[i]
  BY <1>1, <1>3 DEF r
<1>5. QED BY <1>2, <1>4 DEF r

\* What is typed stays legible.
LEMMA LegibleAppend ==
    ASSUME Java!JavaUTFAssumption, NEW s \in Seq(Chars), Legible(s), NEW c \in Chars
    PROVE  Legible(Append(s, c))
<1> DEFINE s2 == Append(s, c)
<1>1. /\ s2 \in Seq(Chars) /\ Len(s2) = Len(s) + 1 /\ s2[Len(s) + 1] = c /\ Len(s) \in Nat
      /\ \A i \in 1 .. Len(s) : s2[i] = s[i]
      /\ DOMAIN s2 = 1 .. Len(s) + 1 /\ DOMAIN s = 1 .. Len(s)
  OBVIOUS
<1> HIDE DEF s2
<1>2. SUFFICES ASSUME AllSmall(s2)
               PROVE  /\ Java!FlattenSeq(AsUnits(s2)) = s2
                      /\ Laid(s2, Java!FlattenSeq(Chosen(s2)))
  BY DEF Legible, s2
<1>3. AllSmall(s) /\ c <= 65535
  BY <1>1, <1>2 DEF AllSmall
<1>4. c \in Small /\ s \in Seq(Small)
  <2>1. c \in Small
    BY <1>3 DEF Java!JavaUTFAssumption, Small
  <2>2. \A i \in 1 .. Len(s) : s[i] \in Small
    BY <1>1, <1>3 DEF AllSmall, Java!JavaUTFAssumption, Small
  <2>3. QED BY <1>1, <2>1, <2>2
<1>5. Java!FlattenSeq(AsUnits(s)) = s /\ Laid(s, Java!FlattenSeq(Chosen(s)))
  BY <1>3 DEF Legible
<1>6. AsUnits(s2) = Append(AsUnits(s), <<c>>) /\ AsUnits(s) \in Seq(Seq(Small))
  <2>1. \A x \in Small : Java!Units(x) = <<x>>
    BY DEF Java!Units, Small
  <2>2. \A i \in 1 .. Len(s) : s[i] \in Small
    BY <1>4
  <2>3. \A x \in Small : <<x>> \in Seq(Small)
    OBVIOUS
  <2> HIDE DEF Small
  <2>4. AsUnits(s) \in [1 .. Len(s) -> Seq(Small)] /\ DOMAIN AsUnits(s) = 1 .. Len(s)
    BY <1>1, <2>1, <2>2, <2>3 DEF AsUnits
  <2> DEFINE T == Seq(Small)
             one == <<c>>
  <2>5. AsUnits(s) \in Seq(T) /\ Len(AsUnits(s)) = Len(s) /\ one \in T
    BY <1>1, <1>4, <2>3, <2>4
  <2>6. AsUnits(s2) = [i \in 1 .. Len(s) + 1 |-> IF i = Len(s) + 1 THEN one ELSE AsUnits(s)[i]]
    <3>1. \A i \in 1 .. Len(s) : AsUnits(s2)[i] = AsUnits(s)[i] /\ i \in 1 .. Len(s) + 1
      BY <1>1 DEF AsUnits
    <3>2. AsUnits(s2)[Len(s) + 1] = one
      BY <1>1, <1>4, <2>1 DEF AsUnits
    <3>3. DOMAIN AsUnits(s2) = 1 .. Len(s) + 1
      BY <1>1 DEF AsUnits
    <3>4. AsUnits(s2) = [i \in 1 .. Len(s) + 1 |-> AsUnits(s2)[i]]
      BY <3>3 DEF AsUnits
    <3>5. \A i \in 1 .. Len(s) + 1 : i = Len(s) + 1 \/ i \in 1 .. Len(s)
      BY <1>1
    <3> HIDE DEF one
    <3>6. \A i \in 1 .. Len(s) + 1 :
              AsUnits(s2)[i] = IF i = Len(s) + 1 THEN one ELSE AsUnits(s)[i]
      BY <3>1, <3>2, <3>5
    <3>7. QED BY <3>4, <3>6
  <2> HIDE DEF T, one
  <2>7. Append(AsUnits(s), one) =
            [i \in 1 .. Len(s) + 1 |-> IF i = Len(s) + 1 THEN one ELSE AsUnits(s)[i]]
    BY <2>5, AppendOne
  <2>8. QED BY <2>5, <2>6, <2>7 DEF T, one
<1>7. Chosen(s2) = Append(Chosen(s), Java!WriteChar(c)) /\ Chosen(s) \in Seq(Seq(Byte))
  <2> DEFINE T == Seq(Byte)
             e == Java!WriteChar(c)
  <2>1. e \in T /\ \A i \in 1 .. Len(s) : Java!WriteChar(s[i]) \in T
    <3>1. \A i \in 1 .. Len(s) : s[i] \in Small
      BY <1>4
    <3>2. QED BY <1>4, <3>1, CharBytes
  <2> HIDE DEF T, e
  <2>2. Chosen(s) \in [1 .. Len(s) -> T]
    BY <1>1, <2>1 DEF Chosen
  <2>3. Chosen(s) \in Seq(T) /\ Len(Chosen(s)) = Len(s)
    BY <1>1, <2>2
  <2>4. Chosen(s2) = [i \in 1 .. Len(s) + 1 |-> IF i = Len(s) + 1 THEN e ELSE Chosen(s)[i]]
    <3>1. \A i \in 1 .. Len(s) : Chosen(s2)[i] = Chosen(s)[i] /\ i \in 1 .. Len(s) + 1
      BY <1>1 DEF Chosen
    <3>2. Chosen(s2)[Len(s) + 1] = e
      BY <1>1 DEF Chosen, e
    <3>3. DOMAIN Chosen(s2) = 1 .. Len(s) + 1
      BY <1>1 DEF Chosen
    <3>4. Chosen(s2) = [i \in 1 .. Len(s) + 1 |-> Chosen(s2)[i]]
      BY <3>3 DEF Chosen
    <3>5. \A i \in 1 .. Len(s) + 1 : i = Len(s) + 1 \/ i \in 1 .. Len(s)
      BY <1>1
    <3>6. \A i \in 1 .. Len(s) + 1 :
              Chosen(s2)[i] = IF i = Len(s) + 1 THEN e ELSE Chosen(s)[i]
      BY <3>1, <3>2, <3>5
    <3>7. QED BY <3>4, <3>6
  <2>5. Append(Chosen(s), e) =
            [i \in 1 .. Len(s) + 1 |-> IF i = Len(s) + 1 THEN e ELSE Chosen(s)[i]]
    BY <2>1, <2>3, AppendOne
  <2>6. QED BY <2>3, <2>4, <2>5 DEF T, e
<1>8. Java!FlattenSeq(AsUnits(s2)) = s2
  <2> DEFINE one == <<c>>
  <2>1. one \in Seq(Small)
    BY <1>4
  <2>2. s \o one = Append(s, c)
    BY <1>4
  <2> HIDE DEF one
  <2>3. Java!FlattenSeq(Append(AsUnits(s), one)) = Java!FlattenSeq(AsUnits(s)) \o one
    BY <1>6, <2>1, FlattenAppend
  <2>4. QED BY <1>5, <1>6, <2>2, <2>3 DEF s2, one
<1>9. Laid(s2, Java!FlattenSeq(Chosen(s2)))
  <2> DEFINE e == Java!WriteChar(c)
  <2>1. e \in Seq(Byte)
    BY <1>4, CharBytes
  <2> HIDE DEF e
  <2>2. Java!FlattenSeq(Append(Chosen(s), e)) = Java!FlattenSeq(Chosen(s)) \o e
    BY <1>7, <2>1, FlattenAppend
  <2>3. Laid(Append(s, c), Java!FlattenSeq(Chosen(s)) \o e)
    BY <1>4, <1>5, LaidAppend DEF e
  <2>4. QED BY <1>7, <2>2, <2>3 DEF s2, e
<1>10. QED BY <1>8, <1>9

\* Java and the proxy write the same of what one unit each is enough for.
LEMMA WriteAlike ==
    ASSUME Java!JavaUTFAssumption, NEW s \in Seq(Chars), Legible(s), AllSmall(s)
    PROVE  /\ Java!JavaWriteUTF(s) = Java!WriteJavaUTF(s)
           /\ Java!WriteJavaUTF(s) # Java!Error =>
                  Java!WriteJavaUTF(s) = Java!FlattenSeq(Chosen(s))
<1> DEFINE written == [i \in DOMAIN s |->
                          IF 1 <= s[i] /\ s[i] <= 127 THEN Java!One(s[i])
                          ELSE IF s[i] > 2047 THEN Java!Three(s[i])
                          ELSE Java!Two(s[i])]
<1>1. \A i \in DOMAIN s : s[i] \in Nat /\ s[i] <= 65535
  BY DEF Java!JavaUTFAssumption, AllSmall
<1>2. written = Chosen(s)
  <2>1. ASSUME NEW i \in DOMAIN s PROVE written[i] = Chosen(s)[i]
    BY <1>1 DEF Chosen, Java!WriteChar
  <2>2. DOMAIN written = DOMAIN s /\ DOMAIN Chosen(s) = DOMAIN s
    BY DEF Chosen
  <2>3. QED BY <2>1 DEF Chosen
<1>3. Java!FlattenSeq(AsUnits(s)) = s
  BY DEF Legible
<1>4. Java!JavaWriteUTF(s) = IF Len(Java!FlattenSeq(written)) > MaxSize THEN Java!Error
                             ELSE Java!FlattenSeq(written)
  BY <1>3 DEF Java!JavaWriteUTF, AsUnits
<1>5. Java!WriteJavaUTF(s) = IF Len(Java!FlattenSeq(Chosen(s))) > MaxSize THEN Java!Error
                             ELSE Java!FlattenSeq(Chosen(s))
  <2>1. ~\E i \in DOMAIN s : s[i] > 65535
    BY <1>1
  <2>2. QED BY <2>1 DEF Java!WriteJavaUTF, Chosen
<1> HIDE DEF written
<1>6. QED BY <1>2, <1>4, <1>5

\* Servers and proxy mean the same text.
LEMMA AgreeHolds == ASSUME Java!JavaUTFAssumption
                    PROVE  Java!Spec => []Java!AgreesWithJava
<1>1. Java!Init => Strings
  <2> SUFFICES ASSUME Java!Init PROVE Strings
    OBVIOUS
  <2>1. text = <<>> /\ at = "text"
    BY DEF Java!Init
  <2>2. AsUnits(<<>>) = <<>> /\ Chosen(<<>>) = <<>> /\ Java!FlattenSeq(<<>>) = <<>>
    BY DEF AsUnits, Chosen, Java!FlattenSeq
  <2>3. Legible(<<>>)
    BY <2>2, LaidEmpty DEF Legible
  <2>4. QED BY <2>1, <2>3 DEF Strings
<1>2. Strings /\ [Java!Next]_Java!vars => Strings'
  <2> SUFFICES ASSUME Strings, [Java!Next]_Java!vars PROVE Strings'
    OBVIOUS
  <2>1. CASE UNCHANGED Java!vars
    BY <2>1 DEF Strings, Java!vars, Legible, AllSmall, Chosen, AsUnits
  <2>2. ASSUME NEW c \in Chars, Java!Type(c) PROVE Strings'
    <3>1. text' = Append(text, c) /\ at' = "text"
      BY <2>2 DEF Java!Type
    <3>2. Legible(Append(text, c)) /\ Append(text, c) \in Seq(Chars)
      BY LegibleAppend DEF Strings
    <3> DEFINE s2 == Append(text, c)
    <3>3. PICK s : s = Append(text, c)
      OBVIOUS
    <3>4. text' = s /\ Legible(s) /\ s \in Seq(Chars)
      BY <3>1, <3>2, <3>3
    <3>5. QED BY <3>1, <3>4 DEF Strings
  <2>3. CASE Java!ProxyWrites
    BY <2>3 DEF Java!ProxyWrites, Strings
  <2>4. CASE Java!JavaWrites
    BY <2>4 DEF Java!JavaWrites, Strings
  <2>5. CASE Java!Again
    <3>1. AsUnits(<<>>) = <<>> /\ Chosen(<<>>) = <<>> /\ Java!FlattenSeq(<<>>) = <<>>
      BY DEF AsUnits, Chosen, Java!FlattenSeq
    <3>2. Legible(<<>>)
      BY <3>1, LaidEmpty DEF Legible
    <3>3. QED BY <2>5, <3>2 DEF Java!Again, Strings
  <2>6. QED BY <2>1, <2>2, <2>3, <2>4, <2>5 DEF Java!Next
<1>3. Strings => Java!AgreesWithJava
  <2> SUFFICES ASSUME Strings PROVE Java!ReadsJava /\ Java!WritesJava
    BY DEF Java!AgreesWithJava
  <2>1. CASE AllSmall(text)
    <3>1. /\ Java!JavaWriteUTF(text) = Java!WriteJavaUTF(text)
          /\ Java!WriteJavaUTF(text) # Java!Error =>
                 Java!WriteJavaUTF(text) = Java!FlattenSeq(Chosen(text))
      BY <2>1, WriteAlike DEF Strings
    <3>2. Java!ReadJavaUTF(Java!FlattenSeq(Chosen(text))) = text
      BY <2>1, ReadsLaid DEF Strings, Legible
    <3>3. QED BY <3>1, <3>2 DEF Strings, Java!ReadsJava, Java!WritesJava
  <2>2. CASE ~AllSmall(text)
    <3>1. PICK i \in DOMAIN text : ~(text[i] <= 65535)
      BY <2>2 DEF AllSmall
    <3>2. text[i] \in Nat
      BY <3>1 DEF Strings, Java!JavaUTFAssumption
    <3>3. text[i] > 65535
      BY <3>1, <3>2
    <3>4. Java!WriteJavaUTF(text) = Java!Error
      BY <3>3 DEF Java!WriteJavaUTF
    <3>5. Java!WritesJava
      BY <3>3, <3>4 DEF Strings, Java!WritesJava
    <3>6. Java!ReadsJava
      BY <3>1 DEF Java!ReadsJava
    <3>7. QED BY <3>5, <3>6
  <2>3. QED BY <2>1, <2>2
<1>4. QED BY <1>1, <1>2, <1>3, PTL DEF Java!Spec

-----------------------------------------------------------------------------
(* Markup.                                                                 *)

\* x is the last place in T.
Greatest(x, T) == x \in T /\ \A y \in T : y <= x

\* A set of places that is not empty has a last one.
LEMMA HasGreatest ==
    ASSUME NEW n \in Nat, NEW T \in SUBSET (0 .. n), T # {}
    PROVE  \E x \in T : Greatest(x, T)
<1> DEFINE back == {n - x : x \in T}
<1>1. back \in SUBSET Nat /\ back # {}
  <2>1. \A x \in T : n - x \in Nat
    OBVIOUS
  <2>2. QED BY <2>1
<1>2. PICK z \in back : \A y \in back : z <= y
  <2> HIDE DEF back
  <2>1. QED BY <1>1, Least
<1>3. PICK x \in T : z = n - x
  OBVIOUS
<1>4. ASSUME NEW y \in T PROVE y <= x
  <2>1. n - y \in back /\ x \in Nat /\ y \in Nat /\ n \in Nat
    OBVIOUS
  <2>2. n - x <= n - y
    BY <2>1, <1>2, <1>3
  <2>3. QED BY <2>1, <2>2
<1>5. QED BY <1>4 DEF Greatest


\* The greatest of some numbers up to n, and of more with a greater one.
LEMMA MaxIs ==
    ASSUME NEW n \in Nat, NEW T \in SUBSET (0 .. n), T # {}
    PROVE  Text!Max(T) \in T /\ \A y \in T : y <= Text!Max(T)
<1>1. PICK x \in T : Greatest(x, T)
  BY HasGreatest
<1>2. \A y \in T : y \in Nat
  OBVIOUS
<1>3. x \in T /\ \A y \in T : x >= y
  BY <1>1, <1>2 DEF Greatest
<1>4. (CHOOSE z \in T : \A y \in T : z >= y) \in T
      /\ \A y \in T : (CHOOSE z \in T : \A u \in T : z >= u) >= y
  BY <1>3
<1>5. QED BY <1>2, <1>4 DEF Text!Max

\* A greater number becomes the greatest.
LEMMA MaxAdded ==
    ASSUME NEW n \in Nat, NEW T \in SUBSET (0 .. n)
    PROVE  Text!Max(T \cup {n + 1}) = n + 1
<1> DEFINE U == T \cup {n + 1}
<1>1. U \in SUBSET (0 .. n + 1) /\ U # {} /\ n + 1 \in Nat /\ n + 1 \in U
  OBVIOUS
<1> HIDE DEF U
<1>2. Text!Max(U) \in U /\ \A y \in U : y <= Text!Max(U)
  BY <1>1, MaxIs
<1>3. Text!Max(U) \in 0 .. n + 1 /\ n + 1 <= Text!Max(U)
  BY <1>1, <1>2
<1>4. Text!Max(U) = n + 1
  BY <1>3
<1>5. QED BY <1>4 DEF U

\* A run of signs from k to just before i.
Run(s, k, i) == (\A j \in k .. i - 1 : s[j] = Text!Para) /\ (k > 1 => s[k - 1] # Text!Para)

\* Every position has a run of signs before it, if only an empty one, and only one.
LEMMA RunExists ==
    ASSUME NEW s, NEW i \in Nat, i >= 1
    PROVE  \E k \in 1 .. i : Run(s, k, i)
<1> DEFINE T == {k \in 1 .. i : \A j \in k .. i - 1 : s[j] = Text!Para}
<1>1. i \in T /\ T \in SUBSET Nat
  OBVIOUS
<1>2. PICK k \in T : \A l \in T : k <= l
  <2> HIDE DEF T
  <2>1. QED BY <1>1, Least
<1>3. k \in 1 .. i /\ k \in Nat /\ k >= 1
  OBVIOUS
<1>4. ASSUME k > 1, s[k - 1] = Text!Para PROVE FALSE
  <2>1. k - 1 \in 1 .. i /\ \A j \in k - 1 .. i - 1 : j = k - 1 \/ j \in k .. i - 1
    BY <1>3, <1>4
  <2>2. k - 1 \in T
    BY <1>4, <2>1
  <2>3. QED BY <1>2, <1>3, <2>2
<1>5. QED BY <1>3, <1>4 DEF Run

\* There is only one such run.
LEMMA RunUnique ==
    ASSUME NEW s, NEW i \in Nat, NEW k \in 1 .. i, NEW l \in 1 .. i, Run(s, k, i), Run(s, l, i)
    PROVE  k = l
<1>1. ASSUME NEW a \in 1 .. i, NEW b \in 1 .. i, Run(s, a, i), Run(s, b, i), a < b PROVE FALSE
  <2>1. b > 1 /\ b - 1 \in a .. i - 1
    BY <1>1
  <2>2. QED BY <1>1, <2>1 DEF Run
<1>2. ~(k < l) /\ ~(l < k)
  BY <1>1
<1>3. QED BY <1>2

\* A symbol is a mode if the one before it is a sign that is none.
LEMMA ModeStep ==
    ASSUME NEW s, NEW i \in Nat, i >= 1
    PROVE  Text!IsMode(s, i + 1) <=> s[i] = Text!Para /\ ~Text!IsMode(s, i)
<1>1. \A j \in Nat : j >= 1 => (Text!IsMode(s, j) <=> \E k \in 1 .. j : (j - k) % 2 = 1 /\ Run(s, k, j))
  <2>1. ASSUME NEW j \in Nat, j >= 1
        PROVE  Text!IsMode(s, j) <=> \E k \in 1 .. j : (j - k) % 2 = 1 /\ Run(s, k, j)
    <3>1. \A k \in 1 .. j : (j - k) % 2 = 1 => k \in 1 .. j - 1
      BY <2>1
    <3>2. \A k \in 1 .. j - 1 : k \in 1 .. j
      BY <2>1
    <3>3. QED BY <3>1, <3>2 DEF Text!IsMode, Run
  <2>2. QED BY <2>1
<1>2. CASE s[i] = Text!Para
  <2>1. PICK k \in 1 .. i : Run(s, k, i)
    BY RunExists
  <2>2. Run(s, k, i + 1) /\ k \in 1 .. i + 1 /\ k \in Nat /\ k <= i
    <3>1. \A j \in k .. (i + 1) - 1 : j = i \/ j \in k .. i - 1
      OBVIOUS
    <3>2. QED BY <1>2, <2>1, <3>1 DEF Run
  <2>3. Text!IsMode(s, i) <=> (i - k) % 2 = 1
    <3>1. \A l \in 1 .. i : Run(s, l, i) => l = k
      BY <2>1, RunUnique
    <3>2. QED BY <1>1, <2>1, <3>1
  <2>4. Text!IsMode(s, i + 1) <=> ((i + 1) - k) % 2 = 1
    <3>1. \A l \in 1 .. i + 1 : Run(s, l, i + 1) => l = k
      BY <2>2, RunUnique
    <3>2. i + 1 \in Nat /\ i + 1 >= 1
      OBVIOUS
    <3>3. QED BY <1>1, <2>2, <3>1, <3>2
  <2>5. ((i + 1) - k) % 2 = 1 <=> ~((i - k) % 2 = 1)
    <3>1. PICK d \in Nat : d = i - k
      BY <2>2
    <3>2. (i + 1) - k = d + 1
      BY <2>2, <3>1
    <3>3. (d + 1) % 2 = 1 <=> ~(d % 2 = 1)
      OBVIOUS
    <3>4. QED BY <3>1, <3>2, <3>3
  <2>6. QED BY <1>2, <2>3, <2>4, <2>5
<1>3. CASE s[i] # Text!Para
  <2>1. \A k \in 1 .. i + 1 : Run(s, k, i + 1) => k = i + 1
    <3>1. ASSUME NEW k \in 1 .. i + 1, Run(s, k, i + 1), k # i + 1 PROVE FALSE
      <4>1. i \in k .. (i + 1) - 1
        BY <3>1
      <4>2. QED BY <1>3, <3>1, <4>1 DEF Run
    <3>2. QED BY <3>1
  <2>2. ((i + 1) - (i + 1)) % 2 = 0
    OBVIOUS
  <2>3. i + 1 \in Nat /\ i + 1 >= 1
    OBVIOUS
  <2>4. ~Text!IsMode(s, i + 1)
    BY <1>1, <2>1, <2>2, <2>3
  <2>5. QED BY <1>3, <2>4
<1>4. QED BY <1>2, <1>3

\* The modes before position i, the last of them that is no style, and those that say a colour.
Modes(s, i) == {j \in 1 .. i - 1 : Text!IsMode(s, j)}
Breaks(s, i) == {j \in Modes(s, i) : s[j] \notin Styles \cup {Text!Brace}}
Last(s, i) == Text!Max({0} \cup Breaks(s, i))
Sets(s, i) == {j \in Modes(s, i) : s[j] \in Colors \cup {Text!Reset}}

\* The look-up of style and colour in these terms.
LEMMA StyleIs ==
    ASSUME NEW s, NEW i
    PROVE  /\ Text!StyleAt(s, i) =
                  {s[j] : j \in {k \in Modes(s, i) : k > Last(s, i)}} \ {Text!Brace}
           /\ Text!ColorAt(s, i) =
                  IF \A j \in Sets(s, i) : s[j] = Text!Reset THEN Text!NoColor
                  ELSE IF s[Text!Max(Sets(s, i))] = Text!Reset THEN Text!White
                  ELSE s[Text!Max(Sets(s, i))]
<1>1. Sets(s, i) = {j \in 1 .. i - 1 : Text!IsMode(s, j) /\ s[j] \in Colors \cup {Text!Reset}}
  BY DEF Sets, Modes
<1>2. QED BY <1>1 DEF Text!StyleAt, Text!ColorAt, Modes, Breaks, Last

\* t begins with the first i symbols of s.
Agrees(s, t, i) == \A j \in 1 .. i : t[j] = s[j]

\* Whether a symbol is a mode, and what it looks like, is a matter of those before it.
LEMMA ModeAlike ==
    ASSUME NEW s, NEW t, NEW i \in Nat, i >= 1, Agrees(s, t, i - 1)
    PROVE  Text!IsMode(t, i) <=> Text!IsMode(s, i)
<1>1. \A j \in 1 .. i - 1 : t[j] = s[j]
  BY DEF Agrees
<1>2. \A k \in 1 .. i - 1 : /\ \A j \in k .. i - 1 : t[j] = s[j]
                            /\ k > 1 => t[k - 1] = s[k - 1]
  <2>1. ASSUME NEW k \in 1 .. i - 1
        PROVE  /\ \A j \in k .. i - 1 : j \in 1 .. i - 1
               /\ k > 1 => k - 1 \in 1 .. i - 1
    OBVIOUS
  <2>2. QED BY <1>1, <2>1
<1>3. QED BY <1>2 DEF Text!IsMode

\* So are the style and the colour of what comes next.
LEMMA LooksAlike ==
    ASSUME NEW s, NEW t, NEW i \in Nat, i >= 1, Agrees(s, t, i - 1)
    PROVE  Text!StyleAt(t, i) = Text!StyleAt(s, i) /\ Text!ColorAt(t, i) = Text!ColorAt(s, i)
<1>1. \A j \in 1 .. i - 1 : t[j] = s[j] /\ (Text!IsMode(t, j) <=> Text!IsMode(s, j))
  <2>1. ASSUME NEW j \in 1 .. i - 1
        PROVE  t[j] = s[j] /\ (Text!IsMode(t, j) <=> Text!IsMode(s, j))
    <3>1. j \in Nat /\ j >= 1 /\ Agrees(s, t, j - 1)
      BY DEF Agrees
    <3>2. Text!IsMode(t, j) <=> Text!IsMode(s, j)
      BY <3>1, ModeAlike
    <3>3. QED BY <3>2 DEF Agrees
  <2>2. QED BY <2>1
<1>2. Modes(t, i) = Modes(s, i) /\ \A j \in Modes(s, i) : t[j] = s[j] /\ j \in 1 .. i - 1
  BY <1>1 DEF Modes
<1>3. Breaks(t, i) = Breaks(s, i) /\ Sets(t, i) = Sets(s, i)
  BY <1>2 DEF Breaks, Sets
<1>4. Last(t, i) = Last(s, i)
  BY <1>3 DEF Last
<1> DEFINE T == {k \in Modes(s, i) : k > Last(s, i)}
           U == {k \in Modes(t, i) : k > Last(t, i)}
<1>5. {t[j] : j \in T} = {s[j] : j \in T} /\ U = T
  BY <1>2, <1>4
<1>6. Text!StyleAt(t, i) = Text!StyleAt(s, i)
  <2>1. Text!StyleAt(t, i) = {t[j] : j \in U} \ {Text!Brace}
    BY StyleIs
  <2>2. Text!StyleAt(s, i) = {s[j] : j \in T} \ {Text!Brace}
    BY StyleIs
  <2> HIDE DEF T, U
  <2>3. QED BY <1>5, <2>1, <2>2
<1>7. CASE \A j \in Sets(s, i) : s[j] = Text!Reset
  <2>1. \A j \in Sets(t, i) : t[j] = Text!Reset
    BY <1>2, <1>3, <1>7 DEF Sets
  <2>2. QED BY <1>6, <1>7, <2>1, StyleIs
<1>8. CASE ~(\A j \in Sets(s, i) : s[j] = Text!Reset)
  <2>1. ~(\A j \in Sets(t, i) : t[j] = Text!Reset)
    BY <1>2, <1>3, <1>8 DEF Sets
  <2>2. Sets(s, i) \in SUBSET (0 .. i) /\ Sets(s, i) # {}
    BY <1>8 DEF Sets, Modes
  <2>3. Text!Max(Sets(s, i)) \in Sets(s, i)
    BY <2>2, MaxIs
  <2>4. t[Text!Max(Sets(s, i))] = s[Text!Max(Sets(s, i))]
    BY <1>2, <2>3 DEF Sets
  <2>5. QED BY <1>3, <1>6, <1>8, <2>1, <2>4, StyleIs
<1>9. QED BY <1>7, <1>8

\* A symbol that is no mode changes nothing of what follows.
LEMMA NoModeNoChange ==
    ASSUME NEW s, NEW i \in Nat, i >= 1, ~Text!IsMode(s, i)
    PROVE  /\ Text!StyleAt(s, i + 1) = Text!StyleAt(s, i)
           /\ Text!ColorAt(s, i + 1) = Text!ColorAt(s, i)
<1>1. Modes(s, i + 1) = Modes(s, i)
  <2>1. \A j : j \in 1 .. (i + 1) - 1 <=> j \in 1 .. i - 1 \/ j = i
    OBVIOUS
  <2>2. QED BY <2>1 DEF Modes
<1>2. Breaks(s, i + 1) = Breaks(s, i) /\ Sets(s, i + 1) = Sets(s, i) /\ Last(s, i + 1) = Last(s, i)
  BY <1>1 DEF Breaks, Sets, Last
<1> DEFINE T == {k \in Modes(s, i) : k > Last(s, i)}
           U == {k \in Modes(s, i + 1) : k > Last(s, i + 1)}
<1>3. Text!StyleAt(s, i + 1) = Text!StyleAt(s, i)
  <2>1. Text!StyleAt(s, i + 1) = {s[j] : j \in U} \ {Text!Brace}
    BY StyleIs
  <2>2. Text!StyleAt(s, i) = {s[j] : j \in T} \ {Text!Brace}
    BY StyleIs
  <2>3. U = T
    BY <1>1, <1>2
  <2> HIDE DEF T, U
  <2>4. QED BY <2>1, <2>2, <2>3
<1>4. Text!ColorAt(s, i + 1) = Text!ColorAt(s, i)
  BY <1>2, StyleIs
<1>5. QED BY <1>3, <1>4

\* A mode changes the style and the colour as SetMode does.
LEMMA ModeChanges ==
    ASSUME Text!MarkupAssumption, NEW s, NEW i \in Nat, i >= 1, Text!IsMode(s, i)
    PROVE  /\ Text!StyleAt(s, i + 1) =
                  IF s[i] \in Styles THEN Text!StyleAt(s, i) \cup {s[i]}
                  ELSE IF s[i] = Text!Brace THEN Text!StyleAt(s, i) ELSE {}
           /\ Text!ColorAt(s, i + 1) =
                  IF s[i] \in Colors THEN s[i]
                  ELSE IF s[i] = Text!Reset /\ Text!ColorAt(s, i) # Text!NoColor THEN Text!White
                  ELSE Text!ColorAt(s, i)
<1>1. Modes(s, i + 1) = Modes(s, i) \cup {i} /\ Modes(s, i) \subseteq 1 .. i - 1
  <2>1. \A j : j \in 1 .. (i + 1) - 1 <=> j \in 1 .. i - 1 \/ j = i
    OBVIOUS
  <2>2. QED BY <2>1 DEF Modes
<1>2. /\ Breaks(s, i + 1) = Breaks(s, i) \cup
                IF s[i] \notin Styles \cup {Text!Brace} THEN {i} ELSE {}
      /\ Sets(s, i + 1) = Sets(s, i) \cup IF s[i] \in Colors \cup {Text!Reset} THEN {i} ELSE {}
  BY <1>1 DEF Breaks, Sets
<1>3. i - 1 \in Nat /\ (i - 1) + 1 = i
  OBVIOUS
<1>4. ({0} \cup Breaks(s, i)) \in SUBSET (0 .. i - 1) /\ Sets(s, i) \in SUBSET (0 .. i - 1)
  BY <1>1, <1>3 DEF Breaks, Sets
<1>5. Last(s, i) \in 0 .. i - 1
  <2>1. {0} \cup Breaks(s, i) # {}
    OBVIOUS
  <2>2. Last(s, i) \in {0} \cup Breaks(s, i)
    BY <1>3, <1>4, <2>1, MaxIs DEF Last
  <2>3. QED BY <1>4, <2>2
<1>6. Text!StyleAt(s, i + 1) =
          IF s[i] \in Styles THEN Text!StyleAt(s, i) \cup {s[i]}
          ELSE IF s[i] = Text!Brace THEN Text!StyleAt(s, i) ELSE {}
  <2>1. CASE s[i] \in Styles \cup {Text!Brace}
    <3>1. Last(s, i + 1) = Last(s, i)
      BY <1>2, <2>1 DEF Last
    <3>2. {k \in Modes(s, i + 1) : k > Last(s, i + 1)} =
              {k \in Modes(s, i) : k > Last(s, i)} \cup {i}
      BY <1>1, <1>5, <3>1
    <3> DEFINE U == {k \in Modes(s, i) : k > Last(s, i)}
    <3>3. {s[j] : j \in U \cup {i}} = {s[j] : j \in U} \cup {s[i]}
      OBVIOUS
    <3> HIDE DEF U
    <3>4. Text!StyleAt(s, i + 1) = ({s[j] : j \in U} \cup {s[i]}) \ {Text!Brace}
      BY <3>2, <3>3, StyleIs DEF U
    <3>5. Text!StyleAt(s, i) = {s[j] : j \in U} \ {Text!Brace}
      BY StyleIs DEF U
    <3>6. Text!Brace \notin Styles
      BY DEF Text!MarkupAssumption
    <3>7. QED BY <2>1, <3>4, <3>5, <3>6
  <2>2. CASE s[i] \notin Styles \cup {Text!Brace}
    <3>1. {0} \cup Breaks(s, i + 1) = ({0} \cup Breaks(s, i)) \cup {i}
      BY <1>2, <2>2
    <3>2. Last(s, i + 1) = i
      BY <1>3, <1>4, <3>1, MaxAdded DEF Last
    <3>3. {k \in Modes(s, i + 1) : k > Last(s, i + 1)} = {}
      BY <1>1, <3>2
    <3>4. Text!StyleAt(s, i + 1) = {}
      BY <3>3, StyleIs
    <3>5. QED BY <2>2, <3>4
  <2>3. QED BY <2>1, <2>2
<1>7. Text!ColorAt(s, i + 1) =
          IF s[i] \in Colors THEN s[i]
          ELSE IF s[i] = Text!Reset /\ Text!ColorAt(s, i) # Text!NoColor THEN Text!White
          ELSE Text!ColorAt(s, i)
  <2>1. Text!Reset \notin Colors /\ Text!NoColor \notin Colors
    BY DEF Text!MarkupAssumption
  <2>2. CASE s[i] \in Colors
    <3>1. Sets(s, i + 1) = Sets(s, i) \cup {i}
      BY <1>2, <2>2
    <3>2. Text!Max(Sets(s, i + 1)) = i
      BY <1>3, <1>4, <3>1, MaxAdded
    <3>3. ~(\A j \in Sets(s, i + 1) : s[j] = Text!Reset) /\ s[i] # Text!Reset
      BY <2>1, <2>2, <3>1
    <3>4. QED BY <2>2, <3>2, <3>3, StyleIs
  <2>3. CASE s[i] \notin Colors /\ s[i] # Text!Reset
    <3>1. Sets(s, i + 1) = Sets(s, i)
      BY <1>2, <2>3
    <3>2. QED BY <2>3, <3>1, StyleIs
  <2>4. CASE s[i] = Text!Reset
    <3>1. Sets(s, i + 1) = Sets(s, i) \cup {i}
      BY <1>2, <2>4
    <3>2. Text!Max(Sets(s, i + 1)) = i
      BY <1>3, <1>4, <3>1, MaxAdded
    <3>3. CASE \A j \in Sets(s, i) : s[j] = Text!Reset
      <4>1. \A j \in Sets(s, i + 1) : s[j] = Text!Reset
        BY <2>4, <3>1, <3>3
      <4>2. Text!ColorAt(s, i) = Text!NoColor /\ Text!ColorAt(s, i + 1) = Text!NoColor
        BY <3>3, <4>1, StyleIs
      <4>3. QED BY <2>1, <2>4, <4>2
    <3>4. CASE ~(\A j \in Sets(s, i) : s[j] = Text!Reset)
      <4>1. ~(\A j \in Sets(s, i + 1) : s[j] = Text!Reset)
        BY <3>1, <3>4
      <4>2. Text!ColorAt(s, i + 1) = Text!White
        BY <2>4, <3>2, <4>1, StyleIs
      <4>3. Text!ColorAt(s, i) # Text!NoColor
        <5>1. Sets(s, i) # {}
          BY <3>4
        <5>2. Text!Max(Sets(s, i)) \in Sets(s, i)
          BY <1>3, <1>4, <5>1, MaxIs
        <5>3. s[Text!Max(Sets(s, i))] \in Colors \cup {Text!Reset}
          BY <5>2 DEF Sets
        <5>4. Text!White # Text!NoColor
          BY DEF Text!White, Text!NoColor
        <5>5. QED BY <2>1, <3>4, <5>3, <5>4, StyleIs
      <4>4. QED BY <2>1, <2>4, <4>2, <4>3
    <3>5. QED BY <3>3, <3>4
  <2>5. QED BY <2>2, <2>3, <2>4
<1>8. QED BY <1>6, <1>7

\* A text in one style and colour; what is seen of some parts; and all that is to be seen.
Hues == Colors \cup {Text!White, Text!NoColor}
Cell == Text!Symbols \X (SUBSET Styles) \X Hues
Colored(t, st, co) == [k \in DOMAIN t |-> <<t[k], st, co>>]
Shows(ps) == Text!FlattenSeq([i \in DOMAIN ps |-> Text!Seen(ps[i])])
AllWanted(s) == Text!FlattenSeq([i \in DOMAIN s |-> Text!Wanted(s, i)])
PartRec == [text : Seq(Text!Symbols), style : SUBSET Styles, color : Hues, click : BOOLEAN]

\* A sequence that is q with e after it, and one that is a with b after it.
Longer(r, q, e, n) ==
    r = [i \in 1 .. n + 1 |-> r[i]] /\ r[n + 1] = e /\ \A i \in 1 .. n : r[i] = q[i]
Row(a, b, n, m) == [i \in 1 .. n + m |-> IF i <= n THEN a[i] ELSE b[i - n]]

\* That is what Append makes.
LEMMA IsAppend ==
    ASSUME NEW T, NEW q \in Seq(T), NEW e \in T, NEW n, n = Len(q), NEW r, Longer(r, q, e, n)
    PROVE  r = Append(q, e)
<1>1. Append(q, e) = [i \in 1 .. n + 1 |-> IF i = n + 1 THEN e ELSE q[i]]
  BY AppendOne
<1>2. \A i \in 1 .. n + 1 : i = n + 1 \/ i \in 1 .. n
  OBVIOUS
<1>3. \A i \in 1 .. n + 1 : r[i] = IF i = n + 1 THEN e ELSE q[i]
  BY <1>2 DEF Longer
<1>4. r = [i \in 1 .. n + 1 |-> IF i = n + 1 THEN e ELSE q[i]]
  BY <1>3 DEF Longer
<1>5. QED BY <1>1, <1>4

\* Two sequences in a row.
LEMMA ConcatIs ==
    ASSUME NEW T, NEW a \in Seq(T), NEW b \in Seq(T), NEW n, NEW m, n = Len(a), m = Len(b)
    PROVE  a \o b = Row(a, b, n, m)
<1>1. n \in Nat /\ m \in Nat
  OBVIOUS
<1>2. a \o b \in Seq(T) /\ Len(a \o b) = n + m
  OBVIOUS
<1>3. \A i \in 1 .. n + m : (a \o b)[i] = IF i <= n THEN a[i] ELSE b[i - n]
  BY ConcatProperties
<1> DEFINE c == a \o b
<1>4. c = [i \in 1 .. n + m |-> c[i]]
  <2> HIDE DEF c
  <2>1. c \in Seq(T) /\ Len(c) = n + m
    BY <1>2 DEF c
  <2>2. QED BY <2>1
<1>5. \A i \in 1 .. n + m : c[i] = IF i <= n THEN a[i] ELSE b[i - n]
  BY <1>3
<1> HIDE DEF c
<1>6. c = [i \in 1 .. n + m |-> IF i <= n THEN a[i] ELSE b[i - n]]
  BY <1>4, <1>5
<1>7. QED BY <1>6 DEF c, Row

\* A text in one colour is in the row what its halves are.
LEMMA ColoredConcat ==
    ASSUME NEW s \in Seq(Text!Symbols), NEW t \in Seq(Text!Symbols),
           NEW st \in SUBSET Styles, NEW co \in Hues
    PROVE  /\ Colored(s \o t, st, co) = Colored(s, st, co) \o Colored(t, st, co)
           /\ Colored(s, st, co) \in Seq(Cell)
<1> DEFINE U == Text!Symbols
           C == Cell
           n == Len(s)
           m == Len(t)
           r == s \o t
<1>1. n \in Nat /\ m \in Nat /\ DOMAIN s = 1 .. n /\ DOMAIN t = 1 .. m
  OBVIOUS
<1>2. /\ r \in Seq(U) /\ Len(r) = n + m /\ DOMAIN r = 1 .. n + m
      /\ \A i \in 1 .. n + m : r[i] = IF i <= n THEN s[i] ELSE t[i - n]
  OBVIOUS
<1>3. ASSUME NEW x \in U PROVE <<x, st, co>> \in C
  <2> HIDE DEF U
  <2>1. C = U \X (SUBSET Styles) \X Hues
    BY DEF Cell, U
  <2>2. QED BY <2>1
<1>4. \A i \in 1 .. n : s[i] \in U
  OBVIOUS
<1>5. \A i \in 1 .. m : t[i] \in U
  OBVIOUS
<1> HIDE DEF U, C, r, n, m
<1> DEFINE a == Colored(s, st, co)
           b == Colored(t, st, co)
           c == Colored(r, st, co)
<1>6. /\ a = [k \in 1 .. n |-> <<s[k], st, co>>] /\ b = [k \in 1 .. m |-> <<t[k], st, co>>]
      /\ c = [k \in 1 .. n + m |-> <<r[k], st, co>>]
  BY <1>1, <1>2 DEF Colored
<1>7. a \in Seq(C) /\ b \in Seq(C) /\ Len(a) = n /\ Len(b) = m
  <2>1. a \in [1 .. n -> C] /\ b \in [1 .. m -> C]
    BY <1>3, <1>4, <1>5, <1>6
  <2> HIDE DEF a, b
  <2>2. QED BY <1>1, <2>1
<1>8. a \o b = [i \in 1 .. n + m |-> IF i <= n THEN a[i] ELSE b[i - n]]
  <2> HIDE DEF a, b
  <2>1. a \o b = Row(a, b, n, m)
    BY <1>7, ConcatIs
  <2>2. QED BY <2>1 DEF Row
<1>9. \A i \in 1 .. n + m : c[i] = IF i <= n THEN a[i] ELSE b[i - n]
  <2>1. ASSUME NEW i \in 1 .. n + m, i <= n PROVE c[i] = a[i]
    <3>1. i \in 1 .. n
      BY <1>1, <2>1
    <3>2. r[i] = s[i]
      BY <1>2, <2>1
    <3> HIDE DEF a, c
    <3>3. QED BY <1>6, <3>1, <3>2
  <2>2. ASSUME NEW i \in 1 .. n + m, ~(i <= n) PROVE c[i] = b[i - n]
    <3>1. i - n \in 1 .. m
      BY <1>1, <2>2
    <3>2. r[i] = t[i - n]
      BY <1>2, <2>2
    <3> HIDE DEF b, c
    <3>3. QED BY <1>6, <3>1, <3>2
  <2> HIDE DEF a, b, c
  <2>3. QED BY <2>1, <2>2
<1>10. c = a \o b
  <2> HIDE DEF a, b, c
  <2>1. c = [i \in 1 .. n + m |-> c[i]]
    BY <1>6
  <2>2. QED BY <1>8, <1>9, <2>1
<1>11. QED BY <1>7, <1>10 DEF r, C

\* A sequence is what stands before one of its places, what is in it and what comes after it.
LEMMA Cut ==
    ASSUME NEW S, NEW s \in Seq(S), NEW a \in 1 .. Len(s)
    PROVE  /\ SubSeq(s, 1, a - 1) \in Seq(S) /\ SubSeq(s, a + 1, Len(s)) \in Seq(S)
           /\ s = (SubSeq(s, 1, a - 1) \o <<s[a]>>) \o SubSeq(s, a + 1, Len(s))
<1>1. SubSeq(s, 1, a - 1) \in Seq(S) /\ SubSeq(s, a + 1, Len(s)) \in Seq(S)
  OBVIOUS
<1> DEFINE n == Len(s)
           u == SubSeq(s, 1, a - 1)
           v == SubSeq(s, a + 1, n)
           w == Append(u, s[a])
           r == w \o v
<1>2. /\ n \in Nat /\ a \in Nat /\ a >= 1 /\ a <= n /\ s[a] \in S
      /\ s = [i \in 1 .. n |-> s[i]]
  OBVIOUS
<1>3. /\ Len(u) = a - 1 /\ \A i \in 1 .. a - 1 : u[i] = s[i]
      /\ Len(v) = n - a /\ \A i \in 1 .. n - a : v[i] = s[a + i]
  OBVIOUS
<1>4. w = u \o <<s[a]>>
  <2> HIDE DEF u
  <2>1. u \in Seq(S)
    BY <1>1 DEF u
  <2>2. QED BY <1>2, <2>1
<1> HIDE DEF u, v, n
<1>5. w \in Seq(S) /\ Len(w) = a /\ \A i \in 1 .. a : w[i] = s[i]
  <2>1. w \in Seq(S) /\ Len(w) = a /\ w[a] = s[a] /\ \A i \in 1 .. a - 1 : w[i] = u[i]
    BY <1>1, <1>2, <1>3, AppendProperties DEF u
  <2>2. \A i \in 1 .. a : i = a \/ i \in 1 .. a - 1
    BY <1>2
  <2> HIDE DEF w
  <2>3. QED BY <1>3, <2>1, <2>2
<1> HIDE DEF w
<1>6. r = [i \in 1 .. n |-> IF i <= a THEN w[i] ELSE v[i - a]]
  <2>1. v \in Seq(S)
    BY <1>1 DEF v, n
  <2>2. w \o v = Row(w, v, Len(w), Len(v))
    BY <1>5, <2>1, ConcatIs
  <2>3. a + (n - a) = n /\ Len(w) = a /\ Len(v) = n - a
    BY <1>2, <1>3, <1>5
  <2>4. QED BY <2>2, <2>3 DEF Row
<1>7. ASSUME NEW i \in 1 .. n PROVE (IF i <= a THEN w[i] ELSE v[i - a]) = s[i]
  <2>1. CASE i <= a
    BY <1>2, <1>5, <2>1
  <2>2. CASE ~(i <= a)
    <3>1. i - a \in 1 .. n - a /\ a + (i - a) = i
      BY <1>2, <2>2
    <3>2. v[i - a] = s[a + (i - a)]
      BY <1>3, <3>1
    <3>3. QED BY <2>2, <3>1, <3>2
  <2>3. QED BY <2>1, <2>2
<1>8. r = s
  <2> HIDE DEF r
  <2>1. r = [i \in 1 .. n |-> s[i]]
    BY <1>6, <1>7
  <2>2. QED BY <1>2, <2>1
<1>9. QED BY <1>1, <1>4, <1>8 DEF u, v, n, r

\* One more part shows what its text is, in the style and the colour of the moment.
LEMMA ShowsPart ==
    ASSUME NEW ps \in Seq(PartRec), NEW t \in Seq(Text!Symbols), NEW click \in BOOLEAN,
           style \in SUBSET Styles, color \in Hues
    PROVE  /\ ps \o Text!Part(t, click) \in Seq(PartRec)
           /\ Shows(ps \o Text!Part(t, click)) = Shows(ps) \o Colored(t, style, color)
           /\ Shows(ps) \in Seq(Cell)
<1> DEFINE C == Seq(Cell)
           q == [i \in DOMAIN ps |-> Text!Seen(ps[i])]
           n == Len(ps)
<1>1. ASSUME NEW p \in PartRec PROVE Text!Seen(p) \in C
  <2>1. p.text \in Seq(Text!Symbols) /\ p.style \in SUBSET Styles /\ p.color \in Hues
    BY <1>1 DEF PartRec
  <2>2. Text!Seen(p) = Colored(p.text, p.style, p.color)
    BY DEF Text!Seen, Colored
  <2>3. QED BY <2>1, <2>2, ColoredConcat
<1>2. q \in Seq(C) /\ Len(q) = n /\ n \in Nat
  <2>1. DOMAIN ps = 1 .. n /\ n \in Nat /\ \A i \in 1 .. n : ps[i] \in PartRec
    OBVIOUS
  <2> HIDE DEF C, n
  <2>2. q \in [1 .. n -> C]
    BY <1>1, <2>1
  <2> HIDE DEF q
  <2>3. QED BY <2>1, <2>2
<1>3. Shows(ps) = Java!FlattenSeq(q)
  BY DEF Shows, Text!FlattenSeq, Java!FlattenSeq
<1>4. Shows(ps) \in C
  <2>1. <<>> \in C
    OBVIOUS
  <2> HIDE DEF q
  <2>2. QED BY <1>2, <1>3, <2>1, FlattenAppend
<1>5. CASE t = <<>>
  <2>1. Text!Part(t, click) = <<>> /\ Colored(t, style, color) = <<>>
    BY <1>5 DEF Text!Part, Colored
  <2>2. ps \o <<>> = ps
    OBVIOUS
  <2> HIDE DEF C
  <2>3. Shows(ps) \o <<>> = Shows(ps)
    BY <1>4 DEF C
  <2>4. QED BY <1>4, <2>1, <2>2, <2>3 DEF C
<1>6. CASE t # <<>>
  <2> DEFINE p == [text |-> t, style |-> style, color |-> color, click |-> click]
             e == Colored(t, style, color)
             ps2 == Append(ps, p)
             q2 == [i \in DOMAIN ps2 |-> Text!Seen(ps2[i])]
  <2>1. p \in PartRec /\ Text!Seen(p) = e
    BY DEF PartRec, Text!Seen, Colored
  <2>2. Text!Part(t, click) = <<p>>
    BY <1>6 DEF Text!Part
  <2>3. e \in C
    BY ColoredConcat
  <2> HIDE DEF p, e
  <2>4. ps \o <<p>> = ps2 /\ ps2 \in Seq(PartRec)
    BY <2>1
  <2>5. /\ DOMAIN ps2 = 1 .. n + 1 /\ ps2[n + 1] = p
        /\ \A i \in 1 .. n : ps2[i] = ps[i] /\ i \in DOMAIN ps
    BY <2>1
  <2> HIDE DEF ps2, n
  <2>6. q2[n + 1] = e /\ \A i \in 1 .. n : q2[i] = q[i]
    <3>1. n + 1 \in 1 .. n + 1 /\ \A i \in 1 .. n : i \in 1 .. n + 1
      BY <1>2
    <3>2. QED BY <2>1, <2>5, <3>1
  <2>7. q2 = [i \in 1 .. n + 1 |-> q2[i]]
    BY <2>5
  <2> HIDE DEF q, q2, C
  <2>8. q2 = Append(q, e)
    <3>1. Longer(q2, q, e, n)
      BY <2>6, <2>7 DEF Longer
    <3>2. QED BY <1>2, <2>3, <3>1, IsAppend
  <2>9. Shows(ps2) = Java!FlattenSeq(q2)
    BY DEF Shows, Text!FlattenSeq, Java!FlattenSeq, q2
  <2>10. Java!FlattenSeq(Append(q, e)) = Java!FlattenSeq(q) \o e
    BY <1>2, <2>3, FlattenAppend DEF C
  <2>11. Shows(ps2) = Shows(ps) \o e
    BY <1>3, <2>8, <2>9, <2>10
  <2>12. QED BY <1>4, <2>2, <2>4, <2>11 DEF e, C
<1>7. QED BY <1>5, <1>6

\* The parts made of the buffer show what has been buffered.
LEMMA FlushedShows ==
    ASSUME parts \in Seq(PartRec), buf \in Seq(Text!Symbols),
           style \in SUBSET Styles, color \in Hues
    PROVE  /\ parts \o Text!Flushed \in Seq(PartRec)
           /\ Shows(parts \o Text!Flushed) = Shows(parts) \o Colored(buf, style, color)
           /\ Shows(parts) \in Seq(Cell)
<1> DEFINE no == FALSE
           yes == TRUE
           urls == {i \in DOMAIN buf : buf[i] = Text!Url}
           a == Text!Min(urls)
           n == Len(buf)
           u == SubSeq(buf, 1, a - 1)
           v == SubSeq(buf, a + 1, n)
           one == <<Text!Url>>
           p == Text!Part(u, no)
           q == Text!Part(one, yes)
           r == Text!Part(v, no)
<1>1. no \in BOOLEAN /\ yes \in BOOLEAN
  OBVIOUS
<1>2. Text!Flushed = IF urls = {} THEN Text!Part(buf, no) ELSE p \o q \o r
  BY DEF Text!Flushed
<1> HIDE DEF no, yes
<1>3. CASE urls = {}
  BY <1>1, <1>2, <1>3, ShowsPart
<1>4. CASE urls # {}
  <2>1. urls \in SUBSET Nat
    OBVIOUS
  <2>2. a \in urls
    <3> HIDE DEF urls
    <3>1. \E x \in urls : \A y \in urls : x <= y
      BY <1>4, <2>1, Least
    <3>2. QED BY <3>1 DEF Text!Min
  <2>3. a \in 1 .. n /\ buf[a] = Text!Url
    <3> HIDE DEF a
    <3>1. QED BY <2>2
  <2>4. u \in Seq(Text!Symbols) /\ v \in Seq(Text!Symbols) /\ buf = (u \o one) \o v
    <3> HIDE DEF a
    <3>1. QED BY <2>3, Cut
  <2>5. one \in Seq(Text!Symbols)
    BY DEF Text!Symbols
  <2>6. Text!Flushed = p \o q \o r
    BY <1>2, <1>4
  <2> HIDE DEF urls, a, u, v, one, n
  <2> DEFINE P == PartRec
             ps1 == parts \o p
             ps2 == ps1 \o q
             ps3 == ps2 \o r
             C == Cell
             S == Shows(parts)
             cu == Colored(u, style, color)
             co == Colored(one, style, color)
             cv == Colored(v, style, color)
  <2>7. ps1 \in Seq(P) /\ Shows(ps1) = S \o cu /\ S \in Seq(C)
    BY <1>1, <2>4, ShowsPart
  <2>8. ps2 \in Seq(P) /\ Shows(ps2) = Shows(ps1) \o co
    <3> HIDE DEF ps1
    <3>1. QED BY <1>1, <2>5, <2>7, ShowsPart
  <2>9. ps3 \in Seq(P) /\ Shows(ps3) = Shows(ps2) \o cv
    <3> HIDE DEF ps2
    <3>1. QED BY <1>1, <2>4, <2>8, ShowsPart
  <2>10. p \in Seq(P) /\ q \in Seq(P) /\ r \in Seq(P)
    <3>1. ASSUME NEW t \in Seq(Text!Symbols), NEW c \in BOOLEAN PROVE Text!Part(t, c) \in Seq(P)
      <4> DEFINE rec == [text |-> t, style |-> style, color |-> color, click |-> c]
      <4>1. rec \in P
        BY DEF PartRec
      <4>2. Text!Part(t, c) = IF t = <<>> THEN <<>> ELSE <<rec>>
        BY DEF Text!Part
      <4> HIDE DEF rec, P
      <4>3. QED BY <4>1, <4>2
    <3>2. QED BY <1>1, <2>4, <2>5, <3>1
  <2> HIDE DEF p, q, r, P, C
  <2>11. parts \o (p \o q \o r) = ps3
    <3>1. parts \in Seq(P)
      BY DEF P
    <3>2. parts \o (p \o q) = ps2
      BY <2>10, <3>1
    <3> DEFINE pq == p \o q
    <3>3. pq \in Seq(P)
      BY <2>10
    <3> HIDE DEF pq
    <3>4. parts \o (pq \o r) = (parts \o pq) \o r
      BY <2>10, <3>1, <3>3
    <3>5. QED BY <3>2, <3>4 DEF pq
  <2>12. Colored(buf, style, color) = (cu \o co) \o cv /\ cu \in Seq(C) /\ co \in Seq(C) /\ cv \in Seq(C)
    <3> DEFINE uo == u \o one
    <3>1. uo \in Seq(Text!Symbols) /\ buf = uo \o v
      BY <2>4, <2>5
    <3> HIDE DEF uo
    <3>2. Colored(buf, style, color) = Colored(uo, style, color) \o cv
      <4>1. Colored(uo \o v, style, color) = Colored(uo, style, color) \o Colored(v, style, color)
        BY <2>4, <3>1, ColoredConcat
      <4>2. QED BY <3>1, <4>1
    <3>3. Colored(uo, style, color) = cu \o co
      BY <2>4, <2>5, ColoredConcat DEF uo
    <3>4. cu \in Seq(C) /\ co \in Seq(C) /\ cv \in Seq(C)
      BY <2>4, <2>5, ColoredConcat DEF C
    <3>5. QED BY <3>2, <3>3, <3>4
  <2> HIDE DEF cu, co, cv, S
  <2>13. ((S \o cu) \o co) \o cv = S \o ((cu \o co) \o cv)
    <3>1. S \in Seq(C) /\ cu \in Seq(C) /\ co \in Seq(C) /\ cv \in Seq(C)
      BY <2>7, <2>12
    <3>2. (S \o cu) \o co = S \o (cu \o co) /\ cu \o co \in Seq(C)
      BY <3>1
    <3> DEFINE uo == cu \o co
    <3>3. uo \in Seq(C)
      BY <3>2
    <3> HIDE DEF uo
    <3>4. (S \o uo) \o cv = S \o (uo \o cv)
      BY <3>1, <3>3
    <3>5. QED BY <3>2, <3>4 DEF uo
  <2>14. QED BY <2>6, <2>7, <2>8, <2>9, <2>11, <2>12, <2>13 DEF S, P, C
<1>5. QED BY <1>3, <1>4

\* What is to be seen of one more symbol comes after what is to be seen of the others.
LEMMA WantedAppend ==
    ASSUME NEW s \in Seq(Text!Symbols), NEW c \in Text!Symbols,
           \A i \in 1 .. Len(s) : Text!Wanted(s, i) \in Seq(Cell),
           Text!Wanted(Append(s, c), Len(s) + 1) \in Seq(Cell)
    PROVE  /\ AllWanted(Append(s, c)) = AllWanted(s) \o Text!Wanted(Append(s, c), Len(s) + 1)
           /\ AllWanted(s) \in Seq(Cell)
           /\ \A i \in 1 .. Len(s) : Text!Wanted(Append(s, c), i) \in Seq(Cell)
<1> DEFINE n == Len(s)
           t == Append(s, c)
           C == Seq(Cell)
           q == [i \in DOMAIN s |-> Text!Wanted(s, i)]
           r == [i \in DOMAIN t |-> Text!Wanted(t, i)]
           e == Text!Wanted(t, n + 1)
<1>1. /\ n \in Nat /\ DOMAIN s = 1 .. n /\ DOMAIN t = 1 .. n + 1
      /\ \A i \in 1 .. n : t[i] = s[i]
  OBVIOUS
<1>2. e \in C /\ \A i \in 1 .. n : Text!Wanted(s, i) \in C
  OBVIOUS
<1> HIDE DEF n, t, C
<1>3. \A i \in 1 .. n : Text!Wanted(t, i) = Text!Wanted(s, i)
  <2>1. ASSUME NEW i \in 1 .. n PROVE Text!Wanted(t, i) = Text!Wanted(s, i)
    <3>1. i \in Nat /\ i >= 1 /\ t[i] = s[i]
      BY <1>1
    <3>2. Agrees(s, t, i - 1)
      BY <1>1 DEF Agrees
    <3>3. (Text!IsMode(t, i) <=> Text!IsMode(s, i)) /\ Text!StyleAt(t, i) = Text!StyleAt(s, i)
          /\ Text!ColorAt(t, i) = Text!ColorAt(s, i)
      BY <3>1, <3>2, ModeAlike, LooksAlike
    <3>4. QED BY <3>1, <3>3 DEF Text!Wanted
  <2>2. QED BY <2>1
<1>4. q \in Seq(C) /\ Len(q) = n
  <2>1. q \in [1 .. n -> C]
    BY <1>1, <1>2
  <2> HIDE DEF q
  <2>2. QED BY <1>1, <2>1
<1>5. Longer(r, q, e, n)
  <2>1. r[n + 1] = e
    BY <1>1
  <2>2. \A i \in 1 .. n : r[i] = q[i]
    BY <1>1, <1>3
  <2>3. r = [i \in 1 .. n + 1 |-> r[i]]
    BY <1>1
  <2> HIDE DEF r, q, e
  <2>4. QED BY <2>1, <2>2, <2>3 DEF Longer
<1>6. AllWanted(s) = Java!FlattenSeq(q) /\ AllWanted(t) = Java!FlattenSeq(r)
  BY DEF AllWanted, Text!FlattenSeq, Java!FlattenSeq
<1> HIDE DEF q, r, e
<1>7. r = Append(q, e)
  BY <1>2, <1>4, <1>5, IsAppend
<1>8. Java!FlattenSeq(q) \in Seq(Cell) /\ Java!FlattenSeq(Append(q, e)) = Java!FlattenSeq(q) \o e
  BY <1>2, <1>4, FlattenAppend DEF C
<1>9. QED BY <1>2, <1>3, <1>6, <1>7, <1>8 DEF t, n, e, C

\* Everything is in the style and the colour that the codes give, and so is the buffer; all
\* that is to be seen is in the parts already or in the buffer still.
MarkupTypes ==
    /\ input \in Seq(Text!Symbols) /\ buf \in Seq(Text!Symbols) /\ parts \in Seq(PartRec)
    /\ style \in SUBSET Styles /\ color \in Hues
    /\ \A i \in 1 .. Len(input) : Text!Wanted(input, i) \in Seq(Cell)
Reading ==
    /\ place \in {"text", "mode"} /\ (place = "mode" <=> Text!IsMode(input, Len(input) + 1))
    /\ place = "mode" => buf = <<>>
    /\ style = Text!StyleAt(input, Len(input) + 1) /\ color = Text!ColorAt(input, Len(input) + 1)
    /\ AllWanted(input) = Shows(parts) \o Colored(buf, style, color)
Marked ==
    /\ MarkupTypes
    /\ Reading \/ (place = "done" /\ AllWanted(input) = Shows(parts))

Fresh ==
    /\ input = <<>> /\ place = "text" /\ buf = <<>>
    /\ style = {} /\ color = Text!NoColor /\ parts = <<>>

\* Before a text nothing is in the parts or in the buffer.
LEMMA MarkedAtFirst == Fresh => Marked
<1>0. SUFFICES ASSUME Fresh PROVE Marked
  OBVIOUS
<1>1. Text!FlattenSeq(<<>>) = <<>>
  BY DEF Text!FlattenSeq
<1>2. AllWanted(<<>>) = <<>> /\ Shows(<<>>) = <<>>
  BY <1>1 DEF AllWanted, Shows
<1>3. Colored(<<>>, style, color) = <<>>
  BY DEF Colored
<1>4. Len(<<>>) + 1 = 1 /\ 1 .. 0 = {}
  OBVIOUS
<1>5. ~Text!IsMode(<<>>, 1)
  BY DEF Text!IsMode
<1>6. Modes(<<>>, 1) = {} /\ Sets(<<>>, 1) = {}
  BY DEF Modes, Sets
<1>7. Text!StyleAt(<<>>, 1) = {} /\ Text!ColorAt(<<>>, 1) = Text!NoColor
  BY <1>6, StyleIs
<1>8. MarkupTypes
  BY <1>0, <1>4 DEF MarkupTypes, Hues, Fresh
<1>9. <<>> \o <<>> = <<>>
  OBVIOUS
<1>10. Reading
  BY <1>0, <1>2, <1>3, <1>4, <1>5, <1>7, <1>9 DEF Reading, Fresh
<1>11. QED BY <1>8, <1>10 DEF Marked

\* One more symbol, told by what it means: a mode, a sign or a symbol to be shown.
LEMMA OneMore ==
    ASSUME Text!MarkupAssumption, MarkupTypes, Reading, NEW c \in Text!Symbols, NEW t,
           t = Append(input, c)
    PROVE  /\ t \in Seq(Text!Symbols) /\ Len(t) = Len(input) + 1 /\ t[Len(t)] = c
           /\ Len(t) \in Nat /\ Len(t) >= 1
           /\ Text!IsMode(t, Len(t)) <=> place = "mode"
           /\ Text!StyleAt(t, Len(t)) = style /\ Text!ColorAt(t, Len(t)) = color
           /\ Text!Wanted(t, Len(t)) =
                  IF place = "mode" \/ c = Text!Para THEN <<>> ELSE Colored(<<c>>, style, color)
           /\ \A i \in 1 .. Len(t) : Text!Wanted(t, i) \in Seq(Cell)
           /\ AllWanted(t) = AllWanted(input) \o Text!Wanted(t, Len(t))
           /\ AllWanted(input) \in Seq(Cell)
<1> DEFINE s == input
           n == Len(s)
<1>1. /\ s \in Seq(Text!Symbols) /\ t \in Seq(Text!Symbols) /\ Len(t) = n + 1 /\ t[n + 1] = c
      /\ n \in Nat /\ n + 1 \in Nat /\ n + 1 >= 1 /\ \A i \in 1 .. n : t[i] = s[i]
  BY DEF MarkupTypes
<1>2. Agrees(s, t, (n + 1) - 1)
  BY <1>1 DEF Agrees
<1>3. /\ Text!IsMode(t, n + 1) <=> Text!IsMode(s, n + 1)
      /\ Text!StyleAt(t, n + 1) = Text!StyleAt(s, n + 1)
      /\ Text!ColorAt(t, n + 1) = Text!ColorAt(s, n + 1)
  <2> HIDE DEF n, s
  <2>1. QED BY <1>1, <1>2, ModeAlike, LooksAlike
<1>4. /\ Text!IsMode(s, n + 1) <=> place = "mode"
      /\ Text!StyleAt(s, n + 1) = style /\ Text!ColorAt(s, n + 1) = color
  BY DEF Reading
<1>5. Colored(<<c>>, style, color) = <<<<c, style, color>>>>
  BY DEF Colored
<1>6. Text!Wanted(t, n + 1) =
          IF place = "mode" \/ c = Text!Para THEN <<>> ELSE Colored(<<c>>, style, color)
  BY <1>1, <1>3, <1>4, <1>5 DEF Text!Wanted
<1>7. Colored(<<c>>, style, color) \in Seq(Cell)
  <2>1. <<c>> \in Seq(Text!Symbols)
    OBVIOUS
  <2>2. QED BY <2>1, ColoredConcat DEF MarkupTypes
<1>8. Text!Wanted(t, n + 1) \in Seq(Cell)
  <2>1. <<>> \in Seq(Cell)
    OBVIOUS
  <2> HIDE DEF n
  <2>2. QED BY <1>6, <1>7, <2>1
<1>9. \A i \in 1 .. n : Text!Wanted(s, i) \in Seq(Cell)
  BY DEF MarkupTypes
<1>10. /\ AllWanted(t) = AllWanted(s) \o Text!Wanted(t, n + 1) /\ AllWanted(s) \in Seq(Cell)
       /\ \A i \in 1 .. n : Text!Wanted(t, i) \in Seq(Cell)
  BY <1>1, <1>8, <1>9, WantedAppend
<1>11. \A i \in 1 .. n + 1 : i = n + 1 \/ i \in 1 .. n
  BY <1>1
<1> HIDE DEF n, s
<1>12. \A i \in 1 .. n + 1 : Text!Wanted(t, i) \in Seq(Cell)
  BY <1>8, <1>10, <1>11
<1>13. QED BY <1>1, <1>3, <1>4, <1>6, <1>10, <1>12 DEF n, s

\* What Para2Json has seen of the text it will show.
LEMMA FaithfulHolds == ASSUME Text!MarkupAssumption
                       PROVE  Text!Spec => []Text!Faithful
<1>1. Text!Init => Marked
  BY MarkedAtFirst DEF Text!Init, Fresh
<1>2. Fresh' => Marked'
  BY MarkedAtFirst, PTL
<1>3. Marked /\ [Text!Next]_Text!vars => Marked'
  <2> SUFFICES ASSUME Marked, [Text!Next]_Text!vars PROVE Marked'
    OBVIOUS
  <2>1. CASE UNCHANGED Text!vars
    BY <2>1 DEF Marked, MarkupTypes, Reading, Text!vars
  <2>2. ASSUME NEW c \in Text!Symbols, Text!ReadRune(c) PROVE Marked'
    <3>1. PICK t : t = Append(input, c)
      OBVIOUS
    <3>2. place # "done" /\ input' = t
      BY <2>2, <3>1 DEF Text!ReadRune
    <3>3. MarkupTypes /\ Reading
      BY <3>2 DEF Marked
    <3> DEFINE n == Len(t)
               seen == Text!Wanted(t, n)
               all == AllWanted(input)
               one == Colored(<<c>>, style, color)
    <3>4. /\ t \in Seq(Text!Symbols) /\ t[n] = c /\ n \in Nat /\ n >= 1
          /\ Text!IsMode(t, n) <=> place = "mode"
          /\ Text!StyleAt(t, n) = style /\ Text!ColorAt(t, n) = color
          /\ seen = IF place = "mode" \/ c = Text!Para THEN <<>> ELSE one
          /\ \A i \in 1 .. n : Text!Wanted(t, i) \in Seq(Cell)
          /\ AllWanted(t) = all \o seen /\ all \in Seq(Cell)
      BY <3>1, <3>3, OneMore
    <3>5. Text!IsMode(t, n + 1) <=> c = Text!Para /\ place # "mode"
      BY <3>4, ModeStep
    <3>6. /\ input \in Seq(Text!Symbols) /\ buf \in Seq(Text!Symbols) /\ parts \in Seq(PartRec)
          /\ style \in SUBSET Styles /\ color \in Hues
      BY <3>3 DEF MarkupTypes
    <3>7. /\ place \in {"text", "mode"} /\ (place = "mode" => buf = <<>>)
          /\ all = Shows(parts) \o Colored(buf, style, color)
      BY <3>3 DEF Reading
    <3> HIDE DEF n, seen, all, one
    <3>8. Shows(parts) \in Seq(Cell) /\ all \o <<>> = all
      BY <3>4, <3>6, FlushedShows
    <3>9. CASE place = "text" /\ c # Text!Para
      <4>1. buf' = Append(buf, c) /\ UNCHANGED <<place, style, color, parts>>
        BY <2>2, <3>9 DEF Text!ReadRune
      <4>2. PICK b : b = Append(buf, c)
        OBVIOUS
      <4>3. b \in Seq(Text!Symbols) /\ b = buf \o <<c>> /\ <<c>> \in Seq(Text!Symbols)
        BY <3>6, <4>2
      <4>4. /\ Colored(b, style, color) = Colored(buf, style, color) \o one
            /\ Colored(buf, style, color) \in Seq(Cell) /\ one \in Seq(Cell)
        BY <3>6, <4>3, ColoredConcat DEF one
      <4>5. AllWanted(t) = Shows(parts) \o Colored(b, style, color)
        <5> DEFINE S == Shows(parts)
                   m == Colored(buf, style, color)
        <5>1. S \in Seq(Cell) /\ m \in Seq(Cell)
          BY <3>8, <4>4
        <5>2. AllWanted(t) = (S \o m) \o one
          BY <3>4, <3>7, <3>9
        <5> HIDE DEF S, m
        <5>3. (S \o m) \o one = S \o (m \o one)
          BY <4>4, <5>1
        <5>4. QED BY <4>4, <5>2, <5>3 DEF S, m
      <4>6. Text!StyleAt(t, n + 1) = style /\ Text!ColorAt(t, n + 1) = color
        <5>1. ~Text!IsMode(t, n)
          BY <3>4, <3>9
        <5>2. QED BY <3>4, <5>1, NoModeNoChange
      <4>7. MarkupTypes'
        BY <3>2, <3>4, <3>6, <4>1, <4>2, <4>3 DEF MarkupTypes, n
      <4>8. Reading'
        BY <3>2, <3>5, <3>9, <4>1, <4>2, <4>5, <4>6 DEF Reading, n
      <4>9. QED BY <4>7, <4>8 DEF Marked
    <3>10. CASE place = "text" /\ c = Text!Para
      <4>1. PICK ps : ps = parts \o Text!Flushed
        OBVIOUS
      <4>2. /\ parts' = ps /\ buf' = <<>> /\ place' = "mode" /\ UNCHANGED <<style, color>>
        BY <2>2, <3>10, <4>1 DEF Text!ReadRune
      <4>3. ps \in Seq(PartRec) /\ Shows(ps) = all
        BY <3>6, <3>7, <4>1, FlushedShows
      <4>4. AllWanted(t) = Shows(ps) /\ Shows(ps) \o <<>> = Shows(ps)
        BY <3>4, <3>8, <3>10, <4>3
      <4>5. Text!StyleAt(t, n + 1) = style /\ Text!ColorAt(t, n + 1) = color
        <5>1. ~Text!IsMode(t, n)
          BY <3>4, <3>10
        <5>2. QED BY <3>4, <5>1, NoModeNoChange
      <4>6. Colored(<<>>, style, color) = <<>>
        BY DEF Colored
      <4>7. MarkupTypes'
        BY <3>2, <3>4, <3>6, <4>2, <4>3 DEF MarkupTypes, n
      <4>8. Reading'
        BY <3>2, <3>5, <3>10, <4>2, <4>4, <4>5, <4>6 DEF Reading, n
      <4>9. QED BY <4>7, <4>8 DEF Marked
    <3>11. CASE place = "mode"
      <4>1. Text!SetMode(c) /\ place' = "text" /\ UNCHANGED <<buf, parts>>
        BY <2>2, <3>11 DEF Text!ReadRune
      <4>2. Text!StyleAt(t, n + 1) = style' /\ Text!ColorAt(t, n + 1) = color'
        <5>1. /\ Text!StyleAt(t, n + 1) =
                     IF c \in Styles THEN style \cup {c} ELSE IF c = Text!Brace THEN style ELSE {}
              /\ Text!ColorAt(t, n + 1) =
                     IF c \in Colors THEN c
                     ELSE IF c = Text!Reset /\ color # Text!NoColor THEN Text!White ELSE color
          BY <3>4, <3>11, ModeChanges
        <5>2. QED BY <4>1, <5>1 DEF Text!SetMode
      <4>3. style' \in SUBSET Styles /\ color' \in Hues
        BY <3>6, <4>1 DEF Text!SetMode, Hues
      <4>4. Colored(<<>>, style', color') = <<>> /\ Colored(<<>>, style, color) = <<>>
        BY DEF Colored
      <4>5. buf = <<>> /\ AllWanted(t) = all
        BY <3>4, <3>7, <3>8, <3>11
      <4>6. AllWanted(t) = Shows(parts) \o Colored(<<>>, style', color')
        BY <3>7, <4>4, <4>5
      <4>7. MarkupTypes'
        BY <3>2, <3>4, <3>6, <4>1, <4>3 DEF MarkupTypes, n
      <4>8. Reading'
        BY <3>2, <3>5, <3>11, <4>1, <4>2, <4>5, <4>6 DEF Reading, n
      <4>9. QED BY <4>7, <4>8 DEF Marked
    <3>12. QED BY <3>7, <3>9, <3>10, <3>11
  <2>3. CASE Text!End
    <3>1. place # "done" /\ place' = "done" /\ input' = input
      BY <2>3 DEF Text!End
    <3>2. MarkupTypes /\ Reading
      BY <3>1 DEF Marked
    <3>3. /\ input \in Seq(Text!Symbols) /\ buf \in Seq(Text!Symbols) /\ parts \in Seq(PartRec)
          /\ style \in SUBSET Styles /\ color \in Hues
          /\ \A i \in 1 .. Len(input) : Text!Wanted(input, i) \in Seq(Cell)
      BY <3>2 DEF MarkupTypes
    <3>4. /\ place \in {"text", "mode"} /\ (place = "mode" => buf = <<>>)
          /\ AllWanted(input) = Shows(parts) \o Colored(buf, style, color)
      BY <3>2 DEF Reading
    <3>5. CASE place = "text"
      <4>1. PICK ps : ps = parts \o Text!Flushed
        OBVIOUS
      <4>2. parts' = ps /\ buf' = <<>> /\ Text!SetMode(Text!Reset)
        BY <2>3, <3>5, <4>1 DEF Text!End
      <4>3. ps \in Seq(PartRec) /\ Shows(ps) = AllWanted(input)
        BY <3>3, <3>4, <4>1, FlushedShows
      <4>4. style' \in SUBSET Styles /\ color' \in Hues
        BY <3>3, <4>2 DEF Text!SetMode, Hues
      <4>5. MarkupTypes'
        BY <3>1, <3>3, <4>2, <4>3, <4>4 DEF MarkupTypes
      <4>6. QED BY <3>1, <4>2, <4>3, <4>5 DEF Marked
    <3>6. CASE place = "mode"
      <4>1. Text!SetMode(Text!Para) /\ buf' = <<Text!Reset>> /\ UNCHANGED parts
        BY <2>3, <3>1, <3>6 DEF Text!End
      <4>2. style' \in SUBSET Styles /\ color' \in Hues
        BY <3>3, <4>1 DEF Text!SetMode, Hues
      <4>3. Colored(<<>>, style, color) = <<>> /\ Shows(parts) \in Seq(Cell)
        BY <3>3, FlushedShows DEF Colored
      <4>4. AllWanted(input) = Shows(parts)
        <5> DEFINE S == Shows(parts)
        <5> HIDE DEF S
        <5>1. S \o <<>> = S
          BY <4>3 DEF S
        <5>2. QED BY <3>4, <3>6, <4>3, <5>1 DEF S
      <4>5. <<Text!Reset>> \in Seq(Text!Symbols)
        BY DEF Text!Symbols
      <4>6. MarkupTypes'
        BY <3>1, <3>3, <4>1, <4>2, <4>5 DEF MarkupTypes
      <4>7. QED BY <3>1, <4>1, <4>4, <4>6 DEF Marked
    <3>7. QED BY <3>4, <3>5, <3>6
  <2>4. CASE Text!Again
    BY <1>2, <2>4 DEF Text!Again, Fresh
  <2>5. QED BY <2>1, <2>2, <2>3, <2>4 DEF Text!Next
<1>4. Marked => Text!Faithful
  <2> SUFFICES ASSUME Marked, place = "done"
               PROVE  Shows(parts) = AllWanted(input)
    BY DEF Text!Faithful, Shows, AllWanted
  <2>1. QED BY DEF Marked, Reading
<1>5. QED BY <1>1, <1>3, <1>4, PTL DEF Text!Spec

-----------------------------------------------------------------------------
(* Side by side.                                                           *)

\* Neither part reads what the other writes: each goes its own way.
LEMMA EachOnItsOwn == TextsSpec => Java!Spec /\ Text!Spec
<1>1. TextsInit => Java!Init /\ Text!Init
  BY DEF TextsInit
<1>2. [JavaStep \/ MarkupStep]_<<javaVars, markupVars>> =>
          [Java!Next]_Java!vars /\ [Text!Next]_Text!vars
  BY DEF JavaStep, MarkupStep, javaVars, markupVars, Java!vars, Text!vars
<1>3. QED BY <1>1, <1>2, PTL DEF TextsSpec, Java!Spec, Text!Spec

\* Whatever a server wrote in Java's encoding is read as the same text, and what the proxy
\* writes is what Java would write, or nothing where Java needs two units for a character:
\* for any characters, any length of the text and any limit on the length of its encoding.
THEOREM JavaAlwaysAgrees == TextsSpec => []AgreesWithJava
<1>1. Java!JavaUTFAssumption
  BY TextsAssumption
<1>2. QED BY <1>1, EachOnItsOwn, AgreeHolds, PTL DEF AgreesWithJava

\* Para2Json's parts show the text, all of it and in its order, every symbol in the style
\* and the colour that the codes before it ask for, for any text and any set of codes.
THEOREM MarkupAlwaysFaithful == TextsSpec => []Faithful
<1>1. Text!MarkupAssumption
  BY TextsAssumption
<1>2. QED BY <1>1, EachOnItsOwn, FaithfulHolds, PTL DEF Faithful

=============================================================================
