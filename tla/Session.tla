------------------------------ MODULE Session -------------------------------
(***************************************************************************)
(* One proxied player: the goroutines of a potoq.Handler from the moment   *)
(* its login was accepted (handler.go, "STATE IS PLAY FROM NOW") until     *)
(* Handle has returned and its helpers have ended.                         *)
(*                                                                         *)
(*   - the main goroutine: connectUpstream, Register, the MainLoop select, *)
(*     the commands it executes (ReconnectCommand, injectPacketCommand),   *)
(*     the clean-up in handleProxy and Handle;                             *)
(*   - one read_packets goroutine per connection: the client's (stream 0)  *)
(*     and one for every upstream dialled so far (streams 1, 2, ...);      *)
(*   - the idle watcher;                                                   *)
(*   - other goroutines that queue commands (PushCommand, InjectPackets);  *)
(*   - the peers, which send packets and close connections.                *)
(*                                                                         *)
(* Packets are numbered in the order a reader returns them.  What a packet *)
(* filter may do to the session is a choice: it passes, drops or fails,    *)
(* and it may queue a command for its own session first.  Channels of      *)
(* packets are unbuffered, so a send and its receive are one step, and     *)
(* every packet is written with flush.                                     *)
(***************************************************************************)
EXTENDS Integers, Sequences

CONSTANTS
    Cap,        \* capacity of commandChan (10 in NewHandler)
    MaxGen,     \* bound: connections to upstreams in one behaviour
    MaxPackets, \* bound: packets read from each connection
    MaxCommands \* bound: commands queued in one behaviour

ASSUME CapAssumption == Cap \in Nat \ {0}
ASSUME BoundsAssumption ==
    /\ MaxGen \in Nat /\ MaxCommands \in Nat
    /\ MaxPackets \in [0 .. MaxGen -> Nat]

Gens == 1 .. MaxGen         \* connections to upstreams, in dialling order
Streams == 0 .. MaxGen      \* 0 is the client's connection

\* ReconnectCommand, injectPacketCommand, and one of those with a RaiseErr.
Commands == {"reconnect", "inject", "kick"}

VARIABLES
    pc,         \* where the main goroutine is
    registered, \* the session is in potoq.Players
    gen,        \* connections to upstreams dialled so far
    up,         \* the stream of UpstreamPackets and UpstreamTomb, 0 when nil
    upC,        \* the stream of UpstreamC and UpstreamW, 0 when nil
    sock,       \* each connection; "fin": the peer closed it, "closed": we did
    rd,         \* where each read_packets is
    rderr,      \* the err a read_packets leaves its loop with
    got,        \* packets each read_packets has read
    reason,     \* each reader's tomb: "alive", or the reason it was killed for
    cmds,       \* commandChan
    pushed,     \* commands queued so far
    idle,       \* the idle watcher: "none" before it starts, "late" when more than
                \* max_idle has passed since last_packet_ts, "fired" when it has
                \* closed idle_timeout and ended
    toClient,   \* history: the upstream packets written to the client
    toServer    \* history: the client packets written to an upstream

mainVars == <<registered, gen, up, upC>>
readVars == <<rd, rderr, got, reason>>
outVars == <<toClient, toServer>>
vars == <<pc, mainVars, sock, readVars, cmds, pushed, idle, outVars>>

\* Waits of the main goroutine that only somebody else can end, for there are
\* no deadlines on connections: a silent upstream while logging in to it
\* ("uplogin") or waiting for its JoinGame ("join"), a peer that does not read
\* what is written to it ("write", "raise", "kick"), and the session's own
\* blocking PushCommand when commandChan is full ("push"), which nobody ends.
Stalled == pc \in {"uplogin", "join", "write", "raise", "kick", "push"}

\* close(packet_chan) has happened.
Closed(s) == rd[s] \in {"closed", "dead"}

\* This side of the connection is open.
Open(s) == sock[s] \in {"open", "fin"}

Init ==
    /\ pc = "lookup"
    /\ registered = FALSE
    /\ gen = 0 /\ up = 0 /\ upC = 0
    /\ sock = [s \in Streams |-> IF s = 0 THEN "open" ELSE "none"]
    /\ rd = [s \in Streams |-> "none"]
    /\ rderr = [s \in Streams |-> "nil"]
    /\ got = [s \in Streams |-> 0]
    /\ reason = [s \in Streams |-> "alive"]
    /\ cmds = <<>> /\ pushed = 0
    /\ idle = "none"
    /\ toClient = <<>> /\ toServer = <<>>

-----------------------------------------------------------------------------
\* tomb.v1: the first Kill closes Dying; a later one only replaces a nil
\* reason.  why is "nil", "eof" or "err".
Kill(r, why) == IF r \in {"alive", "nil"} THEN why ELSE r

\* The top of MainLoop: last_packet_ts is stored, then the select.
ToLoop == pc' = "loop" /\ idle' = IF idle = "late" THEN "fresh" ELSE idle

\* break MainLoop with a non-nil err.
Break == pc' = "kill" /\ UNCHANGED idle

\* An err that may be nil, tested at the bottom of MainLoop.
LoopIfNil(isNil) == IF isNil THEN ToLoop ELSE Break

\* The main goroutine enters a WritePacket or Flush: "write" comes back to
\* MainLoop, "raise" is an injection that ends it, "kick" a last message.
Write(to) == pc' = to /\ UNCHANGED idle

\* InjectPackets, and PushCommand that does not block: lost when full.
Queue(c) ==
    /\ pushed < MaxCommands
    /\ pushed' = pushed + 1
    /\ cmds' = IF Len(cmds) < Cap THEN Append(cmds, c) ELSE cmds

-----------------------------------------------------------------------------
(* connectUpstream, at login or from a ReconnectCommand.                   *)

\* UpstreamServerMap[handler.UpstreamName]; an unknown target is a kick.
Lookup ==
    /\ pc = "lookup"
    /\ pc' \in {"dial", "kick"}
    /\ UNCHANGED <<mainVars, sock, readVars, cmds, pushed, idle, outVars>>

\* connectUpstream returns err before or after it has replaced UpstreamC.
ConnectFails(at) ==
    /\ pc = at
    /\ Write("kick")
    /\ UNCHANGED <<mainVars, sock, readVars, cmds, pushed, outVars>>

DialFails == ConnectFails("dial")

\* Mutant of KickWritten: ReconnectCommand kicks but returns a nil error.
KickWrittenNil ==
    /\ pc = "kick"
    /\ IF registered THEN ToLoop ELSE pc' = "close" /\ UNCHANGED idle
    /\ UNCHANGED <<mainVars, sock, readVars, cmds, pushed, outVars>>

\* The kick is written, or failed to be: handleProxy or MainLoop ends.
KickWritten ==
    /\ pc = "kick"
    /\ pc' = IF registered THEN "kill" ELSE "close"
    /\ UNCHANGED <<mainVars, sock, readVars, cmds, pushed, idle, outVars>>

Dial ==
    /\ pc = "dial"
    /\ gen < MaxGen
    /\ gen' = gen + 1
    /\ upC' = gen + 1
    /\ sock' = [sock EXCEPT ![gen + 1] = "open"]
    /\ pc' = "uplogin"
    /\ UNCHANGED <<registered, up, readVars, cmds, pushed, idle, outVars>>

\* A write fails, the upstream hangs up, kicks, or answers something else.
UpstreamLoginFails == ConnectFails("uplogin")

UpstreamLogin ==
    /\ pc = "uplogin"
    /\ up' = upC
    /\ rd' = [rd EXCEPT ![upC] = "check"]
    /\ pc' = IF registered THEN "join" ELSE "register"
    /\ UNCHANGED <<registered, gen, upC, sock, rderr, got, reason, cmds,
                   pushed, idle, outVars>>

\* Players.Register, the client's reader and the idle watcher start.
Register ==
    /\ pc = "register"
    /\ registered' = TRUE
    /\ rd' = [rd EXCEPT ![0] = "check"]
    /\ pc' = "loop" /\ idle' = "fresh"
    /\ UNCHANGED <<gen, up, upC, sock, rderr, got, reason, cmds, pushed, outVars>>

\* The nickname is taken: a kick, and handleProxy returns before any tomb is
\* killed and before Unregister is deferred.
RegisterConflict ==
    /\ pc = "register"
    /\ Write("kick")
    /\ UNCHANGED <<mainVars, sock, readVars, cmds, pushed, outVars>>

-----------------------------------------------------------------------------
(* MainLoop's select: command, client packet, upstream packet, idle.       *)

\* Mutant of ReconnectStart: UpstreamTomb.Kill is forgotten.
ReconnectStartNoKill ==
    /\ pc = "loop"
    /\ cmds # <<>> /\ Head(cmds) = "reconnect"
    /\ cmds' = Tail(cmds)
    /\ sock' = [sock EXCEPT ![upC] = "closed"]
    /\ upC' = 0 /\ pc' = "dial"
    /\ UNCHANGED <<registered, gen, up, readVars, pushed, idle, outVars>>

\* Mutant of ReconnectStart: what was queued before the reconnect is thrown away.
ReconnectStartDrains ==
    /\ pc = "loop"
    /\ cmds # <<>> /\ Head(cmds) = "reconnect"
    /\ cmds' = <<>>
    /\ IF upC # 0
       THEN /\ reason' = [reason EXCEPT ![up] = Kill(@, "nil")]
            /\ sock' = [sock EXCEPT ![upC] = "closed"]
            /\ \/ upC' = 0 /\ pc' = "dial"
               \/ upC' = upC /\ pc' = "kill"
       ELSE pc' = "dial" /\ UNCHANGED <<reason, sock, upC>>
    /\ UNCHANGED <<registered, gen, up, rd, rderr, got, pushed, idle, outVars>>

\* ReconnectCommand.Execute up to connectUpstream.
ReconnectStart ==
    /\ pc = "loop"
    /\ cmds # <<>> /\ Head(cmds) = "reconnect"
    /\ cmds' = Tail(cmds)
    /\ IF upC # 0
       THEN /\ reason' = [reason EXCEPT ![up] = Kill(@, "nil")]
            /\ sock' = [sock EXCEPT ![upC] = "closed"]
            /\ \/ upC' = 0 /\ pc' = "dial"
               \/ upC' = upC /\ pc' = "kill"    \* Close returned an error
       ELSE pc' = "dial" /\ UNCHANGED <<reason, sock, upC>>
    /\ UNCHANGED <<registered, gen, up, rd, rderr, got, pushed, idle, outVars>>

\* injectPacketCommand.Execute: the packets are written to the side they are for.
Inject ==
    /\ pc = "loop"
    /\ cmds # <<>> /\ Head(cmds) # "reconnect"
    /\ cmds' = Tail(cmds)
    /\ Write(IF Head(cmds) = "kick" THEN "raise" ELSE "write")
    /\ UNCHANGED <<mainVars, sock, readVars, pushed, outVars>>

\* WritePacket or Flush returned, with or without an error.
Written ==
    /\ \/ pc = "write" /\ (ToLoop \/ Break)
       \/ pc = "raise" /\ Break
    /\ UNCHANGED <<mainVars, sock, readVars, cmds, pushed, outVars>>

\* handlePacket: dispatchPacket's filters, then the write unless one of them
\* dropped the packet or failed.  A filter may first queue a command for its own
\* session.  The ones that block (/server and the BungeeCord Connect message
\* push a ReconnectCommand) never return when commandChan is full, because only
\* this goroutine receives from it.
HandlePacket(pass) ==
    \/ /\ UNCHANGED <<cmds, pushed>> \/ \E c \in Commands : Queue(c)
       /\ IF pass THEN Write("write") ELSE ToLoop \/ Break
    \/ /\ ~pass /\ Len(cmds) = Cap
       /\ Write("push")
       /\ UNCHANGED <<cmds, pushed>>

DownstreamPacket ==
    /\ pc = "loop"
    /\ rd[0] = "send"
    /\ rd' = [rd EXCEPT ![0] = "check"]
    /\ \E pass \in BOOLEAN :
          /\ HandlePacket(pass)
          /\ toServer' = IF pass THEN Append(toServer, [g |-> up, n |-> got[0]]) ELSE toServer
    /\ UNCHANGED <<mainVars, sock, rderr, got, reason, toClient>>

\* Mutant of UpstreamPacket: connectUpstream keeps the old channel, so that the
\* reader of an earlier upstream can still send into it.
UpstreamPacketShared ==
    /\ pc = "loop"
    /\ \E s \in Gens, pass \in BOOLEAN :
          /\ rd[s] = "send"
          /\ rd' = [rd EXCEPT ![s] = "check"]
          /\ HandlePacket(pass)
          /\ toClient' = IF pass THEN Append(toClient, [g |-> s, n |-> got[s]]) ELSE toClient
    /\ UNCHANGED <<mainVars, sock, rderr, got, reason, toServer>>

UpstreamPacket ==
    /\ pc = "loop"
    /\ rd[up] = "send"
    /\ rd' = [rd EXCEPT ![up] = "check"]
    /\ \E pass \in BOOLEAN :
          /\ HandlePacket(pass)
          /\ toClient' = IF pass THEN Append(toClient, [g |-> up, n |-> got[up]]) ELSE toClient
    /\ UNCHANGED <<mainVars, sock, rderr, got, reason, toServer>>

\* A closed channel: wait for the reader's tomb to be dead.
DownstreamClosed ==
    /\ pc = "loop" /\ Closed(0)
    /\ pc' = "waitdown"
    /\ UNCHANGED <<mainVars, sock, readVars, cmds, pushed, idle, outVars>>

UpstreamClosed ==
    /\ pc = "loop" /\ Closed(up)
    /\ pc' = "waitup"
    /\ UNCHANGED <<mainVars, sock, readVars, cmds, pushed, idle, outVars>>

\* Tomb.Wait returned; err = Tomb.Err().
Waited(s) ==
    /\ rd[s] = "dead"
    /\ LoopIfNil(reason[s] = "nil")
    /\ UNCHANGED <<mainVars, sock, readVars, cmds, pushed, outVars>>

WaitDone ==
    \/ pc = "waitdown" /\ Waited(0)
    \/ pc = "waitup" /\ Waited(up)

\* Mutant of IdleTimeout: err is not set.
IdleTimeoutNil ==
    /\ pc = "loop"
    /\ idle = "fired"
    /\ ToLoop
    /\ UNCHANGED <<mainVars, sock, readVars, cmds, pushed, outVars>>

IdleTimeout ==
    /\ pc = "loop"
    /\ idle = "fired"
    /\ Break
    /\ UNCHANGED <<mainVars, sock, readVars, cmds, pushed, outVars>>

\* ReconnectCommand: the select on the new tomb and the new channel.  A closed
\* channel yields a nil packet, which is not a JoinGamePacketCB.
JoinFails ==
    /\ pc = "join"
    /\ \/ rd[up] = "dead" /\ LoopIfNil(reason[up] = "nil")
       \/ Closed(up) /\ Break
    /\ UNCHANGED <<mainVars, sock, readVars, cmds, pushed, outVars>>

\* The first packet of the new upstream.  If it is a JoinGame, its filters run
\* (joinFilter injects, and fails when commandChan is full) and
\* SendDimensionSwitch writes it to the client.
Join ==
    /\ pc = "join"
    /\ rd[up] = "send"
    /\ rd' = [rd EXCEPT ![up] = "check"]
    /\ UNCHANGED <<cmds, pushed>> \/ Queue("inject")
    /\ \/ Write("write") /\ toClient' = Append(toClient, [g |-> up, n |-> got[up]])
       \/ Break /\ UNCHANGED toClient
    /\ UNCHANGED <<mainVars, sock, rderr, got, reason, toServer>>

Select ==
    \/ ReconnectStart \/ Inject \/ DownstreamPacket \/ UpstreamPacket
    \/ DownstreamClosed \/ UpstreamClosed \/ IdleTimeout

Connect ==
    \/ Lookup \/ DialFails \/ Dial \/ UpstreamLoginFails \/ UpstreamLogin
    \/ KickWritten \/ Register \/ RegisterConflict

-----------------------------------------------------------------------------
(* After MainLoop.                                                         *)

\* Mutant of EndLoop: only the client's reader is told to die.
EndLoopOne ==
    /\ pc = "kill"
    /\ reason' = [reason EXCEPT ![0] = Kill(@, "nil")]
    /\ pc' = "unregister"
    /\ UNCHANGED <<mainVars, sock, rd, rderr, got, cmds, pushed, idle, outVars>>

\* "end both read_packets goroutines".
EndLoop ==
    /\ pc = "kill"
    /\ reason' = [s \in Streams |->
                    IF s \in {0, up} THEN Kill(reason[s], "nil") ELSE reason[s]]
    /\ pc' = "unregister"
    /\ UNCHANGED <<mainVars, sock, rd, rderr, got, cmds, pushed, idle, outVars>>

\* The deferred Players.Unregister.
Unregister ==
    /\ pc = "unregister"
    /\ registered' = FALSE
    /\ pc' = "close"
    /\ UNCHANGED <<gen, up, upC, sock, readVars, cmds, pushed, idle, outVars>>

\* Handle, after handleProxy: close what is open.
CloseAll ==
    /\ pc = "close"
    /\ sock' = [s \in Streams |-> IF s = 0 \/ s = upC THEN "closed" ELSE sock[s]]
    /\ upC' = 0
    /\ pc' = "done"
    /\ UNCHANGED <<registered, gen, up, readVars, cmds, pushed, idle, outVars>>

Cleanup == EndLoop \/ Unregister \/ CloseAll

Main == Connect \/ Select \/ Written \/ WaitDone \/ JoinFails \/ Join \/ Cleanup

-----------------------------------------------------------------------------
(* read_packets.                                                           *)

\* Leave the loop with err = e and close(packet_chan).
Leave(s, e) ==
    /\ rd' = [rd EXCEPT ![s] = "closed"]
    /\ rderr' = [rderr EXCEPT ![s] = e]
    /\ UNCHANGED <<got, reason>>

\* for tmb.Err() == tomb.ErrStillAlive
ReaderCheck(s) ==
    /\ rd[s] = "check"
    /\ IF reason[s] = "alive"
       THEN rd' = [rd EXCEPT ![s] = "read"] /\ UNCHANGED <<rderr, got, reason>>
       ELSE Leave(s, "nil")

ReadPacket(s) ==
    /\ rd[s] = "read"
    /\ got[s] < MaxPackets[s]
    /\ rd' = [rd EXCEPT ![s] = "send"]
    /\ got' = [got EXCEPT ![s] = @ + 1]
    /\ UNCHANGED <<rderr, reason>>

\* A malformed, unknown or unparsable packet.
ReadBad(s) == rd[s] = "read" /\ Leave(s, "err")

\* The connection was closed by the other side or by this one.
ReadEnd(s) ==
    /\ rd[s] = "read"
    /\ \/ sock[s] = "fin" /\ Leave(s, "eof")
       \/ sock[s] = "closed" /\ Leave(s, "err")

\* The select on the send and on Dying.
SendDying(s) == rd[s] = "send" /\ reason[s] # "alive" /\ Leave(s, "nil")

\* Mutant of TombDone: Kill(err) even when err is nil.
TombDoneNil(s) ==
    /\ rd[s] = "closed"
    /\ reason' = [reason EXCEPT ![s] = Kill(@, rderr[s])]
    /\ rderr' = [rderr EXCEPT ![s] = "nil"]
    /\ rd' = [rd EXCEPT ![s] = "dead"]
    /\ UNCHANGED got

\* Kill(io.EOF), or Killf, whose error is never nil, for any other err; Done.
\* Nobody looks at a tomb between its last Kill and its Done.
TombDone(s) ==
    /\ rd[s] = "closed"
    /\ reason' = [reason EXCEPT ![s] = Kill(@, IF rderr[s] = "eof" THEN "eof" ELSE "err")]
    /\ rderr' = [rderr EXCEPT ![s] = "nil"]
    /\ rd' = [rd EXCEPT ![s] = "dead"]
    /\ UNCHANGED got

\* The steps of a reader that do not depend on what its peer sends.
ReaderRuns(s) ==
    /\ \/ ReaderCheck(s) \/ ReadEnd(s) \/ SendDying(s)
       \/ TombDone(s)
    /\ UNCHANGED <<pc, mainVars, sock, cmds, pushed, idle, outVars>>

ReaderReads(s) ==
    /\ ReadPacket(s) \/ ReadBad(s)
    /\ UNCHANGED <<pc, mainVars, sock, cmds, pushed, idle, outVars>>

-----------------------------------------------------------------------------
(* The idle watcher, other goroutines and the peers.                       *)

\* More than max_idle passes without MainLoop coming round.
TimePasses ==
    /\ idle = "fresh"
    /\ idle' = "late"
    /\ UNCHANGED <<pc, mainVars, sock, readVars, cmds, pushed, outVars>>

\* The watcher wakes up, finds the session idle and closes idle_timeout.  Its
\* load and its close are one step: MainLoop may run between close and noticing
\* it just as it may run between load and close.
WatcherFires ==
    /\ idle = "late"
    /\ idle' = "fired"
    /\ UNCHANGED <<pc, mainVars, sock, readVars, cmds, pushed, outVars>>

\* Another session, a ticker or a command handler found this one in
\* potoq.Players and queues a command.  It may also do so after Unregister, with
\* the pointer it kept, but nobody receives from commandChan any more.
OthersPush ==
    /\ registered
    /\ \E c \in Commands : Queue(c)
    /\ UNCHANGED <<pc, mainVars, sock, readVars, idle, outVars>>

PeerCloses(s) ==
    /\ sock[s] = "open"
    /\ sock' = [sock EXCEPT ![s] = "fin"]
    /\ UNCHANGED <<pc, mainVars, readVars, cmds, pushed, idle, outVars>>

Next ==
    \/ Main
    \/ \E s \in Streams : ReaderRuns(s) \/ ReaderReads(s) \/ PeerCloses(s)
    \/ TimePasses \/ WatcherFires
    \/ OthersPush

Spec == Init /\ [][Next]_vars

-----------------------------------------------------------------------------
(* Fairness.  A goroutine that can run does (weak fairness); Go's select    *)
(* picks at random among the ready branches, so a branch that is ready     *)
(* again and again is taken (strong fairness).  Nothing is assumed of the  *)
(* peers, of other goroutines, or of the waits in Stalled.                 *)

MainFairness ==
    /\ WF_vars(Lookup) /\ WF_vars(DialFails \/ Dial)
    /\ WF_vars(Register \/ RegisterConflict)
    /\ WF_vars(WaitDone) /\ WF_vars(Join) /\ WF_vars(JoinFails) /\ WF_vars(Cleanup)
    /\ SF_vars(ReconnectStart \/ Inject)
    /\ SF_vars(DownstreamPacket \/ DownstreamClosed)
    /\ SF_vars(UpstreamPacket \/ UpstreamClosed)

ReaderFairness == \A s \in Streams : WF_vars(ReaderRuns(s))

FairSpec == Spec /\ MainFairness /\ ReaderFairness

\* The clock runs and the watcher's sleeps end: assumed by IdleEnds only, as every other
\* session would end by it, too.
ClockFairness == WF_vars(TimePasses) /\ WF_vars(WatcherFires) /\ SF_vars(IdleTimeout)

-----------------------------------------------------------------------------
MainTypeOK ==
    /\ pc \in {"lookup", "dial", "uplogin", "register", "loop", "join", "write",
              "raise", "kick", "push", "waitup", "waitdown", "kill",
              "unregister", "close", "done"}
    /\ registered \in BOOLEAN
    /\ gen \in Streams /\ up \in Streams /\ upC \in Streams
    /\ sock \in [Streams -> {"none", "open", "fin", "closed"}]
    /\ idle \in {"none", "fresh", "late", "fired"}

ReaderTypeOK ==
    /\ rd \in [Streams -> {"none", "check", "read", "send", "closed", "dead"}]
    /\ rderr \in [Streams -> {"nil", "eof", "err"}]
    /\ got \in [Streams -> Nat]
    /\ reason \in [Streams -> {"alive", "nil", "eof", "err"}]

QueueTypeOK ==
    /\ cmds \in Seq(Commands) /\ Len(cmds) <= Cap
    /\ pushed \in 0 .. MaxCommands

OutTypeOK ==
    /\ toClient \in Seq([g : Streams, n : Nat])
    /\ toServer \in Seq([g : Streams, n : Nat])

\* The shape of the state; commandChan never holds more than its capacity.
TypeOK == MainTypeOK /\ ReaderTypeOK /\ QueueTypeOK /\ OutTypeOK

\* Whenever MainLoop selects, UpstreamW, UpstreamC, UpstreamPackets and
\* UpstreamTomb all belong to the same open connection, whatever reconnects,
\* failed dials and failed logins came before: a client packet or an injection
\* never meets a nil UpstreamW, nor one of another upstream than the one read.  And
\* whoever finds the session in potoq.Players finds its client connection open.
UpstreamConsistent ==
    /\ pc = "loop" => up # 0 /\ upC = up /\ Open(up) /\ registered
    /\ registered => Open(0)

\* A reconnect leaves no live reader behind: a read_packets of any upstream but
\* the current one has been told to die and its connection is closed.
OneLiveUpstream ==
    \A s \in Gens : s # up /\ rd[s] # "none" => reason[s] # "alive" /\ sock[s] = "closed"

\* Every connection to an upstream that is open is the one Handle will close,
\* also when connectUpstream failed half-way; none is open at the end.
NoSocketLeak ==
    /\ \A s \in Gens : Open(s) => s = upC
    /\ pc = "done" => \A s \in Streams : ~Open(s)

\* However often a reconnect succeeds or fails half-way, the session holds one upstream at
\* most: one reader that has not been told to die, and one connection, which Handle closes.
OneUpstream == OneLiveUpstream /\ NoSocketLeak

\* A dead reader's tomb has an error in it, although MainLoop and
\* ReconnectCommand kill tombs with a nil reason: waiting for a closed channel's
\* tomb therefore ends MainLoop instead of selecting the closed channel for ever.
DeadHasError ==
    \A s \in Streams : rd[s] = "dead" => reason[s] \in {"eof", "err"}

Before(a, b) == a.g < b.g \/ (a.g = b.g /\ a.n < b.n)

\* The client is sent each upstream's packets in the order they were read, none
\* twice, and none of an earlier upstream once a later one has been shown.
ClientOrder ==
    \A i, j \in 1 .. Len(toClient) : i < j => Before(toClient[i], toClient[j])

\* A client packet is written to one upstream at most, in the order read, and
\* never to an upstream the session has left.
ServerOrder ==
    \A i, j \in 1 .. Len(toServer) :
        i < j => toServer[i].n < toServer[j].n /\ toServer[i].g <= toServer[j].g

\* Neither side sees packets twice, out of order or from a session's past, although each
\* reconnect replaces the goroutine, the channel and the writer they go through.
PacketOrder == ClientOrder /\ ServerOrder

-----------------------------------------------------------------------------
Ended == pc = "done"
ReadersEnded == \A s \in Streams : rd[s] \in {"none", "dead"}

\* When a session that got as far as MainLoop is over, its readers end too: each of
\* them, of whichever upstream, has been killed and has had its connection
\* closed, so neither a read nor a send can keep it.
ReadersEnd == (Ended /\ rd[0] # "none") ~> ReadersEnded

\* What handler.go's clean-up promises of every session, registered or not.
AllReadersEnd == Ended ~> ReadersEnded

\* The client has hung up, or a kick is queued for it.
Leaving == sock[0] = "fin" \/ (registered /\ \E i \in 1 .. Len(cmds) : cmds[i] = "kick")

\* A client that is gone or kicked ends the session, however many packets and commands
\* compete with that in the select, unless the session waits for ever in one of the waits
\* of Stalled.
LeavingEnds == Leaving ~> (Ended \/ []Stalled)

\* A session on which nothing happens any more is ended by the idle watcher, if the clock
\* runs: no session stays in MainLoop for ever.
IdleEnds == ClockFairness => <>(Ended \/ []Stalled)
=============================================================================
