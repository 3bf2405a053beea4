--------------------------- MODULE SessionProofs ----------------------------
(***************************************************************************)
(* Proofs about Session, for every capacity of commandChan and every bound *)
(* on connections, packets and commands.                                   *)
(***************************************************************************)
EXTENDS Session, SequenceTheorems, TLAPS

LEMMA StreamFacts ==
    /\ MaxGen \in Nat
    /\ Streams \subseteq Int /\ 0 \in Streams
    /\ Gens \subseteq Streams /\ \A s \in Streams : s # 0 => s \in Gens
    /\ \A g \in Streams : g < MaxGen => g + 1 \in Gens /\ g + 1 \in Streams
  BY BoundsAssumption DEF Streams, Gens

-----------------------------------------------------------------------------
(* Type correctness, part by part.                                         *)

LEMMA QueueTypeStep == TypeOK /\ [Next]_vars => QueueTypeOK'
<1> SUFFICES ASSUME TypeOK, [Next]_vars PROVE QueueTypeOK'
  OBVIOUS
<1> USE DEF TypeOK, QueueTypeOK
<1>q. ASSUME NEW c \in Commands, Queue(c) PROVE QueueTypeOK'
  BY <1>q, CapAssumption, BoundsAssumption DEF Queue
<1>t. ASSUME cmds # <<>>, cmds' = Tail(cmds), pushed' = pushed PROVE QueueTypeOK'
  BY <1>t, CapAssumption
<1>u. ASSUME UNCHANGED <<cmds, pushed>> PROVE QueueTypeOK'
  BY <1>u
<1>h. ASSUME NEW pass \in BOOLEAN, HandlePacket(pass) PROVE QueueTypeOK'
  BY <1>h, <1>q, <1>u DEF HandlePacket
<1>1. CASE Connect
  BY <1>1, <1>u DEF Connect, Lookup, DialFails, ConnectFails, Dial, UpstreamLoginFails,
              UpstreamLogin, KickWritten, Register, RegisterConflict
<1>2. CASE ReconnectStart \/ Inject
  BY <1>2, <1>t DEF ReconnectStart, Inject
<1>3. CASE DownstreamPacket \/ UpstreamPacket
  BY <1>3, <1>h DEF DownstreamPacket, UpstreamPacket
<1>4. CASE Join
  BY <1>4, <1>q, <1>u DEF Join, Commands
<1>5. CASE OthersPush
  BY <1>5, <1>q DEF OthersPush
<1>6. CASE \/ DownstreamClosed \/ UpstreamClosed \/ IdleTimeout \/ Written
           \/ WaitDone \/ JoinFails \/ Cleanup
  BY <1>6, <1>u DEF DownstreamClosed, UpstreamClosed, IdleTimeout, Written, WaitDone,
              Waited, JoinFails, Cleanup, EndLoop, Unregister, CloseAll
<1>7. ASSUME NEW s \in Streams, ReaderRuns(s) \/ ReaderReads(s) \/ PeerCloses(s)
      PROVE  QueueTypeOK'
  BY <1>7, <1>u DEF ReaderRuns, ReaderReads, PeerCloses
<1>8. CASE TimePasses \/ WatcherFires \/ UNCHANGED vars
  BY <1>8, <1>u DEF TimePasses, WatcherFires, vars
<1> QED
  BY <1>1, <1>2, <1>3, <1>4, <1>5, <1>6, <1>7, <1>8 DEF Next, Main, Select

LEMMA AppendTyped ==
    ASSUME NEW S, NEW seq \in Seq(S), NEW x \in S
    PROVE  Append(seq, x) \in Seq(S)
  OBVIOUS

LEMMA OutTypeStep == TypeOK /\ [Next]_vars => OutTypeOK'
<1> SUFFICES ASSUME TypeOK, [Next]_vars PROVE OutTypeOK'
  OBVIOUS
<1> USE StreamFacts DEF TypeOK, MainTypeOK, ReaderTypeOK, OutTypeOK, outVars
<1>p. ASSUME NEW s \in Streams
      PROVE  [g |-> up, n |-> got[s]] \in [g : Streams, n : Nat]
  OBVIOUS
<1>c. Append(toClient, [g |-> up, n |-> got[up]]) \in Seq([g : Streams, n : Nat])
  BY <1>p, AppendTyped
<1>s. Append(toServer, [g |-> up, n |-> got[0]]) \in Seq([g : Streams, n : Nat])
  BY <1>p, AppendTyped
<1>u. ASSUME UNCHANGED outVars PROVE OutTypeOK'
  BY <1>u
<1>1. CASE Connect
  BY <1>1, <1>u DEF Connect, Lookup, DialFails, ConnectFails, Dial, UpstreamLoginFails,
              UpstreamLogin, KickWritten, Register, RegisterConflict
<1>2. CASE DownstreamPacket
  BY <1>2, <1>s DEF DownstreamPacket
<1>3. CASE UpstreamPacket
  BY <1>3, <1>c DEF UpstreamPacket
<1>4. CASE Join
  BY <1>4, <1>c DEF Join
<1>5. CASE \/ ReconnectStart \/ Inject \/ DownstreamClosed \/ UpstreamClosed
           \/ IdleTimeout \/ Written \/ WaitDone \/ JoinFails \/ Cleanup
  BY <1>5, <1>u DEF ReconnectStart, Inject, DownstreamClosed, UpstreamClosed, IdleTimeout,
              Written, WaitDone, Waited, JoinFails, Cleanup, EndLoop, Unregister, CloseAll
<1>6. ASSUME NEW s \in Streams, ReaderRuns(s) \/ ReaderReads(s) \/ PeerCloses(s)
      PROVE  OutTypeOK'
  BY <1>6, <1>u DEF ReaderRuns, ReaderReads, PeerCloses
<1>7. CASE TimePasses \/ WatcherFires \/ OthersPush \/ UNCHANGED vars
  BY <1>7, <1>u DEF TimePasses, WatcherFires, OthersPush, vars
<1> QED
  BY <1>1, <1>2, <1>3, <1>4, <1>5, <1>6, <1>7 DEF Next, Main, Select

LEMMA ReaderTypeStep == TypeOK /\ [Next]_vars => ReaderTypeOK'
<1> SUFFICES ASSUME TypeOK, [Next]_vars PROVE ReaderTypeOK'
  OBVIOUS
<1> USE StreamFacts DEF TypeOK, MainTypeOK, ReaderTypeOK, readVars, Kill
<1>u. ASSUME UNCHANGED readVars PROVE ReaderTypeOK'
  BY <1>u
<1>r. ASSUME NEW s \in Streams, rd' = [rd EXCEPT ![s] = "check"],
             UNCHANGED <<rderr, got, reason>>
      PROVE  ReaderTypeOK'
  BY <1>r
<1>1. CASE UpstreamLogin \/ Register
  BY <1>1, <1>r DEF UpstreamLogin, Register
<1>2. CASE DownstreamPacket \/ UpstreamPacket \/ Join
  BY <1>2, <1>r DEF DownstreamPacket, UpstreamPacket, Join
<1>3. CASE ReconnectStart
  BY <1>3 DEF ReconnectStart
<1>4. CASE EndLoop
  BY <1>4 DEF EndLoop
<1>5. CASE \/ Lookup \/ DialFails \/ Dial \/ UpstreamLoginFails \/ KickWritten
           \/ RegisterConflict \/ Inject \/ DownstreamClosed \/ UpstreamClosed
           \/ IdleTimeout \/ Written \/ WaitDone \/ JoinFails \/ Unregister \/ CloseAll
  BY <1>5, <1>u DEF Lookup, DialFails, ConnectFails, Dial, UpstreamLoginFails, KickWritten,
              RegisterConflict, Inject, DownstreamClosed, UpstreamClosed, IdleTimeout,
              Written, WaitDone, Waited, JoinFails, Unregister, CloseAll
<1>6. ASSUME NEW s \in Streams, NEW e \in {"nil", "eof", "err"}, Leave(s, e)
      PROVE  ReaderTypeOK'
  BY <1>6 DEF Leave
<1>7. ASSUME NEW s \in Streams, ReaderRuns(s) PROVE ReaderTypeOK'
  BY <1>7, <1>6 DEF ReaderRuns, ReaderCheck, ReadEnd, SendDying, TombDone
<1>8. ASSUME NEW s \in Streams, ReaderReads(s) PROVE ReaderTypeOK'
  BY <1>8, <1>6 DEF ReaderReads, ReadPacket, ReadBad
<1>9. ASSUME NEW s \in Streams, PeerCloses(s) PROVE ReaderTypeOK'
  BY <1>9, <1>u DEF PeerCloses
<1>10. CASE TimePasses \/ WatcherFires \/ OthersPush \/ UNCHANGED vars
  BY <1>10, <1>u DEF TimePasses, WatcherFires, OthersPush, vars
<1> QED
  BY <1>1, <1>2, <1>3, <1>4, <1>5, <1>7, <1>8, <1>9, <1>10
     DEF Next, Main, Select, Connect, Cleanup

LEMMA MainTypeStep == TypeOK /\ [Next]_vars => MainTypeOK'
<1> SUFFICES ASSUME TypeOK, [Next]_vars PROVE MainTypeOK'
  OBVIOUS
<1> USE StreamFacts DEF TypeOK, MainTypeOK, mainVars
<1> USE DEF Write, ToLoop, Break, LoopIfNil
<1>1. CASE Lookup \/ DialFails \/ UpstreamLoginFails \/ KickWritten
  BY <1>1 DEF Lookup, DialFails, ConnectFails, UpstreamLoginFails, KickWritten
<1>2. CASE Dial
  BY <1>2 DEF Dial
<1>3. CASE UpstreamLogin
  BY <1>3 DEF UpstreamLogin
<1>4. CASE Register \/ RegisterConflict
  BY <1>4 DEF Register, RegisterConflict
<1>5. CASE ReconnectStart
  BY <1>5 DEF ReconnectStart
<1>6. CASE Inject \/ Written
  BY <1>6 DEF Inject, Written
<1>7. CASE DownstreamPacket
  BY <1>7 DEF DownstreamPacket, HandlePacket
<1>8. CASE UpstreamPacket
  BY <1>8 DEF UpstreamPacket, HandlePacket
<1>9. CASE DownstreamClosed \/ UpstreamClosed \/ IdleTimeout
  BY <1>9 DEF DownstreamClosed, UpstreamClosed, IdleTimeout
<1>10. CASE WaitDone \/ JoinFails \/ Join
  BY <1>10 DEF WaitDone, Waited, JoinFails, Join
<1>11. CASE EndLoop \/ Unregister
  BY <1>11 DEF EndLoop, Unregister
<1>12. CASE CloseAll
  BY <1>12 DEF CloseAll
<1>13. ASSUME NEW s \in Streams, ReaderRuns(s) \/ ReaderReads(s) PROVE MainTypeOK'
  BY <1>13 DEF ReaderRuns, ReaderReads
<1>14. ASSUME NEW s \in Streams, PeerCloses(s) PROVE MainTypeOK'
  BY <1>14 DEF PeerCloses
<1>15. CASE TimePasses \/ WatcherFires \/ OthersPush \/ UNCHANGED vars
  BY <1>15 DEF TimePasses, WatcherFires, OthersPush, vars
<1> QED
  BY <1>1, <1>2, <1>3, <1>4, <1>5, <1>6, <1>7, <1>8, <1>9, <1>10, <1>11, <1>12,
     <1>13, <1>14, <1>15 DEF Next, Main, Select, Connect, Cleanup

LEMMA TypeInit == Init => TypeOK
<1> SUFFICES ASSUME Init PROVE TypeOK
  OBVIOUS
<1> USE StreamFacts, CapAssumption, BoundsAssumption DEF Init
<1>1. MainTypeOK
  BY DEF MainTypeOK
<1>2. ReaderTypeOK
  BY DEF ReaderTypeOK
<1>3. QueueTypeOK
  BY DEF QueueTypeOK
<1>4. OutTypeOK
  BY DEF OutTypeOK
<1> QED
  BY <1>1, <1>2, <1>3, <1>4 DEF TypeOK

\* The state of a session always has its shape, and the command channel never
\* holds more than its capacity.
THEOREM TypeCorrect == Spec => []TypeOK
<1>1. TypeOK /\ [Next]_vars => TypeOK'
  BY QueueTypeStep, OutTypeStep, ReaderTypeStep, MainTypeStep DEF TypeOK
<1> QED
  BY <1>1, TypeInit, PTL DEF Spec

-----------------------------------------------------------------------------
(***************************************************************************)
(* The upstream connections.  UpstreamConsistent, OneLiveUpstream and      *)
(* NoSocketLeak are not inductive by themselves: what MainLoop finds       *)
(* depends on what a reconnect left, so Phase says, for every place of the *)
(* main goroutine, which of UpstreamC, UpstreamPackets and UpstreamTomb    *)
(* are set and to what; Numbering, that connections not yet dialled are    *)
(* untouched.                                                              *)
(***************************************************************************)
Serving == {"register", "loop", "join", "write", "raise", "push", "waitup", "waitdown"}
InLoop == {"loop", "join", "write", "raise", "push", "waitup", "waitdown", "kill",
           "unregister"}

Numbering ==
    /\ up <= gen /\ upC <= gen
    /\ \A s \in Gens : s > gen => sock[s] = "none" /\ rd[s] = "none"

Phase ==
    /\ pc \in Serving => up # 0 /\ upC = up /\ Open(up)
    /\ pc \in InLoop => registered
    /\ pc \in {"lookup", "register", "close", "done"} => ~registered
    /\ pc \in {"lookup", "dial"} => upC = 0
    /\ pc = "lookup" => up = 0
    /\ pc = "uplogin" => upC = gen /\ up < gen /\ Open(gen)
    /\ pc \in {"dial", "uplogin"} /\ up # 0 => reason[up] # "alive" /\ sock[up] = "closed"
    /\ pc # "done" => Open(0)
    /\ pc = "done" => upC = 0 /\ ~Open(0)

OpenIsCurrent == \A s \in Gens : Open(s) => s = upC

UpInv == TypeOK /\ Numbering /\ Phase /\ OpenIsCurrent /\ OneLiveUpstream

LEMMA UpInit == Init => UpInv
<1> SUFFICES ASSUME Init PROVE UpInv
  OBVIOUS
<1>1. TypeOK
  BY TypeInit
<1> QED
  BY <1>1, StreamFacts DEF Init, UpInv, Numbering, Phase, OpenIsCurrent, OneLiveUpstream,
                           Serving, InLoop, Open, Gens

\* Steps of readers, which change neither the main goroutine nor connections.
LEMMA UpReader ==
    ASSUME UpInv, TypeOK', NEW s \in Streams, ReaderRuns(s) \/ ReaderReads(s)
    PROVE  UpInv'
<1> USE StreamFacts DEF UpInv, TypeOK, MainTypeOK, ReaderTypeOK, mainVars
<1>1. UNCHANGED <<pc, registered, gen, up, upC, sock>>
  BY DEF ReaderRuns, ReaderReads
<1>2. /\ rd[s] # "none"
      /\ \A t \in Streams : t # s => rd'[t] = rd[t]
      /\ \A t \in Streams : reason[t] # "alive" => reason'[t] # "alive"
  BY DEF ReaderRuns, ReaderReads, ReaderCheck, ReadPacket, ReadBad, ReadEnd, SendDying,
         TombDone, Leave, Kill
<1>3. Numbering' /\ OpenIsCurrent'
  BY <1>1, <1>2 DEF Numbering, OpenIsCurrent, Open
<1>4. Phase'
  BY <1>1, <1>2 DEF Phase, Open
<1>5. OneLiveUpstream'
  BY <1>1, <1>2 DEF OneLiveUpstream
<1> QED
  BY <1>3, <1>4, <1>5

\* The steps of connectUpstream.
LEMMA UpConnect == ASSUME UpInv, TypeOK', Connect PROVE UpInv'
<1> USE StreamFacts DEF UpInv, TypeOK, MainTypeOK, ReaderTypeOK, mainVars, readVars, Open,
                        Write
<1>1. CASE Lookup \/ DialFails \/ UpstreamLoginFails \/ RegisterConflict
  <2>1. /\ UNCHANGED <<registered, gen, up, upC, sock, rd, reason>>
        /\ pc \in {"lookup", "dial", "uplogin", "register"}
        /\ pc' = "kick" \/ (pc = "lookup" /\ pc' = "dial")
    BY <1>1 DEF Lookup, DialFails, ConnectFails, UpstreamLoginFails, RegisterConflict
  <2>2. Phase'
    BY <2>1 DEF Phase, Serving, InLoop
  <2> QED
    BY <2>1, <2>2 DEF Numbering, OpenIsCurrent, OneLiveUpstream
<1>2. CASE KickWritten
  <2>1. /\ UNCHANGED <<registered, gen, up, upC, sock, rd, reason>>
        /\ pc = "kick" /\ pc' \in {"kill", "close"}
        /\ pc' = "kill" <=> registered
    BY <1>2 DEF KickWritten
  <2>2. Phase'
    BY <2>1 DEF Phase, Serving, InLoop
  <2> QED
    BY <2>1, <2>2 DEF Numbering, OpenIsCurrent, OneLiveUpstream
<1>3. CASE Dial
  <2> USE <1>3 DEF Dial
  <2>1. Numbering'
    BY DEF Numbering, Gens, Streams
  <2>2. Phase'
    BY DEF Numbering, Phase, Serving, InLoop, Streams
  <2>3. OpenIsCurrent'
    BY DEF Phase, OpenIsCurrent, Gens, Streams
  <2>4. OneLiveUpstream'
    BY DEF OneLiveUpstream, Numbering, Gens, Streams
  <2> QED
    BY <2>1, <2>2, <2>3, <2>4
<1>4. CASE UpstreamLogin
  <2> USE <1>4 DEF UpstreamLogin
  <2>1. Numbering'
    BY DEF Numbering, Phase, Gens, Streams
  <2>2. upC \in Gens /\ upC = gen /\ Open(upC) /\ up' = upC
    BY DEF Phase, Streams, Gens
  <2>3. Phase'
    BY <2>2 DEF Phase, Serving, InLoop, Streams
  <2>4. OpenIsCurrent'
    BY DEF OpenIsCurrent
  <2>5. OneLiveUpstream'
    BY DEF OneLiveUpstream, Phase, Streams, Gens
  <2> QED
    BY <2>1, <2>3, <2>4, <2>5
<1>5. CASE Register
  BY <1>5 DEF Register, Numbering, Phase, OpenIsCurrent, OneLiveUpstream, Serving, InLoop,
              Gens
<1> QED
  BY <1>1, <1>2, <1>3, <1>4, <1>5 DEF Connect

\* The steps of MainLoop and of the commands.
LEMMA UpLoop ==
    ASSUME UpInv, TypeOK',
           Select \/ Written \/ WaitDone \/ JoinFails \/ Join
    PROVE  UpInv'
<1> USE StreamFacts DEF UpInv, TypeOK, MainTypeOK, ReaderTypeOK, mainVars, readVars
<1> USE DEF Write, ToLoop, Break, LoopIfNil
<1>s. ASSUME UNCHANGED <<registered, gen, up, upC, sock, reason>>,
             pc \in Serving \ {"register"}, pc' \in (Serving \ {"register"}) \cup {"kill"},
             \A s \in Streams : rd'[s] # "none" <=> rd[s] # "none"
      PROVE  UpInv'
  BY <1>s DEF Numbering, Phase, OpenIsCurrent, OneLiveUpstream, Open, Serving, InLoop
<1>1. CASE ReconnectStart
  <2>0. pc = "loop" /\ up \in Gens /\ upC = up /\ upC # 0 /\ registered
    BY <1>1 DEF ReconnectStart, Phase, Serving, InLoop
  <2>1. /\ UNCHANGED <<registered, gen, up, rd>>
        /\ sock' = [sock EXCEPT ![up] = "closed"]
        /\ reason' = [reason EXCEPT ![up] = Kill(reason[up], "nil")]
        /\ \/ upC' = 0 /\ pc' = "dial"
           \/ upC' = upC /\ pc' = "kill"
    BY <1>1, <2>0 DEF ReconnectStart
  <2>2. Numbering'
    BY <2>0, <2>1 DEF Numbering, Gens, Streams
  <2>3. Phase'
    BY <2>0, <2>1 DEF Phase, Open, Serving, InLoop, Kill, Gens
  <2>4. OpenIsCurrent'
    BY <2>0, <2>1 DEF OpenIsCurrent, Open
  <2>5. OneLiveUpstream'
    BY <2>0, <2>1 DEF OneLiveUpstream, Kill
  <2> QED
    BY <2>2, <2>3, <2>4, <2>5
<1>2. CASE Inject \/ Written \/ DownstreamClosed \/ UpstreamClosed \/ IdleTimeout
  BY <1>2, <1>s DEF Inject, Written, DownstreamClosed, UpstreamClosed, IdleTimeout, Serving
<1>3. CASE WaitDone \/ JoinFails
  BY <1>3, <1>s DEF WaitDone, Waited, JoinFails, Serving
<1>4. CASE DownstreamPacket
  BY <1>4, <1>s DEF DownstreamPacket, HandlePacket, Serving
<1>5. CASE UpstreamPacket
  BY <1>5, <1>s DEF UpstreamPacket, HandlePacket, Serving
<1>6. CASE Join
  BY <1>6, <1>s DEF Join, Serving
<1> QED
  BY <1>1, <1>2, <1>3, <1>4, <1>5, <1>6 DEF Select

\* The clean-up in handleProxy and Handle.
LEMMA UpCleanup == ASSUME UpInv, TypeOK', Cleanup PROVE UpInv'
<1> USE StreamFacts DEF UpInv, TypeOK, MainTypeOK, ReaderTypeOK, mainVars, readVars, Open
<1>1. CASE EndLoop
  <2> USE <1>1 DEF EndLoop, Kill
  <2>1. Phase'
    BY DEF Phase, Serving, InLoop
  <2>2. Numbering' /\ OpenIsCurrent' /\ OneLiveUpstream'
    BY DEF Numbering, OpenIsCurrent, OneLiveUpstream
  <2> QED
    BY <2>1, <2>2
<1>2. CASE Unregister
  BY <1>2 DEF Unregister, Numbering, Phase, OpenIsCurrent, OneLiveUpstream, Serving, InLoop
<1>3. CASE CloseAll
  <2> USE <1>3 DEF CloseAll
  <2>1. Phase'
    BY DEF Phase, Serving, InLoop
  <2>2. Numbering'
    BY DEF Numbering, Streams, Gens
  <2>3. OpenIsCurrent' /\ OneLiveUpstream'
    BY DEF OpenIsCurrent, OneLiveUpstream, Gens
  <2> QED
    BY <2>1, <2>2, <2>3
<1> QED
  BY <1>1, <1>2, <1>3 DEF Cleanup

LEMMA UpStep == UpInv /\ [Next]_vars => UpInv'
<1> SUFFICES ASSUME UpInv, [Next]_vars PROVE UpInv'
  OBVIOUS
<1>0. TypeOK'
  BY QueueTypeStep, OutTypeStep, ReaderTypeStep, MainTypeStep DEF TypeOK, UpInv
<1>1. CASE Main
  BY <1>0, <1>1, UpConnect, UpLoop, UpCleanup DEF Main
<1>2. ASSUME NEW s \in Streams, ReaderRuns(s) \/ ReaderReads(s) PROVE UpInv'
  BY <1>0, <1>2, UpReader
<1>3. ASSUME NEW s \in Streams, PeerCloses(s) PROVE UpInv'
  <2> USE <1>3, StreamFacts DEF PeerCloses, UpInv, TypeOK, MainTypeOK, ReaderTypeOK,
                                mainVars, readVars
  <2>1. Numbering' /\ OneLiveUpstream'
    BY DEF Numbering, OneLiveUpstream
  <2>2. Phase' /\ OpenIsCurrent'
    BY DEF Phase, OpenIsCurrent, Open
  <2> QED
    BY <1>0, <2>1, <2>2
<1>4. CASE TimePasses \/ WatcherFires \/ OthersPush \/ UNCHANGED vars
  <2>1. UNCHANGED <<pc, registered, gen, up, upC, sock, rd, reason>>
    BY <1>4 DEF TimePasses, WatcherFires, OthersPush, vars, mainVars, readVars
  <2> QED
    BY <1>0, <2>1 DEF UpInv, Numbering, Phase, OpenIsCurrent, OneLiveUpstream, Open
<1> QED
  BY <1>1, <1>2, <1>3, <1>4 DEF Next

LEMMA UpAlways == Spec => []UpInv
  BY UpInit, UpStep, PTL DEF Spec

\* MainLoop always selects with a connected upstream whose reader, tomb, socket
\* and writer belong together, and potoq.Players has no session whose client's
\* connection is closed.
THEOREM ConsistentCorrect == Spec => []UpstreamConsistent
<1>1. UpInv => UpstreamConsistent
  BY DEF UpInv, Phase, UpstreamConsistent, Serving, InLoop
<1> QED
  BY <1>1, UpAlways, PTL

\* However many reconnects succeed or fail, at most the reader of the current upstream is
\* alive, and no connection to an upstream is ever lost track of: Handle closes all.
THEOREM OneUpstreamCorrect == Spec => []OneUpstream
<1>1. UpInv => OneLiveUpstream
  BY DEF UpInv
<1>2. UpInv => NoSocketLeak
  BY StreamFacts DEF UpInv, TypeOK, MainTypeOK, Phase, OpenIsCurrent, NoSocketLeak
<1>3. UpInv => OneUpstream
  BY <1>1, <1>2 DEF OneUpstream
<1> QED
  BY <1>3, UpAlways, PTL

-----------------------------------------------------------------------------
(* Dead readers.                                                           *)

LEMMA DeadStep == TypeOK /\ DeadHasError /\ [Next]_vars => DeadHasError'
<1> SUFFICES ASSUME TypeOK, DeadHasError, [Next]_vars PROVE DeadHasError'
  OBVIOUS
<1> USE StreamFacts DEF TypeOK, MainTypeOK, ReaderTypeOK, DeadHasError, readVars, Kill
<1>k. ASSUME \A s \in Streams : rd'[s] = "dead" => rd[s] = "dead",
             \A s \in Streams : reason[s] \in {"eof", "err"} => reason'[s] = reason[s]
      PROVE  DeadHasError'
  BY <1>k
<1>1. CASE UpstreamLogin \/ Register
  BY <1>1, <1>k DEF UpstreamLogin, Register
<1>2. CASE DownstreamPacket \/ UpstreamPacket \/ Join
  BY <1>2, <1>k DEF DownstreamPacket, UpstreamPacket, Join
<1>3. CASE ReconnectStart
  BY <1>3, <1>k DEF ReconnectStart
<1>4. CASE EndLoop
  BY <1>4, <1>k DEF EndLoop
<1>5. CASE \/ Lookup \/ DialFails \/ Dial \/ UpstreamLoginFails \/ KickWritten
           \/ RegisterConflict \/ Inject \/ DownstreamClosed \/ UpstreamClosed
           \/ IdleTimeout \/ Written \/ WaitDone \/ JoinFails \/ Unregister \/ CloseAll
  <2>1. UNCHANGED <<rd, reason>>
    BY <1>5 DEF Lookup, DialFails, ConnectFails, Dial, UpstreamLoginFails, KickWritten,
              RegisterConflict, Inject, DownstreamClosed, UpstreamClosed, IdleTimeout,
              Written, WaitDone, Waited, JoinFails, Unregister, CloseAll
  <2> QED
    BY <2>1
<1>6. ASSUME NEW s \in Streams, TombDone(s) PROVE DeadHasError'
  BY <1>6 DEF TombDone
<1>7. ASSUME NEW s \in Streams, ReaderRuns(s) PROVE DeadHasError'
  BY <1>7, <1>6, <1>k DEF ReaderRuns, ReaderCheck, ReadEnd, SendDying, Leave
<1>8. ASSUME NEW s \in Streams, ReaderReads(s) PROVE DeadHasError'
  BY <1>8, <1>k DEF ReaderReads, ReadPacket, ReadBad, Leave
<1>9. ASSUME NEW s \in Streams, PeerCloses(s) PROVE DeadHasError'
  BY <1>9 DEF PeerCloses
<1>10. CASE TimePasses \/ WatcherFires \/ OthersPush \/ UNCHANGED vars
  BY <1>10 DEF TimePasses, WatcherFires, OthersPush, vars
<1> QED
  BY <1>1, <1>2, <1>3, <1>4, <1>5, <1>7, <1>8, <1>9, <1>10
     DEF Next, Main, Select, Connect, Cleanup

\* Waiting for a reader that closed its channel always yields an error, so that
\* MainLoop ends; it never spins on a closed channel.
THEOREM DeadCorrect == Spec => []DeadHasError
<1>1. Init => DeadHasError
  BY DEF Init, DeadHasError
<1> QED
  BY <1>1, DeadStep, TypeCorrect, PTL DEF Spec

-----------------------------------------------------------------------------
(***************************************************************************)
(* Order.  What was written never runs ahead of what was read: a packet in *)
(* a reader's send has not been written yet, and nothing of an upstream    *)
(* later than the current one has.                                         *)
(***************************************************************************)
ClientBound ==
    \A i \in 1 .. Len(toClient) :
        /\ toClient[i].g <= up
        /\ toClient[i].g = up =>
              /\ toClient[i].n <= got[up]
              /\ rd[up] = "send" => toClient[i].n < got[up]

ServerBound ==
    \A i \in 1 .. Len(toServer) :
        /\ toServer[i].g <= up
        /\ toServer[i].n <= got[0]
        /\ rd[0] = "send" => toServer[i].n < got[0]

ClientInv == ClientOrder /\ ClientBound
ServerInv == ServerOrder /\ ServerBound

OrderInv == ClientInv /\ ServerInv

LEMMA AppendFacts ==
    ASSUME NEW S, NEW seq \in Seq(S), NEW x \in S
    PROVE  /\ Len(seq) \in Nat /\ Len(Append(seq, x)) = Len(seq) + 1
           /\ \A i \in 1 .. Len(seq) : Append(seq, x)[i] = seq[i] /\ seq[i] \in S
           /\ Append(seq, x)[Len(seq) + 1] = x
  OBVIOUS

LEMMA ElementTyped ==
    ASSUME NEW S, NEW seq \in Seq(S), NEW i \in 1 .. Len(seq)
    PROVE  seq[i] \in S
  OBVIOUS

LEMMA SentTyped ==
    ASSUME TypeOK
    PROVE  /\ Len(toClient) \in Nat /\ Len(toServer) \in Nat
           /\ \A i \in 1 .. Len(toClient) : toClient[i].g \in Streams /\ toClient[i].n \in Nat
           /\ \A i \in 1 .. Len(toServer) : toServer[i].g \in Streams /\ toServer[i].n \in Nat
<1>0. toClient \in Seq([g : Streams, n : Nat]) /\ toServer \in Seq([g : Streams, n : Nat])
  BY DEF TypeOK, OutTypeOK
<1>1. ASSUME NEW i \in 1 .. Len(toClient)
      PROVE  toClient[i].g \in Streams /\ toClient[i].n \in Nat
  <2>1. toClient[i] \in [g : Streams, n : Nat]
    BY <1>0, ElementTyped
  <2> QED
    BY <2>1
<1>2. ASSUME NEW i \in 1 .. Len(toServer)
      PROVE  toServer[i].g \in Streams /\ toServer[i].n \in Nat
  <2>1. toServer[i] \in [g : Streams, n : Nat]
    BY <1>0, ElementTyped
  <2> QED
    BY <2>1
<1> QED
  BY <1>0, <1>1, <1>2

\* Writing the packet a reader is sending keeps the order.
LEMMA ClientWrite ==
    ASSUME TypeOK, ClientInv, rd[up] = "send", up' = up, got' = got,
           rd' = [rd EXCEPT ![up] = "check"],
           toClient' = Append(toClient, [g |-> up, n |-> got[up]])
    PROVE  ClientInv'
<1> DEFINE last == [g |-> up, n |-> got[up]]
<1>0. up \in Streams /\ got[up] \in Nat /\ last \in [g : Streams, n : Nat] /\ rd'[up] = "check"
  BY DEF TypeOK, MainTypeOK, ReaderTypeOK
<1>1. /\ Len(toClient') = Len(toClient) + 1 /\ Len(toClient) \in Nat
      /\ \A i \in 1 .. Len(toClient) : toClient'[i] = toClient[i]
      /\ toClient'[Len(toClient) + 1] = last
  BY <1>0, AppendFacts DEF TypeOK, OutTypeOK
<1>2. last.g = up /\ last.n = got[up]
  OBVIOUS
<1> HIDE DEF last
<1>3. ASSUME NEW i \in 1 .. Len(toClient) PROVE Before(toClient[i], last)
  <2>1. toClient[i].g <= up /\ (toClient[i].g = up => toClient[i].n < got[up])
    BY DEF ClientInv, ClientBound
  <2>2. toClient[i].g \in Int /\ up \in Int
    BY <1>0, SentTyped, StreamFacts
  <2>3. toClient[i].g < last.g \/ (toClient[i].g = last.g /\ toClient[i].n < last.n)
    BY <1>2, <2>1, <2>2
  <2> QED
    BY <2>3 DEF Before
<1>4. ASSUME NEW i \in 1 .. Len(toClient'), NEW j \in 1 .. Len(toClient'), i < j
      PROVE  Before(toClient'[i], toClient'[j])
  <2>1. i \in 1 .. Len(toClient)
    BY <1>1, <1>4
  <2>2. CASE j \in 1 .. Len(toClient)
    BY <1>1, <1>4, <2>1, <2>2 DEF ClientInv, ClientOrder
  <2>3. CASE j = Len(toClient) + 1
    BY <1>1, <1>3, <2>1, <2>3
  <2> QED
    BY <1>1, <2>2, <2>3
<1>5. ASSUME NEW i \in 1 .. Len(toClient')
      PROVE  /\ toClient'[i].g <= up'
             /\ toClient'[i].g = up' => toClient'[i].n <= got'[up']
  <2>1. CASE i \in 1 .. Len(toClient)
    <3>1. toClient[i].g <= up /\ (toClient[i].g = up => toClient[i].n <= got[up])
      BY <2>1 DEF ClientInv, ClientBound
    <3> QED
      BY <1>1, <2>1, <3>1
  <2>2. CASE i = Len(toClient) + 1
    BY <1>0, <1>1, <1>2, <2>2, StreamFacts
  <2> QED
    BY <1>1, <2>1, <2>2
<1>6. ClientOrder'
  BY <1>4 DEF ClientOrder
<1> QED
  BY <1>0, <1>5, <1>6 DEF ClientInv, ClientBound

LEMMA ServerWrite ==
    ASSUME TypeOK, ServerInv, rd[0] = "send", up' = up, got' = got,
           rd' = [rd EXCEPT ![0] = "check"],
           toServer' = Append(toServer, [g |-> up, n |-> got[0]])
    PROVE  ServerInv'
<1> DEFINE last == [g |-> up, n |-> got[0]]
<1>0. up \in Streams /\ got[0] \in Nat /\ last \in [g : Streams, n : Nat] /\ rd'[0] = "check"
  BY StreamFacts DEF TypeOK, MainTypeOK, ReaderTypeOK
<1>1. /\ Len(toServer') = Len(toServer) + 1 /\ Len(toServer) \in Nat
      /\ \A i \in 1 .. Len(toServer) : toServer'[i] = toServer[i]
      /\ toServer'[Len(toServer) + 1] = last
  BY <1>0, AppendFacts DEF TypeOK, OutTypeOK
<1>2. last.g = up /\ last.n = got[0]
  OBVIOUS
<1> HIDE DEF last
<1>3. \A i \in 1 .. Len(toServer) : toServer[i].n < last.n /\ toServer[i].g <= last.g
  BY <1>0, <1>2 DEF ServerInv, ServerBound
<1>4. ASSUME NEW i \in 1 .. Len(toServer'), NEW j \in 1 .. Len(toServer'), i < j
      PROVE  toServer'[i].n < toServer'[j].n /\ toServer'[i].g <= toServer'[j].g
  <2>1. i \in 1 .. Len(toServer)
    BY <1>1, <1>4
  <2>2. CASE j \in 1 .. Len(toServer)
    BY <1>1, <1>4, <2>1, <2>2 DEF ServerInv, ServerOrder
  <2>3. CASE j = Len(toServer) + 1
    BY <1>1, <1>3, <2>1, <2>3
  <2> QED
    BY <1>1, <2>2, <2>3
<1>5. ASSUME NEW i \in 1 .. Len(toServer')
      PROVE  toServer'[i].g <= up' /\ toServer'[i].n <= got'[0]
  <2>1. CASE i \in 1 .. Len(toServer)
    BY <1>1, <2>1 DEF ServerInv, ServerBound
  <2>2. CASE i = Len(toServer) + 1
    BY <1>0, <1>1, <1>2, <2>2, StreamFacts
  <2> QED
    BY <1>1, <2>1, <2>2
<1>6. ServerOrder'
  BY <1>4 DEF ServerOrder
<1> QED
  BY <1>0, <1>5, <1>6 DEF ServerInv, ServerBound

\* A reader's own step reads a packet at most, after everything written.
LEMMA ReaderKeepsOrder ==
    ASSUME TypeOK, OrderInv, NEW s \in Streams, ReaderRuns(s) \/ ReaderReads(s)
    PROVE  OrderInv'
<1>1. UNCHANGED <<up, toClient, toServer>>
  BY DEF ReaderRuns, ReaderReads, mainVars, outVars
<1>2. \A t \in Streams :
         /\ got'[t] \in Nat /\ got'[t] >= got[t]
         /\ rd'[t] = "send" => rd[t] = "send" \/ got'[t] > got[t]
  BY DEF ReaderRuns, ReaderReads, ReaderCheck, ReadPacket, ReadBad, ReadEnd, SendDying,
         TombDone, Leave, TypeOK, ReaderTypeOK
<1>3. up \in Streams /\ 0 \in Streams /\ \A t \in Streams : got[t] \in Nat
  BY StreamFacts DEF TypeOK, MainTypeOK, ReaderTypeOK
<1>4. ClientOrder' /\ ServerOrder'
  BY <1>1 DEF OrderInv, ClientInv, ClientOrder, ServerInv, ServerOrder
<1>5. ASSUME NEW i \in 1 .. Len(toClient')
      PROVE  /\ toClient'[i].g <= up'
             /\ toClient'[i].g = up' =>
                   /\ toClient'[i].n <= got'[up']
                   /\ rd'[up'] = "send" => toClient'[i].n < got'[up']
  <2>1. /\ toClient[i].g <= up
        /\ toClient[i].g = up =>
              /\ toClient[i].n <= got[up]
              /\ rd[up] = "send" => toClient[i].n < got[up]
    BY <1>1, <1>5 DEF OrderInv, ClientInv, ClientBound
  <2>2. toClient[i].n \in Nat
    BY <1>1, <1>5, SentTyped
  <2> QED
    BY <1>1, <1>2, <1>3, <2>1, <2>2
<1>6. ServerBound'
  BY <1>1, <1>2, <1>3, SentTyped DEF OrderInv, ServerInv, ServerBound
<1> QED
  BY <1>4, <1>5, <1>6 DEF OrderInv, ClientInv, ClientBound, ServerInv

LEMMA OrderStep == UpInv /\ OrderInv /\ [Next]_vars => OrderInv'
<1> SUFFICES ASSUME UpInv, OrderInv, [Next]_vars PROVE OrderInv'
  OBVIOUS
<1>0. TypeOK
  BY DEF UpInv
<1> USE <1>0, StreamFacts DEF TypeOK, MainTypeOK, ReaderTypeOK
<1>k. ASSUME UNCHANGED <<up, got, toClient, toServer>>,
             \A s \in Streams : rd'[s] = "send" => rd[s] = "send"
      PROVE  OrderInv'
  BY <1>k DEF OrderInv, ClientInv, ClientOrder, ClientBound, ServerInv, ServerOrder, ServerBound
<1>1. CASE UpstreamLogin
  <2>1. up' \in Streams /\ up < up' /\ UNCHANGED <<got, toClient, toServer>>
        /\ (rd'[0] = "send" => rd[0] = "send")
    BY <1>1 DEF UpstreamLogin, UpInv, Phase, outVars, Streams
  <2>2. ASSUME NEW i \in 1 .. Len(toClient) PROVE toClient[i].g < up'
    <3>1. toClient[i].g <= up /\ toClient[i].g \in Int /\ up \in Int /\ up' \in Int
      BY <2>1, SentTyped DEF OrderInv, ClientInv, ClientBound
    <3> QED
      BY <2>1, <3>1
  <2>3. ClientInv'
    <3>1. ClientOrder'
      BY <2>1 DEF OrderInv, ClientInv, ClientOrder
    <3>2. ASSUME NEW i \in 1 .. Len(toClient')
          PROVE  toClient'[i].g <= up' /\ toClient'[i].g # up'
      <4>1. toClient[i].g < up' /\ toClient[i].g \in Int /\ up' \in Int
        BY <2>1, <2>2, <3>2, SentTyped
      <4> QED
        BY <2>1, <4>1
    <3> QED
      BY <3>1, <3>2 DEF ClientInv, ClientBound
  <2>4. ServerInv'
    BY <2>1, SentTyped DEF OrderInv, ServerInv, ServerOrder, ServerBound, Streams
  <2> QED
    BY <2>3, <2>4 DEF OrderInv
<1>2. CASE DownstreamPacket
  <2>1. /\ UNCHANGED <<up, got, toClient>> /\ rd[0] = "send"
        /\ rd' = [rd EXCEPT ![0] = "check"]
        /\ \/ UNCHANGED toServer
           \/ toServer' = Append(toServer, [g |-> up, n |-> got[0]])
    BY <1>2 DEF DownstreamPacket, mainVars
  <2>2. ClientInv'
    BY <2>1 DEF OrderInv, ClientInv, ClientOrder, ClientBound
  <2>3. ServerInv'
    BY <2>1, <1>k, ServerWrite DEF OrderInv
  <2> QED
    BY <2>2, <2>3 DEF OrderInv
<1>3. CASE UpstreamPacket \/ Join
  <2>1. /\ UNCHANGED <<up, got, toServer>> /\ rd[up] = "send"
        /\ rd' = [rd EXCEPT ![up] = "check"]
        /\ \/ UNCHANGED toClient
           \/ toClient' = Append(toClient, [g |-> up, n |-> got[up]])
    BY <1>3 DEF UpstreamPacket, Join, mainVars
  <2>2. ServerInv'
    BY <2>1 DEF OrderInv, ServerInv, ServerOrder, ServerBound
  <2>3. ClientInv'
    BY <2>1, <1>k, ClientWrite DEF OrderInv
  <2> QED
    BY <2>2, <2>3 DEF OrderInv
<1>4. CASE Register
  BY <1>4, <1>k DEF Register, outVars
<1>5. CASE \/ Lookup \/ DialFails \/ Dial \/ UpstreamLoginFails \/ KickWritten
           \/ RegisterConflict
  BY <1>5, <1>k DEF Lookup, DialFails, ConnectFails, Dial, UpstreamLoginFails, KickWritten,
              RegisterConflict, mainVars, readVars, outVars
<1>6. CASE \/ ReconnectStart \/ Inject \/ DownstreamClosed \/ UpstreamClosed
           \/ IdleTimeout \/ Written
  BY <1>6, <1>k DEF ReconnectStart, Inject, DownstreamClosed, UpstreamClosed, IdleTimeout,
              Written, mainVars, readVars, outVars
<1>7. CASE WaitDone \/ JoinFails \/ Cleanup
  BY <1>7, <1>k DEF WaitDone, Waited, JoinFails, Cleanup, EndLoop, Unregister, CloseAll,
              mainVars, readVars, outVars
<1>8. ASSUME NEW s \in Streams, ReaderRuns(s) \/ ReaderReads(s) PROVE OrderInv'
  BY <1>0, <1>8, ReaderKeepsOrder
<1>9. ASSUME NEW s \in Streams, PeerCloses(s) PROVE OrderInv'
  BY <1>9, <1>k DEF PeerCloses, mainVars, readVars, outVars
<1>10. CASE TimePasses \/ WatcherFires \/ OthersPush \/ UNCHANGED vars
  BY <1>10, <1>k DEF TimePasses, WatcherFires, OthersPush, vars, mainVars, readVars, outVars
<1> QED
  BY <1>1, <1>2, <1>3, <1>4, <1>5, <1>6, <1>7, <1>8, <1>9, <1>10
     DEF Next, Main, Select, Connect

LEMMA OrderAlways == Spec => []OrderInv
<1>1. Init => OrderInv
  BY DEF Init, OrderInv, ClientInv, ClientOrder, ClientBound, ServerInv, ServerOrder, ServerBound
<1> QED
  BY <1>1, OrderStep, UpAlways, PTL DEF Spec

\* The client sees every upstream's packets in order and once, and none of an
\* upstream it has been moved away from; its own packets reach the upstreams in
\* order, each one upstream at most.
THEOREM PacketOrderCorrect == Spec => []PacketOrder
<1>1. OrderInv => PacketOrder
  BY DEF OrderInv, ClientInv, ServerInv, PacketOrder
<1> QED
  BY <1>1, OrderAlways, PTL
=============================================================================
