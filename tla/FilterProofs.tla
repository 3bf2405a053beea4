---------------------------- MODULE FilterProofs ----------------------------
(***************************************************************************)
(* Proofs about the filters and the dispatch of packets to them: first the *)
(* chat filters and the permissions, whose steps leave each other's state  *)
(* alone, then the bit array and the table of callbacks, which agree       *)
(* (Filtered).                                                             *)
(***************************************************************************)
EXTENDS Dispatch, ChatFilters, FiniteSetTheorems, SequenceTheorems, TLAPS

\* What is next to it changes nothing for each of the filters.
LEMMA EachKept == FiltersSpec => Private!Spec /\ Config!Spec /\ Permission!Spec
<1>1. FiltersInit => Private!Init /\ Config!Init /\ Permission!Init
  BY DEF FiltersInit
<1>2. [FiltersNext]_<<privateVars, configVars, permissionVars>> =>
          [Private!Next]_Private!vars /\ [Config!Next]_Config!vars
              /\ [Permission!Next]_Permission!vars
  BY DEF FiltersNext, PrivateStep, ConfigStep, PermissionStep, privateVars, configVars,
         permissionVars, Private!vars, Config!vars, Permission!vars
<1>3. QED BY <1>1, <1>2, PTL DEF FiltersSpec, Private!Spec, Config!Spec, Permission!Spec

-----------------------------------------------------------------------------
(* The MOTD.                                                               *)

\* A cached MOTD is used no longer than TTL after it was read.
Aged ==
    /\ now \in Nat
    /\ motd.e # None => motd.e \in Nat /\ motd.read \in Nat /\ motd.e <= motd.read + TTL
    /\ answer.read \in Nat /\ answer.at \in Nat
    /\ Config!MotdFresh

\* Only an answer of redis sets the entry, and only a status request the answer.
LEMMA StepAged ==
    ASSUME Config!ConfigAssumption
    PROVE  Aged /\ [Config!Next]_Config!vars => Aged'
<1> USE DEF Config!ConfigAssumption, Config!MotdFresh
<1> SUFFICES ASSUME Aged, [Config!Next]_Config!vars PROVE Aged'
  OBVIOUS
<1>1. CASE UNCHANGED <<now, motd, answer>>
  BY <1>1 DEF Aged
<1>2. CASE Config!Tick
  BY <1>2 DEF Aged, Config!Tick, Config!ping
<1>3. CASE Config!PingCached
  BY <1>3 DEF Aged, Config!PingCached, Config!Fresh
<1>4. ASSUME NEW g \in Pings, Config!PingAnswered(g)
      PROVE  Aged'
  BY <1>4 DEF Aged, Config!PingAnswered
<1>5. QED
  BY <1>1, <1>2, <1>3, <1>4
  DEF Config!Next, Config!vars, Config!ping, Config!Edit, Config!LoadConfig, Config!Install,
      Config!chatoffCommand, Config!AutoMessage, Config!ChatFilter, Config!helpopCommand,
      Config!resFilter, Config!Relog, Config!PingAsks

\* The MOTD that a status request is answered with was looked up no longer than TTL before,
\* for any TTL and any number of requests that wait for the lock while redis is asked.
LEMMA MotdHolds ==
    ASSUME Config!ConfigAssumption
    PROVE  Config!Spec => []Config!MotdFresh
<1>1. Config!Init => Aged
  BY DEF Config!Init, Aged, Config!MotdFresh, Config!ConfigAssumption
<1>2. Aged => Config!MotdFresh
  BY DEF Aged
<1>3. QED BY <1>1, <1>2, StepAged, PTL DEF Config!Spec

-----------------------------------------------------------------------------
(* Slow mode.                                                              *)

Clocks == [chat : Nat \cup {None}, helpop : Nat \cup {None}]
Times == [chat : Seq(Nat), helpop : Seq(Nat)]

\* Messages let through at times, the last one at t or before, and none before the first.
Before(times, t) == \A i \in DOMAIN times : t # None /\ times[i] <= t

\* What slow mode makes of a player's times t, when its clocks are l.
Apart(t, l) ==
    /\ Before(t.chat, l.chat) /\ Before(t.helpop, l.helpop)
    /\ Config!Spaced(t.chat) /\ Config!Spaced(t.helpop)

Paced ==
    /\ now \in Nat
    /\ last \in [Players -> Clocks] /\ said \in [Players -> Times]
    /\ \A p \in Players \ Bypass : Apart(said[p], last[p])

\* A message that slow mode lets through is far enough from all that went before.
LEMMA LetThrough ==
    ASSUME Config!ConfigAssumption, NEW times \in Seq(Nat), NEW t \in Nat \cup {None},
           NEW dur \in SlowMode, now \in Nat,
           Before(times, t), Config!Spaced(times), Config!checkSlowmode(t, dur)
    PROVE  /\ Config!Spaced(Append(times, now)) /\ Before(Append(times, now), now)
           /\ Before(times, now) /\ Append(times, now) \in Seq(Nat)
<1> DEFINE after == Append(times, now)
<1>1. /\ after \in Seq(Nat) /\ Len(after) = Len(times) + 1 /\ Len(times) \in Nat
      /\ DOMAIN times = 1 .. Len(times) /\ DOMAIN after = 1 .. Len(times) + 1
      /\ \A i \in 1 .. Len(times) : after[i] = times[i] /\ times[i] \in Nat
      /\ after[Len(times) + 1] = now
  OBVIOUS
<1> HIDE DEF after
<1>2. dur \in Nat \ {0} /\ None \notin Nat
  BY DEF Config!ConfigAssumption
<1>3. \A i \in 1 .. Len(times) : now - times[i] > dur
  <2> SUFFICES ASSUME NEW i \in 1 .. Len(times) PROVE now - times[i] > dur
    OBVIOUS
  <2>1. t \in Nat /\ times[i] <= t /\ times[i] \in Nat
    BY <1>1 DEF Before
  <2>2. now - t > dur
    BY <2>1, <1>2 DEF Config!checkSlowmode
  <2>3. QED BY <1>2, <2>1, <2>2
<1>4. Before(after, now) /\ Before(times, now)
  <2>1. now # None /\ \A i \in 1 .. Len(times) : times[i] <= now
    BY <1>1, <1>2, <1>3
  <2>2. \A i \in 1 .. Len(times) + 1 : i \in 1 .. Len(times) \/ i = Len(times) + 1
    BY <1>1
  <2>3. \A i \in DOMAIN after : after[i] <= now
    BY <1>1, <2>1, <2>2
  <2>4. QED BY <1>1, <2>1, <2>3 DEF Before
<1>5. Config!Spaced(after)
  <2> SUFFICES ASSUME NEW i \in 1 .. Len(times) + 1, NEW j \in 1 .. Len(times) + 1, i < j
               PROVE  \E d \in SlowMode : after[j] - after[i] > d
    BY <1>1 DEF Config!Spaced
  <2>1. Len(times) \in Nat
    BY <1>1
  <2>2. i \in 1 .. Len(times)
    BY <2>1
  <2>3. CASE j = Len(times) + 1
    <3>1. after[j] - after[i] > dur
      BY <2>2, <2>3, <1>1, <1>3
    <3>2. QED BY <3>1
  <2>4. CASE j # Len(times) + 1
    <3>1. j \in 1 .. Len(times)
      BY <2>1, <2>4
    <3>2. i \in DOMAIN times /\ j \in DOMAIN times /\ after[i] = times[i] /\ after[j] = times[j]
      BY <2>2, <3>1, <1>1
    <3>3. QED BY <3>2 DEF Config!Spaced
  <2>5. QED BY <2>3, <2>4
<1>6. QED BY <1>1, <1>4, <1>5 DEF after

\* A message to the chat, whether slow mode, the switch or the limiter stops it or not.
LEMMA ChatPaced ==
    ASSUME Config!ConfigAssumption, Paced, NEW p \in Players, NEW dur \in SlowMode,
           NEW allowed \in BOOLEAN, Config!ChatFilter(p, dur, allowed)
    PROVE  Paced'
<1> DEFINE t == said[p]  l == last[p]
           t2 == IF allowed THEN [t EXCEPT !.chat = Append(@, now)] ELSE t
           l2 == IF p \in Bypass THEN l ELSE [l EXCEPT !.chat = now]
<1>1. /\ t \in Times /\ l \in Clocks /\ now \in Nat /\ now' = now
      /\ p \notin Bypass => Apart(t, l) /\ Config!checkSlowmode(l.chat, dur)
      /\ last \in [Players -> Clocks] /\ said \in [Players -> Times]
  BY DEF Paced, Config!ChatFilter
<1>2. last' = [last EXCEPT ![p] = l2] /\ said' = [said EXCEPT ![p] = t2]
  BY <1>1 DEF Config!ChatFilter, Clocks, Times
<1>3. Append(t.chat, now) \in Seq(Nat) /\ t.chat \in Seq(Nat)
  BY <1>1 DEF Times
<1>4. l2 \in Clocks /\ t2 \in Times
  BY <1>1, <1>3 DEF Clocks, Times
<1>5. ASSUME p \notin Bypass
      PROVE  Apart(t2, l2)
  <2>1. Before(t.chat, l.chat) /\ Config!Spaced(t.chat) /\ l.chat \in Nat \cup {None}
    BY <1>1, <1>5 DEF Apart, Clocks
  <2>2. /\ Config!Spaced(Append(t.chat, now)) /\ Before(Append(t.chat, now), now)
        /\ Before(t.chat, now)
    BY <1>1, <1>3, <1>5, <2>1, LetThrough
  <2>3. l2.chat = now /\ l2.helpop = l.helpop /\ t2.helpop = t.helpop
    BY <1>1, <1>5 DEF Clocks, Times
  <2>4. t2.chat = IF allowed THEN Append(t.chat, now) ELSE t.chat
    BY <1>1 DEF Times
  <2>5. QED BY <1>1, <1>5, <2>1, <2>2, <2>3, <2>4 DEF Apart
<1> HIDE DEF t2, l2, t, l
<1>6. last' \in [Players -> Clocks] /\ said' \in [Players -> Times]
  BY <1>1, <1>2, <1>4
<1>7. ASSUME NEW q \in Players \ Bypass
      PROVE  Apart(said'[q], last'[q])
  <2>1. CASE q = p
    BY <1>1, <1>2, <1>5, <1>7, <2>1
  <2>2. CASE q # p
    BY <1>1, <1>2, <1>7, <2>2 DEF Paced
  <2>3. QED BY <2>1, <2>2
<1>8. QED BY <1>1, <1>6, <1>7 DEF Paced, Apart, Before, Config!Spaced

\* A message to /helpop.
LEMMA HelpopPaced ==
    ASSUME Config!ConfigAssumption, Paced, NEW p \in Players, NEW dur \in SlowMode,
           Config!helpopCommand(p, dur)
    PROVE  Paced'
<1> DEFINE t == said[p]  l == last[p]
           t2 == [t EXCEPT !.helpop = Append(@, now)]
           l2 == IF p \in Bypass THEN l ELSE [l EXCEPT !.helpop = now]
<1>1. /\ t \in Times /\ l \in Clocks /\ now \in Nat /\ now' = now
      /\ p \notin Bypass => Apart(t, l) /\ Config!checkSlowmode(l.helpop, dur)
      /\ last \in [Players -> Clocks] /\ said \in [Players -> Times]
  BY DEF Paced, Config!helpopCommand
<1>2. last' = [last EXCEPT ![p] = l2] /\ said' = [said EXCEPT ![p] = t2]
  BY <1>1 DEF Config!helpopCommand, Clocks, Times
<1>3. Append(t.helpop, now) \in Seq(Nat) /\ t.helpop \in Seq(Nat)
  BY <1>1 DEF Times
<1>4. l2 \in Clocks /\ t2 \in Times
  BY <1>1, <1>3 DEF Clocks, Times
<1>5. ASSUME p \notin Bypass
      PROVE  Apart(t2, l2)
  <2>1. Before(t.helpop, l.helpop) /\ Config!Spaced(t.helpop) /\ l.helpop \in Nat \cup {None}
    BY <1>1, <1>5 DEF Apart, Clocks
  <2>2. Config!Spaced(Append(t.helpop, now)) /\ Before(Append(t.helpop, now), now)
    BY <1>1, <1>3, <1>5, <2>1, LetThrough
  <2>3. /\ l2.helpop = now /\ l2.chat = l.chat /\ t2.chat = t.chat
        /\ t2.helpop = Append(t.helpop, now)
    BY <1>1, <1>5 DEF Clocks, Times
  <2>4. QED BY <1>1, <1>5, <2>2, <2>3 DEF Apart
<1> HIDE DEF t2, l2, t, l
<1>6. last' \in [Players -> Clocks] /\ said' \in [Players -> Times]
  BY <1>1, <1>2, <1>4
<1>7. ASSUME NEW q \in Players \ Bypass
      PROVE  Apart(said'[q], last'[q])
  <2>1. CASE q = p
    BY <1>1, <1>2, <1>5, <1>7, <2>1
  <2>2. CASE q # p
    BY <1>1, <1>2, <1>7, <2>2 DEF Paced
  <2>3. QED BY <2>1, <2>2
<1>8. QED BY <1>1, <1>6, <1>7 DEF Paced, Apart, Before, Config!Spaced

\* A session begins without clocks, and with nothing said.
LEMMA NothingSaid ==
    /\ Config!NoClocks \in Clocks /\ Config!Nothing \in Times
    /\ Apart(Config!Nothing, Config!NoClocks)
  BY DEF Config!NoClocks, Config!Nothing, Clocks, Times, Apart, Before, Config!Spaced

\* Other steps send no message, and the clock only moves on.
LEMMA StepPaced ==
    ASSUME Config!ConfigAssumption
    PROVE  Paced /\ [Config!Next]_Config!vars => Paced'
<1> SUFFICES ASSUME Paced, [Config!Next]_Config!vars PROVE Paced'
  OBVIOUS
<1>1. CASE UNCHANGED <<last, said>> /\ now' \in Nat
  BY <1>1 DEF Paced, Apart, Before, Config!Spaced
<1>2. now \in Nat
  BY DEF Paced
<1>3. CASE Config!Tick
  BY <1>1, <1>2, <1>3 DEF Config!Tick, Config!chat
<1>4. ASSUME NEW p \in Players, NEW dur \in SlowMode, NEW allowed \in BOOLEAN,
             Config!ChatFilter(p, dur, allowed)
      PROVE  Paced'
  BY <1>4, ChatPaced
<1>5. ASSUME NEW p \in Players, NEW dur \in SlowMode, Config!helpopCommand(p, dur)
      PROVE  Paced'
  BY <1>5, HelpopPaced
<1>6. ASSUME NEW p \in Players, Config!Relog(p)
      PROVE  Paced'
  <2>1. last' = [last EXCEPT ![p] = Config!NoClocks] /\ said' = [said EXCEPT ![p] = Config!Nothing]
        /\ now' = now
    BY <1>6 DEF Config!Relog
  <2>2. last' \in [Players -> Clocks] /\ said' \in [Players -> Times] /\ now' \in Nat
    BY <2>1, NothingSaid DEF Paced
  <2>3. ASSUME NEW q \in Players \ Bypass
        PROVE  Apart(said'[q], last'[q])
    <3>1. CASE q = p
      BY <2>1, <3>1, NothingSaid DEF Paced
    <3>2. CASE q # p
      BY <2>1, <2>3, <3>2 DEF Paced
    <3>3. QED BY <3>1, <3>2
  <2>4. QED BY <2>2, <2>3 DEF Paced, Apart, Before, Config!Spaced
<1>7. QED
  BY <1>1, <1>2, <1>3, <1>4, <1>5, <1>6
  DEF Config!Next, Config!vars, Config!chat, Config!Edit, Config!LoadConfig, Config!Install,
      Config!chatoffCommand, Config!AutoMessage, Config!resFilter, Config!PingCached,
      Config!PingAsks, Config!PingAnswered

\* Two messages that a player slow mode applies to sends in one session are further apart than
\* its shortest time, on the chat and on /helpop each, for any number of players and messages
\* and however slow mode, the rate limiter and /chat change in between.
LEMMA SlowHolds ==
    ASSUME Config!ConfigAssumption
    PROVE  Config!Spec => []Config!SlowModeHolds
<1>1. ASSUME Config!Init
      PROVE  Paced
  <2>1. now \in Nat /\ last = [p \in Players |-> Config!NoClocks]
        /\ said = [p \in Players |-> Config!Nothing]
    BY <1>1 DEF Config!Init
  <2>2. QED BY <2>1, NothingSaid DEF Paced
<1>2. Paced => Config!SlowModeHolds
  BY DEF Paced, Apart, Config!SlowModeHolds
<1>3. QED BY <1>1, <1>2, StepPaced, PTL DEF Config!Spec

-----------------------------------------------------------------------------
(* Histories: the last HistorySize of a growing list.                      *)

\* h holds the last elements of q, oldest first, its front still empty while there are fewer.
Latest(h, q) ==
    \A k \in 1 .. HistorySize :
        h[k] = IF Len(q) - HistorySize + k < 1 THEN None ELSE q[Len(q) - HistorySize + k]

\* Shift keeps a history up to date.
LEMMA ShiftKeeps ==
    ASSUME HistorySize \in Nat \ {0}, NEW q \in Seq(Nat), NEW x \in Nat, NEW h, NEW h2,
           Latest(h, q), h2 = [k \in 1 .. HistorySize |-> IF k = HistorySize THEN x ELSE h[k + 1]]
    PROVE  Latest(h2, Append(q, x)) /\ Append(q, x) \in Seq(Nat)
<1> DEFINE after == Append(q, x)
<1>1. /\ after \in Seq(Nat) /\ Len(after) = Len(q) + 1 /\ Len(q) \in Nat
      /\ after[Len(q) + 1] = x
      /\ \A i \in 1 .. Len(q) : after[i] = q[i]
  OBVIOUS
<1> HIDE DEF after
<1>2. ASSUME NEW k \in 1 .. HistorySize
      PROVE  h2[k] = IF Len(after) - HistorySize + k < 1 THEN None
                     ELSE after[Len(after) - HistorySize + k]
  <2>1. Len(after) - HistorySize + k = Len(q) - HistorySize + (k + 1)
    BY <1>1
  <2>2. CASE k = HistorySize
    <3>1. Len(after) - HistorySize + k = Len(q) + 1
      BY <1>1, <2>2
    <3>2. QED BY <1>1, <2>2, <3>1
  <2>3. CASE k # HistorySize
    <3> DEFINE i == Len(q) - HistorySize + (k + 1)
    <3>1. k + 1 \in 1 .. HistorySize /\ i \in Int /\ i <= Len(q)
      BY <1>1, <2>3
    <3>2. h2[k] = h[k + 1]
      BY <2>3
    <3>3. h[k + 1] = IF i < 1 THEN None ELSE q[i]
      BY <3>1 DEF Latest
    <3> HIDE DEF i
    <3>4. ~(i < 1) => after[i] = q[i]
      BY <1>1, <3>1
    <3>5. Len(after) - HistorySize + k = i
      BY <2>1 DEF i
    <3>6. QED BY <3>2, <3>3, <3>4, <3>5
  <2>4. QED BY <2>2, <2>3
<1>3. QED BY <1>1, <1>2 DEF Latest, after

Remembered == asked \in Seq(Nat) /\ Latest(helpop, asked)

\* What /helpop's history shows is the last messages to /helpop, oldest first, for any length
\* of the history and any number of messages.
LEMMA HelpopHolds ==
    ASSUME Config!ConfigAssumption
    PROVE  Config!Spec => []Config!HelpopRecent
<1>1. Config!Init => Remembered
  BY DEF Config!Init, Config!ConfigAssumption, Remembered, Latest
<1>2. Remembered /\ [Config!Next]_Config!vars => Remembered'
  <2> SUFFICES ASSUME Remembered, [Config!Next]_Config!vars PROVE Remembered'
    OBVIOUS
  <2>1. CASE UNCHANGED <<helpop, asked>>
    BY <2>1 DEF Remembered, Latest
  <2>2. ASSUME NEW p \in Players, NEW dur \in SlowMode, Config!helpopCommand(p, dur)
        PROVE  Remembered'
    <3>1. /\ helpop' = [k \in 1 .. HistorySize |->
                           IF k = HistorySize THEN Len(asked) + 1 ELSE helpop[k + 1]]
          /\ asked' = Append(asked, Len(asked) + 1)
          /\ asked \in Seq(Nat) /\ Len(asked) + 1 \in Nat /\ Latest(helpop, asked)
      BY <2>2 DEF Config!helpopCommand, Config!Shift, Remembered
    <3>2. HistorySize \in Nat \ {0}
      BY DEF Config!ConfigAssumption
    <3> DEFINE h2 == helpop'  q2 == asked'
    <3>3. /\ h2 = [k \in 1 .. HistorySize |->
                      IF k = HistorySize THEN Len(asked) + 1 ELSE helpop[k + 1]]
          /\ q2 = Append(asked, Len(asked) + 1)
      BY <3>1
    <3> HIDE DEF h2, q2
    <3>4. Latest(h2, q2) /\ q2 \in Seq(Nat)
      BY <3>1, <3>2, <3>3, ShiftKeeps
    <3>5. QED BY <3>4 DEF h2, q2, Remembered, Latest
  <2>3. QED
    BY <2>1, <2>2
    DEF Config!Next, Config!vars, Config!chat, Config!Tick, Config!Edit, Config!LoadConfig,
        Config!Install, Config!chatoffCommand, Config!AutoMessage, Config!ChatFilter,
        Config!resFilter, Config!Relog, Config!PingCached, Config!PingAsks,
        Config!PingAnswered
<1>3. Remembered => Config!HelpopRecent
  BY DEF Remembered, Latest, Config!HelpopRecent
<1>4. QED BY <1>1, <1>2, <1>3, PTL DEF Config!Spec

-----------------------------------------------------------------------------
(* Reloads.                                                                *)

Configs == [version : Nat, auto : Nat, off : BOOLEAN]
Reloads == [st : {"idle", "loaded", "done"}, loaded : Configs, overlap : BOOLEAN]

\* A reload that was not overlapped left the configuration in force.
InForce(r) == r.st = "done" /\ ~r.overlap => config = [r.loaded EXCEPT !.off = config.off]

\* The index of the next automessage is one of the list's, unless a reload has shortened the
\* list or there is none.
Indexed ==
    /\ nextAutoMessage \in Nat
    /\ crashed => shortened
    /\ shortened \/ config.auto = 0 \/ nextAutoMessage < config.auto

Lasting ==
    /\ config \in Configs
    /\ file.version \in Nat /\ file.auto \in Nat /\ file.off \in BOOLEAN
    /\ reload \in [Moderators -> Reloads]
    /\ Indexed
    /\ \A m \in Moderators : InForce(reload[m])

\* /chatreload reads the file and leaves the configuration alone.
LEMMA LoadLasting ==
    ASSUME Config!ConfigAssumption, Lasting, NEW m \in Moderators, Config!LoadConfig(m)
    PROVE  Lasting'
<1> DEFINE r2 == reload'[m]
<1>1. /\ UNCHANGED <<file, config, nextAutoMessage, shortened, crashed>>
      /\ reload \in [Moderators -> Reloads]
  BY DEF Lasting, Config!LoadConfig, Config!auto
<1>2. r2 \in Reloads /\ r2.st # "done" /\ reload' = [reload EXCEPT ![m] = r2]
  <2> DEFINE loaded == [version |-> file.version, auto |-> file.auto, off |-> file.off]
  <2>1. loaded \in Configs
    BY DEF Lasting, Configs
  <2>2. CASE file.ok
    BY <2>1, <2>2, <1>1 DEF Config!LoadConfig, Reloads
  <2>3. CASE ~file.ok
    BY <2>3, <1>1 DEF Config!LoadConfig, Reloads
  <2>4. QED BY <2>2, <2>3
<1> HIDE DEF r2
<1>3. reload' \in [Moderators -> Reloads] /\ \A o \in Moderators : InForce(reload[o])'
  BY <1>1, <1>2 DEF Lasting, InForce
<1>4. QED BY <1>1, <1>3 DEF Lasting, Indexed

\* /chatreload replaces the configuration, which ends and overlaps the others.
LEMMA InstallLasting ==
    ASSUME Config!ConfigAssumption, Lasting, ~crashed, NEW m \in Moderators, Config!Install(m)
    PROVE  Lasting'
<1>1. reload[m] \in Reloads /\ reload[m].loaded \in Configs
  BY DEF Lasting, Reloads
<1>2. /\ config' = reload[m].loaded
      /\ shortened' = (nextAutoMessage >= reload[m].loaded.auto)
      /\ UNCHANGED <<file, nextAutoMessage, crashed>>
      /\ reload' = [o \in Moderators |-> IF o = m THEN [reload[m] EXCEPT !.st = "done"]
                                         ELSE [reload[o] EXCEPT !.overlap = TRUE]]
  BY DEF Config!Install, Config!Reloaded
<1>3. \A o \in Moderators : reload'[o] \in Reloads
  BY <1>2 DEF Lasting, Reloads
<1>4. \A o \in Moderators : InForce(reload[o])'
  <2> SUFFICES ASSUME NEW o \in Moderators PROVE InForce(reload[o])'
    OBVIOUS
  <2>1. CASE o = m
    <3>1. reload'[o].loaded = config'
      BY <1>1, <1>2, <2>1 DEF Reloads
    <3>2. config' \in Configs
      BY <1>1, <1>2
    <3>3. [config' EXCEPT !.off = config'.off] = config'
      BY <3>2 DEF Configs
    <3>4. QED BY <3>1, <3>3 DEF InForce
  <2>2. CASE o # m
    <3>1. reload[o] \in Reloads
      BY DEF Lasting
    <3>2. reload'[o].overlap = TRUE
      BY <1>2, <2>2, <3>1 DEF Reloads
    <3>3. QED BY <3>2 DEF InForce
  <2>3. QED BY <2>1, <2>2
<1>5. Indexed'
  <2>1. nextAutoMessage \in Nat /\ config'.auto \in Nat
    BY <1>1, <1>2 DEF Lasting, Indexed, Configs
  <2>2. crashed' = crashed /\ nextAutoMessage' = nextAutoMessage
    BY <1>2
  <2>3. shortened' <=> nextAutoMessage >= config'.auto
    BY <1>2, Zenon
  <2>4. ~shortened' => nextAutoMessage < config'.auto
    BY <2>1, <2>3
  <2>5. QED BY <2>1, <2>2, <2>4 DEF Indexed
<1>6. QED BY <1>1, <1>2, <1>3, <1>4, <1>5 DEF Lasting

\* Every other step leaves versions alone; automessages move the index within the list.
LEMMA StepLasting ==
    ASSUME Config!ConfigAssumption
    PROVE  Lasting /\ [Config!Next]_Config!vars => Lasting'
<1>0. Lasting /\ UNCHANGED Config!vars => Lasting'
  BY DEF Config!vars, Config!auto, Lasting, Indexed, InForce
<1> SUFFICES ASSUME Lasting, Config!Next PROVE Lasting'
  BY <1>0
<1>1. CASE UNCHANGED <<file, config, reload, Config!auto>>
  BY <1>1 DEF Lasting, Indexed, InForce, Config!auto
<1>2. ASSUME NEW n \in 0 .. MaxAuto, NEW off \in BOOLEAN, NEW ok \in BOOLEAN,
             Config!Edit(n, off, ok)
      PROVE  Lasting'
  BY <1>2 DEF Config!Edit, Config!auto, Config!ConfigAssumption, Lasting, Indexed, InForce
<1>3. ASSUME NEW m \in Moderators, Config!LoadConfig(m)
      PROVE  Lasting'
  BY <1>3, LoadLasting
<1>4. ASSUME NEW m \in Moderators, Config!Install(m)
      PROVE  Lasting'
  <2>1. ~crashed
    BY DEF Config!Next
  <2>2. QED BY <1>4, <2>1, InstallLasting
<1>5. ASSUME NEW state \in BOOLEAN, Config!chatoffCommand(state)
      PROVE  Lasting'
  <2>1. config' = [config EXCEPT !.off = state] /\ UNCHANGED <<file, reload, Config!auto>>
    BY <1>5 DEF Config!chatoffCommand
  <2>2. config' \in Configs /\ config'.auto = config.auto
    BY <2>1 DEF Lasting, Configs
  <2>3. Indexed'
    BY <2>1, <2>2 DEF Lasting, Indexed, Config!auto
  <2>4. ASSUME NEW m \in Moderators
        PROVE  InForce(reload[m])'
    BY <2>1, <2>4 DEF Lasting, InForce, Configs, Reloads
  <2>5. QED BY <2>1, <2>2, <2>3, <2>4 DEF Lasting
<1>6. CASE Config!AutoMessage
  <2>1. UNCHANGED <<file, config, reload, shortened>> /\ config.auto \in Nat \ {0}
    BY <1>6 DEF Config!AutoMessage, Lasting, Configs
  <2>2. CASE nextAutoMessage < config.auto /\ nextAutoMessage' = Config!NextIndex
             /\ UNCHANGED crashed
    <3>1. nextAutoMessage' \in 0 .. config.auto - 1
      <4>1. nextAutoMessage \in Nat
        BY DEF Lasting, Indexed
      <4>2. QED BY <2>1, <2>2, <4>1 DEF Config!NextIndex
    <3>2. Indexed'
      BY <2>1, <2>2, <3>1 DEF Lasting, Indexed
    <3>3. QED BY <2>1, <3>2 DEF Lasting, InForce
  <2>3. CASE nextAutoMessage >= config.auto /\ crashed' = TRUE /\ UNCHANGED nextAutoMessage
    <3>1. shortened = TRUE
      BY <2>1, <2>3 DEF Lasting, Indexed
    <3>2. Indexed'
      BY <2>1, <2>3, <3>1 DEF Lasting, Indexed
    <3>3. QED BY <2>1, <3>2 DEF Lasting, InForce
  <2>4. QED BY <1>6, <2>2, <2>3 DEF Config!AutoMessage
<1>7. QED
  BY <1>1, <1>2, <1>3, <1>4, <1>5, <1>6
  DEF Config!Next, Config!vars, Config!auto, Config!Tick, Config!ChatFilter,
      Config!helpopCommand, Config!resFilter, Config!Relog, Config!PingCached,
      Config!PingAsks, Config!PingAnswered

\* A reload that no other overlapped takes effect as a whole and lasts until the next one, and
\* the automessage goroutine fails only after one that left its index outside the new list,
\* for any number of moderators, edits and automessages.
LEMMA ReloadHolds ==
    ASSUME Config!ConfigAssumption
    PROVE  Config!Spec => []Config!ReloadTakesEffect
<1>1. ASSUME Config!Init
      PROVE  Lasting
  <2>1. PICK n \in 0 .. MaxAuto : file = [version |-> 0, auto |-> n, off |-> FALSE, ok |-> TRUE]
    BY <1>1 DEF Config!Init
  <2>2. n \in Nat
    BY <2>1 DEF Config!ConfigAssumption
  <2>3. config \in Configs /\ config.auto = n
    BY <1>1, <2>1, <2>2 DEF Config!Init, Configs
  <2>4. Indexed
    BY <1>1, <2>2, <2>3 DEF Config!Init, Indexed
  <2>5. \A m \in Moderators : reload[m] \in Reloads /\ reload[m].st = "idle"
    BY <1>1, <2>3 DEF Config!Init, Reloads
  <2>6. QED BY <1>1, <2>1, <2>2, <2>3, <2>4, <2>5 DEF Config!Init, Lasting, InForce
<1>2. Lasting => Config!ReloadTakesEffect
  BY DEF Lasting, Indexed, InForce, Config!ReloadTakesEffect, Config!AutoMessageSafe
<1>3. QED BY <1>1, <1>2, StepLasting, PTL DEF Config!Spec

-----------------------------------------------------------------------------
(* Private messages: the shape of the state.                               *)

Messages == [from : Sessions \cup {None}, n : Nat]

Chatters ==
    [recipient : Names \cup {None}, history : [1 .. HistorySize -> Nat \cup {None}],
     entries : SUBSET Names, ignored : SUBSET Names]

Commands ==
    [pc : {"idle", "show", "own", "theirs", "spies"}, to : Sessions \cup {None},
     kind : {"msg", "reply", None}, n : Nat]

\* The instance brings an operator of its own for the number of elements.
LEMMA SameCardinality == \A S : Private!Cardinality(S) = Cardinality(S)
  BY DEF Private!Cardinality, Cardinality

\* A command that has begun has a recipient.
Chatting ==
    /\ online \in [Names -> Sessions \cup {None}]
    /\ user \in [Sessions -> Chatters]
    /\ cmd \in [Sessions -> Commands]
    /\ \A s \in Sessions : cmd[s].pc # "idle" => cmd[s].to \in Sessions
    /\ shown \in [Sessions -> Seq(Messages)] /\ swallowed \in [Sessions -> SUBSET Sessions]
    /\ sent \in Nat
    /\ written \in [Sessions -> Seq(Nat)]

\* /msg and /r start with a recipient who is online.
LEMMA CommandStarts ==
    ASSUME Private!ChatAssumption, Chatting, NEW s \in Sessions,
           \/ \E nick \in Names : Private!msgCommand(s, nick)
           \/ Private!replyCommand(s)
    PROVE  \E r \in Sessions, kind \in {"msg", "reply"} : Private!Start(s, kind, r)
<1>1. ASSUME NEW nick \in Names, Private!msgCommand(s, nick)
      PROVE  Private!Start(s, "msg", online[nick]) /\ online[nick] \in Sessions
  BY <1>1 DEF Private!msgCommand, Private!Reachable, Chatting
<1>2. ASSUME Private!replyCommand(s)
      PROVE  \E r \in Sessions : Private!Start(s, "reply", r)
  <2> DEFINE nick == user[s].recipient
  <2>1. nick \in Names
    BY <1>2 DEF Private!replyCommand, Chatting, Chatters
  <2>2. Private!Start(s, "reply", online[nick]) /\ online[nick] \in Sessions
    BY <1>2, <2>1 DEF Private!replyCommand, Private!Reachable, Chatting
  <2>3. QED BY <2>2
<1>3. QED BY <1>1, <1>2

\* What a step changes of one session's command.
LEMMA Advances ==
    ASSUME Chatting, NEW s \in Sessions, NEW pc \in {"own", "theirs", "spies"},
           cmd[s].pc # "idle", Private!Advance(s, pc)
    PROVE  /\ cmd' \in [Sessions -> Commands]
           /\ cmd'[s].pc = pc /\ cmd'[s].to = cmd[s].to
           /\ \A t \in Sessions \ {s} : cmd'[t] = cmd[t]
           /\ \A t \in Sessions : cmd'[t].pc # "idle" => cmd'[t].to \in Sessions
<1>1. cmd' = [cmd EXCEPT ![s] = [cmd[s] EXCEPT !.pc = pc]] /\ cmd[s] \in Commands
  BY DEF Private!Advance, Chatting
<1>2. /\ [cmd[s] EXCEPT !.pc = pc] \in Commands
      /\ [cmd[s] EXCEPT !.pc = pc].pc = pc /\ [cmd[s] EXCEPT !.pc = pc].to = cmd[s].to
  BY <1>1 DEF Commands
<1>3. QED BY <1>1, <1>2 DEF Chatting

\* What the start of a /msg or /r changes.
LEMMA Starts ==
    ASSUME Private!ChatAssumption, Chatting, NEW s \in Sessions, NEW r \in Sessions,
           NEW kind \in {"msg", "reply"}, Private!Start(s, kind, r)
    PROVE  /\ cmd' \in [Sessions -> Commands] /\ sent' \in Nat
           /\ cmd'[s].pc = "show" /\ cmd'[s].to = r
           /\ \A t \in Sessions \ {s} : cmd'[t] = cmd[t]
           /\ \A t \in Sessions : cmd'[t].pc # "idle" => cmd'[t].to \in Sessions
           /\ UNCHANGED <<online, over, user, spies, shown, swallowed, written, told>>
<1>1. /\ cmd' = [cmd EXCEPT ![s] = [pc |-> "show", to |-> r, kind |-> kind, n |-> sent + 1]]
      /\ sent' = sent + 1 /\ sent \in Nat
      /\ UNCHANGED <<online, over, user, spies, shown, swallowed, written, told>>
  BY DEF Private!Start, Chatting
<1>2. [pc |-> "show", to |-> r, kind |-> kind, n |-> sent + 1] \in Commands
  BY <1>1 DEF Commands
<1>3. QED BY <1>1, <1>2 DEF Chatting

\* What a step does to one session's chatUser.
LEMMA Owns ==
    ASSUME Private!ChatAssumption, Chatting, NEW s \in Sessions, Private!Own(s)
    PROVE  \E u \in Chatters :
              /\ user' = [user EXCEPT ![s] = u]
              /\ u.recipient = NickOf[cmd[s].to] /\ u.recipient \in Names
              /\ u.entries = user[s].entries /\ u.ignored = user[s].ignored
              /\ u.history = IF cmd[s].kind = "msg"
                             THEN [k \in 1 .. HistorySize |->
                                     IF k = HistorySize THEN cmd[s].n ELSE user[s].history[k + 1]]
                             ELSE user[s].history
<1> DEFINE h == IF cmd[s].kind = "msg" THEN Private!Shift(user[s].history, cmd[s].n)
                ELSE user[s].history
           u == [user[s] EXCEPT !.recipient = NickOf[cmd[s].to], !.history = h]
<1>1. /\ user[s] \in Chatters /\ cmd[s].to \in Sessions /\ cmd[s].n \in Nat
      /\ NickOf[cmd[s].to] \in Names /\ HistorySize \in Nat \ {0}
  BY DEF Private!Own, Private!ChatAssumption, Chatting, Commands
<1>2. user[s].history \in [1 .. HistorySize -> Nat \cup {None}]
  BY <1>1 DEF Chatters
<1>3. h \in [1 .. HistorySize -> Nat \cup {None}]
  <2>1. \A k \in 1 .. HistorySize : k # HistorySize => k + 1 \in 1 .. HistorySize
    BY <1>1
  <2>2. QED BY <1>1, <1>2, <2>1 DEF Private!Shift
<1>4. user' = [user EXCEPT ![s] = u]
  BY <1>1 DEF Private!Own, Chatting, Chatters
<1>5. h = IF cmd[s].kind = "msg"
          THEN [k \in 1 .. HistorySize |->
                  IF k = HistorySize THEN cmd[s].n ELSE user[s].history[k + 1]]
          ELSE user[s].history
  BY DEF Private!Shift
<1> HIDE DEF h
<1>6. /\ u \in Chatters /\ u.recipient = NickOf[cmd[s].to] /\ u.history = h
      /\ u.entries = user[s].entries /\ u.ignored = user[s].ignored
  BY <1>1, <1>3 DEF Chatters
<1> HIDE DEF u
<1>7. QED BY <1>1, <1>4, <1>5, <1>6

\* The recipient's chatUser gets somebody to reply to and keeps the rest.
LEMMA TheirsIs ==
    ASSUME Private!ChatAssumption, Chatting, NEW s \in Sessions, Private!Theirs(s)
    PROVE  \E u \in Chatters :
              /\ cmd[s].to \in Sessions /\ user' = [user EXCEPT ![cmd[s].to] = u]
              /\ u.recipient = NickOf[s] /\ u.recipient \in Names
              /\ u.entries = user[cmd[s].to].entries /\ u.ignored = user[cmd[s].to].ignored
              /\ u.history = user[cmd[s].to].history
<1> DEFINE r == cmd[s].to  u == [user[r] EXCEPT !.recipient = NickOf[s]]
<1>1. r \in Sessions /\ user[r] \in Chatters /\ NickOf[s] \in Names
  BY DEF Private!Theirs, Private!ChatAssumption, Chatting
<1>2. /\ u \in Chatters /\ u.recipient = NickOf[s] /\ u.history = user[r].history
      /\ u.entries = user[r].entries /\ u.ignored = user[r].ignored
  BY <1>1 DEF Chatters
<1>3. user' = [user EXCEPT ![r] = u]
  BY <1>1 DEF Private!Theirs, Chatting
<1> HIDE DEF u
<1>4. QED BY <1>1, <1>2, <1>3

\* /ignore: a full list stays as it is.
LEMMA Ignoring ==
    ASSUME Private!ChatAssumption, Chatting, NEW s \in Sessions, NEW nick \in Names,
           Private!ignoreCommand(s, nick)
    PROVE  \E u \in Chatters :
              /\ user' = [user EXCEPT ![s] = u]
              /\ u.recipient = user[s].recipient /\ u.history = user[s].history
              /\ IF Cardinality(user[s].entries) >= MaxIgnored THEN u = user[s]
                 ELSE /\ u.entries = user[s].entries \cup {nick}
                      /\ u.ignored = IF nick \notin user[s].ignored
                                     THEN user[s].ignored \cup {nick}
                                     ELSE user[s].ignored \ {nick}
<1> USE SameCardinality
<1> DEFINE v == user[s]  val == nick \notin v.ignored
           u == Private!SetIgnored(v, nick, val)
           ig == IF val THEN v.ignored \cup {nick} ELSE v.ignored \ {nick}
<1>1. v \in Chatters
  BY DEF Chatting
<1>2. user' = [user EXCEPT ![s] = u]
  BY DEF Private!ignoreCommand
<1>3. CASE Cardinality(v.entries) >= MaxIgnored
  <2>1. u = v
    BY <1>3 DEF Private!SetIgnored
  <2> HIDE DEF u
  <2>2. QED BY <1>1, <1>2, <1>3, <2>1
<1>4. CASE ~(Cardinality(v.entries) >= MaxIgnored)
  <2> HIDE DEF val, v
  <2>1. /\ v.ignored \in SUBSET Names /\ v.entries \in SUBSET Names
        /\ v = [recipient |-> v.recipient, history |-> v.history,
                entries |-> v.entries, ignored |-> v.ignored]
    BY <1>1 DEF Chatters
  <2>2. ig \in SUBSET Names
    BY <2>1
  <2>3. u = [v EXCEPT !.entries = v.entries \cup {nick}, !.ignored = ig]
    BY <1>4, <2>1 DEF Private!SetIgnored
  <2> HIDE DEF u, ig
  <2>4. u \in Chatters
    BY <1>1, <2>1, <2>2, <2>3 DEF Chatters
  <2>5. /\ u.entries = v.entries \cup {nick} /\ u.ignored = ig
        /\ u.recipient = v.recipient /\ u.history = v.history
    BY <2>1, <2>3
  <2>6. QED BY <1>2, <1>4, <2>4, <2>5 DEF val, ig, v
<1>5. QED BY <1>3, <1>4

\* Who wrote the messages q, apart from copies for spies.
From(q) == {q[i].from : i \in DOMAIN q} \ {None}

\* The authors of one message more.
LEMMA FromAppend ==
    ASSUME NEW q \in Seq(Messages), NEW m \in Messages
    PROVE  /\ Append(q, m) \in Seq(Messages)
           /\ From(Append(q, m)) = From(q) \cup ({m.from} \ {None})
<1> DEFINE after == Append(q, m)
<1>1. /\ after \in Seq(Messages) /\ Len(q) \in Nat
      /\ DOMAIN q = 1 .. Len(q) /\ DOMAIN after = 1 .. Len(q) + 1
      /\ \A i \in 1 .. Len(q) : after[i] = q[i]
      /\ after[Len(q) + 1] = m
  OBVIOUS
<1> HIDE DEF after
<1>2. /\ \A i \in 1 .. Len(q) : i \in 1 .. Len(q) + 1
      /\ \A i \in 1 .. Len(q) + 1 : i \in 1 .. Len(q) \/ i = Len(q) + 1
      /\ Len(q) + 1 \in 1 .. Len(q) + 1
  BY <1>1
<1>3. {after[i].from : i \in DOMAIN after} = {q[i].from : i \in DOMAIN q} \cup {m.from}
  BY <1>1, <1>2
<1>4. QED BY <1>1, <1>3 DEF From, after

\* Authors are sessions.
LEMMA FromSessions ==
    ASSUME NEW q \in Seq(Messages)
    PROVE  From(q) \subseteq Sessions
<1>1. \A i \in DOMAIN q : q[i] \in Messages
  OBVIOUS
<1>2. QED BY <1>1 DEF From, Messages

\* Who wrote to a session, in lines q that it was shown and in lines of those in w.
Wrote(q, w) == From(q) \cup w

\* What a step makes of the lines written: Show adds its author, whether the line is dropped
\* or not, Spies nobody.
LEMMA Shows ==
    ASSUME Private!ChatAssumption, Chatting, NEW s \in Sessions, Private!Show(s)
    PROVE  /\ cmd[s].to \in Sessions /\ shown' \in [Sessions -> Seq(Messages)]
           /\ swallowed' \in [Sessions -> SUBSET Sessions]
           /\ Wrote(shown'[cmd[s].to], swallowed'[cmd[s].to])
                 = Wrote(shown[cmd[s].to], swallowed[cmd[s].to]) \cup {s}
           /\ \A r \in Sessions \ {cmd[s].to} : shown'[r] = shown[r] /\ swallowed'[r] = swallowed[r]
<1> DEFINE to == cmd[s].to  m == [from |-> s, n |-> cmd[s].n]
<1>1. to \in Sessions /\ m \in Messages /\ s # None
  BY DEF Private!Show, Private!ChatAssumption, Chatting, Commands, Messages
<1>2. /\ \/ shown' = [shown EXCEPT ![to] = Append(shown[to], m)] /\ UNCHANGED swallowed
         \/ swallowed' = [swallowed EXCEPT ![to] = swallowed[to] \cup {s}] /\ UNCHANGED shown
      /\ shown[to] \in Seq(Messages) /\ swallowed[to] \in SUBSET Sessions
  BY <1>1 DEF Private!Show, Chatting
<1>3. m.from = s
  OBVIOUS
<1> HIDE DEF m
<1>4. /\ Append(shown[to], m) \in Seq(Messages)
      /\ From(Append(shown[to], m)) = From(shown[to]) \cup {s}
  BY <1>1, <1>2, <1>3, FromAppend
<1>5. CASE shown' = [shown EXCEPT ![to] = Append(shown[to], m)] /\ UNCHANGED swallowed
  BY <1>1, <1>4, <1>5 DEF Chatting, Wrote
<1>6. CASE swallowed' = [swallowed EXCEPT ![to] = swallowed[to] \cup {s}] /\ UNCHANGED shown
  BY <1>1, <1>2, <1>6 DEF Chatting, Wrote
<1>7. QED BY <1>2, <1>5, <1>6

\* Copies for spies have no author.
LEMMA Spied ==
    ASSUME Private!ChatAssumption, Chatting, NEW s \in Sessions, Private!Spies(s)
    PROVE  /\ shown' \in [Sessions -> Seq(Messages)]
           /\ \A r \in Sessions : From(shown'[r]) = From(shown[r])
           /\ UNCHANGED swallowed
           /\ cmd' = [cmd EXCEPT ![s] = Private!Idle] /\ Private!Idle \in Commands
           /\ Private!Idle.pc = "idle"
<1> DEFINE m == [from |-> None, n |-> cmd[s].n]
<1>1. m \in Messages
  BY DEF Chatting, Commands, Messages
<1>2. m.from = None
  OBVIOUS
<1>3. /\ DOMAIN shown' = Sessions /\ shown' = [r \in Sessions |-> shown'[r]]
      /\ \A r \in Sessions : shown'[r] = Append(shown[r], m) \/ shown'[r] = shown[r]
  BY DEF Private!Spies
<1> HIDE DEF m
<1>4. ASSUME NEW r \in Sessions
      PROVE  shown'[r] \in Seq(Messages) /\ From(shown'[r]) = From(shown[r])
  <2>1. shown[r] \in Seq(Messages)
    BY DEF Chatting
  <2>2. /\ Append(shown[r], m) \in Seq(Messages)
        /\ From(Append(shown[r], m)) = From(shown[r]) \cup ({m.from} \ {None})
    BY <1>1, <2>1, FromAppend
  <2>3. From(Append(shown[r], m)) = From(shown[r])
    BY <1>2, <2>2
  <2>4. QED BY <1>3, <2>1, <2>2, <2>3
<1>5. QED BY <1>3, <1>4 DEF Private!Spies, Private!Idle, Commands

\* No step spoils the shape of the state.
LEMMA StepChatting ==
    ASSUME Private!ChatAssumption
    PROVE  Chatting /\ [Private!Next]_Private!vars => Chatting'
<1> SUFFICES ASSUME Chatting, [Private!Next]_Private!vars PROVE Chatting'
  OBVIOUS
<1>1. CASE UNCHANGED <<user, cmd, shown, swallowed, sent, written>> /\ online' \in [Names -> Sessions \cup {None}]
  BY <1>1 DEF Chatting
<1>2. ASSUME NEW s \in Sessions, Private!Join(s) \/ Private!Leave(s)
      PROVE  Chatting'
  BY <1>1, <1>2 DEF Private!Join, Private!Leave, Chatting
<1>3. ASSUME NEW s \in Sessions,
             (\E nick \in Names : Private!msgCommand(s, nick)) \/ Private!replyCommand(s)
      PROVE  Chatting'
  <2>1. PICK r \in Sessions, kind \in {"msg", "reply"} : Private!Start(s, kind, r)
    BY <1>3, CommandStarts
  <2>2. QED BY <2>1, Starts DEF Chatting
<1>4. ASSUME NEW s \in Sessions, Private!Show(s)
      PROVE  Chatting'
  <2>1. cmd[s].pc # "idle" /\ Private!Advance(s, "own")
        /\ UNCHANGED <<online, user, sent, written>>
    BY <1>4 DEF Private!Show
  <2>2. QED BY <1>4, <2>1, Advances, Shows DEF Chatting
<1>5. ASSUME NEW s \in Sessions, Private!Own(s)
      PROVE  Chatting'
  <2>1. cmd[s].pc # "idle" /\ Private!Advance(s, "theirs")
        /\ UNCHANGED <<online, shown, swallowed, sent>>
    BY <1>5 DEF Private!Own
  <2>2. user' \in [Sessions -> Chatters]
    BY <1>5, Owns DEF Chatting
  <2>3. written' \in [Sessions -> Seq(Nat)]
    <3>1. cmd[s].n \in Nat /\ written[s] \in Seq(Nat)
      BY DEF Chatting, Commands
    <3>2. Append(written[s], cmd[s].n) \in Seq(Nat)
      BY <3>1
    <3>3. QED BY <1>5, <3>2 DEF Private!Own, Chatting
  <2>4. QED BY <2>1, <2>2, <2>3, Advances DEF Chatting
<1>6. ASSUME NEW s \in Sessions, Private!Theirs(s)
      PROVE  Chatting'
  <2>1. cmd[s].pc # "idle" /\ Private!Advance(s, "spies")
        /\ UNCHANGED <<online, shown, swallowed, sent, written>>
    BY <1>6 DEF Private!Theirs
  <2>2. user' \in [Sessions -> Chatters]
    BY <1>6, TheirsIs DEF Chatting
  <2>3. QED BY <2>1, <2>2, Advances DEF Chatting
<1>7. ASSUME NEW s \in Sessions, Private!Spies(s)
      PROVE  Chatting'
  <2>1. UNCHANGED <<online, user, sent, written>>
    BY <1>7 DEF Private!Spies
  <2>2. QED BY <1>7, <2>1, Spied DEF Chatting
<1>8. ASSUME NEW s \in Sessions, NEW nick \in Names, Private!ignoreCommand(s, nick)
      PROVE  Chatting'
  <2>1. UNCHANGED <<online, cmd, shown, swallowed, sent, written>>
    BY <1>8 DEF Private!ignoreCommand
  <2>2. user' \in [Sessions -> Chatters]
    BY <1>8, Ignoring DEF Chatting
  <2>3. QED BY <2>1, <2>2 DEF Chatting
<1>9. QED
  BY <1>1, <1>2, <1>3, <1>4, <1>5, <1>6, <1>7, <1>8
  DEF Private!Next, Private!vars, Private!socialspyCommand, Chatting

\* The shape of the state before anybody is online.
LEMMA InitChatting ==
    ASSUME Private!ChatAssumption
    PROVE  Private!Init => Chatting
<1> SUFFICES ASSUME Private!Init PROVE Chatting
  OBVIOUS
<1>1. Private!NewUser \in Chatters /\ Private!Idle \in Commands /\ Private!Idle.pc = "idle"
  BY DEF Private!NewUser, Private!Idle, Chatters, Commands
<1> HIDE DEF Private!NewUser, Private!Idle
<1>2. QED BY <1>1 DEF Private!Init, Chatting

-----------------------------------------------------------------------------
(* What /socialspy shows.                                                  *)

Recorded == \A s \in Sessions : Latest(user[s].history, written[s])

\* The sender's own entry: /msg shifts its history, /r leaves it.
LEMMA OwnRecorded ==
    ASSUME Private!ChatAssumption, Chatting, Recorded, NEW s \in Sessions, Private!Own(s)
    PROVE  Recorded'
<1> DEFINE c == cmd[s]  h == user[s].history
<1>1. PICK u \in Chatters :
         /\ user' = [user EXCEPT ![s] = u]
         /\ u.history = IF c.kind = "msg"
                        THEN [k \in 1 .. HistorySize |-> IF k = HistorySize THEN c.n ELSE h[k + 1]]
                        ELSE h
  BY Owns
<1>2. c.n \in Nat /\ written[s] \in Seq(Nat) /\ HistorySize \in Nat \ {0} /\ Latest(h, written[s])
  BY DEF Chatting, Commands, Recorded, Private!ChatAssumption
<1>3. written' = IF c.kind = "msg" THEN [written EXCEPT ![s] = Append(written[s], c.n)] ELSE written
  BY DEF Private!Own
<1> HIDE DEF c, h
<1> DEFINE h2 == u.history  q2 == written'[s]
<1>4. Latest(h2, q2)
  <2>1. CASE c.kind = "msg"
    <3>1. /\ h2 = [k \in 1 .. HistorySize |-> IF k = HistorySize THEN c.n ELSE h[k + 1]]
          /\ q2 = Append(written[s], c.n)
      BY <1>1, <1>3, <2>1 DEF Chatting
    <3> HIDE DEF h2, q2
    <3>2. QED BY <1>2, <3>1, ShiftKeeps
  <2>2. CASE c.kind # "msg"
    BY <1>1, <1>2, <1>3, <2>2
  <2>3. QED BY <2>1, <2>2
<1>5. user'[s].history = h2
  BY <1>1 DEF Chatting
<1>6. ASSUME NEW t \in Sessions
      PROVE  Latest(user'[t].history, written'[t])
  <2>1. CASE t = s
    BY <1>4, <1>5, <2>1
  <2>2. CASE t # s
    <3>1. user'[t] = user[t] /\ written'[t] = written[t]
      BY <1>1, <1>3, <2>2 DEF Chatting
    <3>2. QED BY <3>1 DEF Recorded
  <2>3. QED BY <2>1, <2>2
<1>7. QED BY <1>6 DEF Recorded, Latest

\* No other step touches a history.
LEMMA StepRecorded ==
    ASSUME Private!ChatAssumption
    PROVE  Chatting /\ Recorded /\ [Private!Next]_Private!vars => Recorded'
<1> SUFFICES ASSUME Chatting, Recorded, [Private!Next]_Private!vars PROVE Recorded'
  OBVIOUS
<1>1. ASSUME \A t \in Sessions : user'[t].history = user[t].history, UNCHANGED written
      PROVE  Recorded'
  BY <1>1 DEF Recorded, Latest
<1>2. ASSUME NEW s \in Sessions, Private!Own(s)
      PROVE  Recorded'
  BY <1>2, OwnRecorded
<1>3. ASSUME NEW s \in Sessions, Private!Theirs(s)
      PROVE  Recorded'
  <2>1. \A t \in Sessions : user'[t].history = user[t].history
    BY <1>3, TheirsIs DEF Chatting
  <2>2. QED BY <1>1, <1>3, <2>1 DEF Private!Theirs
<1>4. ASSUME NEW s \in Sessions, NEW nick \in Names, Private!ignoreCommand(s, nick)
      PROVE  Recorded'
  <2>1. \A t \in Sessions : user'[t].history = user[t].history
    BY <1>4, Ignoring DEF Chatting
  <2>2. QED BY <1>1, <1>4, <2>1 DEF Private!ignoreCommand
<1>5. QED
  BY <1>1, <1>2, <1>3, <1>4
  DEF Private!Next, Private!vars, Private!Join, Private!Leave, Private!msgCommand,
      Private!replyCommand, Private!Start, Private!Show, Private!Spies, Private!socialspyCommand

\* What /socialspy <nick> shows is the last messages the player sent with /msg, oldest first,
\* for any number of players and any length of the history, although /r, /ignore and messages
\* to the player change the same chatUser in between.
LEMMA HistoryHolds ==
    ASSUME Private!ChatAssumption
    PROVE  Private!Spec => []Private!HistoryRecent
<1>1. Private!Init => Recorded
  BY DEF Private!Init, Private!NewUser, Private!ChatAssumption, Recorded, Latest
<1>2. Recorded => Private!HistoryRecent
  BY DEF Recorded, Latest, Private!HistoryRecent
<1>3. QED BY <1>1, <1>2, InitChatting, StepChatting, StepRecorded, PTL DEF Private!Spec

-----------------------------------------------------------------------------
(* Ignore lists.                                                           *)

\* The list of chatUser u is within its size and, until it is full, what t says of it.
ListKept(u, t) ==
    /\ IsFiniteSet(u.entries) /\ Cardinality(u.entries) <= MaxIgnored
    /\ t \in [Names -> BOOLEAN]
    /\ Cardinality(u.entries) < MaxIgnored => \A n \in Names : t[n] <=> n \in u.ignored

ListsKept == told \in [Sessions -> [Names -> BOOLEAN]] /\ \A s \in Sessions : ListKept(user[s], told[s])

\* /ignore: a list with room takes the change it tells of, a full one stays.
LEMMA IgnoreKept ==
    ASSUME Private!ChatAssumption, Chatting, ListsKept, NEW s \in Sessions, NEW nick \in Names,
           Private!ignoreCommand(s, nick)
    PROVE  ListsKept'
<1> DEFINE v == user[s]  t == told[s]  val == nick \notin v.ignored
           t2 == [t EXCEPT ![nick] = val]
<1>1. PICK u \in Chatters :
         /\ user' = [user EXCEPT ![s] = u]
         /\ IF Cardinality(v.entries) >= MaxIgnored THEN u = v
            ELSE /\ u.entries = v.entries \cup {nick}
                 /\ u.ignored = IF nick \notin v.ignored THEN v.ignored \cup {nick}
                                ELSE v.ignored \ {nick}
  BY Ignoring
<1>2. told' = [told EXCEPT ![s] = t2]
  BY DEF Private!ignoreCommand, ListsKept
<1>3. ListKept(v, t) /\ t \in [Names -> BOOLEAN] /\ MaxIgnored \in Nat
  BY DEF ListsKept, ListKept, Private!ChatAssumption
<1>4. val \in BOOLEAN
  OBVIOUS
<1>5. t2 \in [Names -> BOOLEAN] /\ (t2[nick] <=> val) /\ \A n \in Names \ {nick} : t2[n] = t[n]
  <2> HIDE DEF val, t
  <2>1. t2 \in [Names -> BOOLEAN] /\ t2[nick] = val /\ \A n \in Names \ {nick} : t2[n] = t[n]
    BY <1>3, <1>4
  <2>2. QED BY <2>1
<1>6. Cardinality(v.entries) \in Nat /\ IsFiniteSet(v.entries)
  BY <1>3, FS_CardinalityType DEF ListKept
<1> HIDE DEF t2, t, v
<1>7. ListKept(u, t2)
  <2>1. CASE Cardinality(v.entries) >= MaxIgnored
    BY <1>1, <1>3, <1>5, <1>6, <2>1 DEF ListKept
  <2>2. CASE ~(Cardinality(v.entries) >= MaxIgnored)
    <3>1. /\ u.entries = v.entries \cup {nick}
          /\ u.ignored = IF nick \notin v.ignored THEN v.ignored \cup {nick} ELSE v.ignored \ {nick}
      BY <1>1, <2>2
    <3>2. /\ IsFiniteSet(u.entries)
          /\ \/ Cardinality(u.entries) = Cardinality(v.entries)
             \/ Cardinality(u.entries) = Cardinality(v.entries) + 1
      <4>1. /\ IsFiniteSet(v.entries \cup {nick})
            /\ Cardinality(v.entries \cup {nick}) = IF nick \in v.entries THEN Cardinality(v.entries)
                                                    ELSE Cardinality(v.entries) + 1
        BY <1>6, FS_AddElement
      <4>2. QED BY <3>1, <4>1
    <3>3. Cardinality(u.entries) <= MaxIgnored
      BY <1>3, <1>6, <2>2, <3>2
    <3>4. Cardinality(v.entries) < MaxIgnored
      BY <1>3, <1>6, <2>2
    <3>5. \A n \in Names : t[n] <=> n \in v.ignored
      BY <1>3, <3>4 DEF ListKept
    <3>6. \A n \in Names \ {nick} : t2[n] <=> n \in u.ignored
      BY <1>5, <3>1, <3>5
    <3>7. t2[nick] <=> nick \in u.ignored
      BY <1>5, <3>1
    <3>8. QED BY <1>5, <3>2, <3>3, <3>6, <3>7 DEF ListKept
  <2>3. QED BY <2>1, <2>2
<1>8. ASSUME NEW r \in Sessions
      PROVE  ListKept(user'[r], told'[r])
  <2>1. CASE r = s
    <3>1. user'[r] = u /\ told'[r] = t2
      BY <1>1, <1>2, <2>1 DEF Chatting, ListsKept
    <3>2. QED BY <1>7, <3>1
  <2>2. CASE r # s
    <3>1. user'[r] = user[r] /\ told'[r] = told[r]
      BY <1>1, <1>2, <2>2 DEF Chatting, ListsKept
    <3>2. QED BY <3>1 DEF ListsKept
  <2>3. QED BY <2>1, <2>2
<1>9. told' \in [Sessions -> [Names -> BOOLEAN]]
  BY <1>2, <1>5 DEF ListsKept
<1>10. QED BY <1>8, <1>9 DEF ListsKept, ListKept

\* No other step touches an ignore list.
LEMMA StepListsKept ==
    ASSUME Private!ChatAssumption
    PROVE  Chatting /\ ListsKept /\ [Private!Next]_Private!vars => ListsKept'
<1> SUFFICES ASSUME Chatting, ListsKept, [Private!Next]_Private!vars PROVE ListsKept'
  OBVIOUS
<1>1. ASSUME \A s \in Sessions : user'[s].entries = user[s].entries /\ user'[s].ignored = user[s].ignored,
             UNCHANGED told
      PROVE  ListsKept'
  BY <1>1 DEF ListsKept, ListKept
<1>2. ASSUME NEW s \in Sessions, Private!Own(s)
      PROVE  ListsKept'
  <2>1. \A t \in Sessions : user'[t].entries = user[t].entries /\ user'[t].ignored = user[t].ignored
    BY <1>2, Owns DEF Chatting
  <2>2. QED BY <1>1, <1>2, <2>1 DEF Private!Own
<1>3. ASSUME NEW s \in Sessions, Private!Theirs(s)
      PROVE  ListsKept'
  <2>1. \A t \in Sessions : user'[t].entries = user[t].entries /\ user'[t].ignored = user[t].ignored
    BY <1>3, TheirsIs DEF Chatting
  <2>2. QED BY <1>1, <1>3, <2>1 DEF Private!Theirs
<1>4. ASSUME NEW s \in Sessions, NEW nick \in Names, Private!ignoreCommand(s, nick)
      PROVE  ListsKept'
  BY <1>4, IgnoreKept
<1>5. QED
  BY <1>1, <1>2, <1>3, <1>4
  DEF Private!Next, Private!vars, Private!Join, Private!Leave, Private!msgCommand,
      Private!replyCommand, Private!Start, Private!Show, Private!Spies, Private!socialspyCommand

\* The ignore list stays within its size, however often players are ignored and taken off the
\* list again, and until it is full it holds what /ignore last said, for any size.
LEMMA IgnoreHolds ==
    ASSUME Private!ChatAssumption
    PROVE  Private!Spec => []Private!IgnoreBounded
<1>1. Private!Init => ListsKept
  <2> SUFFICES ASSUME Private!Init PROVE ListsKept
    OBVIOUS
  <2>1. /\ told \in [Sessions -> [Names -> BOOLEAN]]
        /\ \A s \in Sessions : \A n \in Names : told[s][n] = FALSE
    BY DEF Private!Init
  <2>2. \A s \in Sessions : user[s].entries = {} /\ user[s].ignored = {}
    BY DEF Private!Init, Private!NewUser
  <2>3. IsFiniteSet({}) /\ Cardinality({}) = 0 /\ MaxIgnored \in Nat \ {0}
    BY FS_EmptySet DEF Private!ChatAssumption
  <2>4. ASSUME NEW s \in Sessions
        PROVE  ListKept(user[s], told[s])
    <3>1. \A n \in Names : ~told[s][n] /\ n \notin user[s].ignored
      BY <2>1, <2>2
    <3>2. Cardinality(user[s].entries) <= MaxIgnored /\ IsFiniteSet(user[s].entries)
      BY <2>2, <2>3
    <3>3. QED BY <2>1, <3>1, <3>2 DEF ListKept
  <2>5. QED BY <2>1, <2>4 DEF ListsKept
<1>2. ListsKept => Private!IgnoreBounded
  <2> SUFFICES ASSUME ListsKept, NEW s \in Sessions
               PROVE  /\ Cardinality(user[s].entries) <= MaxIgnored
                      /\ Cardinality(user[s].entries) < MaxIgnored =>
                            \A n \in Names : told[s][n] = (n \in user[s].ignored)
    BY SameCardinality DEF Private!IgnoreBounded
  <2>1. ListKept(user[s], told[s])
    BY DEF ListsKept
  <2>2. \A n \in Names : told[s][n] \in BOOLEAN
    BY <2>1 DEF ListKept
  <2>3. QED BY <2>1, <2>2 DEF ListKept
<1>3. QED BY <1>1, <1>2, InitChatting, StepChatting, StepListsKept, PTL DEF Private!Spec

-----------------------------------------------------------------------------
(* Whom /r finds.                                                          *)

Busy(t) == cmd[t].pc \in {"own", "theirs"}

\* The two sides of a command between Show and Theirs.
Heard == \A s \in Sessions : Busy(s) => s \in Wrote(shown[cmd[s].to], swallowed[cmd[s].to])

\* The recipient of r's answers has written to r or was written to by r.
Partner(r) ==
    \E t \in Sessions :
        /\ NickOf[t] = user[r].recipient
        /\ \/ t \in Wrote(shown[r], swallowed[r])
           \/ r \in Wrote(shown[t], swallowed[t])

Known == \A r \in Sessions : user[r].recipient # None => Partner(r)

\* Whoever was written to has a recipient, or is about to get one.
Served(r) == user[r].recipient # None \/ \E t \in Sessions : Busy(t) /\ cmd[t].to = r

Replying ==
    /\ Heard /\ Known
    /\ \A r \in Sessions : Wrote(shown[r], swallowed[r]) # {} => Served(r)

\* A line that is written has an author, who is about to be made known.
LEMMA ShowReplying ==
    ASSUME Private!ChatAssumption, Chatting, Replying, NEW s \in Sessions, Private!Show(s)
    PROVE  Replying'
<1> DEFINE q == cmd[s].to
<1>1. /\ q \in Sessions /\ Wrote(shown'[q], swallowed'[q]) = Wrote(shown[q], swallowed[q]) \cup {s}
      /\ \A r \in Sessions \ {q} : shown'[r] = shown[r] /\ swallowed'[r] = swallowed[r]
  BY Shows
<1>2. \A r \in Sessions : Wrote(shown[r], swallowed[r]) \subseteq Wrote(shown'[r], swallowed'[r])
  BY <1>1
<1>3. cmd[s].pc = "show" /\ UNCHANGED user /\ Private!Advance(s, "own")
  BY DEF Private!Show
<1>4. /\ cmd'[s].pc = "own" /\ cmd'[s].to = q
      /\ \A t \in Sessions \ {s} : cmd'[t] = cmd[t]
  BY <1>3, Advances
<1>5. Heard'
  <2> SUFFICES ASSUME NEW t \in Sessions, cmd'[t].pc \in {"own", "theirs"}
               PROVE  t \in Wrote(shown'[cmd'[t].to], swallowed'[cmd'[t].to])
    BY DEF Heard, Busy, Wrote, From
  <2>1. CASE t = s
    BY <1>1, <1>4, <2>1
  <2>2. CASE t # s
    <3>1. cmd'[t] = cmd[t] /\ cmd[t].to \in Sessions
      BY <1>4, <2>2 DEF Chatting
    <3>2. t \in Wrote(shown[cmd[t].to], swallowed[cmd[t].to])
      BY <3>1 DEF Replying, Heard, Busy
    <3>3. QED BY <1>2, <3>1, <3>2
  <2>3. QED BY <2>1, <2>2
<1>6. Known'
  <2> SUFFICES ASSUME NEW r \in Sessions, user[r].recipient # None
               PROVE  \E t \in Sessions :
                  /\ NickOf[t] = user[r].recipient
                  /\ \/ t \in Wrote(shown'[r], swallowed'[r])
                     \/ r \in Wrote(shown'[t], swallowed'[t])
    BY <1>3 DEF Known, Partner, Wrote, From
  <2>1. QED BY <1>2 DEF Replying, Known, Partner
<1>7. ASSUME NEW r \in Sessions, Wrote(shown'[r], swallowed'[r]) # {}
      PROVE  \/ user'[r].recipient # None
             \/ \E t \in Sessions : cmd'[t].pc \in {"own", "theirs"} /\ cmd'[t].to = r
  <2>1. CASE r = q
    BY <1>4, <2>1
  <2>2. CASE r # q
    <3>1. Wrote(shown[r], swallowed[r]) # {}
      BY <1>1, <1>7, <2>2
    <3>2. CASE user[r].recipient # None
      BY <1>3, <3>2
    <3>3. CASE user[r].recipient = None
      <4>1. PICK t \in Sessions : cmd[t].pc \in {"own", "theirs"} /\ cmd[t].to = r
        BY <3>1, <3>3 DEF Replying, Served, Busy
      <4>2. cmd'[t] = cmd[t]
        BY <1>3, <1>4, <4>1
      <4>3. QED BY <4>1, <4>2
    <3>4. QED BY <3>2, <3>3
  <2>3. QED BY <2>1, <2>2
<1>8. QED BY <1>5, <1>6, <1>7 DEF Replying, Served, Busy, Wrote, From

\* A step that leaves the messages alone and keeps the sides of the commands under way.
LEMMA SetReplying ==
    ASSUME Private!ChatAssumption, Chatting, Replying, NEW s \in Sessions, NEW r \in Sessions,
           NEW t \in Sessions, NEW u, NickOf[t] = u.recipient, NickOf[t] \in Names,
           user' = [user EXCEPT ![r] = u], UNCHANGED <<shown, swallowed>>,
           t \in Wrote(shown[r], swallowed[r]) \/ r \in Wrote(shown[t], swallowed[t]),
           \A p \in Sessions \ {s} : cmd'[p] = cmd[p],
           cmd'[s].to = cmd[s].to,
           \/ cmd[s].pc = "own" /\ cmd'[s].pc = "theirs"
           \/ cmd[s].to = r /\ cmd[s].pc = "theirs" /\ cmd'[s].pc = "spies"
    PROVE  Replying'
<1>1. /\ user'[r].recipient = NickOf[t] /\ NickOf[t] # None
      /\ \A p \in Sessions \ {r} : user'[p] = user[p]
  BY DEF Chatting, Private!ChatAssumption
<1>2. Heard'
  <2> SUFFICES ASSUME NEW p \in Sessions, cmd'[p].pc \in {"own", "theirs"}
               PROVE  p \in Wrote(shown[cmd'[p].to], swallowed[cmd'[p].to])
    BY DEF Heard, Busy, Wrote, From
  <2>1. cmd'[p].to = cmd[p].to /\ cmd[p].pc \in {"own", "theirs"}
    OBVIOUS
  <2>2. QED BY <2>1 DEF Replying, Heard, Busy
<1>3. Known'
  <2> SUFFICES ASSUME NEW p \in Sessions, user'[p].recipient # None
               PROVE  \E o \in Sessions :
                  /\ NickOf[o] = user'[p].recipient
                  /\ \/ o \in Wrote(shown[p], swallowed[p])
                     \/ p \in Wrote(shown[o], swallowed[o])
    BY DEF Known, Partner, Wrote, From
  <2>1. CASE p = r
    BY <1>1, <2>1
  <2>2. CASE p # r
    BY <1>1, <2>2 DEF Replying, Known, Partner
  <2>3. QED BY <2>1, <2>2
<1>4. ASSUME NEW p \in Sessions, Wrote(shown'[p], swallowed'[p]) # {}
      PROVE  \/ user'[p].recipient # None
             \/ \E o \in Sessions : cmd'[o].pc \in {"own", "theirs"} /\ cmd'[o].to = p
  <2>1. CASE p = r
    BY <1>1, <2>1
  <2>2. CASE p # r /\ user[p].recipient # None
    BY <1>1, <2>2
  <2>3. CASE p # r /\ user[p].recipient = None
    <3>1. PICK o \in Sessions : cmd[o].pc \in {"own", "theirs"} /\ cmd[o].to = p
      BY <1>4, <2>3 DEF Replying, Served, Busy
    <3>2. cmd'[o].pc \in {"own", "theirs"} /\ cmd'[o].to = p
      BY <2>3, <3>1
    <3>3. QED BY <3>2
  <2>4. QED BY <2>1, <2>2, <2>3
<1>5. QED BY <1>2, <1>3, <1>4 DEF Replying, Served, Busy, Wrote, From

\* A step that changes nobody's recipient or messages and no command under way.
LEMMA QuietReplying ==
    ASSUME Replying, \A p \in Sessions : user'[p].recipient = user[p].recipient,
           \A p \in Sessions : Wrote(shown'[p], swallowed'[p]) = Wrote(shown[p], swallowed[p]),
           \A p \in Sessions : cmd'[p].pc \in {"own", "theirs"} => cmd'[p] = cmd[p],
           \A p \in Sessions : cmd[p].pc \in {"own", "theirs"} => cmd'[p] = cmd[p],
           \A p \in Sessions : cmd[p].pc # "idle" => cmd[p].to \in Sessions
    PROVE  Replying'
<1>1. Heard'
  <2> SUFFICES ASSUME NEW p \in Sessions, cmd'[p].pc \in {"own", "theirs"}
               PROVE  p \in Wrote(shown'[cmd'[p].to], swallowed'[cmd'[p].to])
    BY DEF Heard, Busy, Wrote, From
  <2>1. /\ cmd'[p] = cmd[p] /\ cmd[p].to \in Sessions
        /\ p \in Wrote(shown[cmd[p].to], swallowed[cmd[p].to])
    BY DEF Replying, Heard, Busy
  <2>2. QED BY <2>1
<1>2. Known'
  <2> SUFFICES ASSUME NEW p \in Sessions, user'[p].recipient # None
               PROVE  \E o \in Sessions :
                  /\ NickOf[o] = user'[p].recipient
                  /\ \/ o \in Wrote(shown'[p], swallowed'[p])
                     \/ p \in Wrote(shown'[o], swallowed'[o])
    BY DEF Known, Partner, Wrote, From
  <2>1. QED BY DEF Replying, Known, Partner
<1>3. ASSUME NEW p \in Sessions, Wrote(shown'[p], swallowed'[p]) # {}
      PROVE  \/ user'[p].recipient # None
             \/ \E o \in Sessions : cmd'[o].pc \in {"own", "theirs"} /\ cmd'[o].to = p
  BY <1>3 DEF Replying, Served, Busy
<1>4. QED BY <1>1, <1>2, <1>3 DEF Replying, Served, Busy, Wrote, From

\* Every step keeps track of who has to be told whom to reply to.
LEMMA StepReplying ==
    ASSUME Private!ChatAssumption
    PROVE  Chatting /\ Replying /\ [Private!Next]_Private!vars => Replying'
<1> SUFFICES ASSUME Chatting, Replying, [Private!Next]_Private!vars PROVE Replying'
  OBVIOUS
<1>1. ASSUME UNCHANGED <<user, shown, swallowed, cmd>>
      PROVE  Replying'
  BY <1>1, QuietReplying DEF Chatting
<1>2. ASSUME NEW s \in Sessions,
             (\E nick \in Names : Private!msgCommand(s, nick)) \/ Private!replyCommand(s)
      PROVE  Replying'
  <2>1. PICK r \in Sessions, kind \in {"msg", "reply"} : Private!Start(s, kind, r)
    BY <1>2, CommandStarts
  <2>2. cmd[s].pc = "idle"
    BY <1>2 DEF Private!msgCommand, Private!replyCommand, Private!Running
  <2>3. /\ cmd'[s].pc = "show" /\ \A t \in Sessions \ {s} : cmd'[t] = cmd[t]
        /\ UNCHANGED <<user, shown, swallowed>>
    BY <2>1, Starts
  <2>4. QED BY <2>2, <2>3, QuietReplying DEF Chatting
<1>3. ASSUME NEW s \in Sessions, Private!Show(s)
      PROVE  Replying'
  BY <1>3, ShowReplying
<1>4. ASSUME NEW s \in Sessions, Private!Own(s)
      PROVE  Replying'
  <2>1. cmd[s].pc = "own" /\ Private!Advance(s, "theirs") /\ UNCHANGED <<shown, swallowed>>
    BY <1>4 DEF Private!Own
  <2>2. /\ cmd'[s].pc = "theirs" /\ cmd'[s].to = cmd[s].to
        /\ \A t \in Sessions \ {s} : cmd'[t] = cmd[t]
    BY <2>1, Advances
  <2>3. PICK u \in Chatters : /\ user' = [user EXCEPT ![s] = u]
                           /\ u.recipient = NickOf[cmd[s].to] /\ u.recipient \in Names
    BY <1>4, Owns
  <2>4. PICK t \in Sessions : t = cmd[s].to
    BY <2>1 DEF Chatting
  <2>5. s \in Wrote(shown[t], swallowed[t])
    BY <2>1, <2>4 DEF Replying, Heard, Busy
  <2>6. NickOf[t] = u.recipient /\ NickOf[t] \in Names
    BY <2>3, <2>4
  <2>7. QED BY <2>1, <2>2, <2>3, <2>5, <2>6, SetReplying
<1>5. ASSUME NEW s \in Sessions, Private!Theirs(s)
      PROVE  Replying'
  <2>1. cmd[s].pc = "theirs" /\ Private!Advance(s, "spies") /\ UNCHANGED <<shown, swallowed>>
    BY <1>5 DEF Private!Theirs
  <2>2. /\ cmd'[s].pc = "spies" /\ cmd'[s].to = cmd[s].to
        /\ \A t \in Sessions \ {s} : cmd'[t] = cmd[t]
    BY <2>1, Advances
  <2>3. PICK u \in Chatters : /\ cmd[s].to \in Sessions /\ user' = [user EXCEPT ![cmd[s].to] = u]
                           /\ u.recipient = NickOf[s] /\ u.recipient \in Names
    BY <1>5, TheirsIs
  <2>4. s \in Wrote(shown[cmd[s].to], swallowed[cmd[s].to])
    BY <2>1 DEF Replying, Heard, Busy
  <2>5. QED BY <2>1, <2>2, <2>3, <2>4, SetReplying
<1>6. ASSUME NEW s \in Sessions, Private!Spies(s)
      PROVE  Replying'
  <2>1. cmd[s].pc = "spies" /\ UNCHANGED user
    BY <1>6 DEF Private!Spies
  <2>2. cmd'[s].pc = "idle" /\ \A t \in Sessions \ {s} : cmd'[t] = cmd[t]
    BY <1>6, Spied DEF Chatting
  <2>3. \A p \in Sessions : Wrote(shown'[p], swallowed'[p]) = Wrote(shown[p], swallowed[p])
    BY <1>6, Spied DEF Wrote
  <2>4. QED BY <2>1, <2>2, <2>3, QuietReplying DEF Chatting
<1>7. ASSUME NEW s \in Sessions, NEW nick \in Names, Private!ignoreCommand(s, nick)
      PROVE  Replying'
  <2>1. \A t \in Sessions : user'[t].recipient = user[t].recipient
    BY <1>7, Ignoring DEF Chatting
  <2>2. UNCHANGED <<shown, swallowed, cmd>>
    BY <1>7 DEF Private!ignoreCommand
  <2>3. QED BY <2>1, <2>2, QuietReplying DEF Chatting
<1>8. QED
  BY <1>1, <1>2, <1>3, <1>4, <1>5, <1>6, <1>7
  DEF Private!Next, Private!vars, Private!Join, Private!Leave, Private!socialspyCommand

\* /r finds the other side of a conversation, for any number of players, who may leave and come
\* back, however the commands of two of them interleave and whichever lines are dropped.
LEMMA ReplyHolds ==
    ASSUME Private!ChatAssumption
    PROVE  Private!Spec => []Private!ReplyFinds
<1>1. Private!Init => Replying
  <2> SUFFICES ASSUME Private!Init PROVE Replying
    OBVIOUS
  <2>1. \A s \in Sessions : /\ cmd[s].pc = "idle" /\ user[s].recipient = None
                            /\ shown[s] = <<>> /\ swallowed[s] = {}
    BY DEF Private!Init, Private!Idle, Private!NewUser
  <2>2. \A s \in Sessions : Wrote(shown[s], swallowed[s]) = {}
    BY <2>1 DEF Wrote, From
  <2>3. QED BY <2>1, <2>2 DEF Replying, Heard, Known, Busy
<1>2. Chatting /\ Replying /\ Private!ChatAssumption => Private!ReplyFinds
  <2> SUFFICES ASSUME Chatting, Replying, NEW s \in Sessions
               PROVE  LET seen == {NickOf[t] : t \in From(shown[s])}
                          dropped == {NickOf[t] : t \in swallowed[s]}
                          partners == {NickOf[t] : t \in {r \in Sessions :
                                          s \in From(shown[r]) \cup swallowed[r]}}
                      IN  /\ user[s].recipient \in seen \cup dropped \cup partners \cup {None}
                          /\ ~Private!Involved(s) /\ seen \cup dropped # {} =>
                                /\ user[s].recipient # None
                                /\ partners = {} /\ dropped \subseteq seen =>
                                      user[s].recipient \in seen
    BY DEF Private!ReplyFinds, Private!Authors, Private!Nicks, From
  <2> DEFINE seen == {NickOf[t] : t \in From(shown[s])}
             dropped == {NickOf[t] : t \in swallowed[s]}
             partners == {NickOf[t] : t \in {r \in Sessions :
                             s \in From(shown[r]) \cup swallowed[r]}}
  <2>1. user[s].recipient \in seen \cup dropped \cup partners \cup {None}
    <3>1. ASSUME user[s].recipient # None
          PROVE  user[s].recipient \in seen \cup dropped \cup partners
      <4>1. PICK t \in Sessions :
               /\ NickOf[t] = user[s].recipient
               /\ \/ t \in From(shown[s]) \cup swallowed[s]
                  \/ s \in From(shown[t]) \cup swallowed[t]
        BY <3>1 DEF Replying, Known, Partner, Wrote
      <4>2. QED BY <4>1
    <3>2. QED BY <3>1
  <2>2. ASSUME ~Private!Involved(s), seen \cup dropped # {}
        PROVE  user[s].recipient # None
    <3>1. Wrote(shown[s], swallowed[s]) # {}
      BY <2>2 DEF Wrote
    <3>2. \A t \in Sessions : ~(Busy(t) /\ cmd[t].to = s)
      BY <2>2 DEF Private!Involved, Busy
    <3>3. QED BY <3>1, <3>2 DEF Replying, Served
  <2> HIDE DEF seen, dropped, partners
  <2>3. QED BY <2>1, <2>2 DEF seen, dropped, partners
<1>3. QED BY <1>1, <1>2, InitChatting, StepChatting, StepReplying, PTL DEF Private!Spec

-----------------------------------------------------------------------------
(* Reloads of the permissions.                                             *)

\* The users in u have their permissions from the groups in g, as the file f says.
Made(g, f, u) == Permission!AllFound(g, f) /\ u \in Permission!UsersOf(g, f)

Loading(r) == DOMAIN r = {"at", "groups", "users", "file"}

\* What a reload is about to put in force was made of the groups it has read itself.
Loads ==
    /\ DOMAIN load = Loaders
    /\ \A l \in Loaders : /\ Loading(load[l])
                          /\ load[l].at = "save" => Made(load[l].groups, load[l].file, load[l].users)
    /\ Made(Groups, origin, Users)

\* A reload reads, computes and saves; nothing else touches what it has read.
LEMMA StepLoads == Loads /\ [Permission!Next]_Permission!vars => Loads'
<1> SUFFICES ASSUME Loads, [Permission!Next]_Permission!vars PROVE Loads'
  OBVIOUS
<1>1. ASSUME NEW l \in Loaders, NEW r, load' = [load EXCEPT ![l] = r], Loading(r),
             r.at = "save" => Made(r.groups, r.file, r.users),
             Made(Groups', origin', Users')
      PROVE  Loads'
  <2>1. DOMAIN load' = Loaders
    BY <1>1 DEF Loads
  <2>2. ASSUME NEW k \in Loaders
        PROVE  Loading(load'[k]) /\ (load'[k].at = "save" =>
                   Made(load'[k].groups, load'[k].file, load'[k].users))
    BY <1>1, <2>2 DEF Loads
  <2>3. QED BY <1>1, <2>1, <2>2 DEF Loads, Loading, Made
<1>2. CASE UNCHANGED <<load, Groups, Users, origin>>
  BY <1>2 DEF Loads, Made, Loading
<1>3. Made(Groups, origin, Users) /\ Permission!Idle.at = "idle" /\ Loading(Permission!Idle)
  BY DEF Loads, Permission!Idle, Loading
<1>4. ASSUME NEW l \in Loaders, Permission!ReadGroups(l)
      PROVE  Loads'
  <2> DEFINE r == [Permission!Idle EXCEPT !.at = "users", !.groups = perm_groups]
  <2>1. Loading(r) /\ r.at = "users"
    BY DEF Permission!Idle, Loading
  <2>2. load' = [load EXCEPT ![l] = Permission!Idle] \/ load' = [load EXCEPT ![l] = r]
    BY <1>4 DEF Permission!ReadGroups
  <2>3. Groups' = Groups /\ origin' = origin /\ Users' = Users
    BY <1>4 DEF Permission!ReadGroups
  <2> HIDE DEF r
  <2>4. QED BY <1>1, <1>3, <2>1, <2>2, <2>3
<1>5. ASSUME NEW l \in Loaders, Permission!ReadUsers(l)
      PROVE  Loads'
  <2>1. Groups' = Groups /\ origin' = origin /\ Users' = Users
    BY <1>5 DEF Permission!ReadUsers
  <2>2. CASE load' = [load EXCEPT ![l] = Permission!Idle]
    BY <1>1, <1>3, <2>1, <2>2
  <2>3. CASE ~(load' = [load EXCEPT ![l] = Permission!Idle])
    <3>1. PICK users \in Permission!UsersOf(load[l].groups, perm_users) :
             load' = [load EXCEPT ![l].at = "save", ![l].users = users, ![l].file = perm_users]
      BY <1>5, <2>3 DEF Permission!ReadUsers
    <3>2. Permission!AllFound(load[l].groups, perm_users)
      BY <1>5, <2>3 DEF Permission!ReadUsers
    <3> DEFINE r == [load[l] EXCEPT !.at = "save", !.users = users, !.file = perm_users]
    <3>3. load' = [load EXCEPT ![l] = r]
      BY <3>1 DEF Loads
    <3>4. Loading(r) /\ Made(r.groups, r.file, r.users)
      <4>1. Loading(load[l])
        BY DEF Loads
      <4>2. /\ Loading(r) /\ r.groups = load[l].groups
            /\ r.users = users /\ r.file = perm_users
        BY <4>1 DEF Loading
      <4> HIDE DEF r
      <4>3. QED BY <3>1, <3>2, <4>2 DEF Made
    <3> HIDE DEF r
    <3>5. QED BY <1>1, <1>3, <2>1, <3>3, <3>4
  <2>4. QED BY <2>2, <2>3
<1>6. ASSUME NEW l \in Loaders, Permission!Save(l)
      PROVE  Loads'
  <2>1. Made(load[l].groups, load[l].file, load[l].users)
    BY <1>6 DEF Permission!Save, Loads
  <2>2. /\ Groups' = load[l].groups /\ origin' = load[l].file /\ Users' = load[l].users
        /\ load' = [load EXCEPT ![l] = Permission!Idle]
    BY <1>6 DEF Permission!Save
  <2>3. Made(Groups', origin', Users')
    BY <2>1, <2>2
  <2>4. QED BY <1>1, <1>3, <2>2, <2>3
<1>7. QED
  BY <1>2, <1>4, <1>5, <1>6
  DEF Permission!Next, Permission!vars, Permission!Edit, Permission!Login, Permission!Logout

\* Whatever happens to the files while they are being read, and however many reloads overlap
\* or fail, the users' permissions are made of the groups that are in force.
LEMMA LoadHolds == Permission!Spec => []Permission!OneLoad
<1>1. Permission!Init => Loads
  BY DEF Permission!Init, Permission!Idle, Loads, Loading, Made
<1>2. Loads => Permission!OneLoad
  BY DEF Loads, Made, Permission!OneLoad
<1>3. QED BY <1>1, <1>2, StepLoads, PTL DEF Permission!Spec

-----------------------------------------------------------------------------
(* The look-up of a permission.  HasPermission and Combined are recursive  *)
(* functions; each satisfies its equation because the function that says   *)
(* directly what it computes does, and equals that one at the end.         *)

\* A set of numbers that is not empty has a least one.
LEMMA Least ==
    ASSUME NEW T \in SUBSET Nat, T # {}
    PROVE  \E x \in T : \A y \in T : x <= y
<1> DEFINE Segments == {1 .. x : x \in T}
<1>1. Segments \subseteq FiniteSubsetsOf(Nat) /\ Segments # {}
  <2>1. ASSUME NEW x \in T
        PROVE  1 .. x \in FiniteSubsetsOf(Nat)
    BY FS_Interval DEF FiniteSubsetsOf
  <2>2. QED BY <2>1
<1>2. \E d \in Segments : \A e \in Segments : <<e, d>> \notin StrictSubsetOrdering(Nat)
  <2>1. IsWellFoundedOn(StrictSubsetOrdering(Nat), FiniteSubsetsOf(Nat))
    BY FS_StrictSubsetOrderingWellFounded
  <2>2. QED BY <1>1, <2>1, WFMin, Zenon
<1>3. PICK x \in T : \A y \in T : <<1 .. y, 1 .. x>> \notin StrictSubsetOrdering(Nat)
  BY <1>2
<1>4. ASSUME NEW y \in T, y < x
      PROVE  FALSE
  <2>1. x \in 1 .. x /\ x \notin 1 .. y
    BY <1>4
  <2>2. 1 .. y \subseteq 1 .. x /\ 1 .. y # 1 .. x
    BY <2>1, <1>4
  <2>3. 1 .. y \in SUBSET Nat /\ 1 .. x \in SUBSET Nat
    OBVIOUS
  <2>4. QED BY <2>2, <2>3, <1>3 DEF StrictSubsetOrdering
<1>5. QED BY <1>4

\* x is the last place in T.
Greatest(x, T) == x \in T /\ \A y \in T : y <= x

\* A set of places that is not empty has a last one.
LEMMA HasGreatest ==
    ASSUME NEW n \in Nat, NEW T \in SUBSET (0 .. n), T # {}
    PROVE  \E x \in T : Greatest(x, T)
<1> DEFINE back == {n - x : x \in T}
<1>1. back \in SUBSET Nat /\ back # {}
  <2>1. \A x \in T : n - x \in Nat
    OBVIOUS
  <2>2. QED BY <2>1
<1>2. PICK z \in back : \A y \in back : z <= y
  <2> HIDE DEF back
  <2>1. QED BY <1>1, Least
<1>3. PICK x \in T : z = n - x
  OBVIOUS
<1>4. ASSUME NEW y \in T PROVE y <= x
  <2>1. n - y \in back /\ x \in Nat /\ y \in Nat /\ n \in Nat
    OBVIOUS
  <2>2. n - x <= n - y
    BY <2>1, <1>2, <1>3
  <2>3. QED BY <2>1, <2>2
<1>5. QED BY <1>4 DEF Greatest

\* Two functions begin alike, and go on alike where they were alike before.
Alike(f, g, n) == f[0] = g[0] /\ \A i \in 1 .. n : f[i - 1] = g[i - 1] => f[i] = g[i]

\* Then they are alike at the end: a recursive function is the one that satisfies its equation.
LEMMA AlikeAtEnd ==
    ASSUME NEW n \in Nat, NEW f, NEW g, Alike(f, g, n)
    PROVE  f[n] = g[n]
<1> DEFINE T == {i \in 0 .. n : f[i] # g[i]}
<1>1. SUFFICES ASSUME T # {} PROVE FALSE
  OBVIOUS
<1>2. T \in SUBSET Nat
  OBVIOUS
<1>3. PICK x \in T : \A y \in T : x <= y
  <2> HIDE DEF T
  <2>1. QED BY <1>1, <1>2, Least
<1>4. x # 0 /\ x \in 1 .. n
  BY DEF Alike
<1>5. x - 1 \in 0 .. n /\ x - 1 \notin T
  BY <1>3, <1>4
<1>6. QED BY <1>4, <1>5 DEF Alike

\* The first i of layers one over the other: of those that have an entry for k, the last counts.
Holders(layers, i, k) == {j \in 1 .. i : k \in DOMAIN layers[j]}
Over(layers, i) ==
    [k \in UNION {DOMAIN layers[j] : j \in 1 .. i} |->
        layers[CHOOSE j \in Holders(layers, i, k) : Greatest(j, Holders(layers, i, k))][k]]

\* One more layer on top of others is applied to them.
LEMMA OverOne ==
    ASSUME NEW layers, NEW i \in Nat, i # 0
    PROVE  Over(layers, i) = Permission!Apply(Over(layers, i - 1), layers[i])
<1> DEFINE below == Over(layers, i - 1)
           all == Permission!Apply(below, layers[i])
           Pick(T) == CHOOSE j \in T : Greatest(j, T)
<1>1. DOMAIN below = UNION {DOMAIN layers[j] : j \in 1 .. i - 1}
  BY DEF Over
<1>2. DOMAIN all = DOMAIN below \cup DOMAIN layers[i]
  BY DEF Permission!Apply
<1>3. UNION {DOMAIN layers[j] : j \in 1 .. i} = DOMAIN below \cup DOMAIN layers[i]
  <2>1. 1 .. i = (1 .. i - 1) \cup {i}
    OBVIOUS
  <2>2. QED BY <1>1, <2>1
<1>4. ASSUME NEW k \in DOMAIN all
      PROVE  all[k] = layers[Pick(Holders(layers, i, k))][k]
  <2>1. CASE k \in DOMAIN layers[i]
    <3>1. \A j \in Holders(layers, i, k) : j <= i /\ j \in Nat
      BY DEF Holders
    <3>2. /\ i \in Holders(layers, i, k)
          /\ \A j \in Holders(layers, i, k) : Greatest(j, Holders(layers, i, k)) <=> j = i
      BY <2>1, <3>1 DEF Greatest, Holders
    <3>3. Pick(Holders(layers, i, k)) = i
      BY <3>2
    <3>4. all[k] = layers[i][k]
      BY <1>2, <2>1 DEF Permission!Apply
    <3>5. QED BY <3>3, <3>4
  <2>2. CASE k \notin DOMAIN layers[i]
    <3>1. Holders(layers, i, k) = Holders(layers, i - 1, k)
      BY <2>2 DEF Holders
    <3>2. k \in DOMAIN below
      BY <1>2, <2>2
    <3>3. all[k] = below[k]
      BY <1>2, <2>2 DEF Permission!Apply
    <3>4. below[k] = layers[Pick(Holders(layers, i - 1, k))][k]
      BY <1>1, <3>2 DEF Over
    <3>5. QED BY <3>1, <3>3, <3>4
  <2>3. QED BY <2>1, <2>2
<1>5. all = [k \in DOMAIN all |-> all[k]]
  BY DEF Permission!Apply
<1> HIDE DEF all, below
<1>6. all = [k \in UNION {DOMAIN layers[j] : j \in 1 .. i} |->
                 layers[Pick(Holders(layers, i, k))][k]]
  BY <1>2, <1>3, <1>4, <1>5
<1>7. QED BY <1>6 DEF Over, all, below

\* The PermSets of the groups grps.
GroupsOf(groups, grps) == [i \in DOMAIN grps |-> groups[grps[i]]]

\* The PermSet of a user is the PermSets of the groups, one over the other.
LEMMA CombinedIsOver ==
    ASSUME NEW groups, NEW grps, Permission!IsSequence(grps)
    PROVE  Permission!Combined(groups, grps) = Over(GroupsOf(groups, grps), Len(grps))
<1> DEFINE layers == GroupsOf(groups, grps)
           n == Len(grps)
           F(ps) == [i \in 0 .. n |->
                        IF i = 0 THEN Permission!Empty
                        ELSE Permission!Apply(ps[i - 1], groups[grps[i]])]
           stack == [i \in 0 .. n |-> Over(layers, i)]
           ps == CHOOSE f : f = F(f)
<1>1. n \in Nat /\ DOMAIN grps = 1 .. n
  BY DEF Permission!IsSequence
<1>2. Over(layers, 0) = Permission!Empty
  <2>1. 1 .. 0 = {} /\ UNION {DOMAIN layers[j] : j \in 1 .. 0} = {}
    OBVIOUS
  <2>2. QED BY <2>1 DEF Over, Permission!Empty
<1>3. ASSUME NEW i \in 1 .. n
      PROVE  /\ stack[i] = Permission!Apply(stack[i - 1], groups[grps[i]])
             /\ stack[i] = Over(layers, i)
  <2>1. layers[i] = groups[grps[i]] /\ i \in Nat /\ i # 0 /\ i - 1 \in 0 .. n /\ i \in 0 .. n
    BY <1>1 DEF GroupsOf
  <2>2. Over(layers, i) = Permission!Apply(Over(layers, i - 1), layers[i])
    BY <2>1, OverOne
  <2>3. QED BY <2>1, <2>2
<1>4. stack = F(stack)
  <2>1. \A i \in 0 .. n : stack[i] = F(stack)[i]
    <3>1. stack[0] = F(stack)[0]
      BY <1>1, <1>2
    <3>2. ASSUME NEW i \in 1 .. n PROVE stack[i] = F(stack)[i]
      BY <1>1, <1>3
    <3> HIDE DEF F, stack, n
    <3>3. QED BY <1>1, <3>1, <3>2
  <2>2. QED BY <2>1
<1>5. ps = F(ps)
  <2> HIDE DEF F
  <2>1. QED BY <1>4
<1>6. Permission!Combined(groups, grps) = ps[n]
  BY DEF Permission!Combined
<1> HIDE DEF ps
<1>7. Alike(ps, stack, n)
  <2>1. ps[0] = stack[0]
    BY <1>1, <1>2, <1>5
  <2>2. ASSUME NEW i \in 1 .. n, ps[i - 1] = stack[i - 1] PROVE ps[i] = stack[i]
    BY <1>1, <1>3, <1>5, <2>2
  <2>3. QED BY <2>1, <2>2 DEF Alike
<1>8. ps[n] = stack[n] /\ stack[n] = Over(layers, n)
  <2> HIDE DEF stack, n
  <2>1. ps[n] = stack[n]
    BY <1>1, <1>7, AlikeAtEnd
  <2>2. QED BY <2>1, <1>1 DEF stack
<1>9. QED BY <1>6, <1>8

\* What is found in perms is the entry of the last of layers that has one.
Decides(layers, perms) ==
    /\ \A k : k \in DOMAIN perms <=> \E j \in DOMAIN layers : k \in DOMAIN layers[j]
    /\ \A k, j : Greatest(j, {i \in DOMAIN layers : k \in DOMAIN layers[i]}) =>
                     perms[k] = layers[j][k]

\* It is so of the PermSets of groups one over the other.
LEMMA OverDecides ==
    ASSUME NEW layers, NEW n \in Nat, DOMAIN layers = 1 .. n
    PROVE  Decides(layers, Over(layers, n))
<1>1. ASSUME NEW k
      PROVE  k \in DOMAIN Over(layers, n) <=> \E j \in DOMAIN layers : k \in DOMAIN layers[j]
  BY DEF Over
<1>2. ASSUME NEW k, NEW j, Greatest(j, {i \in DOMAIN layers : k \in DOMAIN layers[i]})
      PROVE  Over(layers, n)[k] = layers[j][k]
  <2> DEFINE T == Holders(layers, n, k)
  <2>1. Greatest(j, T)
    BY <1>2 DEF Holders
  <2>2. j \in 1 .. n /\ k \in DOMAIN Over(layers, n)
    BY <2>1 DEF Over, Greatest, Holders
  <2>3. \A i \in T : i \in Nat
    BY DEF Holders
  <2>4. \A i \in T : Greatest(i, T) <=> i = j
    BY <2>1, <2>3 DEF Greatest
  <2> HIDE DEF T
  <2>5. (CHOOSE i \in T : Greatest(i, T)) = j
    BY <2>1, <2>4 DEF Greatest
  <2>6. QED BY <2>2, <2>5 DEF Over, T
<1>3. QED BY <1>1, <1>2 DEF Decides

\* A layer below the others is the first, and the others follow in order.
LEMMA LayersAbove ==
    ASSUME NEW bottom, NEW layers, NEW n \in Nat, layers = [j \in 1 .. n |-> layers[j]]
    PROVE  /\ DOMAIN (<<bottom>> \o layers) = 1 .. n + 1
           /\ (<<bottom>> \o layers)[1] = bottom
           /\ \A j \in 1 .. n : (<<bottom>> \o layers)[j + 1] = layers[j]
<1> DEFINE S == {bottom} \cup {layers[j] : j \in 1 .. n}
<1>1. <<bottom>> \in Seq(S) /\ Len(<<bottom>>) = 1 /\ <<bottom>>[1] = bottom
  OBVIOUS
<1>2. layers \in Seq(S) /\ Len(layers) = n
  <2>1. layers \in [1 .. n -> S]
    OBVIOUS
  <2>2. QED BY <2>1
<1> DEFINE one == <<bottom>>
<1>3. one \in Seq(S) /\ Len(one) = 1 /\ one[1] = bottom
  BY <1>1
<1> HIDE DEF S, one
<1>4. /\ one \o layers \in Seq(S) /\ Len(one \o layers) = Len(one) + Len(layers)
      /\ \A i \in 1 .. Len(one) + Len(layers) :
            (one \o layers)[i] = IF i <= Len(one) THEN one[i] ELSE layers[i - Len(one)]
  <2>1. QED BY <1>2, <1>3, ConcatProperties
<1>5. DOMAIN (one \o layers) = 1 .. n + 1
  BY <1>2, <1>3, <1>4
<1>6. (one \o layers)[1] = bottom
  BY <1>2, <1>3, <1>4
<1>7. ASSUME NEW j \in 1 .. n PROVE (one \o layers)[j + 1] = layers[j]
  <2>1. j + 1 \in 1 .. Len(one) + Len(layers) /\ ~(j + 1 <= Len(one)) /\ (j + 1) - Len(one) = j
    BY <1>2, <1>3
  <2>2. QED BY <1>4, <2>1
<1>8. QED BY <1>5, <1>6, <1>7 DEF one

\* It stays so with the default group below them.
LEMMA DefaultBelow ==
    ASSUME NEW bottom, NEW layers, NEW n \in Nat, layers = [j \in 1 .. n |-> layers[j]], NEW upper,
           Decides(layers, upper)
    PROVE  Decides(<<bottom>> \o layers,
                   Permission!Apply(Permission!Apply(Permission!Empty, bottom), upper))
<1> DEFINE all == <<bottom>> \o layers
           perms == Permission!Apply(Permission!Apply(Permission!Empty, bottom), upper)
<1>1. /\ DOMAIN all = 1 .. n + 1 /\ all[1] = bottom
      /\ \A j \in 1 .. n : all[j + 1] = layers[j]
  BY LayersAbove
<1> HIDE DEF all
<1>2. /\ DOMAIN perms = DOMAIN bottom \cup DOMAIN upper
      /\ \A k \in DOMAIN perms : perms[k] = IF k \in DOMAIN upper THEN upper[k] ELSE bottom[k]
  BY DEF Permission!Apply, Permission!Empty
<1> HIDE DEF perms
<1>3. ASSUME NEW k
      PROVE  k \in DOMAIN perms <=> \E j \in DOMAIN all : k \in DOMAIN all[j]
  <2>1. (\E j \in DOMAIN all : k \in DOMAIN all[j]) <=>
            k \in DOMAIN bottom \/ \E j \in 1 .. n : k \in DOMAIN layers[j]
    <3>1. ASSUME NEW j \in 1 .. n + 1, k \in DOMAIN all[j], j # 1
          PROVE  \E i \in 1 .. n : k \in DOMAIN layers[i]
      <4>1. j - 1 \in 1 .. n /\ (j - 1) + 1 = j
        BY <3>1
      <4>2. all[j] = layers[j - 1]
        BY <4>1, <1>1
      <4>3. QED BY <3>1, <4>1, <4>2
    <3>2. ASSUME NEW j \in 1 .. n, k \in DOMAIN layers[j]
          PROVE  \E i \in 1 .. n + 1 : k \in DOMAIN all[i]
      <4>1. j + 1 \in 1 .. n + 1 /\ all[j + 1] = layers[j]
        BY <1>1
      <4>2. QED BY <3>2, <4>1
    <3>3. 1 \in 1 .. n + 1
      OBVIOUS
    <3>4. QED BY <1>1, <3>1, <3>2, <3>3
  <2>2. k \in DOMAIN upper <=> \E j \in 1 .. n : k \in DOMAIN layers[j]
    BY DEF Decides
  <2>3. QED BY <1>2, <2>1, <2>2
<1>4. ASSUME NEW k, NEW j, Greatest(j, {i \in DOMAIN all : k \in DOMAIN all[i]})
      PROVE  perms[k] = all[j][k]
  <2>1. j \in 1 .. n + 1 /\ k \in DOMAIN all[j]
    BY <1>1, <1>4 DEF Greatest
  <2>2. \A i \in 1 .. n + 1 : k \in DOMAIN all[i] => i <= j
    BY <1>1, <1>4 DEF Greatest
  <2>3. k \in DOMAIN perms
    BY <1>1, <1>3, <2>1
  <2>4. CASE j = 1
    <3>1. ASSUME NEW i \in 1 .. n PROVE k \notin DOMAIN layers[i]
      <4>1. i + 1 \in 1 .. n + 1 /\ all[i + 1] = layers[i] /\ ~(i + 1 <= 1)
        BY <1>1
      <4>2. QED BY <4>1, <2>2, <2>4
    <3>2. k \notin DOMAIN upper
      BY <3>1 DEF Decides
    <3>3. QED BY <1>1, <1>2, <2>3, <2>4, <3>2
  <2>5. CASE j # 1
    <3>1. PICK i \in 1 .. n : i + 1 = j
      <4>1. j - 1 \in 1 .. n /\ (j - 1) + 1 = j
        BY <2>1, <2>5
      <4>2. QED BY <4>1
    <3>2. all[j] = layers[i]
      BY <1>1, <3>1
    <3>3. ASSUME NEW h \in 1 .. n, k \in DOMAIN layers[h] PROVE h <= i
      <4>1. h + 1 \in 1 .. n + 1 /\ all[h + 1] = layers[h]
        BY <1>1
      <4>2. h + 1 <= i + 1
        BY <4>1, <2>2, <3>1, <3>3
      <4>3. QED BY <4>2
    <3>4. Greatest(i, {h \in DOMAIN layers : k \in DOMAIN layers[h]})
      BY <2>1, <3>2, <3>3 DEF Greatest
    <3>5. upper[k] = layers[i][k] /\ k \in DOMAIN upper
      BY <2>1, <3>2, <3>4 DEF Decides
    <3>6. QED BY <1>2, <2>3, <3>2, <3>5
  <2>6. QED BY <2>4, <2>5
<1>5. Decides(all, perms)
  BY <1>3, <1>4 DEF Decides
<1>6. QED BY <1>5 DEF all, perms

\* The entries of ps for the first words of q, n at most, and what the longest of them says,
\* or no if there is none.
Found(ps, q, n) == {m \in 1 .. n : SubSeq(q, 1, m) \in DOMAIN ps}
Nearest(ps, q, n) == CHOOSE m \in Found(ps, q, n) : Greatest(m, Found(ps, q, n))
Answer(ps, q, n, no) ==
    IF Found(ps, q, n) = {} THEN no ELSE ps[SubSeq(q, 1, Nearest(ps, q, n))]

\* Dropping words from the end of a permission finds the entry nearest to it.
LEMMA FindsNearest ==
    ASSUME NEW ps, NEW q, Permission!IsSequence(q)
    PROVE  Permission!HasPermission(ps, q) = Answer(ps, q, Len(q), FALSE)
<1> DEFINE no == FALSE
           n == Len(q)
           F(at) == [i \in 0 .. n |->
                        IF i = 0 THEN no
                        ELSE IF SubSeq(q, 1, i) \in DOMAIN ps THEN ps[SubSeq(q, 1, i)]
                        ELSE at[i - 1]]
           ans == [i \in 0 .. n |-> Answer(ps, q, i, no)]
           at == CHOOSE f : f = F(f)
<1>0. Permission!HasPermission(ps, q) = at[n]
  BY DEF Permission!HasPermission
<1> HIDE DEF no
<1>1. n \in Nat
  BY DEF Permission!IsSequence
<1>2. ans[0] = no
  <2>1. Found(ps, q, 0) = {} /\ 0 \in 0 .. n
    BY <1>1 DEF Found
  <2>2. QED BY <2>1 DEF Answer
<1>3. ASSUME NEW i \in 1 .. n
      PROVE  ans[i] = IF SubSeq(q, 1, i) \in DOMAIN ps THEN ps[SubSeq(q, 1, i)] ELSE ans[i - 1]
  <2>1. i \in 0 .. n /\ i - 1 \in 0 .. n
    BY <1>1
  <2>2. CASE SubSeq(q, 1, i) \in DOMAIN ps
    <3> DEFINE T == Found(ps, q, i)
    <3>1. \A j \in T : j <= i /\ j \in Nat
      BY DEF Found
    <3>2. i \in T
      BY <2>2 DEF Found
    <3>3. \A j \in T : Greatest(j, T) <=> j = i
      BY <3>1, <3>2 DEF Greatest
    <3> HIDE DEF T
    <3>4. (CHOOSE j \in T : Greatest(j, T)) = i
      BY <3>2, <3>3
    <3>5. Answer(ps, q, i, no) = ps[SubSeq(q, 1, i)]
      BY <3>2, <3>4 DEF T, Answer, Nearest
    <3>6. QED BY <2>1, <2>2, <3>5
  <2>3. CASE SubSeq(q, 1, i) \notin DOMAIN ps
    <3>1. Found(ps, q, i) = Found(ps, q, i - 1)
      BY <2>3 DEF Found
    <3>2. Answer(ps, q, i, no) = Answer(ps, q, i - 1, no)
      BY <3>1 DEF Answer, Nearest
    <3>3. QED BY <2>1, <2>3, <3>2
  <2>4. QED BY <2>2, <2>3
<1>4. ans = F(ans)
  <2>1. ans[0] = F(ans)[0]
    BY <1>1, <1>2
  <2>2. ASSUME NEW i \in 1 .. n PROVE ans[i] = F(ans)[i]
    BY <1>1, <1>3
  <2>3. \A i \in 0 .. n : ans[i] = F(ans)[i]
    <3> HIDE DEF F, ans, n
    <3>1. QED BY <1>1, <2>1, <2>2
  <2>4. QED BY <2>3
<1>5. at = F(at)
  <2> HIDE DEF F
  <2>1. QED BY <1>4
<1> HIDE DEF at
<1>7. Alike(at, ans, n)
  <2>1. at[0] = ans[0]
    BY <1>1, <1>2, <1>5
  <2>2. ASSUME NEW i \in 1 .. n, at[i - 1] = ans[i - 1] PROVE at[i] = ans[i]
    <3>1. at[i] = IF SubSeq(q, 1, i) \in DOMAIN ps THEN ps[SubSeq(q, 1, i)] ELSE at[i - 1]
      BY <1>1, <1>5
    <3> HIDE DEF ans
    <3>2. QED BY <1>3, <2>2, <3>1
  <2>3. QED BY <2>1, <2>2 DEF Alike
<1>8. at[n] = ans[n]
  <2> HIDE DEF ans, n
  <2>1. QED BY <1>1, <1>7, AlikeAtEnd
<1> HIDE DEF at
<1>9. Permission!HasPermission(ps, q) = Answer(ps, q, n, no)
  BY <1>0, <1>1, <1>8
<1>10. QED BY <1>9 DEF no

\* What HasPermission answers, without recursion.
LEMMA HasNearest ==
    ASSUME NEW ps, NEW q, Permission!IsSequence(q)
    PROVE  /\ Found(ps, q, Len(q)) = {} => Permission!HasPermission(ps, q) = FALSE
           /\ \A m : Greatest(m, Found(ps, q, Len(q))) =>
                  Permission!HasPermission(ps, q) = ps[SubSeq(q, 1, m)]
<1> DEFINE T == Found(ps, q, Len(q))
<1>1. T = {} => Permission!HasPermission(ps, q) = FALSE
  <2>1. SUFFICES ASSUME T = {} PROVE Answer(ps, q, Len(q), FALSE) = FALSE
    BY FindsNearest
  <2> DEFINE no == FALSE
  <2>2. Answer(ps, q, Len(q), no) = no
    <3> HIDE DEF no
    <3>1. QED BY <2>1 DEF Answer
  <2>3. QED BY <2>2
<1>2. ASSUME NEW m, Greatest(m, T)
      PROVE  Permission!HasPermission(ps, q) = ps[SubSeq(q, 1, m)]
  <2>1. \A j \in T : j \in Nat
    BY DEF Found
  <2>2. m \in T /\ \A j \in T : Greatest(j, T) <=> j = m
    BY <1>2, <2>1 DEF Greatest
  <2> HIDE DEF T
  <2>3. (CHOOSE j \in T : Greatest(j, T)) = m
    BY <2>2
  <2> DEFINE no == FALSE
  <2>4. Answer(ps, q, Len(q), no) = ps[SubSeq(q, 1, m)]
    <3> HIDE DEF no
    <3>1. QED BY <2>2, <2>3 DEF Answer, Nearest, T
  <2> HIDE DEF no
  <2>5. Permission!HasPermission(ps, q) = Answer(ps, q, Len(q), no)
    BY FindsNearest DEF no
  <2>6. QED BY <2>4, <2>5
<1>3. QED BY <1>1, <1>2

\* NearestWins for one permission of a player.
NearestIn(layers, perms, q) ==
    LET entries == {e \in (1 .. Len(q)) \X DOMAIN layers :
                        SubSeq(q, 1, e[1]) \in DOMAIN layers[e[2]]}
        nearest == {e \in entries : \A d \in entries : d[1] <= e[1]}
        winner == CHOOSE e \in nearest : \A d \in nearest : d[2] <= e[2]
    IN  Permission!HasPermission(perms, q) <=>
            (entries # {} /\ layers[winner[2]][SubSeq(q, 1, winner[1])])

\* The nearest entry of all layers, and of equally near ones the last, is the one that is found.
LEMMA DecidesNearest ==
    ASSUME NEW layers, NEW n \in Nat, DOMAIN layers = 1 .. n, NEW perms, Decides(layers, perms),
           NEW q, Permission!IsSequence(q)
    PROVE  NearestIn(layers, perms, q)
<1> DEFINE T == Found(perms, q, Len(q))
           entries == {e \in (1 .. Len(q)) \X DOMAIN layers :
                           SubSeq(q, 1, e[1]) \in DOMAIN layers[e[2]]}
           nearest == {e \in entries : \A d \in entries : d[1] <= e[1]}
           winner == CHOOSE e \in nearest : \A d \in nearest : d[2] <= e[2]
<1>1. Len(q) \in Nat
  BY DEF Permission!IsSequence
<1>2. /\ \A e \in entries : e[1] \in T /\ e[2] \in 1 .. n /\ e = <<e[1], e[2]>>
                             /\ SubSeq(q, 1, e[1]) \in DOMAIN layers[e[2]]
      /\ \A m \in T : \E j \in 1 .. n : <<m, j>> \in entries
      /\ \A m \in T, j \in 1 .. n : SubSeq(q, 1, m) \in DOMAIN layers[j] => <<m, j>> \in entries
  BY DEF Decides, Found
<1>3. T \subseteq 0 .. Len(q)
  BY <1>1 DEF Found
<1>4. CASE T = {}
  <2>1. entries = {}
    BY <1>2, <1>4
  <2>2. Permission!HasPermission(perms, q) = FALSE
    BY <1>4, HasNearest
  <2>3. QED BY <2>1, <2>2 DEF NearestIn
<1>5. CASE T # {}
  <2>1. PICK m \in T : Greatest(m, T)
    <3> HIDE DEF T
    <3>1. QED BY <1>1, <1>3, <1>5, HasGreatest DEF Greatest
  <2> DEFINE k == SubSeq(q, 1, m)
             H == {i \in DOMAIN layers : k \in DOMAIN layers[i]}
  <2>2. H # {} /\ H \subseteq 0 .. n
    BY DEF Decides, Found
  <2>3. PICK j \in H : Greatest(j, H)
    <3> HIDE DEF H
    <3>1. QED BY <2>2, HasGreatest DEF Greatest
  <2>4. perms[k] = layers[j][k]
    BY <2>3 DEF Decides
  <2>5. Permission!HasPermission(perms, q) = perms[k]
    BY <2>1, HasNearest
  <2>6. <<m, j>> \in entries
    BY <1>2, <2>1, <2>3
  <2>7. \A e \in entries : e[1] \in Nat /\ e[2] \in Nat /\ e[1] <= m
    BY <1>2, <1>3, <2>1 DEF Greatest
  <2>8. <<m, j>> \in nearest
    BY <2>6, <2>7
  <2>9. ASSUME NEW e \in nearest PROVE e[1] = m /\ e[2] <= j /\ e[2] \in Nat /\ e = <<e[1], e[2]>>
    <3>1. e \in entries /\ m <= e[1]
      BY <2>6
    <3>2. e[1] = m
      <4>1. e[1] \in Nat /\ m \in Nat /\ e[1] <= m
        BY <1>3, <3>1, <2>7
      <4>2. QED BY <3>1, <4>1
    <3>3. e[2] \in H
      BY <1>2, <3>1, <3>2
    <3>4. e[2] <= j
      BY <2>3, <3>3 DEF Greatest
    <3>5. QED BY <1>2, <3>1, <3>2, <3>4
  <2>10. j \in Nat
    BY <2>2
  <2> HIDE DEF nearest, H
  <2>11. winner = <<m, j>>
    <3>1. \A e \in nearest : (\A d \in nearest : d[2] <= e[2]) <=> e = <<m, j>>
      <4>1. ASSUME NEW e \in nearest, \A d \in nearest : d[2] <= e[2] PROVE e = <<m, j>>
        <5>1. j <= e[2]
          BY <4>1, <2>8
        <5>2. e[2] = j
          BY <5>1, <2>9, <2>10
        <5>3. QED BY <5>2, <2>9
      <4>2. \A d \in nearest : d[2] <= <<m, j>>[2]
        BY <2>9
      <4>3. QED BY <4>1, <4>2
    <3>2. QED BY <2>8, <3>1
  <2> HIDE DEF winner, entries
  <2>12. layers[winner[2]][SubSeq(q, 1, winner[1])] = layers[j][k]
    BY <2>11
  <2> HIDE DEF k
  <2>13. Permission!HasPermission(perms, q) <=>
            (entries # {} /\ layers[winner[2]][SubSeq(q, 1, winner[1])])
    BY <2>4, <2>5, <2>6, <2>12
  <2>14. QED BY <2>13 DEF NearestIn, entries, nearest, winner
<1>6. QED BY <1>4, <1>5

\* GetPlayerPermissions, of a player who finds the groups g and the users u in force.
GrantedBy(g, u, p) ==
    Permission!Apply(Permission!Apply(Permission!Empty, Permission!At(g, "default")),
                     Permission!At(u, Lower[p]))
\* Player p has been given what it said, with users made of the file f.
Granted(g, f, u, p) ==
    /\ Made(g, f, u) /\ f \in UserFiles
    /\ given[p] = <<g, f>> /\ permissions[p] = GrantedBy(g, u, p)

\* The groups of one of the user's nicknames decide, over the default group.
LEMMA GrantedDecides ==
    ASSUME Permission!PermissionsAssumption, NEW p \in Accounts, NEW g, NEW f, NEW u,
           Granted(g, f, u, p)
    PROVE  \E layers \in Permission!Layers(p) :
               /\ \E n \in Nat : DOMAIN layers = 1 .. n
               /\ Decides(layers, permissions[p])
<1> DEFINE bottom == Permission!At(g, "default")
           nicks == {n \in DOMAIN f : Lower[n] = Lower[p]}
           Grps == IF nicks = {} THEN {<<>>} ELSE {f[n] : n \in nicks}
<1>1. Permission!Layers(p) = {<<bottom>> \o GroupsOf(g, grps) : grps \in Grps}
  BY DEF Granted, Permission!Layers, GroupsOf
<1>2. PICK grps \in Grps : /\ Permission!IsSequence(grps)
                           /\ Permission!At(u, Lower[p]) = Over(GroupsOf(g, grps), Len(grps))
  <2>1. PICK winner \in [{Lower[nick] : nick \in DOMAIN f} -> DOMAIN f] :
            /\ \A n \in DOMAIN winner : Lower[winner[n]] = n
            /\ u = [n \in {Lower[nick] : nick \in DOMAIN f} |->
                        Permission!Combined(g, f[winner[n]])]
    BY DEF Granted, Made, Permission!UsersOf
  <2>2. CASE nicks = {}
    <3>1. <<>> \in Grps /\ Permission!IsSequence(<<>>) /\ Len(<<>>) = 0
      BY <2>2 DEF Permission!IsSequence, Permission!ToSet
    <3>2. Permission!At(u, Lower[p]) = Permission!Empty
      <4>1. Lower[p] \notin DOMAIN u
        BY <2>1, <2>2
      <4>2. QED BY <4>1 DEF Permission!At
    <3>3. Over(GroupsOf(g, <<>>), 0) = Permission!Empty
      <4>1. 1 .. 0 = {}
        OBVIOUS
      <4>2. QED BY <4>1 DEF Over, Permission!Empty
    <3>4. QED BY <3>1, <3>2, <3>3
  <2>3. CASE nicks # {}
    <3>1. Lower[p] \in DOMAIN u /\ Lower[p] \in DOMAIN winner
      BY <2>1, <2>3
    <3> DEFINE nick == winner[Lower[p]]
    <3>2. nick \in nicks
      BY <2>1, <3>1
    <3>3. Permission!At(u, Lower[p]) = Permission!Combined(g, f[nick])
      BY <2>1, <3>1 DEF Permission!At
    <3>4. Permission!IsSequence(f[nick])
      BY <3>2 DEF Granted, Permission!PermissionsAssumption
    <3>5. f[nick] \in Grps
      BY <2>3, <3>2
    <3> HIDE DEF nick, Grps
    <3>6. QED BY <3>3, <3>4, <3>5, CombinedIsOver
  <2>4. QED BY <2>2, <2>3
<1> DEFINE layers == GroupsOf(g, grps)
           n == Len(grps)
<1>3. n \in Nat /\ DOMAIN layers = 1 .. n /\ layers = [j \in 1 .. n |-> layers[j]]
  BY <1>2 DEF GroupsOf, Permission!IsSequence
<1>4. Decides(layers, Over(layers, n))
  <2> HIDE DEF layers, n
  <2>1. QED BY <1>3, OverDecides
<1>5. permissions[p] = Permission!Apply(Permission!Apply(Permission!Empty, bottom), Over(layers, n))
  BY <1>2 DEF Granted, GrantedBy
<1> HIDE DEF bottom, layers, n
<1>6. Decides(<<bottom>> \o layers, permissions[p])
  BY <1>3, <1>4, <1>5, DefaultBelow
<1>7. <<bottom>> \o layers \in Permission!Layers(p)
  BY <1>1, <1>2 DEF layers
<1>8. \E k \in Nat : DOMAIN (<<bottom>> \o layers) = 1 .. k
  BY <1>3, LayersAbove
<1>9. QED BY <1>6, <1>7, <1>8

\* Every player in the game has been given what some load of the files said.
Grants ==
    /\ Loads
    /\ origin \in UserFiles /\ perm_users \in UserFiles \cup {Bad}
    /\ \A l \in Loaders : load[l].at = "save" => load[l].file \in UserFiles
    /\ DOMAIN permissions = Accounts /\ DOMAIN given = Accounts
    /\ \A p \in Accounts : permissions[p] # None => \E g, f, u : Granted(g, f, u, p)

\* A step leaves what a player has been given, unless the player logs in or out.
LEMMA StepGrants == Grants /\ [Permission!Next]_Permission!vars => Grants'
<1> SUFFICES ASSUME Grants, [Permission!Next]_Permission!vars PROVE Grants'
  OBVIOUS
<1>1. Loads'
  BY StepLoads DEF Grants
<1> DEFINE Files == /\ origin \in UserFiles /\ perm_users \in UserFiles \cup {Bad}
                    /\ \A l \in Loaders : load[l].at = "save" => load[l].file \in UserFiles
           Given == /\ DOMAIN permissions = Accounts /\ DOMAIN given = Accounts
                    /\ \A p \in Accounts :
                           permissions[p] # None => \E g, f, u : Granted(g, f, u, p)
<1>2. Files /\ Given /\ DOMAIN load = Loaders /\ Permission!Idle.at = "idle"
  BY DEF Grants, Loads, Permission!Idle
<1>3. SUFFICES Files' /\ Given'
  BY <1>1 DEF Grants
<1>4. ASSUME UNCHANGED <<permissions, given>> PROVE Given'
  BY <1>2, <1>4 DEF Granted, GrantedBy
<1>5. ASSUME NEW p \in Accounts, NEW set, NEW pair,
             permissions' = [permissions EXCEPT ![p] = set],
             given' = [given EXCEPT ![p] = pair],
             set # None => \E g, f, u : Made(g, f, u) /\ f \in UserFiles /\ pair = <<g, f>>
                                            /\ set = GrantedBy(g, u, p)
      PROVE  Given'
  <2>1. DOMAIN permissions' = Accounts /\ DOMAIN given' = Accounts
    BY <1>2, <1>5
  <2>2. ASSUME NEW r \in Accounts, permissions'[r] # None
        PROVE  \E g, f, u : Made(g, f, u) /\ f \in UserFiles
                   /\ given'[r] = <<g, f>> /\ permissions'[r] = GrantedBy(g, u, r)
    <3>1. CASE r = p
      BY <1>2, <1>5, <2>2, <3>1
    <3>2. CASE r # p
      <4>1. permissions'[r] = permissions[r] /\ given'[r] = given[r]
        BY <1>2, <1>5, <3>2
      <4>2. QED BY <1>2, <2>2, <4>1 DEF Granted
    <3>3. QED BY <3>1, <3>2
  <2>3. QED BY <2>1, <2>2 DEF Granted, GrantedBy, Made
<1>6. ASSUME NEW l \in Loaders, NEW r, load' = [load EXCEPT ![l] = r],
             r.at = "save" => r.file \in UserFiles,
             origin' \in UserFiles, perm_users' = perm_users
      PROVE  Files'
  <2>1. ASSUME NEW k \in Loaders, load'[k].at = "save" PROVE load'[k].file \in UserFiles
    BY <1>2, <1>6, <2>1
  <2>2. QED BY <1>2, <1>6, <2>1
<1>7. CASE UNCHANGED Permission!vars
  BY <1>2, <1>4, <1>7 DEF Permission!vars
<1>8. CASE Permission!Edit
  BY <1>2, <1>4, <1>8 DEF Permission!Edit
<1>9. ASSUME NEW l \in Loaders, Permission!ReadGroups(l)
      PROVE  Files' /\ Given'
  <2> DEFINE r == [Permission!Idle EXCEPT !.at = "users", !.groups = perm_groups]
  <2>1. r.at = "users"
    BY DEF Permission!Idle
  <2>2. load' = [load EXCEPT ![l] = Permission!Idle] \/ load' = [load EXCEPT ![l] = r]
    BY <1>9 DEF Permission!ReadGroups
  <2>3. UNCHANGED <<permissions, given, origin, perm_users>>
    BY <1>9 DEF Permission!ReadGroups
  <2>4. Given'
    BY <1>4, <2>3
  <2> HIDE DEF r, Given
  <2>5. Files'
    BY <1>2, <1>6, <2>1, <2>2, <2>3
  <2>6. QED BY <2>4, <2>5
<1>10. ASSUME NEW l \in Loaders, Permission!ReadUsers(l)
       PROVE  Files' /\ Given'
  <2>1. UNCHANGED <<permissions, given, origin, perm_users>>
    BY <1>10 DEF Permission!ReadUsers
  <2>2. CASE load' = [load EXCEPT ![l] = Permission!Idle]
    <3> HIDE DEF Given
    <3>1. QED BY <1>2, <1>4, <1>6, <2>1, <2>2
  <2>3. CASE ~(load' = [load EXCEPT ![l] = Permission!Idle])
    <3>1. PICK users \in Permission!UsersOf(load[l].groups, perm_users) :
             load' = [load EXCEPT ![l].at = "save", ![l].users = users, ![l].file = perm_users]
      BY <1>10, <2>3 DEF Permission!ReadUsers
    <3>2. perm_users \in UserFiles
      BY <1>2, <1>10, <2>3 DEF Permission!ReadUsers
    <3> DEFINE r == [load[l] EXCEPT !.at = "save", !.users = users, !.file = perm_users]
    <3>3. load' = [load EXCEPT ![l] = r]
      BY <1>2, <3>1
    <3>4. r.file = perm_users
      <4>1. Loading(load[l])
        BY DEF Grants, Loads
      <4>2. QED BY <4>1 DEF Loading
    <3> HIDE DEF r, Given
    <3>5. QED BY <1>2, <1>4, <1>6, <2>1, <3>2, <3>3, <3>4
  <2>4. QED BY <2>2, <2>3
<1>11. ASSUME NEW l \in Loaders, Permission!Save(l)
       PROVE  Files' /\ Given'
  <2>1. UNCHANGED <<permissions, given, perm_users>>
    BY <1>11 DEF Permission!Save
  <2>2. load' = [load EXCEPT ![l] = Permission!Idle] /\ origin' \in UserFiles
    BY <1>2, <1>11 DEF Permission!Save
  <2> HIDE DEF Given
  <2>3. QED BY <1>2, <1>4, <1>6, <2>1, <2>2
<1>12. ASSUME NEW p \in Accounts, Permission!Login(p)
       PROVE  Files' /\ Given'
  <2>1. UNCHANGED <<load, origin, perm_users>>
    BY <1>12 DEF Permission!Login
  <2>2. Files'
    BY <1>2, <2>1
  <2> DEFINE set == GrantedBy(Groups, Users, p)
             pair == <<Groups, origin>>
  <2>3. permissions' = [permissions EXCEPT ![p] = set] /\ given' = [given EXCEPT ![p] = pair]
    BY <1>12 DEF Permission!Login, GrantedBy
  <2>4. \E g, f, u : Made(g, f, u) /\ f \in UserFiles /\ pair = <<g, f>> /\ set = GrantedBy(g, u, p)
    <3>1. Made(Groups, origin, Users)
      BY DEF Grants, Loads
    <3>2. QED BY <1>2, <3>1
  <2> HIDE DEF Given, Files, set, pair
  <2>5. Given'
    BY <1>5, <2>3, <2>4
  <2>6. QED BY <2>2, <2>5
<1>13. ASSUME NEW p \in Accounts, Permission!Logout(p)
       PROVE  Files' /\ Given'
  <2>1. UNCHANGED <<load, origin, perm_users>>
    BY <1>13 DEF Permission!Logout
  <2>2. Files'
    BY <1>2, <2>1
  <2>3. /\ permissions' = [permissions EXCEPT ![p] = None]
        /\ given' = [given EXCEPT ![p] = None]
    BY <1>13 DEF Permission!Logout
  <2> HIDE DEF Given, Files
  <2>4. Given'
    BY <1>5, <2>3
  <2>5. QED BY <2>2, <2>4
<1>14. QED
  BY <1>7, <1>8, <1>9, <1>10, <1>11, <1>12, <1>13 DEF Permission!Next

\* The entry nearest to a permission decides, of the last group that has it.
LEMMA NearestHolds == ASSUME Permission!PermissionsAssumption
                      PROVE  Permission!Spec => []Permission!NearestWins
<1>1. Permission!Init => Grants
  <2> SUFFICES ASSUME Permission!Init PROVE Grants
    OBVIOUS
  <2>1. Loads
    BY DEF Permission!Init, Permission!Idle, Loads, Loading, Made
  <2>2. QED BY <2>1 DEF Permission!Init, Permission!Idle, Grants
<1>2. Grants => Permission!NearestWins
  <2> SUFFICES ASSUME Grants, NEW p \in Accounts, permissions[p] # None
               PROVE  \E layers \in Permission!Layers(p) : \A q \in Permission!Asked :
                          NearestIn(layers, permissions[p], q)
    BY DEF Permission!NearestWins, NearestIn
  <2>1. PICK layers \in Permission!Layers(p) : /\ \E n \in Nat : DOMAIN layers = 1 .. n
                                               /\ Decides(layers, permissions[p])
    <3>1. PICK g, f, u : Granted(g, f, u, p)
      BY DEF Grants
    <3>2. QED BY <3>1, GrantedDecides
  <2>2. ASSUME NEW q \in Permission!Asked PROVE NearestIn(layers, permissions[p], q)
    <3>1. Permission!IsSequence(q)
      BY DEF Permission!PermissionsAssumption
    <3>2. QED BY <2>1, <3>1, DecidesNearest
  <2>3. QED BY <2>1, <2>2
<1>3. QED BY <1>1, <1>2, StepGrants, PTL DEF Permission!Spec

-----------------------------------------------------------------------------
(* The chat filters together.                                              *)

\* Both histories are the last messages, oldest first, however commands, spies and logins
\* interleave: of a session's /msg, and of everybody's /helpop.
THEOREM HistoryAlwaysRecent == FiltersSpec => []HistoryRecent
<1>1. (Private!Spec => []Private!HistoryRecent) /\ (Config!Spec => []Config!HelpopRecent)
  BY HistoryHolds, HelpopHolds, ChatFiltersAssumption
<1>2. QED BY <1>1, EachKept, PTL DEF HistoryRecent

\* /r finds the other side of a conversation, whoever leaves, comes back or writes between
\* the steps of a message, which hold different locks; and it goes to somebody whose line the
\* player has never seen only when a full queue has dropped such a line.
THEOREM ReplyAlwaysFinds == FiltersSpec => []ReplyFinds
<1>1. Private!Spec => []Private!ReplyFinds
  BY ReplyHolds, ChatFiltersAssumption
<1>2. QED BY <1>1, EachKept, PTL DEF ReplyFinds

\* An ignore list stays within its size and, until it is full, holds what /ignore last said.
THEOREM IgnoreStaysBounded == FiltersSpec => []IgnoreBounded
<1>1. Private!Spec => []Private!IgnoreBounded
  BY IgnoreHolds, ChatFiltersAssumption
<1>2. QED BY <1>1, EachKept, PTL DEF IgnoreBounded

\* A /chatreload that no other overlapped takes effect as a whole and lasts, and the
\* automessage goroutine panics only when a reload has shortened its list.
THEOREM ReloadsTakeEffect == FiltersSpec => []ReloadTakesEffect
<1>1. Config!Spec => []Config!ReloadTakesEffect
  BY ReloadHolds, ChatFiltersAssumption
<1>2. QED BY <1>1, EachKept, PTL DEF ReloadTakesEffect

\* Two messages that a player whom slow mode applies to sends in one session are further apart
\* than its shortest time, on the chat and on /helpop each.
THEOREM SlowModeAlwaysHolds == FiltersSpec => []SlowModeHolds
<1>1. Config!Spec => []Config!SlowModeHolds
  BY SlowHolds, ChatFiltersAssumption
<1>2. QED BY <1>1, EachKept, PTL DEF SlowModeHolds

\* No status is answered with a MOTD that was read longer than TTL before.
THEOREM MotdStaysFresh == FiltersSpec => []MotdFresh
<1>1. Config!Spec => []Config!MotdFresh
  BY MotdHolds, ChatFiltersAssumption
<1>2. QED BY <1>1, EachKept, PTL DEF MotdFresh

\* The users' permissions in force are made of the groups in force, however many reloads
\* overlap or fail and whatever happens to the files meanwhile.
THEOREM OneLoadInForce == FiltersSpec => []OneLoad
BY LoadHolds, EachKept, PTL DEF OneLoad

\* However often the files were reloaded before and after a player logged in, its permissions
\* are decided by the entry nearest to the one asked for, of the last group that has it.
THEOREM NearestAlwaysWins == FiltersSpec => []NearestWins
<1>1. Permission!Spec => []Permission!NearestWins
  BY NearestHolds, ChatFiltersAssumption
<1>2. QED BY <1>1, EachKept, PTL DEF NearestWins

-----------------------------------------------------------------------------
(* The bit array.                                                          *)

Words == (2 * MaxPacketID) \div Word

\* Every slot has a place of its own in the bit array.
LEMMA Places ==
    /\ \A i \in Slots : i \div Word \in 0 .. Words - 1 /\ i % Word \in 0 .. Word - 1
    /\ \A i, j \in Slots : i \div Word = j \div Word /\ i % Word = j % Word => i = j
<1>1. /\ Word \in Nat \ {0} /\ MaxPacketID \in Nat \ {0} /\ (2 * MaxPacketID) % Word = 0
      /\ Slots \subseteq Nat /\ \A i \in Slots : i < 2 * MaxPacketID
  BY DispatchAssumption DEF Slots
<1>2. ASSUME NEW n \in Nat
      PROVE  /\ n \div Word \in Nat /\ n % Word \in 0 .. Word - 1
             /\ n = (Word * (n \div Word)) + (n % Word)
  BY <1>1
<1>3. 2 * MaxPacketID = Word * Words /\ Words \in Nat
  BY <1>1, <1>2 DEF Words
<1>4. ASSUME NEW i \in Slots
      PROVE  i \div Word \in 0 .. Words - 1
  <2>1. PICK a \in Nat, b \in 0 .. Word - 1 : a = i \div Word /\ i = Word * a + b
    BY <1>1, <1>2
  <2>2. Word * a < Word * Words
    BY <1>1, <1>3, <2>1
  <2>3. a < Words
    BY <1>1, <1>3, <2>2
  <2>4. QED BY <1>3, <2>1, <2>3
<1>5. QED BY <1>1, <1>2, <1>4

\* Set, on a bit that is 0 or 1, makes that bit 1 and leaves the others.
LEMMA SetAdds ==
    ASSUME packetsParsed \in [0 .. Words - 1 -> SUBSET (0 .. Word - 1)], NEW i \in Slots
    PROVE  /\ Set(i, TRUE) \in [0 .. Words - 1 -> SUBSET (0 .. Word - 1)]
           /\ \A j \in Slots : j % Word \in Set(i, TRUE)[j \div Word] <=> Get(j) \/ j = i
<1> DEFINE w == i \div Word  b == i % Word
<1>1. w \in 0 .. Words - 1 /\ b \in 0 .. Word - 1
  BY Places
<1>2. Set(i, TRUE) = [packetsParsed EXCEPT ![w] = packetsParsed[w] \cup {b}]
  <2>1. packetsParsed[w] \subseteq 0 .. Word - 1
    BY <1>1
  <2>2. Xor(packetsParsed[w], Xor(0 .. Word - 1, packetsParsed[w]) \cap {b}) = packetsParsed[w] \cup {b}
    BY <1>1, <2>1 DEF Xor
  <2>3. QED BY <2>2 DEF Set
<1>3. Set(i, TRUE) \in [0 .. Words - 1 -> SUBSET (0 .. Word - 1)]
  BY <1>1, <1>2
<1>4. ASSUME NEW j \in Slots
      PROVE  j % Word \in Set(i, TRUE)[j \div Word] <=> Get(j) \/ j = i
  <2>1. j \div Word \in 0 .. Words - 1
    BY Places
  <2>2. j \div Word = w /\ j % Word = b <=> j = i
    BY Places
  <2> HIDE DEF w, b
  <2>3. QED BY <1>1, <1>2, <2>1, <2>2 DEF Get
<1>5. QED BY <1>3, <1>4

\* The halves of the table: no two packets share a slot.
LEMMA OwnSlots ==
    /\ \A dir \in Direction, id \in 0 .. MaxPacketID - 1 : Slot(dir, id) \in Slots
    /\ \A d1 \in Direction, d2 \in Direction, id1 \in 0 .. MaxPacketID - 1, id2 \in 0 .. MaxPacketID - 1 :
          Slot(d1, id1) = Slot(d2, id2) => d1 = d2 /\ id1 = id2
<1>1. Direction = {1, 2} /\ MaxPacketID \in Nat \ {0}
  BY DispatchAssumption DEF Direction, ServerBound, ClientBound
<1>2. \A id \in Int : Slot(1, id) = id /\ Slot(2, id) = MaxPacketID + id
  BY <1>1 DEF Slot
<1>3. QED BY <1>1, <1>2 DEF Slots

-----------------------------------------------------------------------------
(* The order of the filters.                                               *)

Registrations == [dir : Direction, id : 0 .. MaxPacketID - 1, filter : Filters]

\* InOrder of the calls in reg.
Ordered(reg, q, calls) ==
    \E place \in [1 .. Len(q) -> calls] :
        /\ \A i, j \in 1 .. Len(q) : i < j => place[i] < place[j]
        /\ \A k \in calls : \E i \in 1 .. Len(q) : place[i] = k
        /\ \A i \in 1 .. Len(q) : q[i] = reg[place[i]].filter

\* The filters that have run so far are those of the calls up to the last of theirs.
LEMMA OrderedPrefix ==
    ASSUME NEW reg \in Seq(Registrations), NEW calls, calls \subseteq DOMAIN reg,
           NEW q \in Seq(Filters), Ordered(reg, q, calls),
           NEW r \in Seq(Filters), Len(r) <= Len(q), \A i \in 1 .. Len(r) : r[i] = q[i]
    PROVE  \E n \in 0 .. Len(reg) : Ordered(reg, r, {k \in calls : k <= n})
<1>1. /\ DOMAIN q = 1 .. Len(q) /\ DOMAIN r = 1 .. Len(r) /\ DOMAIN reg = 1 .. Len(reg)
      /\ Len(q) \in Nat /\ Len(r) \in Nat /\ Len(reg) \in Nat
      /\ \A k \in calls : k \in 1 .. Len(reg)
  OBVIOUS
<1>2. PICK place \in [1 .. Len(q) -> calls] :
         /\ \A i, j \in 1 .. Len(q) : i < j => place[i] < place[j]
         /\ \A k \in calls : \E i \in 1 .. Len(q) : place[i] = k
         /\ \A i \in 1 .. Len(q) : q[i] = reg[place[i]].filter
  BY <1>1 DEF Ordered
<1>3. CASE Len(r) = 0
  <2> DEFINE none == {k \in calls : k <= 0}
  <2>1. none = {} /\ 1 .. Len(r) = {} /\ 0 \in 0 .. Len(reg)
    BY <1>1, <1>3
  <2>2. [i \in {} |-> 0] \in [{} -> {}]
    OBVIOUS
  <2> HIDE DEF none
  <2>3. Ordered(reg, r, none)
    BY <2>1, <2>2 DEF Ordered
  <2>4. QED BY <2>1, <2>3 DEF none
<1>4. CASE Len(r) # 0
  <2>1. Len(r) \in 1 .. Len(q) /\ \A i \in 1 .. Len(r) : i \in 1 .. Len(q)
    BY <1>1, <1>4
  <2> DEFINE n == place[Len(r)]  p == [i \in 1 .. Len(r) |-> place[i]]
  <2>2. n \in 0 .. Len(reg) /\ \A i \in 1 .. Len(q) : place[i] \in calls /\ place[i] \in 1 .. Len(reg)
    BY <1>1, <1>2, <2>1
  <2>3. \A i \in 1 .. Len(r) : place[i] <= n
    BY <1>1, <1>2, <2>1, <2>2
  <2>4. \A i \in 1 .. Len(q) : place[i] <= n => i \in 1 .. Len(r)
    BY <1>1, <1>2, <2>1, <2>2
  <2>5. p \in [1 .. Len(r) -> {k \in calls : k <= n}]
    BY <1>2, <2>1, <2>3
  <2>6. \A i, j \in 1 .. Len(r) : i < j => p[i] < p[j]
    BY <1>2, <2>1
  <2>7. \A k \in {l \in calls : l <= n} : \E i \in 1 .. Len(r) : p[i] = k
    BY <1>2, <2>4
  <2>8. \A i \in 1 .. Len(r) : r[i] = reg[p[i]].filter
    BY <1>2, <2>1
  <2> HIDE DEF p, n
  <2>9. Ordered(reg, r, {k \in calls : k <= n})
    BY <1>1, <2>5, <2>6, <2>7, <2>8 DEF Ordered
  <2>10. QED BY <2>2, <2>9
<1>5. QED BY <1>3, <1>4

\* A call adds its filter at the end.
LEMMA OrderedAppend ==
    ASSUME NEW reg \in Seq(Registrations), NEW calls, calls \subseteq DOMAIN reg,
           NEW q \in Seq(Filters), Ordered(reg, q, calls), NEW c \in Registrations
    PROVE  /\ Ordered(Append(reg, c), q, calls)
           /\ Ordered(Append(reg, c), Append(q, c.filter), calls \cup {Len(reg) + 1})
<1> DEFINE reg2 == Append(reg, c)  q2 == Append(q, c.filter)  calls2 == calls \cup {Len(reg) + 1}
<1>1. /\ DOMAIN q = 1 .. Len(q) /\ Len(q) \in Nat /\ Len(reg) \in Nat
      /\ \A k \in calls : k \in 1 .. Len(reg) /\ reg2[k] = reg[k]
      /\ reg2[Len(reg) + 1] = c
  OBVIOUS
<1>2. /\ Len(q2) = Len(q) + 1 /\ q2[Len(q) + 1] = c.filter
      /\ \A i \in 1 .. Len(q) : q2[i] = q[i]
  BY DEF Registrations
<1> HIDE DEF reg2, q2
<1>3. PICK place \in [1 .. Len(q) -> calls] :
         /\ \A i, j \in 1 .. Len(q) : i < j => place[i] < place[j]
         /\ \A k \in calls : \E i \in 1 .. Len(q) : place[i] = k
         /\ \A i \in 1 .. Len(q) : q[i] = reg[place[i]].filter
  BY <1>1 DEF Ordered
<1>4. \A i \in 1 .. Len(q) : place[i] \in calls
  BY <1>3
<1>5. \A i \in 1 .. Len(q) : q[i] = reg2[place[i]].filter
  BY <1>1, <1>3, <1>4
<1>6. Ordered(reg2, q, calls)
  BY <1>1, <1>3, <1>5 DEF Ordered
<1> DEFINE p == [i \in 1 .. Len(q) + 1 |-> IF i = Len(q) + 1 THEN Len(reg) + 1 ELSE place[i]]
<1>7. /\ \A i \in 1 .. Len(q) + 1 : i \in 1 .. Len(q) \/ i = Len(q) + 1
      /\ \A i \in 1 .. Len(q) : i \in 1 .. Len(q) + 1 /\ i # Len(q) + 1
      /\ Len(q) + 1 \in 1 .. Len(q) + 1
  BY <1>1
<1>8. p[Len(q) + 1] = Len(reg) + 1 /\ \A i \in 1 .. Len(q) : p[i] = place[i]
  BY <1>7
<1>9. p \in [1 .. Len(q) + 1 -> calls2]
  BY <1>4, <1>7
<1> HIDE DEF p
<1>10. ASSUME NEW i \in 1 .. Len(q) + 1, NEW j \in 1 .. Len(q) + 1, i < j
       PROVE  p[i] < p[j]
  <2>1. i \in 1 .. Len(q) /\ p[i] = place[i] /\ place[i] \in 1 .. Len(reg)
    <3>1. i \in 1 .. Len(q)
      BY <1>1, <1>10
    <3>2. QED BY <1>1, <1>4, <1>8, <3>1
  <2>2. CASE j = Len(q) + 1
    BY <1>1, <1>8, <2>1, <2>2
  <2>3. CASE j # Len(q) + 1
    <3>1. j \in 1 .. Len(q) /\ p[j] = place[j]
      BY <1>7, <1>8, <2>3
    <3>2. QED BY <1>3, <1>10, <2>1, <3>1
  <2>4. QED BY <2>2, <2>3
<1>11. \A k \in calls2 : \E i \in 1 .. Len(q) + 1 : p[i] = k
  BY <1>3, <1>7, <1>8
<1>12. \A i \in 1 .. Len(q) + 1 : q2[i] = reg2[p[i]].filter
  BY <1>1, <1>2, <1>5, <1>7, <1>8
<1> HIDE DEF calls2
<1>13. Ordered(reg2, q2, calls2)
  <2>1. p \in [1 .. Len(q2) -> calls2] /\ \A i, j \in 1 .. Len(q2) : i < j => p[i] < p[j]
    BY <1>2, <1>9, <1>10
  <2>2. /\ \A k \in calls2 : \E i \in 1 .. Len(q2) : p[i] = k
        /\ \A i \in 1 .. Len(q2) : q2[i] = reg2[p[i]].filter
    BY <1>2, <1>11, <1>12
  <2>3. QED BY <2>1, <2>2 DEF Ordered
<1>14. QED BY <1>6, <1>13 DEF reg2, q2, calls2

-----------------------------------------------------------------------------
(* The tables and the packets on their way.                                *)

CallsIn(reg, dir, id) == {k \in DOMAIN reg : reg[k].dir = dir /\ reg[k].id = id}

\* The calls for a packet, after one more call.
LEMMA CallsAppend ==
    ASSUME NEW reg \in Seq(Registrations), NEW c \in Registrations, NEW dir, NEW id
    PROVE  CallsIn(Append(reg, c), dir, id) =
               IF c.dir = dir /\ c.id = id THEN CallsIn(reg, dir, id) \cup {Len(reg) + 1}
               ELSE CallsIn(reg, dir, id)
<1> DEFINE reg2 == Append(reg, c)
<1>1. /\ DOMAIN reg = 1 .. Len(reg) /\ DOMAIN reg2 = 1 .. Len(reg) + 1 /\ Len(reg) \in Nat
      /\ \A k \in 1 .. Len(reg) : reg2[k] = reg[k]
      /\ reg2[Len(reg) + 1] = c
  OBVIOUS
<1>2. /\ \A k \in 1 .. Len(reg) + 1 : k \in 1 .. Len(reg) \/ k = Len(reg) + 1
      /\ \A k \in 1 .. Len(reg) : k \in 1 .. Len(reg) + 1
      /\ Len(reg) + 1 \in 1 .. Len(reg) + 1
  BY <1>1
<1> HIDE DEF reg2
<1>3. CallsIn(reg2, dir, id) = IF c.dir = dir /\ c.id = id
                               THEN CallsIn(reg, dir, id) \cup {Len(reg) + 1}
                               ELSE CallsIn(reg, dir, id)
  BY <1>1, <1>2 DEF CallsIn
<1>4. QED BY <1>3 DEF reg2

Packets ==
    [dir : Direction, id : 0 .. MaxPacketID,
     at : {"read", "panic", "written", "error", "dispatch", "dropped"}, parsed : BOOLEAN,
     ran : Seq(Filters), rets : Seq({"nil", "drop", "error"})]

\* The filters in the table are those of the calls, and exactly their bits are set.
Tabled ==
    /\ packetsParsed \in [0 .. Words - 1 -> SUBSET (0 .. Word - 1)]
    /\ packetFilters \in [Slots -> Seq(Filters)]
    /\ registered \in Seq(Registrations)
    /\ \A dir \in Direction, id \in 0 .. MaxPacketID - 1 :
          /\ Ordered(registered, packetFilters[Slot(dir, id)], CallsIn(registered, dir, id))
          /\ Get(Slot(dir, id)) <=> CallsIn(registered, dir, id) # {}

\* The filters that have run are the first of the packet's slot, and none has objected
\* before the last.
Followed(p) ==
    /\ p \in Packets
    /\ \/ p.ran = <<>>
       \/ /\ p.id \in 0 .. MaxPacketID - 1
          /\ Len(p.ran) <= Len(packetFilters[Slot(p.dir, p.id)])
          /\ \A i \in 1 .. Len(p.ran) : p.ran[i] = packetFilters[Slot(p.dir, p.id)][i]
    /\ \A k \in 1 .. Len(p.rets) - 1 : p.rets[k] = "nil"
    /\ p.at \in {"dispatch", "written"} => \A k \in 1 .. Len(p.rets) : p.rets[k] = "nil"
    /\ p.at = "read" => p.ran = <<>> /\ p.rets = <<>>
    /\ p.at = "dispatch" => p.id \in 0 .. MaxPacketID - 1
    /\ p.at = "written" => Ordered(registered, p.ran, CallsIn(registered, p.dir, p.id))

Dispatched == Tabled /\ (packet # NoPacket => serving /\ Followed(packet))

\* A registration puts its filter last in its slot, and its bit is set.
LEMMA RegisterTabled ==
    ASSUME Tabled, NEW dir \in Direction, NEW id \in 0 .. MaxPacketID - 1, NEW f \in Filters,
           RegisterPacketFilter(dir, id, f)
    PROVE  Tabled'
<1> DEFINE i == Slot(dir, id)  c == [dir |-> dir, id |-> id, filter |-> f]
<1>1. MaxPacketID \in Nat \ {0} /\ i \in Slots
  BY OwnSlots, DispatchAssumption
<1>2. i = IF dir = ServerBound THEN id ELSE id + MaxPacketID
  BY <1>1 DEF Slot, Direction, ServerBound, ClientBound
<1>3. c \in Registrations /\ c.filter = f /\ c.dir = dir /\ c.id = id
  BY DEF Registrations
<1>4. /\ packetFilters' = [packetFilters EXCEPT ![i] = Append(packetFilters[i], f)]
      /\ packetsParsed' = Set(i, TRUE)
      /\ registered' = Append(registered, c)
  BY <1>2 DEF RegisterPacketFilter
<1> HIDE DEF i, c
<1>5. /\ packetsParsed \in [0 .. Words - 1 -> SUBSET (0 .. Word - 1)]
      /\ packetFilters \in [Slots -> Seq(Filters)] /\ registered \in Seq(Registrations)
  BY DEF Tabled
<1>6. /\ packetsParsed' \in [0 .. Words - 1 -> SUBSET (0 .. Word - 1)]
      /\ \A j \in Slots : Get(j)' <=> Get(j) \/ j = i
  BY <1>1, <1>4, <1>5, SetAdds DEF Get
<1>7. packetFilters[i] \in Seq(Filters) /\ Append(packetFilters[i], f) \in Seq(Filters)
  BY <1>1, <1>5
<1>8. packetFilters' \in [Slots -> Seq(Filters)] /\ registered' \in Seq(Registrations)
  <2>1. packetFilters' \in [Slots -> Seq(Filters)]
    BY <1>4, <1>5, <1>7
  <2>2. Append(registered, c) \in Seq(Registrations)
    BY <1>3, <1>5, AppendProperties
  <2>3. QED BY <1>4, <2>1, <2>2
<1>9. ASSUME NEW d \in Direction, NEW e \in 0 .. MaxPacketID - 1
      PROVE  /\ Ordered(registered', packetFilters'[Slot(d, e)], CallsIn(registered', d, e))
             /\ Get(Slot(d, e))' <=> CallsIn(registered', d, e) # {}
  <2> DEFINE calls == CallsIn(registered, d, e)  q == packetFilters[Slot(d, e)]
  <2>1. Slot(d, e) \in Slots /\ (Slot(d, e) = i <=> d = dir /\ e = id)
    BY OwnSlots DEF i
  <2>2. /\ q \in Seq(Filters) /\ calls \subseteq DOMAIN registered
        /\ Ordered(registered, q, calls) /\ (Get(Slot(d, e)) <=> calls # {})
    BY <1>5, <2>1 DEF Tabled, CallsIn
  <2>3. CallsIn(registered', d, e) = IF d = dir /\ e = id THEN calls \cup {Len(registered) + 1}
                                     ELSE calls
    BY <1>3, <1>4, <1>5, CallsAppend
  <2>4. packetFilters'[Slot(d, e)] = IF d = dir /\ e = id THEN Append(q, f) ELSE q
    BY <1>4, <1>5, <2>1
  <2>5. Get(Slot(d, e))' <=> Get(Slot(d, e)) \/ Slot(d, e) = i
    BY <1>6, <2>1 DEF Get, Slot
  <2> HIDE DEF calls, q
  <2>6. /\ Ordered(registered', q, calls)
        /\ Ordered(registered', Append(q, f), calls \cup {Len(registered) + 1})
    BY <1>3, <1>4, <1>5, <2>2, OrderedAppend
  <2>7. Ordered(registered', packetFilters'[Slot(d, e)], CallsIn(registered', d, e))
    BY <2>3, <2>4, <2>6
  <2>8. Get(Slot(d, e))' <=> CallsIn(registered', d, e) # {}
    BY <2>1, <2>2, <2>3, <2>5
  <2>9. QED BY <2>7, <2>8
<1>10. QED BY <1>6, <1>8, <1>9 DEF Tabled, Slot, Get, Ordered, CallsIn

\* Without calls there are no filters.
LEMMA NoFilters ==
    ASSUME NEW reg
    PROVE  Ordered(reg, <<>>, {})
<1>1. [i \in {} |-> 0] \in [{} -> {}] /\ 1 .. Len(<<>>) = {}
  OBVIOUS
<1>2. QED BY <1>1 DEF Ordered

\* read_packets parses a packet, or it has no filters.
LEMMA ParseFollowed ==
    ASSUME Tabled, packet # NoPacket, Followed(packet), Parse
    PROVE  Followed(packet')
<1> DEFINE p == packet  i == Slot(p.dir, p.id)
<1>1. /\ p \in Packets /\ p.ran = <<>> /\ p.rets = <<>> /\ p.at = "read"
      /\ p.dir \in Direction /\ p.id \in 0 .. MaxPacketID
  BY DEF Followed, Parse, Packets
<1>2. MaxPacketID \in Nat \ {0} /\ Implemented \subseteq Direction \X (0 .. MaxPacketID - 1)
  BY DispatchAssumption
<1>3. \/ packet' = [p EXCEPT !.at = "panic"]
      \/ ~Get(i) /\ packet' = [p EXCEPT !.at = "written"]
      \/ packet' = [p EXCEPT !.at = "error"]
      \/ /\ <<p.dir, p.id>> \in Implemented
         /\ packet' = [p EXCEPT !.at = "dispatch", !.parsed = TRUE]
  BY DEF Parse
<1> HIDE DEF p
<1>4. CASE packet' = [p EXCEPT !.at = "panic"] \/ packet' = [p EXCEPT !.at = "error"]
  <2> DEFINE r == packet'
  <2>1. /\ r \in Packets /\ r.ran = <<>> /\ r.rets = <<>> /\ r.at \in {"panic", "error"}
    BY <1>1, <1>4 DEF Packets
  <2> HIDE DEF r
  <2>2. Followed(r)
    BY <2>1 DEF Followed
  <2>3. QED BY <2>2 DEF r
<1>5. CASE ~Get(i) /\ packet' = [p EXCEPT !.at = "written"]
  <2> DEFINE r == packet'
  <2>1. /\ r \in Packets /\ r.ran = <<>> /\ r.rets = <<>> /\ r.at = "written"
        /\ r.dir = p.dir /\ r.id = p.id
    BY <1>1, <1>5 DEF Packets
  <2>2. CallsIn(registered, p.dir, p.id) = {}
    <3>1. CASE p.id \in 0 .. MaxPacketID - 1
      BY <1>1, <1>5, <3>1 DEF Tabled
    <3>2. CASE p.id \notin 0 .. MaxPacketID - 1
      <4>1. \A k \in DOMAIN registered : registered[k].id \in 0 .. MaxPacketID - 1
        <5>1. registered \in Seq(Registrations)
          BY DEF Tabled
        <5>2. \A k \in DOMAIN registered : registered[k] \in Registrations
          BY <5>1
        <5>3. QED BY <5>2 DEF Registrations
      <4>2. QED BY <3>2, <4>1 DEF CallsIn
    <3>3. QED BY <3>1, <3>2
  <2> HIDE DEF r
  <2>3. Ordered(registered, r.ran, CallsIn(registered, r.dir, r.id))
    BY <2>1, <2>2, NoFilters
  <2>4. Followed(r)
    BY <2>1, <2>3 DEF Followed
  <2>5. QED BY <2>4 DEF r
<1>6. CASE /\ <<p.dir, p.id>> \in Implemented
           /\ packet' = [p EXCEPT !.at = "dispatch", !.parsed = TRUE]
  <2> DEFINE r == packet'
  <2>1. p.id \in 0 .. MaxPacketID - 1
    BY <1>2, <1>6
  <2>2. /\ r \in Packets /\ r.ran = <<>> /\ r.rets = <<>> /\ r.at = "dispatch" /\ r.id = p.id
    BY <1>1, <1>6 DEF Packets
  <2> HIDE DEF r
  <2>3. Followed(r)
    BY <2>1, <2>2 DEF Followed
  <2>4. QED BY <2>3 DEF r
<1>7. QED BY <1>3, <1>4, <1>5, <1>6 DEF p

\* dispatchPacket calls the next filter of the packet's slot.
LEMMA FilterFollowed ==
    ASSUME Tabled, packet # NoPacket, Followed(packet),
           NEW ret \in {"nil", "drop", "error"}, Filter(ret)
    PROVE  Followed(packet')
<1> DEFINE p == packet
<1>1. p \in Packets /\ p.at = "dispatch" /\ p.id \in 0 .. MaxPacketID - 1 /\ p.dir \in Direction
      /\ p.ran \in Seq(Filters) /\ p.rets \in Seq({"nil", "drop", "error"})
  BY DEF Followed, Filter, Packets
<1> DEFINE bucket == packetFilters[Slot(p.dir, p.id)]  k == Len(p.ran) + 1
           ran2 == Append(p.ran, bucket[k])  rets2 == Append(p.rets, ret)
           at2 == CASE ret = "nil" -> p.at [] ret = "drop" -> "dropped" [] OTHER -> "error"
           r == packet'
<1>2. bucket \in Seq(Filters) /\ k <= Len(bucket) /\ k \in 1 .. Len(bucket) /\ Len(p.ran) \in Nat
  <2>1. Slot(p.dir, p.id) \in Slots
    BY <1>1, OwnSlots
  <2>2. bucket \in Seq(Filters) /\ k <= Len(bucket)
    BY <2>1 DEF Tabled, Filter
  <2>3. QED BY <1>1, <2>2
<1>3. r = [p EXCEPT !.ran = ran2, !.rets = rets2, !.at = at2]
  BY <1>1 DEF Filter, Packets
<1> HIDE DEF p, bucket
<1>4. /\ ran2 \in Seq(Filters) /\ Len(ran2) = k /\ ran2[k] = bucket[k]
      /\ \A i \in 1 .. Len(p.ran) : ran2[i] = p.ran[i]
  BY <1>1, <1>2
<1>5. /\ rets2 \in Seq({"nil", "drop", "error"}) /\ Len(rets2) = Len(p.rets) + 1
      /\ rets2[Len(p.rets) + 1] = ret /\ Len(p.rets) \in Nat
      /\ \A i \in 1 .. Len(p.rets) : rets2[i] = p.rets[i]
  BY <1>1
<1>6. at2 \in {"dispatch", "dropped", "error"} /\ (at2 = "dispatch" => ret = "nil")
  BY <1>1
<1> HIDE DEF ran2, rets2, at2, r
<1>7. /\ r \in Packets /\ r.ran = ran2 /\ r.rets = rets2 /\ r.at = at2
      /\ r.dir = p.dir /\ r.id = p.id
  BY <1>1, <1>3, <1>4, <1>5, <1>6 DEF Packets
<1>8. \A i \in 1 .. k : ran2[i] = bucket[i]
  <2>1. p.ran = <<>> \/ \A i \in 1 .. Len(p.ran) : p.ran[i] = bucket[i]
    BY DEF Followed, p, bucket
  <2>2. \A i \in 1 .. Len(p.ran) : p.ran[i] = bucket[i]
    <3>1. CASE p.ran = <<>>
      <4>1. Len(p.ran) = 0
        BY <3>1
      <4>2. QED BY <4>1
    <3>2. QED BY <2>1, <3>1
  <2>3. \A i \in 1 .. k : i \in 1 .. Len(p.ran) \/ i = k
    BY <1>2
  <2>4. QED BY <1>4, <2>2, <2>3
<1>9. \A i \in 1 .. Len(p.rets) : rets2[i] = "nil"
  BY <1>1, <1>5 DEF Followed, p
<1>10. ret = "nil" => \A i \in 1 .. Len(rets2) : rets2[i] = "nil"
  <2>1. \A i \in 1 .. Len(rets2) : i \in 1 .. Len(p.rets) \/ i = Len(p.rets) + 1
    BY <1>5
  <2>2. QED BY <1>5, <1>9, <2>1
<1>11. Len(rets2) - 1 = Len(p.rets)
  BY <1>5
<1>12. Followed(r)
  <2>1. /\ r.id \in 0 .. MaxPacketID - 1
        /\ Len(r.ran) <= Len(packetFilters[Slot(r.dir, r.id)])
        /\ \A i \in 1 .. Len(r.ran) : r.ran[i] = packetFilters[Slot(r.dir, r.id)][i]
    BY <1>1, <1>2, <1>4, <1>7, <1>8 DEF bucket
  <2>2. /\ \A i \in 1 .. Len(r.rets) - 1 : r.rets[i] = "nil"
        /\ r.at = "dispatch" => \A i \in 1 .. Len(r.rets) : r.rets[i] = "nil"
    BY <1>6, <1>7, <1>9, <1>10, <1>11
  <2>3. r.at \notin {"read", "written"}
    BY <1>6, <1>7
  <2>4. QED BY <1>7, <2>1, <2>2, <2>3 DEF Followed
<1>13. QED BY <1>12 DEF r

\* handlePacket passes a packet on when its filters have all run.
LEMMA PassFollowed ==
    ASSUME Tabled, packet # NoPacket, Followed(packet), PassOn
    PROVE  Followed(packet')
<1> DEFINE p == packet  bucket == packetFilters[Slot(p.dir, p.id)]  r == packet'
<1>1. /\ p \in Packets /\ p.at = "dispatch" /\ p.id \in 0 .. MaxPacketID - 1 /\ p.dir \in Direction
      /\ p.ran \in Seq(Filters) /\ Len(p.ran) = Len(bucket) /\ r = [p EXCEPT !.at = "written"]
      /\ \A k \in 1 .. Len(p.rets) : p.rets[k] = "nil"
      /\ \A k \in 1 .. Len(p.rets) - 1 : p.rets[k] = "nil"
  BY DEF Followed, PassOn, Packets
<1>2. /\ bucket \in Seq(Filters)
      /\ Ordered(registered, bucket, CallsIn(registered, p.dir, p.id))
  <2>1. Slot(p.dir, p.id) \in Slots
    BY <1>1, OwnSlots
  <2>2. QED BY <1>1, <2>1 DEF Tabled
<1>3. \A i \in 1 .. Len(p.ran) : p.ran[i] = bucket[i]
  <2>1. CASE p.ran = <<>>
    <3>1. Len(p.ran) = 0
      BY <2>1
    <3>2. QED BY <3>1
  <2>2. CASE p.ran # <<>>
    BY <2>2 DEF Followed
  <2>3. QED BY <2>1, <2>2
<1> HIDE DEF p, bucket
<1>4. p.ran = bucket
  BY <1>1, <1>2, <1>3, SeqEqual
<1> HIDE DEF r
<1>5. /\ r \in Packets /\ r.ran = p.ran /\ r.rets = p.rets /\ r.at = "written"
      /\ r.dir = p.dir /\ r.id = p.id
  BY <1>1 DEF Packets
<1>6. Ordered(registered, r.ran, CallsIn(registered, r.dir, r.id))
  BY <1>2, <1>4, <1>5
<1>7. /\ r.id \in 0 .. MaxPacketID - 1
      /\ Len(r.ran) <= Len(packetFilters[Slot(r.dir, r.id)])
      /\ \A i \in 1 .. Len(r.ran) : r.ran[i] = packetFilters[Slot(r.dir, r.id)][i]
  <2>1. Len(bucket) \in Nat /\ Len(r.ran) = Len(bucket) /\ bucket = packetFilters[Slot(r.dir, r.id)]
    BY <1>1, <1>2, <1>5 DEF bucket
  <2>2. QED BY <1>1, <1>3, <1>5, <2>1
<1>8. Followed(r)
  BY <1>1, <1>5, <1>6, <1>7 DEF Followed
<1>9. QED BY <1>8 DEF r

\* Registrations come before packets; a packet's way touches no table.
LEMMA StepDispatched == Dispatched /\ [Next]_vars => Dispatched'
<1> SUFFICES ASSUME Dispatched, [Next]_vars PROVE Dispatched'
  OBVIOUS
<1>1. Tabled /\ (packet # NoPacket => serving /\ Followed(packet))
  BY DEF Dispatched
<1>2. Tabled /\ UNCHANGED <<packetsParsed, packetFilters, registered>> => Tabled'
  BY DEF Tabled, Slot, Get, Ordered, CallsIn
<1>3. ASSUME UNCHANGED <<packetsParsed, packetFilters, registered, serving>>, serving,
             Followed(packet')
      PROVE  Dispatched'
  BY <1>1, <1>2, <1>3 DEF Dispatched, Followed, Slot, Ordered, CallsIn
<1>4. CASE UNCHANGED vars
  BY <1>1, <1>2, <1>4 DEF vars, Dispatched, Followed, Slot, Ordered, CallsIn
<1>5. ASSUME NEW pair \in Implemented \cup (Direction \X {MaxPacketID - 1}), NEW f \in Filters,
             RegisterPacketFilter(pair[1], pair[2], f)
      PROVE  Dispatched'
  <2>1. pair[1] \in Direction /\ pair[2] \in 0 .. MaxPacketID - 1
    BY DispatchAssumption
  <2>2. Tabled'
    BY <1>1, <1>5, <2>1, RegisterTabled
  <2>3. packet' = NoPacket
    BY <1>1, <1>5 DEF RegisterPacketFilter
  <2>4. QED BY <2>2, <2>3 DEF Dispatched
<1>6. CASE Serve
  BY <1>1, <1>2, <1>6 DEF Serve, Dispatched
<1>7. ASSUME NEW dir \in Direction, NEW id \in Ids, ReadPacket(dir, id)
      PROVE  Dispatched'
  <2> DEFINE r == [dir |-> dir, id |-> id, at |-> "read", parsed |-> FALSE, ran |-> <<>>,
                   rets |-> <<>>]
  <2>1. id \in 0 .. MaxPacketID
    BY DispatchAssumption
  <2>2. r \in Packets /\ r.ran = <<>> /\ r.rets = <<>> /\ r.at = "read"
    BY <2>1 DEF Packets
  <2> HIDE DEF r
  <2>3. Followed(r)
    BY <2>2 DEF Followed
  <2>4. packet' = r /\ serving /\ UNCHANGED <<packetsParsed, packetFilters, registered, serving>>
    BY <1>7 DEF ReadPacket, r
  <2>5. QED BY <1>3, <2>3, <2>4
<1>8. CASE Parse
  <2>1. packet # NoPacket /\ UNCHANGED <<packetsParsed, packetFilters, registered, serving>>
    BY <1>8 DEF Parse
  <2>2. QED BY <1>1, <1>3, <1>8, <2>1, ParseFollowed
<1>9. ASSUME NEW ret \in {"nil", "drop", "error"}, Filter(ret)
      PROVE  Dispatched'
  <2>1. packet # NoPacket /\ UNCHANGED <<packetsParsed, packetFilters, registered, serving>>
    BY <1>9 DEF Filter
  <2>2. QED BY <1>1, <1>3, <1>9, <2>1, FilterFollowed
<1>10. CASE PassOn
  <2>1. packet # NoPacket /\ UNCHANGED <<packetsParsed, packetFilters, registered, serving>>
    BY <1>10 DEF PassOn
  <2>2. QED BY <1>1, <1>3, <1>10, <2>1, PassFollowed
<1>11. CASE Done
  <2>1. packet' = NoPacket /\ UNCHANGED <<packetsParsed, packetFilters, registered>>
    BY <1>11 DEF Done
  <2>2. QED BY <1>1, <1>2, <2>1 DEF Dispatched
<1>12. QED
  BY <1>4, <1>5, <1>6, <1>7, <1>8, <1>9, <1>10, <1>11 DEF Next

\* What filters register for is what they see: the bit array and the table of callbacks agree
\* on every packet, for any number of packets, any size of the words and whatever is registered
\* in which order, and a packet passes its filters in the order of registration.
THEOREM FilteredHolds == Spec => []Filtered
<1>1. Init => Dispatched
  <2> SUFFICES ASSUME Init PROVE Dispatched
    OBVIOUS
  <2>1. /\ packetsParsed = [w \in 0 .. Words - 1 |-> {}] /\ packetFilters = [i \in Slots |-> <<>>]
        /\ registered = <<>> /\ packet = NoPacket
    BY DEF Init, Words
  <2>2. ASSUME NEW dir \in Direction, NEW id \in 0 .. MaxPacketID - 1
        PROVE  /\ Ordered(registered, packetFilters[Slot(dir, id)], CallsIn(registered, dir, id))
               /\ Get(Slot(dir, id)) <=> CallsIn(registered, dir, id) # {}
    <3>1. Slot(dir, id) \in Slots /\ Slot(dir, id) \div Word \in 0 .. Words - 1
      BY OwnSlots, Places
    <3>2. packetFilters[Slot(dir, id)] = <<>> /\ CallsIn(registered, dir, id) = {}
      BY <2>1, <3>1 DEF CallsIn
    <3>3. ~Get(Slot(dir, id))
      BY <2>1, <3>1 DEF Get
    <3>4. QED BY <3>2, <3>3, NoFilters
  <2>3. QED BY <2>1, <2>2 DEF Dispatched, Tabled
<1>2. Dispatched => Filtered
  <2> SUFFICES ASSUME Dispatched PROVE Filtered
    OBVIOUS
  <2>1. /\ \A dir, id : Calls(dir, id) = CallsIn(registered, dir, id)
        /\ \A q, calls : InOrder(q, calls) <=> Ordered(registered, q, calls)
    BY DEF Calls, CallsIn, InOrder, Ordered
  <2>2. ParsedIffFiltered
    BY <2>1 DEF Dispatched, Tabled, ParsedIffFiltered
  <2>3. ASSUME packet # NoPacket
        PROVE  LET calls == Calls(packet.dir, packet.id)
               IN  /\ \E n \in 0 .. Len(registered) : InOrder(packet.ran, {k \in calls : k <= n})
                   /\ \A k \in 1 .. Len(packet.rets) - 1 : packet.rets[k] = "nil"
                   /\ packet.at = "written" =>
                          /\ InOrder(packet.ran, calls)
                          /\ \A k \in DOMAIN packet.rets : packet.rets[k] = "nil"
    <3> DEFINE calls == CallsIn(registered, packet.dir, packet.id)
    <3>1. /\ Followed(packet) /\ packet.dir \in Direction
          /\ packet.ran \in Seq(Filters) /\ packet.rets \in Seq({"nil", "drop", "error"})
          /\ registered \in Seq(Registrations) /\ calls \subseteq DOMAIN registered
      BY <2>3 DEF Dispatched, Tabled, Followed, Packets, CallsIn
    <3>2. \E n \in 0 .. Len(registered) : Ordered(registered, packet.ran, {k \in calls : k <= n})
      <4>1. CASE packet.ran = <<>>
        <5> DEFINE none == {k \in calls : k <= 0}
        <5>1. none = {} /\ 0 \in 0 .. Len(registered)
          BY <3>1
        <5> HIDE DEF none
        <5>2. Ordered(registered, packet.ran, none)
          BY <4>1, <5>1, NoFilters
        <5>3. QED BY <5>1, <5>2 DEF none
      <4>2. CASE packet.ran # <<>>
        <5> DEFINE bucket == packetFilters[Slot(packet.dir, packet.id)]
        <5>1. /\ packet.id \in 0 .. MaxPacketID - 1 /\ Len(packet.ran) <= Len(bucket)
              /\ \A i \in 1 .. Len(packet.ran) : packet.ran[i] = bucket[i]
          BY <3>1, <4>2 DEF Followed
        <5>2. bucket \in Seq(Filters) /\ Ordered(registered, bucket, calls)
          BY <3>1, <5>1, OwnSlots DEF Dispatched, Tabled
        <5> HIDE DEF bucket, calls
        <5>3. QED BY <3>1, <5>1, <5>2, OrderedPrefix
      <4>3. QED BY <4>1, <4>2
    <3>3. packet.at = "written" => /\ Ordered(registered, packet.ran, calls)
                                   /\ \A k \in DOMAIN packet.rets : packet.rets[k] = "nil"
      <4>1. DOMAIN packet.rets = 1 .. Len(packet.rets)
        BY <3>1
      <4>2. QED BY <3>1, <4>1 DEF Followed
    <3>4. \A k \in 1 .. Len(packet.rets) - 1 : packet.rets[k] = "nil"
      BY <3>1 DEF Followed
    <3> HIDE DEF calls
    <3>5. Calls(packet.dir, packet.id) = calls
      BY <2>1 DEF calls
    <3>6. QED BY <2>1, <3>2, <3>3, <3>4, <3>5
  <2>4. QED BY <2>2, <2>3 DEF Filtered, PassesFilters
<1>3. QED BY <1>1, <1>2, StepDispatched, PTL DEF Spec

=============================================================================
