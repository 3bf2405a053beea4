----------------------------- MODULE ChatConfig -----------------------------
(***************************************************************************)
(* Public chat of cloudychat and the configuration behind it: ChatFilter,  *)
(* /helpop, /chat, /chatreload, the automessage goroutine, the resource    *)
(* pack and the server list's ping with its cached MOTD.                   *)
(*                                                                         *)
(* chat.yml is read before globalChatLock is taken, so a reload is two     *)
(* steps.  GetPingData asks redis while it holds that lock; everything     *)
(* else that needs the lock is one step.  Of a configuration the model     *)
(* keeps the number of automessages, ChatOff and which MOTD and resource   *)
(* pack it has.  What is shown to players, and censorship, is left out;    *)
(* whether the rate limiter allows a message is arbitrary.                 *)
(*                                                                         *)
(* A player's clocks and textureAppliedKey are in the FilterData of its    *)
(* session: whoever logs in again starts without them.                     *)
(***************************************************************************)
EXTENDS Naturals, Sequences, FiniteSets

CONSTANTS
    Players,
    Bypass,         \* players with the permissions chatoff.bypass, slowmode.bypass and
                    \* censorship.bypass
    Moderators,     \* who may execute /chatreload and /chat
    Pings,          \* goroutines that handle status requests
    MaxAuto,        \* bound: automessages in chat.yml
    SlowMode,       \* what checkSlowmode may come to, in seconds (never below 3)
    TTL,            \* of the MOTD's cache entry (5)
    HistorySize,    \* length of helpopHistory (20)
    MaxTime,        \* bound: the clock
    MaxMessages,    \* bound: messages of a session to the chat, and of all sessions to /helpop
    MaxVersion,     \* bound: changes of chat.yml
    None

ConfigAssumption ==
    /\ SlowMode \subseteq Nat \ {0} /\ SlowMode # {} /\ TTL \in Nat /\ HistorySize \in Nat \ {0}
    /\ MaxTime \in Nat /\ MaxMessages \in Nat /\ MaxVersion \in Nat /\ MaxAuto \in Nat
    /\ Bypass \subseteq Players /\ None \notin Nat

VARIABLES
    now,
    file,       \* chat.yml: a configuration, its version, and whether it can be loaded
    config,     \* globalChatConfig
    nextAutoMessage,
    shortened,  \* history: a reload left nextAutoMessage outside the new list
    crashed,    \* an index out of range in the automessage goroutine
    reload,     \* /chatreload: what each moderator has loaded
    last,       \* LastChatTime and LastHelpopTime of each player's session; None is the zero time
    said,       \* history: when the messages of that session were let through
    helpop,     \* helpopHistory
    asked,      \* history: messages to /helpop
    applied,    \* players whose session has textureAppliedKey
    lock,       \* globalChatLock: None, or the ping that waits for redis
    motd,       \* motdCache: read, when its value was read, is history
    answer      \* history: when the MOTD of the last answered ping was read, and the answer

vars == <<now, file, config, nextAutoMessage, shortened, crashed, reload, last, said, helpop, asked,
          applied, lock, motd, answer>>

chat == <<last, said, helpop, asked, applied>>
auto == <<nextAutoMessage, shortened, crashed>>
ping == <<lock, motd, answer>>

NoClocks == [chat |-> None, helpop |-> None]
Nothing == [chat |-> <<>>, helpop |-> <<>>]

Init ==
    /\ now = 1
    /\ \E n \in 0 .. MaxAuto : file = [version |-> 0, auto |-> n, off |-> FALSE, ok |-> TRUE]
    /\ config = [version |-> 0, auto |-> file.auto, off |-> FALSE]
    /\ nextAutoMessage = 0 /\ shortened = FALSE /\ crashed = FALSE
    /\ reload = [m \in Moderators |-> [st |-> "idle", loaded |-> config, overlap |-> FALSE]]
    /\ last = [p \in Players |-> NoClocks]
    /\ said = [p \in Players |-> Nothing]
    /\ helpop = [k \in 1 .. HistorySize |-> None]
    /\ asked = <<>>
    /\ applied = {}
    /\ lock = None
    /\ motd = [e |-> None, read |-> 0]
    /\ answer = [read |-> 1, at |-> 1]

Tick ==
    /\ now < MaxTime
    /\ now' = now + 1
    /\ UNCHANGED <<file, config, reload, chat, auto, ping>>

\* Somebody edits chat.yml, perhaps into something that cannot be loaded.
Edit(n, off, ok) ==
    /\ file.version < MaxVersion
    /\ file' = [version |-> file.version + 1, auto |-> n, off |-> off, ok |-> ok]
    /\ UNCHANGED <<now, config, reload, chat, auto, ping>>

-----------------------------------------------------------------------------
(* /chatreload and /chat.                                                  *)

\* LoadConfig; a file that cannot be loaded ends the command.  overlap, whether
\* another reload was under way at the same time, is history.
LoadConfig(m) ==
    /\ reload[m].st # "loaded"
    /\ reload' = [reload EXCEPT ![m] =
          IF ~file.ok THEN [@ EXCEPT !.st = "idle"]
          ELSE [st |-> "loaded",
                loaded |-> [version |-> file.version, auto |-> file.auto, off |-> file.off],
                overlap |-> \E o \in Moderators \ {m} : reload[o].st = "loaded"]]
    /\ UNCHANGED <<now, file, config, chat, auto, ping>>

\* m's reload is over; those under way have been overlapped.
Reloaded(m) ==
    reload' = [o \in Moderators |->
        IF o = m THEN [reload[m] EXCEPT !.st = "done"] ELSE [reload[o] EXCEPT !.overlap = TRUE]]

\* Mutant of Install: chat that was turned off keeps the configuration from changing.
InstallUnlessOff(m) ==
    /\ lock = None
    /\ reload[m].st = "loaded"
    /\ config' = IF config.off THEN config ELSE reload[m].loaded
    /\ shortened' = (nextAutoMessage >= reload[m].loaded.auto)
    /\ Reloaded(m)
    /\ UNCHANGED <<now, file, nextAutoMessage, crashed, chat, ping>>

\* reloadCommand once it has the lock: also the limiter starts anew.
Install(m) ==
    /\ lock = None
    /\ reload[m].st = "loaded"
    /\ config' = reload[m].loaded
    /\ shortened' = (nextAutoMessage >= reload[m].loaded.auto)
    /\ Reloaded(m)
    /\ UNCHANGED <<now, file, nextAutoMessage, crashed, chat, ping>>

chatoffCommand(state) ==
    /\ lock = None
    /\ config' = [config EXCEPT !.off = state]
    /\ UNCHANGED <<now, file, reload, chat, auto, ping>>

-----------------------------------------------------------------------------
NextIndex == (nextAutoMessage + 1) % config.auto

\* getNextAutoMessage; an empty list leaves the index alone.
AutoMessage ==
    /\ lock = None
    /\ config.auto >= 1
    /\ \/ /\ nextAutoMessage < config.auto
          /\ nextAutoMessage' = NextIndex
          /\ UNCHANGED crashed
       \/ /\ nextAutoMessage >= config.auto
          /\ crashed' = TRUE
          /\ UNCHANGED nextAutoMessage
    /\ UNCHANGED <<now, file, config, shortened, reload, chat, ping>>

-----------------------------------------------------------------------------
(* ChatFilter and /helpop.                                                 *)

\* p logs in again: a new chatUser in a new FilterData.
Relog(p) ==
    /\ last' = [last EXCEPT ![p] = NoClocks]
    /\ said' = [said EXCEPT ![p] = Nothing]
    /\ applied' = applied \ {p}
    /\ UNCHANGED <<now, file, config, reload, helpop, asked, auto, ping>>

\* Mutant of checkSlowmode: the time itself is long enough.
checkSlowmodeLax(t, dur) == t # None => now - t >= dur

\* time.Now().Sub(t) > dur
checkSlowmode(t, dur) == t # None => now - t > dur

\* A message by p: chat may be off, p too fast, or the rate limiter against it,
\* which is asked after LastChatTime was set.
ChatFilter(p, dur, allowed) ==
    /\ Len(said[p].chat) < MaxMessages
    /\ p \notin Bypass => lock = None /\ ~config.off /\ checkSlowmode(last[p].chat, dur)
    /\ last' = IF p \in Bypass THEN last ELSE [last EXCEPT ![p].chat = now]
    /\ said' = IF allowed THEN [said EXCEPT ![p].chat = Append(@, now)] ELSE said
    /\ UNCHANGED <<now, file, config, reload, helpop, asked, applied, auto, ping>>

\* n := copy(a[:], a[1:]); a[n] = x
Shift(h, x) == [k \in 1 .. HistorySize |-> IF k = HistorySize THEN x ELSE h[k + 1]]

helpopCommand(p, dur) ==
    /\ Len(asked) < MaxMessages
    /\ p \notin Bypass => lock = None /\ checkSlowmode(last[p].helpop, dur)
    /\ last' = IF p \in Bypass THEN last ELSE [last EXCEPT ![p].helpop = now]
    /\ said' = [said EXCEPT ![p].helpop = Append(@, now)]
    /\ helpop' = Shift(helpop, Len(asked) + 1)
    /\ asked' = Append(asked, Len(asked) + 1)
    /\ UNCHANGED <<now, file, config, reload, applied, auto, ping>>

\* A JoinGame packet: at login, and whenever the player changes servers.  A version
\* of the configuration that is odd has a resource pack, which is sent the first time only.
resFilter(p) ==
    /\ config.version % 2 = 1
    /\ applied' = applied \cup {p}
    /\ UNCHANGED <<now, file, config, reload, last, said, helpop, asked, auto, ping>>

-----------------------------------------------------------------------------
(* GetPingData.                                                            *)

\* Mutant of Fresh: an entry that was once set stays.
FreshForever == motd.e # None

\* ValueCache.Get: neither zero nor before now.
Fresh == motd.e # None /\ motd.e >= now

PingCached ==
    /\ lock = None /\ Fresh
    /\ answer' = [read |-> motd.read, at |-> now]
    /\ UNCHANGED <<now, file, config, reload, chat, auto, lock, motd>>

PingAsks(g) ==
    /\ lock = None /\ ~Fresh
    /\ lock' = g
    /\ UNCHANGED <<now, file, config, reload, chat, auto, motd, answer>>

\* redis answers, or fails and the configuration's MOTD is taken.
PingAnswered(g) ==
    /\ lock = g
    /\ motd' = [e |-> now + TTL, read |-> now]
    /\ answer' = [read |-> now, at |-> now]
    /\ lock' = None
    /\ UNCHANGED <<now, file, config, reload, chat, auto>>

\* A panic in the automessage goroutine ends the process.
Next ==
    /\ ~crashed
    /\ \/ Tick
       \/ \E n \in 0 .. MaxAuto, off, ok \in BOOLEAN : Edit(n, off, ok)
       \/ \E m \in Moderators : LoadConfig(m) \/ Install(m)
       \/ \E state \in BOOLEAN : chatoffCommand(state)
       \/ AutoMessage
       \/ \E p \in Players, dur \in SlowMode :
             (\E allowed \in BOOLEAN : ChatFilter(p, dur, allowed)) \/ helpopCommand(p, dur)
       \/ \E p \in Players : resFilter(p) \/ Relog(p)
       \/ PingCached \/ \E g \in Pings : PingAsks(g) \/ PingAnswered(g)

Spec == Init /\ [][Next]_vars

-----------------------------------------------------------------------------
\* The automessage goroutine, whose panic would end the proxy, indexes the list of
\* the configuration in force out of range only if a reload has put a list in place
\* that is too short for the index it found.
AutoMessageSafe == crashed => shortened

\* A reload that no other overlapped takes effect as a whole and lasts: until the
\* next one, everything but ChatOff is as that command found it in chat.yml; and what
\* was derived from an earlier list of automessages survives no reload but a shortening one.
ReloadTakesEffect ==
    /\ AutoMessageSafe
    /\ \A m \in Moderators : reload[m].st = "done" /\ ~reload[m].overlap =>
          config = [reload[m].loaded EXCEPT !.off = config.off]

Spaced(times) ==
    \A i, j \in DOMAIN times : i < j => \E d \in SlowMode : times[j] - times[i] > d

\* However the number of players and the factor change slow mode, two messages that a
\* player it applies to sends in one session are further apart than its shortest time, on
\* the chat and on /helpop each, and messages the rate limiter stopped count too.  Logging
\* in again starts slow mode anew.
SlowModeHolds == \A p \in Players \ Bypass : Spaced(said[p].chat) /\ Spaced(said[p].helpop)

\* helpopHistory is the last messages to /helpop, oldest first.
HelpopRecent ==
    \A k \in 1 .. HistorySize :
        LET i == Len(asked) - HistorySize + k
        IN  helpop[k] = IF i < 1 THEN None ELSE asked[i]

\* The MOTD in an answer was looked up no longer than TTL before, whatever happened
\* to it in redis and in the configuration since.
MotdFresh == answer.read + TTL >= answer.at
=============================================================================
