---------------------------- MODULE PrivateChat -----------------------------
(***************************************************************************)
(* Private messages of cloudychat: /msg, /r, /ignore and /socialspy, and   *)
(* the chatUser each session keeps in its FilterData.                      *)
(*                                                                         *)
(* A command runs in its sender's goroutine and touches the chatUser of    *)
(* another session, whose lock is only held for single calls; each such    *)
(* call is a step.  A player who logs in again has a new session and so a  *)
(* new chatUser, while MsgRecipient, the ignore lists and the social spies *)
(* go by nickname.  A command without its permission changes nothing.      *)
(* SendChatMessage puts a line into its reader's queue and drops it when   *)
(* that queue is full, which nobody is told: a line may always be lost.    *)
(***************************************************************************)
EXTENDS Naturals, Sequences, FiniteSets

CONSTANTS
    Sessions, Names,
    NickOf,         \* [Sessions -> Names]
    Perms,          \* [Sessions -> SUBSET {"msg", "reply", "ignore", "disallow", "msgbypass",
                    \*                      "ignorebypass", "socialspy"}]
    MaxIgnored,     \* entries of an ignore list (256)
    HistorySize,    \* length of SentPrivMsgs (20)
    MaxMessages,    \* bound: private messages sent
    None

ChatAssumption ==
    /\ NickOf \in [Sessions -> Names]
    /\ MaxIgnored \in Nat \ {0} /\ HistorySize \in Nat \ {0} /\ MaxMessages \in Nat
    /\ None \notin Names \cup Sessions \cup Nat

VARIABLES
    online,     \* Players by nickname
    over,       \* the sessions that have ended
    user,       \* the chatUser of each session
    cmd,        \* the command each session executes
    spies,      \* socialspies
    shown,      \* history: the lines queued for each session, and by whom
    swallowed,  \* history: the sessions a line of whom to that session was dropped
    sent,       \* history: messages sent so far
    written,    \* history: the messages each session sent with /msg
    told        \* history: per session, what /ignore last said of each nickname

vars == <<online, over, user, cmd, spies, shown, swallowed, sent, written, told>>

\* Ignored: the entries of the map and those that are true.
NewUser ==
    [recipient |-> None, history |-> [k \in 1 .. HistorySize |-> None], entries |-> {}, ignored |-> {}]

Idle == [pc |-> "idle", to |-> None, kind |-> None, n |-> 0]

Init ==
    /\ online = [n \in Names |-> None]
    /\ over = {}
    /\ user = [s \in Sessions |-> NewUser]
    /\ cmd = [s \in Sessions |-> Idle]
    /\ spies = {}
    /\ shown = [s \in Sessions |-> <<>>]
    /\ swallowed = [s \in Sessions |-> {}]
    /\ sent = 0
    /\ written = [s \in Sessions |-> <<>>]
    /\ told = [s \in Sessions |-> [n \in Names |-> FALSE]]

Running(s) == online[NickOf[s]] = s /\ cmd[s].pc = "idle"

Join(s) ==
    /\ online[NickOf[s]] = None /\ s \notin over
    /\ online' = [online EXCEPT ![NickOf[s]] = s]
    /\ UNCHANGED <<over, user, cmd, spies, shown, swallowed, sent, written, told>>

Leave(s) ==
    /\ Running(s)
    /\ online' = [online EXCEPT ![NickOf[s]] = None]
    /\ over' = over \cup {s}
    /\ UNCHANGED <<user, cmd, spies, shown, swallowed, sent, written, told>>

-----------------------------------------------------------------------------
(* /msg and /r.                                                            *)

\* GetByNickname, and "cloudychat.msg.disallow".
Reachable(s, nick) ==
    /\ online[nick] # None
    /\ "disallow" \in Perms[online[nick]] => "msgbypass" \in Perms[s]

Ignores(r, s) == NickOf[s] \in user[r].ignored /\ "ignorebypass" \notin Perms[s]

Start(s, kind, r) ==
    /\ cmd' = [cmd EXCEPT ![s] = [pc |-> "show", to |-> r, kind |-> kind, n |-> sent + 1]]
    /\ sent' = sent + 1
    /\ UNCHANGED <<online, over, user, spies, shown, swallowed, written, told>>

msgCommand(s, nick) ==
    /\ Running(s) /\ "msg" \in Perms[s] /\ sent < MaxMessages
    /\ Reachable(s, nick)
    /\ ~Ignores(online[nick], s)
    /\ Start(s, "msg", online[nick])

\* The ignore list is not looked at.
replyCommand(s) ==
    /\ Running(s) /\ "reply" \in Perms[s] /\ sent < MaxMessages
    /\ user[s].recipient # None
    /\ Reachable(s, user[s].recipient)
    /\ Start(s, "reply", online[user[s].recipient])

Advance(s, pc) == cmd' = [cmd EXCEPT ![s].pc = pc]

\* recipient.SendChatMessage; the command goes on whether there was room for the line or not.
Show(s) ==
    /\ cmd[s].pc = "show"
    /\ \/ /\ shown' = [shown EXCEPT ![cmd[s].to] = Append(@, [from |-> s, n |-> cmd[s].n])]
          /\ UNCHANGED swallowed
       \/ /\ swallowed' = [swallowed EXCEPT ![cmd[s].to] = @ \cup {s}]
          /\ UNCHANGED shown
    /\ Advance(s, "own")
    /\ UNCHANGED <<online, over, user, spies, sent, written, told>>

\* Mutant of Shift: the copy leaves the last but one where it was.
ShiftShort(h, x) ==
    [k \in 1 .. HistorySize |-> IF k = HistorySize THEN x
                                ELSE IF k = HistorySize - 1 THEN h[k] ELSE h[k + 1]]

\* n := copy(a[:], a[1:]); a[n] = x
Shift(h, x) == [k \in 1 .. HistorySize |-> IF k = HistorySize THEN x ELSE h[k + 1]]

\* AddPrivMsgHistory after /msg, SetMsgRecipient after /r.
Own(s) ==
    LET c == cmd[s]
    IN  /\ c.pc = "own"
        /\ user' = [user EXCEPT ![s].recipient = NickOf[c.to],
                                ![s].history = IF c.kind = "msg" THEN Shift(@, c.n) ELSE @]
        /\ written' = IF c.kind = "msg" THEN [written EXCEPT ![s] = Append(@, c.n)] ELSE written
        /\ Advance(s, "theirs")
        /\ UNCHANGED <<online, over, spies, shown, swallowed, sent, told>>

\* Mutant of Theirs: only /msg makes its sender the one to reply to.
TheirsMsg(s) ==
    /\ cmd[s].pc = "theirs"
    /\ user' = IF cmd[s].kind = "msg" THEN [user EXCEPT ![cmd[s].to].recipient = NickOf[s]] ELSE user
    /\ Advance(s, "spies")
    /\ UNCHANGED <<online, over, spies, shown, swallowed, sent, written, told>>

\* The recipient's SetMsgRecipient.
Theirs(s) ==
    /\ cmd[s].pc = "theirs"
    /\ user' = [user EXCEPT ![cmd[s].to].recipient = NickOf[s]]
    /\ Advance(s, "spies")
    /\ UNCHANGED <<online, over, spies, shown, swallowed, sent, written, told>>

\* Spies who are online and may still spy get a copy, those whose queue has room.
Spies(s) ==
    LET eyes == {r \in Sessions : online[NickOf[r]] = r /\ NickOf[r] \in spies
                                  /\ "socialspy" \in Perms[r]}
    IN  /\ cmd[s].pc = "spies"
        /\ \E got \in SUBSET eyes :
              shown' = [r \in Sessions |->
                  IF r \in got THEN Append(shown[r], [from |-> None, n |-> cmd[s].n]) ELSE shown[r]]
        /\ cmd' = [cmd EXCEPT ![s] = Idle]
        /\ UNCHANGED <<online, over, user, spies, swallowed, sent, written, told>>

-----------------------------------------------------------------------------
\* Mutant of SetIgnored: entries are counted after the new one is made.
SetIgnoredOver(u, nick, val) ==
    [u EXCEPT !.entries = @ \cup {nick}, !.ignored = IF val THEN @ \cup {nick} ELSE @ \ {nick}]

\* A full map is not changed at all.
SetIgnored(u, nick, val) ==
    IF Cardinality(u.entries) >= MaxIgnored THEN u
    ELSE [u EXCEPT !.entries = @ \cup {nick}, !.ignored = IF val THEN @ \cup {nick} ELSE @ \ {nick}]

\* /ignore toggles and says what it did.
ignoreCommand(s, nick) ==
    LET val == nick \notin user[s].ignored
    IN  /\ Running(s) /\ "ignore" \in Perms[s]
        /\ user' = [user EXCEPT ![s] = SetIgnored(@, nick, val)]
        /\ told' = [told EXCEPT ![s][nick] = val]
        /\ UNCHANGED <<online, over, cmd, spies, shown, swallowed, sent, written>>

socialspyCommand(s) ==
    /\ Running(s) /\ "socialspy" \in Perms[s]
    /\ spies' = IF NickOf[s] \in spies THEN spies \ {NickOf[s]} ELSE spies \cup {NickOf[s]}
    /\ UNCHANGED <<online, over, user, cmd, shown, swallowed, sent, written, told>>

Next == \E s \in Sessions :
    \/ Join(s) \/ Leave(s)
    \/ (\E n \in Names : msgCommand(s, n) \/ ignoreCommand(s, n))
    \/ replyCommand(s)
    \/ Show(s) \/ Own(s) \/ Theirs(s) \/ Spies(s)
    \/ socialspyCommand(s)

Spec == Init /\ [][Next]_vars

-----------------------------------------------------------------------------
\* SentPrivMsgs is the last messages the session sent with /msg, oldest first, its
\* front still empty as long as there were fewer: what /socialspy <nick> shows.
HistoryRecent ==
    \A s \in Sessions : \A k \in 1 .. HistorySize :
        LET i == Len(written[s]) - HistorySize + k
        IN  user[s].history[k] = IF i < 1 THEN None ELSE written[s][i]

\* A command of the session's, or one to it, is under way.
Involved(s) == \E t \in Sessions : cmd[t].pc \in {"own", "theirs"} /\ (t = s \/ cmd[t].to = s)

Authors(s) == {shown[s][i].from : i \in DOMAIN shown[s]} \ {None}

Nicks(S) == {NickOf[t] : t \in S}

\* /r finds the other side of a conversation.  MsgRecipient is somebody who wrote to
\* the session or to whom it wrote, dropped lines included; and once the commands that
\* involve a session are through, whoever was written to has somebody to reply to.
\* That is the author of a line the player was shown, if the player has written to
\* nobody and no other author's line was dropped: the answer to a conversation goes to
\* somebody the player has never heard of only when a queue was full.
ReplyFinds ==
    \A s \in Sessions :
        LET seen == Nicks(Authors(s))
            dropped == Nicks(swallowed[s])
            partners == Nicks({r \in Sessions : s \in Authors(r) \cup swallowed[r]})
        IN  /\ user[s].recipient \in seen \cup dropped \cup partners \cup {None}
            /\ ~Involved(s) /\ seen \cup dropped # {} =>
                  /\ user[s].recipient # None
                  /\ partners = {} /\ dropped \subseteq seen => user[s].recipient \in seen

\* The ignore list stays within its size, however often players are ignored and
\* taken off the list again, and until it is full it holds what /ignore last said.
IgnoreBounded ==
    \A s \in Sessions :
        /\ Cardinality(user[s].entries) <= MaxIgnored
        /\ Cardinality(user[s].entries) < MaxIgnored =>
              \A n \in Names : told[s][n] = (n \in user[s].ignored)
=============================================================================
