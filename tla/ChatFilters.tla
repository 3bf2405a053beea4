---------------------------- MODULE ChatFilters -----------------------------
(***************************************************************************)
(* The filters that decide what players may say and read, side by side:    *)
(* the private messages of cloudychat (Private), its configuration and     *)
(* public chat (Config), and the permissions (Permission).  Each keeps its *)
(* state under locks of its own, so a step is a step of one of them; which *)
(* permissions a chat command finds is a constant of Private and Config.   *)
(***************************************************************************)
EXTENDS Naturals

CONSTANTS
    Sessions, Names, NickOf, Perms, MaxIgnored,
    Players, Bypass, Moderators, Pings, MaxAuto, SlowMode, TTL, MaxTime, MaxVersion,
    HistorySize, MaxMessages,
    Accounts,       \* nicknames of players who log in
    GroupFiles, UserFiles, Bad, Lower, Loaders, MaxEdits,
    None

VARIABLES
    online, over, user, cmd, spies, shown, swallowed, sent, written, told,
    now, file, config, nextAutoMessage, shortened, crashed, reload, last, said, helpop, asked,
    applied, lock, motd, answer,
    perm_groups, perm_users, Groups, Users, load, permissions, origin, given, edits

privateVars == <<online, over, user, cmd, spies, shown, swallowed, sent, written, told>>
configVars == <<now, file, config, nextAutoMessage, shortened, crashed, reload, last, said, helpop,
                asked, applied, lock, motd, answer>>
permissionVars == <<perm_groups, perm_users, Groups, Users, load, permissions, origin, given, edits>>

Private == INSTANCE PrivateChat
Config == INSTANCE ChatConfig
Permission == INSTANCE Permissions WITH Players <- Accounts

ASSUME ChatFiltersAssumption ==
    Private!ChatAssumption /\ Config!ConfigAssumption /\ Permission!PermissionsAssumption

FiltersInit == Private!Init /\ Config!Init /\ Permission!Init

PrivateStep == Private!Next /\ UNCHANGED <<configVars, permissionVars>>
ConfigStep == Config!Next /\ UNCHANGED <<privateVars, permissionVars>>
PermissionStep == Permission!Next /\ UNCHANGED <<privateVars, configVars>>

FiltersNext == PrivateStep \/ ConfigStep \/ PermissionStep

FiltersSpec == FiltersInit /\ [][FiltersNext]_<<privateVars, configVars, permissionVars>>

-----------------------------------------------------------------------------
\* Both histories are the last messages, oldest first: SentPrivMsgs those the session sent
\* with /msg, helpopHistory everybody's to /helpop.
HistoryRecent == Private!HistoryRecent /\ Config!HelpopRecent

\* /r finds the other side of a conversation, also when it has left and come back and when
\* two commands touch a chatUser at once; somebody whose line was never seen only when a full
\* queue has dropped that line.
ReplyFinds == Private!ReplyFinds

\* The ignore list stays within its size, however often players are ignored and taken off
\* it again, and until it is full it holds what /ignore last said.
IgnoreBounded == Private!IgnoreBounded

\* A reload that no other overlapped takes effect as a whole and lasts until the next one; and
\* the automessage goroutine panics only when a reload has shortened its list.
ReloadTakesEffect == Config!ReloadTakesEffect

\* Two messages of a player in one session are further apart than slow mode's shortest time,
\* on the chat and on /helpop each, whatever the other checks of a message do.  The clocks
\* are the session's: two messages with a login in between may be closer.
SlowModeHolds == Config!SlowModeHolds

\* The MOTD in an answer was looked up no longer than TTL before, although the lock is held
\* while redis is asked.
MotdFresh == Config!MotdFresh

\* Whatever happens to the files while they are being read, and however reloads overlap
\* or fail, the users' permissions are made of the groups that are in force.
OneLoad == Permission!OneLoad

\* A player's permission is decided by the entry nearest to it that any of its groups has,
\* and among the groups that have that entry by the last, the default group coming first.
NearestWins == Permission!NearestWins
=============================================================================
