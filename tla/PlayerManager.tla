--------------------------- MODULE PlayerManager ----------------------------
(***************************************************************************)
(* potoq.Players (playermgr.go): a sync.Map from lower-cased nickname to   *)
(* session, and a separate atomic counter.  The map and the counter are    *)
(* updated by two instructions, so every operation that touches both is    *)
(* two actions here.  The callers that make the operations interesting are *)
(* modelled with it: a session's login (GetByUUID in the LoginHandler      *)
(* hook, Register, the deferred Unregister, handler.go and                 *)
(* example/main.go) and a Broadcast running in some other goroutine.       *)
(*                                                                         *)
(* sync.Map.Range takes no snapshot: it visits each key at most once, in   *)
(* any order, and sees the entry that is there when it gets to it.  A      *)
(* Range is therefore one step per key, with the set of visited keys.      *)
(*                                                                         *)
(* A Broadcast's line is a command put into the session's commandChan      *)
(* without waiting (SendChatMessage, InjectPackets): where the queue is    *)
(* full the line is dropped, and nobody is told.  The queues are therefore *)
(* counted here, with the other goroutines that fill them and the MainLoop *)
(* that empties them.                                                      *)
(*                                                                         *)
(* A nickname is its key (strings.ToLower); a session's UUID is            *)
(* independent of it: OfflinePlayerUUID hashes the nickname with its case, *)
(* and an authenticated account may have been renamed.                     *)
(***************************************************************************)
EXTENDS Integers, FiniteSets

CONSTANTS
    Handlers,   \* the sessions, one per accepted connection
    Keys,       \* lower-cased nicknames
    UUIDs,      \* player UUIDs
    Staff,      \* the sessions whose permissions include a broadcast's perm
    Cap,        \* the capacity of a commandChan (10 in NewHandler)
    None        \* an absent map entry, a nil *Handler

ASSUME HandlersAssumption == IsFiniteSet(Handlers) /\ None \notin Handlers
ASSUME StaffAssumption == Staff \subseteq Handlers
ASSUME KeysAssumption == None \notin Keys
ASSUME CapAssumption == Cap \in Nat \ {0}

VARIABLES
    m,          \* pm.m: key -> session, None where there is no entry
    count,      \* pm.count
    pc,         \* where each session is in handleProxy
    key,        \* strings.ToLower(handler.Nickname)
    uuid,       \* handler.UUID
    seen,       \* keys visited by the session's GetByUUID so far
    rivals,     \* history: the sessions with the same UUID that have been in
                \* the map ever since the session's GetByUUID began
    queue,      \* how many commands wait in each session's commandChan
    bc          \* the Broadcast: running, addressed sessions, visited keys,
                \* sessions whose queue took the line, and (history) the
                \* addressed sessions that have been in the map ever since it
                \* began, and those whose queue others kept full at some time

vars == <<m, count, pc, key, uuid, seen, rivals, queue, bc>>

(***************************************************************************)
(* "new": before LoginStart; "check": in the LoginHandler hook;            *)
(* "register": about to LoadOrStore; "add": stored, counter not yet        *)
(* incremented; "play": Register returned true; "sub": entry deleted,      *)
(* counter not yet decremented; "kicked": refused; "gone": unregistered.   *)
(***************************************************************************)
States == {"new", "check", "register", "add", "play", "sub", "kicked", "gone"}

Entered == {h \in Handlers : pc[h] \in {"add", "play"}}
Counted == {h \in Handlers : pc[h] \in {"play", "sub"}}
Full == {h \in Handlers : queue[h] = Cap}

Init ==
    /\ m = [k \in Keys |-> None]
    /\ count = 0
    /\ pc = [h \in Handlers |-> "new"]
    /\ key = [h \in Handlers |-> None]
    /\ uuid = [h \in Handlers |-> None]
    /\ seen = [h \in Handlers |-> {}]
    /\ rivals = [h \in Handlers |-> {}]
    /\ queue = [h \in Handlers |-> 0]
    /\ bc = [on |-> FALSE, to |-> {}, visited |-> {}, sent |-> {}, stayed |-> {},
             crowded |-> {}]

-----------------------------------------------------------------------------
\* handleProxy has read LoginStart and settled the UUID.
LoginStart(h, k, u) ==
    /\ pc[h] = "new"
    /\ pc' = [pc EXCEPT ![h] = "check"]
    /\ key' = [key EXCEPT ![h] = k]
    /\ uuid' = [uuid EXCEPT ![h] = u]
    /\ rivals' = [rivals EXCEPT ![h] = {g \in Entered : uuid[g] = u}]
    /\ UNCHANGED <<m, count, seen, queue, bc>>

\* GetByUUID: one key of the Range in the LoginHandler hook.  A match ends the
\* Range and the login; otherwise the callback asks for the next key.
GetByUUIDVisit(h, k) ==
    /\ pc[h] = "check"
    /\ k \notin seen[h]
    /\ IF m[k] # None /\ uuid[m[k]] = uuid[h]
       THEN /\ pc' = [pc EXCEPT ![h] = "kicked"]
            /\ UNCHANGED seen
       ELSE /\ seen' = [seen EXCEPT ![h] = @ \cup {k}]
            /\ UNCHANGED pc
    /\ UNCHANGED <<m, count, key, uuid, rivals, queue, bc>>

\* Mutant of GetByUUIDNil: the Range stops at the first entry.
GetByUUIDNilEarly(h) ==
    /\ pc[h] = "check"
    /\ seen[h] # {}
    /\ pc' = [pc EXCEPT ![h] = "register"]
    /\ UNCHANGED <<m, count, key, uuid, seen, rivals, queue, bc>>

\* GetByUUID returned nil: the login goes on to connectUpstream and Register.
GetByUUIDNil(h) ==
    /\ pc[h] = "check"
    /\ seen[h] = Keys
    /\ pc' = [pc EXCEPT ![h] = "register"]
    /\ UNCHANGED <<m, count, key, uuid, seen, rivals, queue, bc>>

\* Mutant of RegisterLoadOrStore: Unregister is deferred although Register failed.
RegisterDeferred(h) ==
    /\ pc[h] = "register"
    /\ IF m[key[h]] # None
       THEN pc' = [pc EXCEPT ![h] = "sub"] /\ UNCHANGED m
       ELSE pc' = [pc EXCEPT ![h] = "add"] /\ m' = [m EXCEPT ![key[h]] = h]
    /\ UNCHANGED <<count, key, uuid, seen, rivals, queue, bc>>

\* Register, first instruction: LoadOrStore.  A conflict is the in-game kick
\* "register error"; no Unregister has been deferred yet.
RegisterLoadOrStore(h) ==
    /\ pc[h] = "register"
    /\ IF m[key[h]] # None
       THEN /\ pc' = [pc EXCEPT ![h] = "kicked"]
            /\ UNCHANGED m
       ELSE /\ pc' = [pc EXCEPT ![h] = "add"]
            /\ m' = [m EXCEPT ![key[h]] = h]
    /\ UNCHANGED <<count, key, uuid, seen, rivals, queue, bc>>

\* Register, second instruction: AddInt64(&pm.count, 1).
RegisterCount(h) ==
    /\ pc[h] = "add"
    /\ pc' = [pc EXCEPT ![h] = "play"]
    /\ count' = count + 1
    /\ UNCHANGED <<m, key, uuid, seen, rivals, queue, bc>>

\* Mutants of UnregisterDelete: a refused session unregisters too; the entry is
\* lost to later lookups instead of being empty.
UnregisterDeleteAny(h) ==
    /\ pc[h] \in {"play", "kicked"}
    /\ key[h] # None
    /\ pc' = [pc EXCEPT ![h] = IF @ = "play" THEN "sub" ELSE "gone"]
    /\ m' = [m EXCEPT ![key[h]] = None]
    /\ bc' = [bc EXCEPT !.stayed = @ \ {h}]
    /\ rivals' = [g \in Handlers |-> rivals[g] \ {h}]
    /\ UNCHANGED <<count, key, uuid, seen, queue>>

\* The deferred Unregister, first instruction: Delete by key, whoever is there.
UnregisterDelete(h) ==
    /\ pc[h] = "play"
    /\ pc' = [pc EXCEPT ![h] = "sub"]
    /\ m' = [m EXCEPT ![key[h]] = None]
    /\ bc' = [bc EXCEPT !.stayed = @ \ {h}]
    /\ rivals' = [g \in Handlers |-> rivals[g] \ {h}]
    /\ UNCHANGED <<count, key, uuid, seen, queue>>

\* Unregister, second instruction: AddInt64(&pm.count, -1).
UnregisterCount(h) ==
    /\ pc[h] = "sub"
    /\ pc' = [pc EXCEPT ![h] = "gone"]
    /\ count' = count - 1
    /\ UNCHANGED <<m, key, uuid, seen, rivals, queue, bc>>

\* Another goroutine finds the session in the map and puts a command into its
\* queue without waiting (a kick, a message, a packet of a filter's worker).
Push(h) ==
    /\ h \in Entered
    /\ queue[h] < Cap
    /\ queue' = [queue EXCEPT ![h] = @ + 1]
    /\ bc' = [bc EXCEPT !.crowded = @ \cup IF bc.on THEN Full' ELSE {}]
    /\ UNCHANGED <<m, count, pc, key, uuid, seen, rivals>>

\* The session's MainLoop takes the next command.
Drain(h) ==
    /\ pc[h] = "play"
    /\ queue[h] > 0
    /\ queue' = [queue EXCEPT ![h] = @ - 1]
    /\ UNCHANGED <<m, count, pc, key, uuid, seen, rivals, bc>>

\* Some goroutine (a chat command, the automessage ticker) calls Broadcast.
\* perm = "" addresses everybody, any other perm the sessions that have it.
BroadcastStart(to) ==
    /\ ~bc.on
    /\ bc' = [on |-> TRUE, to |-> to, visited |-> {}, sent |-> {},
              stayed |-> Entered \cap to, crowded |-> Full]
    /\ UNCHANGED <<m, count, pc, key, uuid, seen, rivals, queue>>

\* The sessions that get a broadcast's line at key k: the one there, if it is
\* addressed and its queue has room.
Takes(k) == ({m[k]} \cap bc.to) \ Full

\* Mutant of BroadcastVisit: the callback returns false after a line that was
\* dropped, as it would if it returned SendChatMessage's success.
BroadcastVisitUntilFull(k) ==
    /\ bc.on
    /\ k \notin bc.visited
    /\ queue' = [h \in Handlers |-> queue[h] + IF h \in Takes(k) THEN 1 ELSE 0]
    /\ bc' = [bc EXCEPT !.visited = IF m[k] \in bc.to \cap Full THEN Keys ELSE @ \cup {k},
                        !.sent = @ \cup Takes(k)]
    /\ UNCHANGED <<m, count, pc, key, uuid, seen, rivals>>

\* One key of Broadcast's Range: the session there, if it is addressed, is sent
\* the line; SendChatMessage does not say whether its queue took it.
BroadcastVisit(k) ==
    /\ bc.on
    /\ k \notin bc.visited
    /\ queue' = [h \in Handlers |-> queue[h] + IF h \in Takes(k) THEN 1 ELSE 0]
    /\ bc' = [bc EXCEPT !.visited = @ \cup {k},
                        !.sent = @ \cup Takes(k)]
    /\ UNCHANGED <<m, count, pc, key, uuid, seen, rivals>>

BroadcastEnd ==
    /\ bc.on
    /\ bc.visited = Keys
    /\ bc' = [bc EXCEPT !.on = FALSE]
    /\ UNCHANGED <<m, count, pc, key, uuid, seen, rivals, queue>>

Session(h) ==
    \/ \E k \in Keys, u \in UUIDs : LoginStart(h, k, u)
    \/ \E k \in Keys : GetByUUIDVisit(h, k)
    \/ GetByUUIDNil(h)
    \/ RegisterLoadOrStore(h)
    \/ RegisterCount(h)
    \/ UnregisterDelete(h)
    \/ UnregisterCount(h)
    \/ Push(h)
    \/ Drain(h)

Broadcast ==
    \/ \E to \in {Handlers, Staff} : BroadcastStart(to)
    \/ \E k \in Keys : BroadcastVisit(k)
    \/ BroadcastEnd

Next == (\E h \in Handlers : Session(h)) \/ Broadcast

Spec == Init /\ [][Next]_vars

-----------------------------------------------------------------------------
\* The shape of the state.
TypeOK ==
    /\ m \in [Keys -> Handlers \cup {None}]
    /\ count \in Int
    /\ pc \in [Handlers -> States]
    /\ key \in [Handlers -> Keys \cup {None}]
    /\ uuid \in [Handlers -> UUIDs \cup {None}]
    /\ seen \in [Handlers -> SUBSET Keys]
    /\ rivals \in [Handlers -> SUBSET Handlers]
    /\ queue \in [Handlers -> 0..Cap]
    /\ bc \in [on : BOOLEAN, to : SUBSET Handlers, visited : SUBSET Keys,
               sent : SUBSET Handlers, stayed : SUBSET Handlers,
               crowded : SUBSET Handlers]

\* Between Register and Unregister a session is what GetByNickname returns for
\* its nickname, whatever the other sessions with that nickname do meanwhile;
\* and the map holds nothing else.  Unregister deletes by key without looking,
\* so this is what keeps it from deleting a session other than its own.
MapIsEntered ==
    /\ \A h \in Handlers : pc[h] \in {"add", "play"} => m[key[h]] = h
    /\ \A k \in Keys : m[k] # None => pc[m[k]] \in {"add", "play"} /\ key[m[k]] = k

\* Len never drifts: the counter is the number of sessions that were counted
\* and are not yet uncounted, so it is never negative and differs from the
\* number of map entries only by the sessions between the two instructions.
CountAccurate ==
    /\ count = Cardinality(Counted)
    /\ count >= 0

\* A login whose GetByUUID found nobody does not share its UUID with a session
\* that was in the map before the search began and still is, although the
\* search takes no snapshot.
DuplicateRefused ==
    \A h \in Handlers : pc[h] \in {"register", "add", "play"} => rivals[h] = {}

\* A finished Broadcast queued its line, although sessions came and went while
\* it ran, for every addressed session that was registered all along, unless
\* others filled that session's own queue meanwhile; one full queue costs no
\* other session its line, and nobody else gets one.
BroadcastReaches ==
    /\ bc.visited = Keys => bc.stayed \subseteq bc.sent \cup bc.crowded
    /\ bc.sent \subseteq bc.to

\* The sessions that gave up their entry.
Left == {h \in Handlers : pc[h] \in {"sub", "gone"}}

Registry == INSTANCE PlayerRegistry WITH seat <- m, left <- Left

\* The map is the registry the rest of the proxy relies on: an entry is only
\* ever removed by the session it belongs to, and never overwritten.
ImplementsRegistry == Registry!RSpec
=============================================================================
