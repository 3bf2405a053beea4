----------------------------- MODULE AbuseCache -----------------------------
(***************************************************************************)
(* Bans and mutes: the database table and the ExpiringCache in front of it *)
(* (filters/cloudybans, utils/cache.go).                                   *)
(*                                                                         *)
(* GetAbuse runs in the goroutine of any session: it asks the cache, then  *)
(* the database, then fills the cache.  A moderator's command changes the  *)
(* database, then invalidates the cache under the abuse's nickname and its *)
(* UUID.  Only single calls on the cache hold its lock, so every one of    *)
(* these is a step.  Commands also run in other processes (another proxy,  *)
(* the cloudybans command); what they publish as cloudyBans.invalidate has *)
(* no subscriber here, so they never touch this cache.                     *)
(*                                                                         *)
(* The model has one kind of abuse: keys of different kinds only share the *)
(* cache's size.  Keys are lower-cased, as the table's collation compares. *)
(***************************************************************************)
EXTENDS Integers, Sequences, FiniteSets

CONSTANTS
    Keys,       \* nicknames and UUIDs
    Logins,     \* what GetLastLogin may find: [player : Keys, uuid : Keys]
    Lookups,    \* goroutines that call GetAbuse
    Commands,   \* goroutines that execute commands
    Remote,     \* those of Commands that run in another process
    Ids,        \* ids of rows (bound)
    None,       \* no row, no entry, a nil *Abuse
    TTL,        \* five minutes
    CacheSize,  \* abuseCache.s (50000)
    Durations,  \* the durations of commands
    MaxGroup,   \* bound: members of a /bang group
    MaxTime     \* bound: the clock

ASSUME NamesAssumption ==
    /\ Logins \subseteq [player : Keys, uuid : Keys]
    /\ Remote \subseteq Commands
    /\ None \notin Ids /\ None \notin Keys
    /\ IsFiniteSet(Keys)
ASSUME TimesAssumption ==
    TTL \in Nat /\ Durations \subseteq Nat /\ CacheSize \in Nat \ {0} /\ MaxGroup \in Nat
    /\ MaxTime \in Nat

VARIABLES
    now,        \* time.Now(); a zero time.Time is 0
    rows,       \* cloudyBans_list: id -> row
    cache,      \* abuseCache.m: key -> entry
    look,       \* the calls of GetAbuse
    cmd         \* the commands being executed

vars == <<now, rows, cache, look, cmd>>

Row == [player : Keys, uuid : Keys, expires : Nat, pardoned : BOOLEAN]

ASSUME NoneAssumption == None \notin Row

\* An entry; missed, whether an invalidation of its key has passed it by, is
\* history.
Entry == [value : Ids \cup {None}, expires : Nat, missed : BOOLEAN]

\* A lookup; read, when its answer was read, and missed are history.
Lookup ==
    [pc : {"idle", "select", "ttl", "set", "done"}, key : Keys \cup {None}, value : Ids \cup {None},
     ttl : Nat, read : Nat, missed : BOOLEAN]

Command ==
    [pc : {"idle", "insert", "update", "inv"}, todo : Seq(Logins), expires : Nat,
     id : Ids \cup {None}, inv : Seq(Keys)]

IdleLookup ==
    [pc |-> "idle", key |-> None, value |-> None, ttl |-> 0, read |-> 0, missed |-> FALSE]
IdleCommand == [pc |-> "idle", todo |-> <<>>, expires |-> 0, id |-> None, inv |-> <<>>]

Init ==
    /\ now = 1
    /\ rows = [i \in Ids |-> None]
    /\ cache = [k \in Keys |-> None]
    /\ look = [l \in Lookups |-> IdleLookup]
    /\ cmd = [c \in Commands |-> IdleCommand]

-----------------------------------------------------------------------------
(* What the database answers.                                              *)

NamesOf(i) == {rows[i].player, rows[i].uuid}

Effective(k) ==
    {i \in Ids : rows[i] # None /\ k \in NamesOf(i) /\ rows[i].expires >= now
                 /\ ~rows[i].pardoned}

\* ListAbuses(k)[0], or nil: rows come ordered by expires, equal ones in any order.
ListAbuses(k) ==
    IF Effective(k) = {} THEN {None}
    ELSE {i \in Effective(k) : \A j \in Effective(k) : rows[i].expires <= rows[j].expires}

-----------------------------------------------------------------------------
(* GetAbuse.                                                               *)

\* Mutant of CacheGet: an expired entry is deleted, and still answers.
CacheGetExpired(l, k) ==
    /\ look[l].pc = "idle"
    /\ \/ /\ cache[k] = None
          /\ look' = [look EXCEPT ![l] = [IdleLookup EXCEPT !.pc = "select", !.key = k]]
          /\ UNCHANGED cache
       \/ /\ cache[k] # None
          /\ look' = [look EXCEPT ![l] =
                [IdleLookup EXCEPT !.pc = "done", !.value = cache[k].value, !.read = now]]
          /\ cache' = IF cache[k].expires < now THEN [cache EXCEPT ![k] = None] ELSE cache
    /\ UNCHANGED <<now, rows, cmd>>

\* abuseCache.Get: a hit ends the lookup, an expired entry is deleted.
CacheGet(l, k) ==
    /\ look[l].pc = "idle"
    /\ \/ /\ cache[k] = None
          /\ look' = [look EXCEPT ![l] = [IdleLookup EXCEPT !.pc = "select", !.key = k]]
          /\ UNCHANGED cache
       \/ /\ cache[k] # None /\ cache[k].expires < now
          /\ look' = [look EXCEPT ![l] = [IdleLookup EXCEPT !.pc = "select", !.key = k]]
          /\ cache' = [cache EXCEPT ![k] = None]
       \/ /\ cache[k] # None /\ cache[k].expires >= now
          /\ look' = [look EXCEPT ![l] =
                [IdleLookup EXCEPT !.pc = "done", !.value = cache[k].value, !.read = now]]
          /\ UNCHANGED cache
    /\ UNCHANGED <<now, rows, cmd>>

\* cache = false: the cache is not asked, but it is filled.
CacheSkip(l, k) ==
    /\ look[l].pc = "idle"
    /\ look' = [look EXCEPT ![l] = [IdleLookup EXCEPT !.pc = "select", !.key = k]]
    /\ UNCHANGED <<now, rows, cache, cmd>>

Select(l) ==
    /\ look[l].pc = "select"
    /\ \E v \in ListAbuses(look[l].key) :
          look' = [look EXCEPT ![l] = [@ EXCEPT !.pc = "ttl", !.value = v, !.read = now]]
    /\ UNCHANGED <<now, rows, cache, cmd>>

\* A database error is returned with a nil abuse, and nothing is cached.
SelectFails(l) ==
    /\ look[l].pc = "select"
    /\ look' = [look EXCEPT ![l] = IdleLookup]
    /\ UNCHANGED <<now, rows, cache, cmd>>

\* Mutant of CacheTTL: the entry lives as long as the abuse does.
CacheTTLWhole(v) == IF v # None THEN rows[v].expires ELSE now + TTL

\* cache_ttl: five minutes, and no longer than the abuse.
CacheTTL(v) ==
    IF v # None /\ now + TTL > rows[v].expires THEN rows[v].expires ELSE now + TTL

ComputeTTL(l) ==
    /\ look[l].pc = "ttl"
    /\ look' = [look EXCEPT ![l] = [@ EXCEPT !.pc = "set", !.ttl = CacheTTL(look[l].value)]]
    /\ UNCHANGED <<now, rows, cache, cmd>>

\* A cache that would grow over its size, or seems to, starts from nothing.
CacheWith(k, e) ==
    LET full == Cardinality({j \in Keys : cache[j] # None}) + 1 > CacheSize
    IN  [j \in Keys |-> IF j = k THEN e ELSE IF full THEN None ELSE cache[j]]

SetTime(l) ==
    /\ look[l].pc = "set"
    /\ look' = [look EXCEPT ![l] = [IdleLookup EXCEPT !.pc = "done", !.value = look[l].value,
                                                     !.read = look[l].read]]
    /\ cache' = IF look[l].ttl < now THEN cache
                ELSE CacheWith(look[l].key,
                               [value |-> look[l].value, expires |-> look[l].ttl,
                                missed |-> look[l].missed])
    /\ UNCHANGED <<now, rows, cmd>>

\* The caller, MuteFilter say, uses the answer.
Return(l) ==
    /\ look[l].pc = "done"
    /\ look' = [look EXCEPT ![l] = IdleLookup]
    /\ UNCHANGED <<now, rows, cache, cmd>>

-----------------------------------------------------------------------------
(* Commands.                                                               *)

\* /ban, /sban and /mute of one player, /bang of a group.  A duration of 0
\* leaves Expires zero.
Ban(c, players, dur) ==
    /\ cmd[c].pc = "idle"
    /\ cmd' = [cmd EXCEPT ![c] = [IdleCommand EXCEPT !.pc = "insert", !.todo = players,
                                     !.expires = IF dur > 0 THEN now + dur ELSE 0]]
    /\ UNCHANGED <<now, rows, cache, look>>

NamesToInvalidate(row) == <<row.player, row.uuid>>

Insert(c, i) ==
    LET login == Head(cmd[c].todo)
        row == [player |-> login.player, uuid |-> login.uuid, expires |-> cmd[c].expires,
                pardoned |-> FALSE]
    IN  /\ cmd[c].pc = "insert"
        /\ rows[i] = None
        /\ rows' = [rows EXCEPT ![i] = row]
        /\ cmd' = [cmd EXCEPT ![c] = [@ EXCEPT !.pc = "inv", !.todo = Tail(cmd[c].todo),
                                               !.inv = NamesToInvalidate(row)]]
        /\ UNCHANGED <<now, cache, look>>

\* No last login, or a database error: the rest of a group is not banned.
InsertFails(c) ==
    /\ cmd[c].pc = "insert"
    /\ cmd' = [cmd EXCEPT ![c] = IdleCommand]
    /\ UNCHANGED <<now, rows, cache, look>>

\* /unban and /unmute: the row is read and found not to be pardoned ...
Unban(c, i) ==
    /\ cmd[c].pc = "idle"
    /\ rows[i] # None /\ ~rows[i].pardoned
    /\ cmd' = [cmd EXCEPT ![c] = [IdleCommand EXCEPT !.pc = "update", !.id = i]]
    /\ UNCHANGED <<now, rows, cache, look>>

\* ... and written back; two commands may do so.
Update(c) ==
    LET i == cmd[c].id
    IN  /\ cmd[c].pc = "update"
        /\ rows' = [rows EXCEPT ![i] = [@ EXCEPT !.pardoned = TRUE]]
        /\ cmd' = [cmd EXCEPT ![c] = [@ EXCEPT !.pc = "inv", !.inv = NamesToInvalidate(rows[i])]]
        /\ UNCHANGED <<now, cache, look>>

UpdateFails(c) ==
    /\ cmd[c].pc = "update"
    /\ cmd' = [cmd EXCEPT ![c] = IdleCommand]
    /\ UNCHANGED <<now, rows, cache, look>>

\* Mutant of Invalidate: only the nickname's entry is dropped.
InvalidateNickname(c) ==
    LET k == Head(cmd[c].inv)
    IN  /\ cmd[c].pc = "inv"
        /\ cache' = IF c \in Remote
                    THEN [cache EXCEPT ![k] = IF @ = None THEN None ELSE [@ EXCEPT !.missed = TRUE]]
                    ELSE [cache EXCEPT ![k] = None]
        /\ look' = [l \in Lookups |-> IF look[l].key = k /\ look[l].pc \in {"ttl", "set"}
                                      THEN [look[l] EXCEPT !.missed = TRUE] ELSE look[l]]
        /\ cmd' = [cmd EXCEPT ![c] =
                     IF cmd[c].todo = <<>> THEN IdleCommand
                     ELSE [@ EXCEPT !.inv = <<>>, !.pc = "insert"]]
        /\ UNCHANGED <<now, rows>>

\* invalidateCaches, one key.  Another process's leaves this cache alone.
Invalidate(c) ==
    LET k == Head(cmd[c].inv)
    IN  /\ cmd[c].pc = "inv"
        /\ cache' = IF c \in Remote
                    THEN [cache EXCEPT ![k] = IF @ = None THEN None ELSE [@ EXCEPT !.missed = TRUE]]
                    ELSE [cache EXCEPT ![k] = None]
        /\ look' = [l \in Lookups |-> IF look[l].key = k /\ look[l].pc \in {"ttl", "set"}
                                      THEN [look[l] EXCEPT !.missed = TRUE] ELSE look[l]]
        /\ cmd' = [cmd EXCEPT ![c] =
                     IF Tail(cmd[c].inv) = <<>> /\ cmd[c].todo = <<>> THEN IdleCommand
                     ELSE [@ EXCEPT !.inv = Tail(cmd[c].inv),
                                    !.pc = IF Tail(cmd[c].inv) = <<>> THEN "insert" ELSE "inv"]]
        /\ UNCHANGED <<now, rows>>

Tick ==
    /\ now < MaxTime
    /\ now' = now + 1
    /\ UNCHANGED <<rows, cache, look, cmd>>

GetAbuse(l) ==
    \/ \E k \in Keys : CacheGet(l, k) \/ CacheSkip(l, k)
    \/ Select(l) \/ SelectFails(l) \/ ComputeTTL(l) \/ SetTime(l) \/ Return(l)

Execute(c) ==
    \/ \E n \in 1 .. MaxGroup : \E players \in [1 .. n -> Logins], dur \in Durations :
          Ban(c, players, dur)
    \/ \E i \in Ids : Insert(c, i)
    \/ InsertFails(c)
    \/ \E i \in Ids : Unban(c, i)
    \/ Update(c) \/ UpdateFails(c) \/ Invalidate(c)

Next ==
    \/ \E l \in Lookups : GetAbuse(l)
    \/ \E c \in Commands : Execute(c)
    \/ Tick

Spec == Init /\ [][Next]_vars

-----------------------------------------------------------------------------
\* The shape of the state; the cache holds no more entries than it may.
TypeOK ==
    /\ now \in Nat
    /\ rows \in [Ids -> Row \cup {None}]
    /\ cache \in [Keys -> Entry \cup {None}]
    /\ Cardinality({k \in Keys : cache[k] # None}) <= CacheSize
    /\ look \in [Lookups -> Lookup]
    /\ cmd \in [Commands -> Command]

Live(k) == cache[k] # None /\ cache[k].expires >= now

\* A command has written an abuse of key k and has not invalidated k yet.
Pending(k) == \E c \in Commands : \E n \in 1 .. Len(cmd[c].inv) : cmd[c].inv[n] = k

\* What Get would return is what the database would answer at this moment, for
\* the nickname and for the UUID, unless a command is about to invalidate the
\* key or its invalidation fell between a lookup's Select and its SetTime (or
\* was another process's).  In particular the earliest of several abuses is
\* cached, and gives way to the next one when it ends.
CacheCoherent ==
    \A k \in Keys : Live(k) => \/ cache[k].value \in ListAbuses(k)
                               \/ Pending(k)
                               \/ cache[k].missed

\* No answer enforces an abuse that had ended when the answer was read, from the
\* database or from a cache entry filled long before.
AnswerUnexpired ==
    \A l \in Lookups : look[l].pc = "done" /\ look[l].value # None =>
        look[l].read <= rows[look[l].value].expires

\* Whatever an entry says, and however often it is asked for, it is gone within
\* TTL: an answer that missed an invalidation is repeated no longer than that.  And
\* however many lookups store at once, there are no more entries than the cache's size.
EntriesEnd ==
    /\ \A k \in Keys : cache[k] # None => cache[k].expires <= now + TTL
    /\ Cardinality({k \in Keys : cache[k] # None}) <= CacheSize
=============================================================================
