-------------------------- MODULE AbuseCacheProofs --------------------------
(***************************************************************************)
(* Proofs about AbuseCache.  What a lookup carries from its Select to its  *)
(* SetTime obeys the same law as what the cache holds (Good): it is what   *)
(* the database would answer, or ended, or a command has still to          *)
(* invalidate its key, or an invalidation has passed it by.  Every step    *)
(* but the invalidation of the key keeps that, whoever takes it.           *)
(***************************************************************************)
EXTENDS AbuseCache, FiniteSetTheorems, TLAPS

Values == Ids \cup {None}

\* A command that is not invalidating owes no invalidation.
CmdInv ==
    \A c \in Commands :
        /\ cmd[c].pc = "insert" => cmd[c].todo # <<>>
        /\ cmd[c].pc = "update" => cmd[c].id \in Ids /\ rows[cmd[c].id] # None
        /\ cmd[c].pc = "inv" => cmd[c].inv # <<>>
        /\ cmd[c].pc # "inv" => cmd[c].inv = <<>>

LookInv ==
    \A l \in Lookups :
        /\ look[l].pc \in {"select", "ttl", "set"} => look[l].key \in Keys
        /\ look[l].value # None =>
              rows[look[l].value] # None /\ look[l].read <= rows[look[l].value].expires
        /\ look[l].pc = "set" =>
              /\ look[l].ttl <= now + TTL
              /\ look[l].value # None => look[l].ttl <= rows[look[l].value].expires

EntryInv ==
    \A k \in Keys : cache[k] # None =>
        /\ cache[k].expires <= now + TTL
        /\ cache[k].value # None =>
              rows[cache[k].value] # None /\ cache[k].expires <= rows[cache[k].value].expires

Inv == TypeOK /\ CmdInv /\ LookInv /\ EntryInv

\* v is the database's answer for k, or an abuse that has ended.
Right(k, v) ==
    IF v = None THEN Effective(k) = {} ELSE rows[v].expires < now \/ v \in ListAbuses(k)

Good(k, v) == Right(k, v) \/ Pending(k)

Coherent ==
    /\ \A k \in Keys : cache[k] # None => Good(k, cache[k].value) \/ cache[k].missed
    /\ \A l \in Lookups : look[l].pc \in {"ttl", "set"} =>
          Good(look[l].key, look[l].value) \/ look[l].missed

-----------------------------------------------------------------------------
(* What ListAbuses returns.                                                *)

\* A Select answers nil or a row that is there and has not ended.
LEMMA ListFacts ==
    ASSUME TypeOK, NEW k \in Keys, NEW v \in ListAbuses(k)
    PROVE  /\ v \in Values
           /\ v # None => rows[v] # None /\ rows[v] \in Row /\ rows[v].expires >= now
           /\ v = None => Effective(k) = {}
BY NamesAssumption DEF ListAbuses, Effective, TypeOK, Values

\* Nil is right when no abuse is effective.
LEMMA NilIsListed ==
    ASSUME NEW k \in Keys, Effective(k) = {}
    PROVE  None \in ListAbuses(k)
BY DEF ListAbuses

\* The answer depends on the table and the clock alone.
LEMMA SameRight ==
    ASSUME NEW k, NEW v, rows' = rows, now' = now, Right(k, v)
    PROVE  Right(k, v)'
BY DEF Right, ListAbuses, Effective, NamesOf

\* An answer stays right as time passes, until the abuse has ended.
LEMMA TickRight ==
    ASSUME TypeOK, NEW k \in Keys, NEW v \in Values, v # None => rows[v] # None,
           rows' = rows, now' = now + 1, Right(k, v)
    PROVE  Right(k, v)'
<1>0. now \in Nat /\ \A i \in Ids : rows[i] # None => rows[i] \in Row
  BY DEF TypeOK
<1>1. Effective(k)' \subseteq Effective(k)
  BY <1>0 DEF Effective, NamesOf, Row
<1>2. CASE v = None
  BY <1>1, <1>2 DEF Right
<1>3. CASE v # None
  <2>0. v \in Ids /\ rows[v] \in Row
    BY <1>0, <1>3 DEF Values
  <2>1. CASE rows[v].expires < now'
    BY <1>3, <2>1 DEF Right
  <2>2. CASE ~(rows[v].expires < now')
    <3>1. v \in ListAbuses(k)
      BY <1>0, <1>3, <2>0, <2>2 DEF Right, Row
    <3>2. v \in Effective(k) /\ \A j \in Effective(k) : rows[v].expires <= rows[j].expires
      BY <3>1, <2>0, NamesAssumption DEF ListAbuses
    <3>3. v \in Effective(k)'
      BY <3>2, <2>0, <2>2, <1>0 DEF Effective, NamesOf, Row
    <3>4. v \in ListAbuses(k)'
      BY <3>2, <3>3, <1>1 DEF ListAbuses
    <3> QED
      BY <3>4, <1>3 DEF Right
  <2> QED
    BY <2>1, <2>2
<1> QED
  BY <1>2, <1>3

\* Writing a row that does not bear the name k changes nothing for k.
LEMMA OtherRight ==
    ASSUME TypeOK, NEW k \in Keys, NEW v \in Values, v # None => rows[v] # None,
           NEW i \in Ids, NEW r \in Row, rows' = [rows EXCEPT ![i] = r], now' = now,
           rows[i] # None => k \notin NamesOf(i) /\ r.expires = rows[i].expires,
           k \notin {r.player, r.uuid}, Right(k, v)
    PROVE  Right(k, v)'
<1>0. /\ rows'[i] = r /\ r # None => r \in Row
      /\ \A j \in Ids : j # i => rows'[j] = rows[j]
  BY DEF TypeOK
<1>1. Effective(k)' = Effective(k)
  BY <1>0 DEF Effective, NamesOf
<1>2. i \notin Effective(k)
  BY DEF Effective, NamesOf
<1>3. ListAbuses(k)' = ListAbuses(k)
  BY <1>0, <1>1, <1>2 DEF ListAbuses, Effective
<1>4. v # None => rows'[v].expires = rows[v].expires
  BY <1>0 DEF Values
<1> QED
  BY <1>1, <1>3, <1>4 DEF Right

-----------------------------------------------------------------------------
(* What commands still owe.                                                *)

\* A command that leaves its list of invalidations as it is leaves Pending alone.
LEMMA SamePending ==
    ASSUME NEW k, \A c \in Commands : cmd'[c].inv = cmd[c].inv, Pending(k)
    PROVE  Pending(k)'
BY DEF Pending

\* A command that writes a row owes the invalidation of both its names, and the
\* others still owe theirs.
LEMMA WritePending ==
    ASSUME TypeOK, NEW k \in Keys, NEW c \in Commands, NEW r \in Row, cmd[c].inv = <<>>,
           cmd' = [cmd EXCEPT ![c] = cmd'[c]], cmd'[c].inv = <<r.player, r.uuid>>
    PROVE  /\ Pending(k) => Pending(k)'
           /\ k \in {r.player, r.uuid} => Pending(k)'
<1>1. \A d \in Commands : d # c => cmd'[d] = cmd[d]
  BY DEF TypeOK
<1>2. Len(cmd'[c].inv) = 2 /\ cmd'[c].inv[1] = r.player /\ cmd'[c].inv[2] = r.uuid
  OBVIOUS
<1>3. \A n : n \notin 1 .. Len(cmd[c].inv)
  OBVIOUS
<1>4. k \in {r.player, r.uuid} => Pending(k)'
  <2>1. CASE k = r.player
    <3>1. 1 \in 1 .. Len(cmd'[c].inv)
      BY <1>2
    <3> QED
      BY <2>1, <1>2, <3>1 DEF Pending
  <2>2. CASE k = r.uuid
    <3>1. 2 \in 1 .. Len(cmd'[c].inv)
      BY <1>2
    <3> QED
      BY <2>2, <1>2, <3>1 DEF Pending
  <2> QED
    BY <2>1, <2>2
<1>5. Pending(k) => Pending(k)'
  BY <1>1, <1>3 DEF Pending
<1> QED
  BY <1>4, <1>5

\* Invalidating one name leaves the other names' invalidations owed.
LEMMA InvalidatePending ==
    ASSUME TypeOK, CmdInv, NEW c \in Commands, Invalidate(c), NEW k \in Keys,
           k # Head(cmd[c].inv), Pending(k)
    PROVE  Pending(k)'
<1>0. /\ cmd[c] \in Command /\ cmd[c].inv \in Seq(Keys) /\ cmd[c].inv # <<>>
      /\ \A d \in Commands : d # c => cmd'[d] = cmd[d]
  BY DEF TypeOK, CmdInv, Invalidate, Command
<1>a. PICK d \in Commands : \E n \in 1 .. Len(cmd[d].inv) : cmd[d].inv[n] = k
  BY DEF Pending
<1>1. PICK n \in 1 .. Len(cmd[d].inv) : cmd[d].inv[n] = k
  BY <1>a
<1>2. CASE d # c
  BY <1>0, <1>1, <1>2 DEF Pending
<1>3. CASE d = c
  <2>1. n # 1 /\ n \in 2 .. Len(cmd[c].inv)
    BY <1>0, <1>1, <1>3
  <2>2. /\ Len(Tail(cmd[c].inv)) = Len(cmd[c].inv) - 1
        /\ n - 1 \in 1 .. Len(Tail(cmd[c].inv))
        /\ Tail(cmd[c].inv)[n - 1] = k
    BY <1>0, <1>1, <1>3, <2>1
  <2>3. Tail(cmd[c].inv) # <<>>
    BY <2>2
  <2>4. cmd'[c].inv = Tail(cmd[c].inv)
    <3> DEFINE p == IF Tail(cmd[c].inv) = <<>> THEN "insert" ELSE "inv"
               e == [cmd[c] EXCEPT !.inv = Tail(cmd[c].inv), !.pc = p]
    <3>1. cmd' = [cmd EXCEPT ![c] = IF Tail(cmd[c].inv) = <<>> /\ cmd[c].todo = <<>>
                                    THEN IdleCommand ELSE e]
      BY DEF Invalidate
    <3>2. e.inv = Tail(cmd[c].inv)
      BY <1>0 DEF Command
    <3> HIDE DEF e
    <3>3. cmd'[c] = e
      BY <3>1, <2>3 DEF TypeOK
    <3> QED
      BY <3>2, <3>3
  <2>5. Len(cmd'[c].inv) = Len(Tail(cmd[c].inv)) /\ cmd'[c].inv[n - 1] = k
    BY <2>2, <2>4
  <2> QED
    BY <2>2, <2>5 DEF Pending
<1> QED
  BY <1>2, <1>3

\* A step that invalidates nothing keeps what is good for k good.
LEMMA GoodStep ==
    ASSUME Inv, [Next]_vars, NEW k \in Keys, NEW v \in Values, v # None => rows[v] # None,
           Good(k, v), \A c \in Commands : ~Invalidate(c)
    PROVE  Good(k, v)'
<1> USE DEF Inv
<1>1. CASE UNCHANGED <<now, rows, cmd>>
  <2>1. Right(k, v) => Right(k, v)'
    BY <1>1, SameRight
  <2>2. Pending(k) => Pending(k)'
    BY <1>1, SamePending
  <2> QED
    BY <2>1, <2>2 DEF Good
<1>2. CASE Tick
  <2>1. Right(k, v) => Right(k, v)'
    BY <1>2, TickRight DEF Tick
  <2>2. Pending(k) => Pending(k)'
    BY <1>2, SamePending DEF Tick
  <2> QED
    BY <2>1, <2>2 DEF Good
<1>3. ASSUME NEW c \in Commands, UNCHANGED <<now, rows>>, cmd[c].pc # "inv",
             cmd' = [cmd EXCEPT ![c] = cmd'[c]], cmd'[c].inv = <<>>
      PROVE  Good(k, v)'
  <2>1. Right(k, v) => Right(k, v)'
    BY <1>3, SameRight
  <2>2. \A d \in Commands : cmd'[d].inv = cmd[d].inv
    BY <1>3 DEF CmdInv, TypeOK
  <2>3. Pending(k) => Pending(k)'
    BY <2>2, SamePending
  <2> QED
    BY <2>1, <2>3 DEF Good
<1>4. ASSUME NEW c \in Commands, NEW i \in Ids, Insert(c, i)
      PROVE  Good(k, v)'
  <2> DEFINE login == Head(cmd[c].todo)
             r == [player |-> login.player, uuid |-> login.uuid, expires |-> cmd[c].expires,
                   pardoned |-> FALSE]
  <2>1. login \in Logins /\ cmd[c].expires \in Nat /\ cmd[c].inv = <<>>
    BY <1>4 DEF Insert, CmdInv, TypeOK, Command
  <2>2. r \in Row
    BY <2>1, NamesAssumption DEF Row
  <2>3. cmd'[c].inv = <<r.player, r.uuid>> /\ cmd' = [cmd EXCEPT ![c] = cmd'[c]]
    BY <1>4 DEF Insert, NamesToInvalidate, TypeOK, Command
  <2>4. rows' = [rows EXCEPT ![i] = r] /\ now' = now /\ rows[i] = None
    BY <1>4 DEF Insert
  <2> HIDE DEF r
  <2>5. /\ Pending(k) => Pending(k)'
        /\ k \in {r.player, r.uuid} => Pending(k)'
    BY <2>1, <2>2, <2>3, WritePending
  <2>6. k \notin {r.player, r.uuid} /\ Right(k, v) => Right(k, v)'
    BY <2>2, <2>4, OtherRight
  <2> QED
    BY <2>5, <2>6 DEF Good
<1>5. ASSUME NEW c \in Commands, Update(c)
      PROVE  Good(k, v)'
  <2> DEFINE i == cmd[c].id
             r == [rows[i] EXCEPT !.pardoned = TRUE]
  <2>1. i \in Ids /\ rows[i] \in Row /\ cmd[c].inv = <<>>
    BY <1>5 DEF Update, CmdInv, TypeOK
  <2>2. r \in Row /\ r.player = rows[i].player /\ r.uuid = rows[i].uuid
        /\ r.expires = rows[i].expires
    BY <2>1 DEF Row
  <2>3. cmd'[c].inv = <<r.player, r.uuid>> /\ cmd' = [cmd EXCEPT ![c] = cmd'[c]]
    BY <1>5, <2>2 DEF Update, NamesToInvalidate, TypeOK, Command
  <2>4. rows' = [rows EXCEPT ![i] = r] /\ now' = now
    BY <1>5 DEF Update
  <2>5. k \in NamesOf(i) <=> k \in {r.player, r.uuid}
    BY <2>2 DEF NamesOf
  <2> HIDE DEF r, i
  <2>6. /\ Pending(k) => Pending(k)'
        /\ k \in {r.player, r.uuid} => Pending(k)'
    BY <2>1, <2>2, <2>3, WritePending
  <2>7. k \notin {r.player, r.uuid} /\ Right(k, v) => Right(k, v)'
    BY <2>1, <2>2, <2>4, <2>5, OtherRight
  <2> QED
    BY <2>6, <2>7 DEF Good
<1>7. CASE \E l \in Lookups : GetAbuse(l)
  BY <1>1, <1>7 DEF GetAbuse, CacheGet, CacheSkip, Select, SelectFails, ComputeTTL, SetTime, Return
<1>8. ASSUME NEW c \in Commands, Execute(c)
      PROVE  Good(k, v)'
  <2>1. ASSUME NEW players, NEW dur, Ban(c, players, dur) PROVE Good(k, v)'
    BY <2>1, <1>3 DEF Ban, IdleCommand, TypeOK
  <2>2. CASE InsertFails(c)
    BY <2>2, <1>3 DEF InsertFails, IdleCommand, TypeOK
  <2>3. ASSUME NEW i \in Ids, Unban(c, i) PROVE Good(k, v)'
    BY <2>3, <1>3 DEF Unban, IdleCommand, TypeOK
  <2>4. CASE UpdateFails(c)
    BY <2>4, <1>3 DEF UpdateFails, IdleCommand, TypeOK
  <2> QED
    BY <1>4, <1>5, <1>8, <2>1, <2>2, <2>3, <2>4 DEF Execute
<1>9. CASE UNCHANGED vars
  BY <1>9, <1>1 DEF vars
<1> QED
  BY <1>2, <1>7, <1>8, <1>9 DEF Next

\* The invalidation of another key does, too.
LEMMA GoodInvalidate ==
    ASSUME Inv, NEW c \in Commands, Invalidate(c), NEW k \in Keys, k # Head(cmd[c].inv), NEW v,
           Good(k, v)
    PROVE  Good(k, v)'
<1>1. Pending(k) => Pending(k)'
  BY InvalidatePending DEF Inv
<1>2. Right(k, v) => Right(k, v)'
  BY SameRight DEF Invalidate
<1> QED
  BY <1>1, <1>2 DEF Good

-----------------------------------------------------------------------------
(* Shapes and bounds.                                                      *)

Entries(f) == {k \in Keys : f[k] # None}

\* Deleting or marking entries never makes the cache larger.
LEMMA FewerEntries ==
    ASSUME TypeOK, NEW f, Entries(f) \subseteq Entries(cache)
    PROVE  Cardinality(Entries(f)) <= CacheSize
<1>1. IsFiniteSet(Entries(cache)) /\ IsFiniteSet(Entries(f))
  BY NamesAssumption, FS_Subset DEF Entries
<1>2. Cardinality(Entries(f)) <= Cardinality(Entries(cache))
  BY <1>1, FS_Subset
<1>3. Cardinality(Entries(f)) \in Nat /\ Cardinality(Entries(cache)) \in Nat
  BY <1>1, FS_CardinalityType
<1> QED
  BY <1>2, <1>3, TimesAssumption DEF TypeOK, Entries

\* SetTime keeps the cache within its size.
LEMMA CacheWithFits ==
    ASSUME TypeOK, NEW k \in Keys, NEW e
    PROVE  Cardinality(Entries(CacheWith(k, e))) <= CacheSize
<1> DEFINE f == CacheWith(k, e)
           full == Cardinality({j \in Keys : cache[j] # None}) + 1 > CacheSize
<1>0. f = [j \in Keys |-> IF j = k THEN e ELSE IF full THEN None ELSE cache[j]]
  BY DEF CacheWith
<1>1. IsFiniteSet(Entries(cache)) /\ IsFiniteSet(Entries(f))
  BY NamesAssumption, FS_Subset DEF Entries
<1>2. Cardinality(Entries(f)) \in Nat /\ Cardinality(Entries(cache)) \in Nat
  BY <1>1, FS_CardinalityType
<1>3. CASE full
  <2>1. Entries(f) \subseteq {k}
    BY <1>0, <1>3 DEF Entries
  <2>2. IsFiniteSet({k}) /\ Cardinality({k}) = 1
    BY FS_Singleton
  <2>3. Cardinality(Entries(f)) <= 1
    BY <2>1, <2>2, FS_Subset
  <2> QED
    BY <2>3, <1>2, TimesAssumption
<1>4. CASE ~full
  <2>1. Entries(f) \subseteq Entries(cache) \cup {k}
    BY <1>0, <1>4 DEF Entries
  <2>2. /\ IsFiniteSet(Entries(cache) \cup {k})
        /\ Cardinality(Entries(cache) \cup {k}) <= Cardinality(Entries(cache)) + 1
    <3>1. /\ IsFiniteSet(Entries(cache) \cup {k})
          /\ \/ Cardinality(Entries(cache) \cup {k}) = Cardinality(Entries(cache))
             \/ Cardinality(Entries(cache) \cup {k}) = Cardinality(Entries(cache)) + 1
      BY <1>1, FS_AddElement, Zenon
    <3> QED
      BY <3>1, <1>2
  <2>3. Cardinality(Entries(f)) <= Cardinality(Entries(cache) \cup {k})
    BY <2>1, <2>2, FS_Subset
  <2>4. Cardinality(Entries(cache) \cup {k}) \in Nat
    BY <2>2, FS_CardinalityType
  <2>5. Cardinality(Entries(cache)) + 1 <= CacheSize
    BY <1>4, <1>2, TimesAssumption DEF Entries
  <2> QED
    BY <2>2, <2>3, <2>4, <2>5, <1>2, TimesAssumption
<1> QED
  BY <1>3, <1>4

\* Everything holds before the first step: the cache and the table are empty.
LEMMA InitInv ==
    ASSUME Init
    PROVE  Inv /\ Coherent
<1>1. Entries(cache) = {}
  BY DEF Init, Entries
<1>2. Cardinality(Entries(cache)) = 0
  BY <1>1, FS_EmptySet
<1>3. TypeOK
  BY <1>2, TimesAssumption DEF Init, TypeOK, Lookup, IdleLookup, Command, IdleCommand, Entries
<1>4. CmdInv /\ LookInv /\ EntryInv
  BY DEF Init, CmdInv, LookInv, EntryInv, IdleLookup, IdleCommand
<1>5. Coherent
  BY DEF Init, Coherent, IdleLookup
<1> QED
  BY <1>3, <1>4, <1>5 DEF Inv

\* A step that replaces one lookup and no more than entries of the cache keeps Inv
\* if what it puts there does.
LEMMA LookStep ==
    ASSUME Inv, NEW l \in Lookups, NEW r \in Lookup, look' = [look EXCEPT ![l] = r],
           UNCHANGED <<now, rows, cmd>>,
           r.pc \in {"select", "ttl", "set"} => r.key \in Keys,
           r.value # None => rows[r.value] # None /\ r.read <= rows[r.value].expires,
           r.pc = "set" => /\ r.ttl <= now + TTL
                           /\ r.value # None => r.ttl <= rows[r.value].expires,
           cache' \in [Keys -> Entry \cup {None}],
           Cardinality(Entries(cache')) <= CacheSize,
           EntryInv'
    PROVE  Inv'
<1>1. TypeOK'
  BY DEF Inv, TypeOK, Entries
<1>2. CmdInv'
  BY DEF Inv, CmdInv
<1>3. LookInv'
  <2>1. \A j \in Lookups : look'[j] = IF j = l THEN r ELSE look[j]
    BY DEF Inv, TypeOK
  <2> QED
    BY <2>1 DEF Inv, LookInv
<1> QED
  BY <1>1, <1>2, <1>3 DEF Inv

\* What a lookup's step does to the cache is bounded like the rest.
LEMMA GetAbuseInv ==
    ASSUME Inv, NEW l \in Lookups, GetAbuse(l)
    PROVE  Inv'
<1> USE DEF Inv
<1>0. /\ look[l] \in Lookup /\ now \in Nat /\ TTL \in Nat
      /\ \A i \in Ids : rows[i] # None => rows[i] \in Row
      /\ \A k \in Keys : cache[k] # None => cache[k] \in Entry
      /\ IdleLookup \in Lookup
  BY TimesAssumption DEF TypeOK, IdleLookup, Lookup
<1>1. ASSUME cache' = cache, UNCHANGED <<now, rows>>
      PROVE  /\ cache' \in [Keys -> Entry \cup {None}] /\ EntryInv'
             /\ Cardinality(Entries(cache')) <= CacheSize
  BY <1>1 DEF TypeOK, EntryInv, Entries
<1>2. ASSUME NEW k \in Keys, CacheGet(l, k)
      PROVE  Inv'
  <2> DEFINE s == [IdleLookup EXCEPT !.pc = "select", !.key = k]
             h == [IdleLookup EXCEPT !.pc = "done", !.value = cache[k].value, !.read = now]
  <2>1. s \in Lookup /\ s.pc = "select" /\ s.key = k /\ s.value = None
    BY DEF IdleLookup, Lookup
  <2>2. CASE cache[k] = None
    <3>1. look' = [look EXCEPT ![l] = s] /\ UNCHANGED <<now, rows, cache, cmd>>
      BY <1>2, <2>2 DEF CacheGet
    <3> QED
      BY <2>1, <3>1, <1>1, LookStep
  <2>3. CASE cache[k] # None /\ cache[k].expires < now
    <3>1. /\ look' = [look EXCEPT ![l] = s] /\ UNCHANGED <<now, rows, cmd>>
          /\ cache' = [cache EXCEPT ![k] = None]
      BY <1>2, <2>3, <1>0 DEF CacheGet, Entry
    <3>2. cache' \in [Keys -> Entry \cup {None}] /\ EntryInv'
      BY <3>1 DEF TypeOK, EntryInv
    <3>3. Entries(cache') \subseteq Entries(cache)
      BY <3>1 DEF Entries, TypeOK
    <3>4. Cardinality(Entries(cache')) <= CacheSize
      BY <3>3, FewerEntries
    <3> QED
      BY <2>1, <3>1, <3>2, <3>4, LookStep
  <2>4. CASE cache[k] # None /\ cache[k].expires >= now
    <3>1. look' = [look EXCEPT ![l] = h] /\ UNCHANGED <<now, rows, cache, cmd>>
      BY <1>2, <2>4, <1>0 DEF CacheGet, Entry
    <3>2. h \in Lookup /\ h.pc = "done" /\ h.value = cache[k].value /\ h.read = now
      BY <1>0, <2>4 DEF IdleLookup, Lookup, Entry
    <3>3. h.value # None => rows[h.value] # None /\ h.read <= rows[h.value].expires
      BY <1>0, <2>4, <3>2 DEF EntryInv, Entry, Row
    <3> QED
      BY <3>1, <3>2, <3>3, <1>1, LookStep
  <2> QED
    BY <1>0, <2>2, <2>3, <2>4 DEF Entry
<1>3. ASSUME NEW k \in Keys, CacheSkip(l, k)
      PROVE  Inv'
  <2> DEFINE s == [IdleLookup EXCEPT !.pc = "select", !.key = k]
  <2>1. s \in Lookup /\ s.pc = "select" /\ s.key = k /\ s.value = None
    BY DEF IdleLookup, Lookup
  <2> QED
    BY <1>1, <1>3, <2>1, LookStep DEF CacheSkip
<1>4. CASE Select(l)
  <2>0. look[l].key \in Keys
    BY <1>4 DEF Select, LookInv
  <2>1. PICK v \in ListAbuses(look[l].key) :
           look' = [look EXCEPT ![l] = [look[l] EXCEPT !.pc = "ttl", !.value = v, !.read = now]]
    BY <1>4 DEF Select
  <2> DEFINE s == [look[l] EXCEPT !.pc = "ttl", !.value = v, !.read = now]
  <2>2. v \in Values /\ (v # None => rows[v] # None /\ rows[v] \in Row /\ rows[v].expires >= now)
    BY <2>0, ListFacts
  <2>3. s \in Lookup /\ s.pc = "ttl" /\ s.key = look[l].key /\ s.value = v /\ s.read = now
    BY <1>0, <2>2 DEF Lookup, Values
  <2>4. s.value # None => rows[s.value] # None /\ s.read <= rows[s.value].expires
    BY <1>0, <2>2, <2>3 DEF Row
  <2>5. look' = [look EXCEPT ![l] = s] /\ UNCHANGED <<now, rows, cache, cmd>>
    BY <2>1, <1>4 DEF Select
  <2> HIDE DEF s
  <2> QED
    BY <1>1, <2>0, <2>3, <2>4, <2>5, LookStep
<1>5. CASE SelectFails(l) \/ Return(l)
  <2>1. look' = [look EXCEPT ![l] = IdleLookup] /\ UNCHANGED <<now, rows, cache, cmd>>
    BY <1>5 DEF SelectFails, Return
  <2>2. IdleLookup.pc = "idle" /\ IdleLookup.value = None
    BY DEF IdleLookup
  <2> QED
    BY <1>0, <1>1, <2>1, <2>2, LookStep
<1>6. CASE ComputeTTL(l)
  <2> DEFINE t == CacheTTL(look[l].value)
             s == [look[l] EXCEPT !.pc = "set", !.ttl = t]
  <2>0. look[l].value # None =>
           rows[look[l].value] \in Row /\ look[l].read <= rows[look[l].value].expires
    BY <1>0 DEF LookInv, Lookup
  <2>1. /\ t \in Nat /\ t <= now + TTL
        /\ look[l].value # None => t <= rows[look[l].value].expires
    BY <1>0, <2>0 DEF CacheTTL, Row
  <2> HIDE DEF t
  <2>2. s \in Lookup /\ s.pc = "set" /\ s.key = look[l].key /\ s.value = look[l].value
        /\ s.ttl = t /\ s.read = look[l].read
    BY <1>0, <2>1 DEF Lookup
  <2>3. look' = [look EXCEPT ![l] = s] /\ UNCHANGED <<now, rows, cache, cmd>>
    BY <1>6 DEF ComputeTTL, t
  <2>4. /\ s.key \in Keys
        /\ s.value # None => rows[s.value] # None /\ s.read <= rows[s.value].expires
    BY <1>6, <2>2 DEF LookInv, ComputeTTL
  <2> HIDE DEF s
  <2> QED
    BY <1>1, <2>1, <2>2, <2>3, <2>4, LookStep
<1>7. CASE SetTime(l)
  <2> DEFINE s == [IdleLookup EXCEPT !.pc = "done", !.value = look[l].value, !.read = look[l].read]
             e == [value |-> look[l].value, expires |-> look[l].ttl, missed |-> look[l].missed]
             k == look[l].key
  <2>1. s \in Lookup /\ s.pc = "done" /\ s.value = look[l].value /\ s.read = look[l].read
    BY <1>0 DEF IdleLookup, Lookup
  <2>2. s.value # None => rows[s.value] # None /\ s.read <= rows[s.value].expires
    BY <2>1 DEF LookInv
  <2>3. /\ look' = [look EXCEPT ![l] = s] /\ UNCHANGED <<now, rows, cmd>>
        /\ cache' = cache \/ cache' = CacheWith(k, e)
    BY <1>7 DEF SetTime
  <2> HIDE DEF s
  <2>4. CASE cache' = cache
    BY <1>1, <2>1, <2>2, <2>3, <2>4, LookStep
  <2>5. CASE cache' = CacheWith(k, e)
    <3>1. /\ k \in Keys /\ e \in Entry /\ e.expires <= now + TTL
          /\ e.value # None => rows[e.value] # None /\ e.expires <= rows[e.value].expires
      BY <1>0, <1>7 DEF SetTime, LookInv, Lookup, Entry
    <3>2. \A j \in Keys : cache'[j] = e \/ cache'[j] = None \/ cache'[j] = cache[j]
      BY <2>5 DEF CacheWith
    <3>3. DOMAIN cache' = Keys /\ cache' = [j \in Keys |-> cache'[j]]
      BY <2>5 DEF CacheWith
    <3> HIDE DEF e, k
    <3>4. cache' \in [Keys -> Entry \cup {None}]
      BY <3>1, <3>2, <3>3 DEF TypeOK
    <3>5. EntryInv'
      BY <2>3, <3>1, <3>2 DEF EntryInv
    <3>6. Cardinality(Entries(cache')) <= CacheSize
      BY <2>5, <3>1, CacheWithFits
    <3> QED
      BY <2>1, <2>2, <2>3, <3>4, <3>5, <3>6, LookStep
  <2> QED
    BY <2>3, <2>4, <2>5
<1> QED
  BY <1>2, <1>3, <1>4, <1>5, <1>6, <1>7 DEF GetAbuse

\* A step of a command that adds rows or pardons them, or neither.
LEMMA CmdStep ==
    ASSUME Inv, NEW c \in Commands, NEW r \in Command, cmd' = [cmd EXCEPT ![c] = r],
           UNCHANGED <<now, cache, look>>,
           rows' \in [Ids -> Row \cup {None}],
           \A i \in Ids : rows[i] # None => rows'[i] # None /\ rows'[i].expires = rows[i].expires,
           r.pc = "insert" => r.todo # <<>>,
           r.pc = "update" => r.id \in Ids /\ rows'[r.id] # None,
           r.pc = "inv" => r.inv # <<>>,
           r.pc # "inv" => r.inv = <<>>
    PROVE  Inv'
<1>1. TypeOK'
  BY DEF Inv, TypeOK
<1>2. CmdInv'
  <2>1. \A d \in Commands : cmd'[d] = IF d = c THEN r ELSE cmd[d]
    BY DEF Inv, TypeOK
  <2> QED
    BY <2>1 DEF Inv, CmdInv
<1>3. LookInv'
  <2>1. \A l \in Lookups : look[l].value \in Values
    BY DEF Inv, TypeOK, Lookup, Values
  <2> QED
    BY <2>1 DEF Inv, LookInv, Values
<1>4. EntryInv'
  <2>1. \A k \in Keys : cache[k] # None => cache[k].value \in Values
    BY DEF Inv, TypeOK, Entry, Values
  <2> QED
    BY <2>1 DEF Inv, EntryInv, Values
<1> QED
  BY <1>1, <1>2, <1>3, <1>4 DEF Inv

\* Every step of a command keeps the shapes and the bounds.
LEMMA ExecuteInv ==
    ASSUME Inv, NEW c \in Commands, Execute(c)
    PROVE  Inv'
<1> USE DEF Inv
<1>0. /\ cmd[c] \in Command /\ now \in Nat /\ rows \in [Ids -> Row \cup {None}]
      /\ IdleCommand \in Command /\ IdleCommand.pc = "idle" /\ IdleCommand.inv = <<>>
  BY DEF TypeOK, IdleCommand, Command
<1>1. ASSUME NEW n \in 1 .. MaxGroup, NEW players \in [1 .. n -> Logins], NEW dur \in Durations,
             Ban(c, players, dur)
      PROVE  Inv'
  <2> DEFINE e == IF dur > 0 THEN now + dur ELSE 0
             r == [IdleCommand EXCEPT !.pc = "insert", !.todo = players, !.expires = e]
  <2>1. e \in Nat
    BY <1>0, TimesAssumption
  <2>2. players \in Seq(Logins) /\ Len(players) = n /\ n > 0
    BY TimesAssumption
  <2>3. players # <<>>
    BY <2>2
  <2>4. r \in Command /\ r.pc = "insert" /\ r.todo = players /\ r.inv = <<>>
    <3> HIDE DEF e
    <3> QED
      BY <1>0, <2>1, <2>2 DEF Command
  <2>5. cmd' = [cmd EXCEPT ![c] = r] /\ UNCHANGED <<now, rows, cache, look>>
    BY <1>1 DEF Ban
  <2> HIDE DEF r
  <2> QED
    BY <1>0, <2>3, <2>4, <2>5, CmdStep
<1>2. ASSUME NEW i \in Ids, Insert(c, i)
      PROVE  Inv'
  <2> DEFINE login == Head(cmd[c].todo)
             row == [player |-> login.player, uuid |-> login.uuid, expires |-> cmd[c].expires,
                     pardoned |-> FALSE]
             r == [cmd[c] EXCEPT !.pc = "inv", !.todo = Tail(cmd[c].todo),
                                 !.inv = NamesToInvalidate(row)]
  <2>1. /\ login \in Logins /\ cmd[c].expires \in Nat /\ Tail(cmd[c].todo) \in Seq(Logins)
    BY <1>0, <1>2 DEF Insert, CmdInv, Command
  <2>2. row \in Row /\ row.expires = cmd[c].expires
    BY <2>1, NamesAssumption DEF Row
  <2>a. NamesToInvalidate(row) \in Seq(Keys) /\ NamesToInvalidate(row) # <<>>
    BY <2>2 DEF NamesToInvalidate, Row
  <2>b. cmd' = [cmd EXCEPT ![c] = r] /\ UNCHANGED <<now, cache, look>>
    BY <1>2 DEF Insert
  <2>c. rows' = [rows EXCEPT ![i] = row] /\ rows[i] = None
    BY <1>2 DEF Insert
  <2> HIDE DEF row
  <2>3. r \in Command /\ r.pc = "inv" /\ r.inv = NamesToInvalidate(row)
    BY <1>0, <2>1, <2>a DEF Command
  <2>4. /\ rows' \in [Ids -> Row \cup {None}]
        /\ \A j \in Ids : rows[j] # None =>
              rows'[j] # None /\ rows'[j].expires = rows[j].expires
    BY <1>0, <2>2, <2>c, NoneAssumption
  <2> HIDE DEF r
  <2> QED
    BY <2>3, <2>4, <2>a, <2>b, CmdStep
<1>3. CASE InsertFails(c) \/ UpdateFails(c)
  <2>1. cmd' = [cmd EXCEPT ![c] = IdleCommand] /\ UNCHANGED <<now, rows, cache, look>>
    BY <1>3 DEF InsertFails, UpdateFails
  <2> QED
    BY <1>0, <2>1, CmdStep
<1>4. ASSUME NEW i \in Ids, Unban(c, i)
      PROVE  Inv'
  <2> DEFINE r == [IdleCommand EXCEPT !.pc = "update", !.id = i]
  <2>1. r \in Command /\ r.pc = "update" /\ r.id = i /\ r.inv = <<>>
    BY <1>0 DEF Command
  <2>2. /\ cmd' = [cmd EXCEPT ![c] = r] /\ UNCHANGED <<now, rows, cache, look>>
        /\ rows[i] # None
    BY <1>4 DEF Unban
  <2> HIDE DEF r
  <2> QED
    BY <1>0, <2>1, <2>2, CmdStep
<1>5. CASE Update(c)
  <2> DEFINE i == cmd[c].id
             row == [rows[i] EXCEPT !.pardoned = TRUE]
             r == [cmd[c] EXCEPT !.pc = "inv", !.inv = NamesToInvalidate(rows[i])]
  <2>1. i \in Ids /\ rows[i] # None /\ rows[i] \in Row
    BY <1>0, <1>5 DEF Update, CmdInv
  <2>2. row \in Row /\ row.expires = rows[i].expires
    BY <2>1 DEF Row
  <2>a. NamesToInvalidate(rows[i]) \in Seq(Keys) /\ NamesToInvalidate(rows[i]) # <<>>
    BY <2>1 DEF NamesToInvalidate, Row
  <2>b. /\ cmd' = [cmd EXCEPT ![c] = r] /\ UNCHANGED <<now, cache, look>>
        /\ rows' = [rows EXCEPT ![i] = row]
    BY <1>5 DEF Update
  <2>3. r \in Command /\ r.pc = "inv" /\ r.inv = NamesToInvalidate(rows[i])
    BY <1>0, <2>a DEF Command
  <2> HIDE DEF row, r
  <2>c. row # None
    BY <2>2, NoneAssumption
  <2>4. /\ rows' \in [Ids -> Row \cup {None}]
        /\ \A j \in Ids : rows[j] # None =>
              rows'[j] # None /\ rows'[j].expires = rows[j].expires
    BY <1>0, <2>1, <2>2, <2>b, <2>c
  <2> QED
    BY <2>3, <2>4, <2>a, <2>b, CmdStep
<1>6. CASE Invalidate(c)
  <2> DEFINE k == Head(cmd[c].inv)
             e == [cmd[c] EXCEPT !.inv = Tail(cmd[c].inv),
                                 !.pc = IF Tail(cmd[c].inv) = <<>> THEN "insert" ELSE "inv"]
             r == IF Tail(cmd[c].inv) = <<>> /\ cmd[c].todo = <<>> THEN IdleCommand ELSE e
  <2>1. k \in Keys /\ Tail(cmd[c].inv) \in Seq(Keys)
    BY <1>0, <1>6 DEF Invalidate, CmdInv, Command
  <2>2. cmd' = [cmd EXCEPT ![c] = r] /\ UNCHANGED <<now, rows>>
    BY <1>6 DEF Invalidate
  <2>3. /\ e \in Command /\ e.inv = Tail(cmd[c].inv) /\ e.todo = cmd[c].todo
        /\ e.pc = IF Tail(cmd[c].inv) = <<>> THEN "insert" ELSE "inv"
    BY <1>0, <2>1 DEF Command
  <2> HIDE DEF e
  <2>4. /\ r \in Command
        /\ r.pc = "insert" => r.todo # <<>>
        /\ r.pc # "update"
        /\ r.pc = "inv" => r.inv # <<>>
        /\ r.pc # "inv" => r.inv = <<>>
    BY <1>0, <2>3
  <2> HIDE DEF r
  <2>5. \A j \in Keys :
           \/ cache'[j] = cache[j] \/ cache'[j] = None
           \/ cache[j] # None /\ cache'[j] = [cache[j] EXCEPT !.missed = TRUE]
    BY <1>6 DEF Invalidate, TypeOK
  <2>6. cache' \in [Keys -> Entry \cup {None}]
    <3>1. cache[k] # None => [cache[k] EXCEPT !.missed = TRUE] \in Entry
      BY <2>1 DEF TypeOK, Entry
    <3> QED
      BY <1>6, <2>1, <3>1 DEF Invalidate, TypeOK
  <2>7. Cardinality(Entries(cache')) <= CacheSize
    <3>1. Entries(cache') \subseteq Entries(cache)
      BY <2>5 DEF Entries
    <3> QED
      BY <3>1, FewerEntries
  <2>8. \A l \in Lookups : look'[l] = look[l] \/ look'[l] = [look[l] EXCEPT !.missed = TRUE]
    BY <1>6 DEF Invalidate
  <2>a. ASSUME NEW l \in Lookups
        PROVE  /\ look'[l] \in Lookup /\ look'[l].pc = look[l].pc /\ look'[l].key = look[l].key
               /\ look'[l].value = look[l].value /\ look'[l].ttl = look[l].ttl
               /\ look'[l].read = look[l].read
    <3> DEFINE s == [look[l] EXCEPT !.missed = TRUE]
    <3>1. look[l] \in Lookup
      BY DEF TypeOK
    <3>2. /\ s \in Lookup /\ s.pc = look[l].pc /\ s.key = look[l].key
          /\ s.value = look[l].value /\ s.ttl = look[l].ttl /\ s.read = look[l].read
      BY <3>1 DEF Lookup
    <3> HIDE DEF s
    <3>3. CASE look'[l] = look[l]
      BY <3>1, <3>3
    <3>4. CASE look'[l] = s
      BY <3>2, <3>4
    <3> QED
      BY <3>3, <3>4, <2>8 DEF s
  <2>9. look' \in [Lookups -> Lookup]
    BY <2>a, <1>6 DEF Invalidate
  <2>10. TypeOK'
    BY <2>2, <2>4, <2>6, <2>7, <2>9 DEF TypeOK, Entries
  <2>11. CmdInv'
    <3>1. \A d \in Commands : cmd'[d] = IF d = c THEN r ELSE cmd[d]
      BY <2>2 DEF TypeOK
    <3> QED
      BY <2>2, <2>4, <3>1 DEF CmdInv
  <2>12. LookInv'
    BY <2>2, <2>a DEF LookInv
  <2>13. EntryInv'
    <3>1. \A j \in Keys : cache'[j] # None =>
             /\ cache[j] # None /\ cache'[j].value = cache[j].value
             /\ cache'[j].expires = cache[j].expires
      BY <2>5 DEF TypeOK, Entry
    <3> QED
      BY <2>2, <3>1 DEF EntryInv
  <2> QED
    BY <2>10, <2>11, <2>12, <2>13
<1> QED
  BY <1>1, <1>2, <1>3, <1>4, <1>5, <1>6 DEF Execute

\* Every step keeps the shapes and the bounds.
LEMMA NextInv ==
    ASSUME Inv, [Next]_vars
    PROVE  Inv'
<1>1. CASE \E l \in Lookups : GetAbuse(l)
  BY <1>1, GetAbuseInv
<1>2. CASE \E c \in Commands : Execute(c)
  BY <1>2, ExecuteInv
<1>3. CASE Tick
  <2>0. now \in Nat /\ TTL \in Nat /\ now' = now + 1
    BY <1>3, TimesAssumption DEF Inv, TypeOK, Tick
  <2>1. TypeOK' /\ CmdInv'
    BY <1>3, <2>0 DEF Inv, TypeOK, CmdInv, Tick
  <2>2. LookInv'
    BY <1>3, <2>0 DEF Inv, LookInv, Tick, TypeOK, Lookup
  <2>3. EntryInv'
    BY <1>3, <2>0 DEF Inv, EntryInv, Tick, TypeOK, Entry
  <2> QED
    BY <2>1, <2>2, <2>3 DEF Inv
<1>4. CASE UNCHANGED vars
  BY <1>4 DEF vars, Inv, TypeOK, CmdInv, LookInv, EntryInv
<1> QED
  BY <1>1, <1>2, <1>3, <1>4 DEF Next

-----------------------------------------------------------------------------
(* Coherence.                                                              *)

\* The invalidation of a key drops its entry, or marks it and the lookups of the
\* key that have read the database.
LEMMA InvalidateMarks ==
    ASSUME Inv, NEW c \in Commands, Invalidate(c)
    PROVE  /\ \A k \in Keys : k = Head(cmd[c].inv) /\ cache'[k] # None => cache'[k].missed
           /\ \A k \in Keys : k # Head(cmd[c].inv) => cache'[k] = cache[k]
           /\ \A l \in Lookups : look[l].pc \in {"ttl", "set"} =>
                 IF look[l].key = Head(cmd[c].inv) THEN look'[l].missed ELSE look'[l] = look[l]
           /\ \A l \in Lookups : look'[l].pc = look[l].pc
<1>1. /\ \A k \in Keys : cache[k] # None => cache[k] \in Entry
      /\ \A l \in Lookups : look[l] \in Lookup
  BY DEF Inv, TypeOK
<1>2. \A k \in Keys : cache[k] # None => [cache[k] EXCEPT !.missed = TRUE].missed
  BY <1>1 DEF Entry
<1>3. \A l \in Lookups : LET s == [look[l] EXCEPT !.missed = TRUE]
                         IN  s.missed /\ s.pc = look[l].pc
  BY <1>1 DEF Lookup
<1>4. \A k \in Keys : k = Head(cmd[c].inv) /\ cache'[k] # None => cache'[k].missed
  BY <1>2 DEF Invalidate, Inv, TypeOK
<1>5. \A k \in Keys : k # Head(cmd[c].inv) => cache'[k] = cache[k]
  BY DEF Invalidate, Inv, TypeOK
<1>6. \A l \in Lookups : look'[l] = IF /\ look[l].key = Head(cmd[c].inv)
                                       /\ look[l].pc \in {"ttl", "set"}
                                    THEN [look[l] EXCEPT !.missed = TRUE] ELSE look[l]
  BY DEF Invalidate
<1> QED
  BY <1>3, <1>4, <1>5, <1>6

\* Without an invalidation the cache holds what it held or what a lookup brings,
\* and a lookup carries what it carried or what the database has just answered.
LEMMA Moves ==
    ASSUME Inv, [Next]_vars, \A c \in Commands : ~Invalidate(c)
    PROVE  /\ \A k \in Keys : cache'[k] # None =>
                 \/ cache'[k] = cache[k]
                 \/ \E l \in Lookups :
                       /\ look[l].pc = "set" /\ look[l].key = k
                       /\ cache'[k].value = look[l].value /\ cache'[k].missed = look[l].missed
           /\ \A l \in Lookups : look'[l].pc \in {"ttl", "set"} =>
                 \/ /\ look[l].pc \in {"ttl", "set"} /\ look'[l].key = look[l].key
                    /\ look'[l].value = look[l].value /\ look'[l].missed = look[l].missed
                 \/ /\ look'[l].key \in Keys /\ look'[l].value \in ListAbuses(look'[l].key)
                    /\ UNCHANGED <<rows, now>>
<1> DEFINE P == \A k \in Keys : cache'[k] # None =>
                  \/ cache'[k] = cache[k]
                  \/ \E l \in Lookups :
                        /\ look[l].pc = "set" /\ look[l].key = k
                        /\ cache'[k].value = look[l].value /\ cache'[k].missed = look[l].missed
           Q == \A l \in Lookups : look'[l].pc \in {"ttl", "set"} =>
                  \/ /\ look[l].pc \in {"ttl", "set"} /\ look'[l].key = look[l].key
                     /\ look'[l].value = look[l].value /\ look'[l].missed = look[l].missed
                  \/ /\ look'[l].key \in Keys /\ look'[l].value \in ListAbuses(look'[l].key)
                     /\ UNCHANGED <<rows, now>>
<1>0. /\ cache \in [Keys -> Entry \cup {None}] /\ look \in [Lookups -> Lookup]
      /\ IdleLookup \in Lookup /\ IdleLookup.pc = "idle"
  BY DEF Inv, TypeOK, IdleLookup, Lookup
<1>1. CASE UNCHANGED <<cache, look>>
  BY <1>1
<1>2. ASSUME NEW l \in Lookups, NEW s, look' = [look EXCEPT ![l] = s], s.pc \notin {"ttl", "set"}
      PROVE  Q
  BY <1>2, <1>0
<1>3. ASSUME NEW l \in Lookups, NEW k \in Keys, CacheGet(l, k) \/ CacheSkip(l, k)
      PROVE  P /\ Q
  <2>1. P
    BY <1>3, <1>0 DEF CacheGet, CacheSkip
  <2>2. [IdleLookup EXCEPT !.pc = "select", !.key = k].pc = "select"
    BY DEF IdleLookup
  <2>3. [IdleLookup EXCEPT !.pc = "done", !.value = cache[k].value, !.read = now].pc = "done"
    BY DEF IdleLookup
  <2>4. Q
    BY <1>2, <1>3, <2>2, <2>3 DEF CacheGet, CacheSkip
  <2> QED
    BY <2>1, <2>4
<1>4. ASSUME NEW l \in Lookups, Select(l)
      PROVE  P /\ Q
  <2>0. look[l].key \in Keys
    BY <1>4 DEF Select, Inv, LookInv
  <2>1. PICK v \in ListAbuses(look[l].key) :
           look' = [look EXCEPT ![l] = [look[l] EXCEPT !.pc = "ttl", !.value = v, !.read = now]]
    BY <1>4 DEF Select
  <2>2. look'[l].key = look[l].key /\ look'[l].value = v
    BY <2>1, <1>0 DEF Lookup
  <2>3. \A j \in Lookups : j # l => look'[j] = look[j]
    BY <2>1, <1>0
  <2>4. UNCHANGED <<rows, now, cache>>
    BY <1>4 DEF Select
  <2> QED
    BY <2>0, <2>2, <2>3, <2>4
<1>5. ASSUME NEW l \in Lookups, SelectFails(l) \/ Return(l)
      PROVE  P /\ Q
  BY <1>0, <1>2, <1>5 DEF SelectFails, Return
<1>6. ASSUME NEW l \in Lookups, ComputeTTL(l)
      PROVE  P /\ Q
  <2> DEFINE t == CacheTTL(look[l].value)
  <2>1. /\ look' = [look EXCEPT ![l] = [look[l] EXCEPT !.pc = "set", !.ttl = t]]
        /\ look[l].pc = "ttl" /\ UNCHANGED cache
    BY <1>6 DEF ComputeTTL
  <2> HIDE DEF t
  <2>2. /\ look'[l].key = look[l].key /\ look'[l].value = look[l].value
        /\ look'[l].missed = look[l].missed
    BY <2>1, <1>0 DEF Lookup
  <2>3. \A j \in Lookups : j # l => look'[j] = look[j]
    BY <2>1, <1>0
  <2> QED
    BY <2>1, <2>2, <2>3
<1>7. ASSUME NEW l \in Lookups, SetTime(l)
      PROVE  P /\ Q
  <2> DEFINE e == [value |-> look[l].value, expires |-> look[l].ttl, missed |-> look[l].missed]
             s == [IdleLookup EXCEPT !.pc = "done", !.value = look[l].value, !.read = look[l].read]
  <2>1. s.pc = "done" /\ look' = [look EXCEPT ![l] = s] /\ look[l].pc = "set"
    BY <1>7 DEF SetTime, IdleLookup
  <2>2. Q
    BY <1>2, <2>1
  <2>3. e.value = look[l].value /\ e.missed = look[l].missed
    OBVIOUS
  <2>4. cache' = cache \/ cache' = CacheWith(look[l].key, e)
    BY <1>7 DEF SetTime
  <2> HIDE DEF e, s
  <2>5. \A k \in Keys : \/ cache'[k] = cache[k] \/ cache'[k] = None
                        \/ k = look[l].key /\ cache'[k] = e
    BY <2>4 DEF CacheWith
  <2>6. P
    BY <2>1, <2>3, <2>5
  <2> QED
    BY <2>2, <2>6
<1>8. ASSUME NEW c \in Commands, Execute(c)
      PROVE  P /\ Q
  BY <1>1, <1>8 DEF Execute, Ban, Insert, InsertFails, Unban, Update, UpdateFails
<1>9. CASE Tick \/ UNCHANGED vars
  BY <1>1, <1>9 DEF Tick, vars
<1>10. ASSUME NEW l \in Lookups, GetAbuse(l)
       PROVE  P /\ Q
  BY <1>3, <1>4, <1>5, <1>6, <1>7, <1>10 DEF GetAbuse
<1>11. P /\ Q
  BY <1>8, <1>9, <1>10 DEF Next
<1> QED
  BY <1>11

\* What the cache holds and what lookups bring it stay good together.
LEMMA CoherentStep ==
    ASSUME Inv, Coherent, [Next]_vars
    PROVE  Coherent'
<1>0. /\ \A k \in Keys : cache[k] # None =>
           cache[k].value \in Values /\ (cache[k].value # None => rows[cache[k].value] # None)
      /\ \A l \in Lookups :
           /\ look[l].value \in Values /\ (look[l].value # None => rows[look[l].value] # None)
           /\ look[l].pc \in {"ttl", "set"} => look[l].key \in Keys
  BY DEF Inv, TypeOK, Entry, Lookup, Values, EntryInv, LookInv
<1>1. ASSUME NEW c \in Commands, Invalidate(c), NEW k \in Keys, NEW v, v = cache'[k].value,
             cache'[k] # None
      PROVE  Good(k, v)' \/ cache'[k].missed
  <2>1. CASE k = Head(cmd[c].inv)
    BY <1>1, <2>1, InvalidateMarks
  <2>2. CASE k # Head(cmd[c].inv)
    <3>1. cache'[k] = cache[k]
      BY <1>1, <2>2, InvalidateMarks
    <3>2. Good(k, v) \/ cache[k].missed
      BY <1>1, <3>1 DEF Coherent
    <3> QED
      BY <1>1, <2>2, <3>1, <3>2, GoodInvalidate
  <2> QED
    BY <2>1, <2>2
<1>2. ASSUME NEW c \in Commands, Invalidate(c), NEW l \in Lookups, NEW k, k = look'[l].key,
             NEW v, v = look'[l].value, look'[l].pc \in {"ttl", "set"}
      PROVE  Good(k, v)' \/ look'[l].missed
  <2>0. look[l].pc \in {"ttl", "set"}
    BY <1>2, InvalidateMarks
  <2>1. CASE look[l].key = Head(cmd[c].inv)
    BY <1>2, <2>0, <2>1, InvalidateMarks
  <2>2. CASE look[l].key # Head(cmd[c].inv)
    <3>1. look'[l] = look[l]
      BY <1>2, <2>0, <2>2, InvalidateMarks
    <3>2. Good(k, v) \/ look[l].missed
      BY <1>2, <2>0, <3>1 DEF Coherent
    <3>3. k \in Keys
      BY <1>0, <1>2, <2>0, <3>1
    <3> QED
      BY <1>2, <2>2, <3>1, <3>2, <3>3, GoodInvalidate
  <2> QED
    BY <2>1, <2>2
<1>3. ASSUME \A c \in Commands : ~Invalidate(c), NEW k \in Keys, NEW v, v = cache'[k].value,
             cache'[k] # None
      PROVE  Good(k, v)' \/ cache'[k].missed
  <2>1. CASE cache'[k] = cache[k]
    <3>1. /\ Good(k, v) \/ cache[k].missed
          /\ v \in Values /\ (v # None => rows[v] # None)
      BY <1>0, <1>3, <2>1 DEF Coherent
    <3> QED
      BY <1>3, <2>1, <3>1, GoodStep
  <2>2. CASE \E l \in Lookups :
               /\ look[l].pc = "set" /\ look[l].key = k
               /\ cache'[k].value = look[l].value /\ cache'[k].missed = look[l].missed
    <3>1. /\ Good(k, v) \/ cache'[k].missed
          /\ v \in Values /\ (v # None => rows[v] # None)
      BY <1>0, <1>3, <2>2 DEF Coherent
    <3> QED
      BY <1>3, <3>1, GoodStep
  <2> QED
    BY <1>3, <2>1, <2>2, Moves
<1>4. ASSUME \A c \in Commands : ~Invalidate(c), NEW l \in Lookups, NEW k, k = look'[l].key,
             NEW v, v = look'[l].value, look'[l].pc \in {"ttl", "set"}
      PROVE  Good(k, v)' \/ look'[l].missed
  <2>1. CASE /\ look[l].pc \in {"ttl", "set"} /\ look'[l].key = look[l].key
             /\ look'[l].value = look[l].value /\ look'[l].missed = look[l].missed
    <3>1. /\ Good(k, v) \/ look'[l].missed
          /\ k \in Keys /\ v \in Values /\ (v # None => rows[v] # None)
      BY <1>0, <1>4, <2>1 DEF Coherent
    <3> QED
      BY <1>4, <3>1, GoodStep
  <2>2. CASE k \in Keys /\ v \in ListAbuses(k) /\ UNCHANGED <<rows, now>>
    <3>1. Right(k, v)
      BY <2>2, ListFacts DEF Right, Inv
    <3> QED
      BY <2>2, <3>1, SameRight DEF Good
  <2> QED
    BY <1>4, <2>1, <2>2, Moves
<1>5. ASSUME NEW k \in Keys, NEW v, v = cache'[k].value, cache'[k] # None
      PROVE  Good(k, v)' \/ cache'[k].missed
  BY <1>1, <1>3, <1>5
<1>6. ASSUME NEW l \in Lookups, NEW k, k = look'[l].key, NEW v, v = look'[l].value,
             look'[l].pc \in {"ttl", "set"}
      PROVE  Good(k, v)' \/ look'[l].missed
  BY <1>2, <1>4, <1>6
<1>7. \A k \in Keys : cache'[k] # None => Good(k, cache[k].value)' \/ cache'[k].missed
  BY <1>5 DEF Good, Right
<1>8. \A l \in Lookups : look'[l].pc \in {"ttl", "set"} =>
         Good(look[l].key, look[l].value)' \/ look'[l].missed
  BY <1>6 DEF Good, Right, ListAbuses, Effective, NamesOf, Pending
<1> QED
  BY <1>7, <1>8 DEF Coherent

-----------------------------------------------------------------------------
\* The inductive invariant.
LEMMA Invariance == Spec => [](Inv /\ Coherent)
<1>1. Init => Inv /\ Coherent
  BY InitInv
<1>2. Inv /\ Coherent /\ [Next]_vars => (Inv /\ Coherent)'
  BY NextInv, CoherentStep
<1> QED
  BY <1>1, <1>2, PTL DEF Spec

\* TypeOK is an invariant: in particular abuseCache never holds more entries than
\* its size, whatever the lookups do at once.
THEOREM ShapeCorrect == Spec => []TypeOK
<1>1. Inv /\ Coherent => TypeOK
  BY DEF Inv
<1> QED
  BY <1>1, Invariance, PTL

\* CacheCoherent is an invariant for any number of lookups, commands, processes,
\* names and rows: a stale answer is either about to be invalidated or comes from
\* a lookup or a process that the invalidation could not reach.
THEOREM CoherenceCorrect == Spec => []CacheCoherent
<1>1. ASSUME Inv, Coherent
      PROVE  CacheCoherent
  <2> SUFFICES ASSUME NEW k \in Keys, Live(k), ~Pending(k), ~cache[k].missed
               PROVE  cache[k].value \in ListAbuses(k)
    BY DEF CacheCoherent
  <2>1. Right(k, cache[k].value)
    BY <1>1 DEF Coherent, Good, Live
  <2>2. CASE cache[k].value = None
    BY <2>1, <2>2, NilIsListed DEF Right
  <2>3. CASE cache[k].value # None
    <3>1. /\ cache[k] \in Entry /\ cache[k].value \in Ids /\ rows[cache[k].value] \in Row
          /\ now \in Nat
      BY <1>1, <2>3 DEF Inv, TypeOK, EntryInv, Entry, Live
    <3>2. cache[k].expires >= now /\ cache[k].expires <= rows[cache[k].value].expires
      BY <1>1, <2>3 DEF Inv, EntryInv, Live
    <3>3. ~(rows[cache[k].value].expires < now)
      BY <3>1, <3>2 DEF Entry, Row
    <3> QED
      BY <2>1, <2>3, <3>3 DEF Right
  <2> QED
    BY <2>2, <2>3
<1> QED
  BY <1>1, Invariance, PTL

\* AnswerUnexpired is an invariant: GetAbuse never returns an abuse that had ended
\* when it was read.
THEOREM AnswerCorrect == Spec => []AnswerUnexpired
<1>1. Inv /\ Coherent => AnswerUnexpired
  BY DEF Inv, LookInv, AnswerUnexpired
<1> QED
  BY <1>1, Invariance, PTL

\* EntriesEnd is an invariant: no entry outlives TTL from any moment on, and there
\* are never more entries than the cache's size.
THEOREM EndCorrect == Spec => []EntriesEnd
<1>1. Inv /\ Coherent => EntriesEnd
  BY DEF Inv, TypeOK, EntryInv, EntriesEnd
<1> QED
  BY <1>1, Invariance, PTL
=============================================================================
