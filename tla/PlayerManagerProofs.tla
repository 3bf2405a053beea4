------------------------ MODULE PlayerManagerProofs -------------------------
(***************************************************************************)
(* Proofs about PlayerManager, for every set of sessions, nicknames and    *)
(* UUIDs.  Inv is inductive: a session past LoginStart has a key, the map  *)
(* holds the entered sessions and nothing else, and the counter is the     *)
(* number of the counted ones.                                             *)
(***************************************************************************)
EXTENDS PlayerManager, FiniteSetTheorems, TLAPS

HasKey == \A h \in Handlers : pc[h] # "new" => key[h] \in Keys

Inv == TypeOK /\ HasKey /\ MapIsEntered

\* Every step of the register and of a broadcast keeps the shape of the state.
LEMMA TypeStep == TypeOK /\ [Next]_vars => TypeOK'
<1> SUFFICES ASSUME TypeOK, [Next]_vars PROVE TypeOK'
  OBVIOUS
<1> USE StaffAssumption, CapAssumption DEF TypeOK, States, Entered
<1>1. ASSUME NEW h \in Handlers, NEW k \in Keys, NEW u \in UUIDs, LoginStart(h, k, u)
      PROVE  TypeOK'
  BY <1>1 DEF LoginStart
<1>2. ASSUME NEW h \in Handlers, NEW k \in Keys, GetByUUIDVisit(h, k) PROVE TypeOK'
  BY <1>2 DEF GetByUUIDVisit
<1>3. ASSUME NEW h \in Handlers, GetByUUIDNil(h) PROVE TypeOK'
  BY <1>3 DEF GetByUUIDNil
<1>4. ASSUME NEW h \in Handlers, RegisterLoadOrStore(h) PROVE TypeOK'
  BY <1>4 DEF RegisterLoadOrStore
<1>5. ASSUME NEW h \in Handlers, RegisterCount(h) PROVE TypeOK'
  BY <1>5 DEF RegisterCount
<1>6. ASSUME NEW h \in Handlers, UnregisterDelete(h) PROVE TypeOK'
  BY <1>6 DEF UnregisterDelete
<1>7. ASSUME NEW h \in Handlers, UnregisterCount(h) PROVE TypeOK'
  BY <1>7 DEF UnregisterCount
<1>8. ASSUME NEW to \in {Handlers, Staff}, BroadcastStart(to) PROVE TypeOK'
  BY <1>8 DEF BroadcastStart, Full
<1>9. ASSUME NEW k \in Keys, BroadcastVisit(k) PROVE TypeOK'
  <2>1. Takes(k) \subseteq Handlers
    BY DEF Takes
  <2>2. \A h \in Takes(k) : queue[h] # Cap
    BY <2>1 DEF Takes, Full
  <2>3. queue' \in [Handlers -> 0..Cap]
    BY <1>9, <2>1, <2>2 DEF BroadcastVisit
  <2> QED
    BY <1>9, <2>1, <2>3 DEF BroadcastVisit
<1>10. CASE BroadcastEnd
  BY <1>10 DEF BroadcastEnd
<1>11. ASSUME NEW h \in Handlers, Push(h) PROVE TypeOK'
  BY <1>11 DEF Push, Full
<1>12. ASSUME NEW h \in Handlers, Drain(h) PROVE TypeOK'
  BY <1>12 DEF Drain
<1>13. CASE UNCHANGED vars
  BY <1>13 DEF vars
<1> QED
  BY <1>1, <1>2, <1>3, <1>4, <1>5, <1>6, <1>7, <1>8, <1>9, <1>10, <1>11, <1>12, <1>13
     DEF Next, Session, Broadcast

\* The map keeps being the set of entered sessions.
LEMMA InvStep == Inv /\ [Next]_vars => Inv'
<1> SUFFICES ASSUME Inv, [Next]_vars PROVE Inv'
  OBVIOUS
<1>0. TypeOK'
  BY TypeStep DEF Inv
<1> USE <1>0, HandlersAssumption DEF Inv, TypeOK, HasKey, MapIsEntered
<1>1. ASSUME NEW h \in Handlers, NEW k \in Keys, NEW u \in UUIDs, LoginStart(h, k, u)
      PROVE  Inv'
  BY <1>1 DEF LoginStart
<1>2. ASSUME NEW h \in Handlers, NEW k \in Keys, GetByUUIDVisit(h, k) PROVE Inv'
  BY <1>2 DEF GetByUUIDVisit
<1>3. ASSUME NEW h \in Handlers, GetByUUIDNil(h) PROVE Inv'
  BY <1>3 DEF GetByUUIDNil
<1>4. ASSUME NEW h \in Handlers, RegisterLoadOrStore(h) PROVE Inv'
  BY <1>4 DEF RegisterLoadOrStore
<1>5. ASSUME NEW h \in Handlers, RegisterCount(h) PROVE Inv'
  BY <1>5 DEF RegisterCount
<1>6. ASSUME NEW h \in Handlers, UnregisterDelete(h) PROVE Inv'
  <2>1. key[h] \in Keys /\ m[key[h]] = h
    BY <1>6 DEF UnregisterDelete
  <2>2. HasKey'
    BY <1>6 DEF UnregisterDelete
  <2>3. ASSUME NEW g \in Handlers, pc'[g] \in {"add", "play"} PROVE m'[key'[g]] = g
    BY <1>6, <2>1, <2>3 DEF UnregisterDelete
  <2>4. ASSUME NEW k \in Keys, m'[k] # None
        PROVE  pc'[m'[k]] \in {"add", "play"} /\ key'[m'[k]] = k
    BY <1>6, <2>1, <2>4 DEF UnregisterDelete
  <2> QED
    BY <2>2, <2>3, <2>4
<1>7. ASSUME NEW h \in Handlers, UnregisterCount(h) PROVE Inv'
  BY <1>7 DEF UnregisterCount
<1>8. CASE Broadcast
  BY <1>8 DEF Broadcast, BroadcastStart, BroadcastVisit, BroadcastEnd
<1>9. ASSUME NEW h \in Handlers, Push(h) \/ Drain(h) PROVE Inv'
  BY <1>9 DEF Push, Drain
<1>10. CASE UNCHANGED vars
  BY <1>10 DEF vars
<1> QED
  BY <1>1, <1>2, <1>3, <1>4, <1>5, <1>6, <1>7, <1>8, <1>9, <1>10 DEF Next, Session

LEMMA InvInit == Init => Inv
  BY CapAssumption DEF Init, Inv, TypeOK, HasKey, MapIsEntered, States

LEMMA InvAlways == Spec => []Inv
  BY InvInit, InvStep, PTL DEF Spec

\* A registered session is what a lookup of its nickname returns until it
\* unregisters, and the map of potoq.Players holds nothing else.
THEOREM MapCorrect == Spec => [](TypeOK /\ MapIsEntered)
<1>1. Inv => TypeOK /\ MapIsEntered
  BY DEF Inv
<1> QED
  BY <1>1, InvAlways, PTL

-----------------------------------------------------------------------------
\* Adding to or removing from the counted sessions changes their number by one.
LEMMA CountedCard ==
    ASSUME NEW S \in SUBSET Handlers, NEW h \in Handlers
    PROVE  /\ IsFiniteSet(S) /\ Cardinality(S) \in Nat
           /\ h \notin S => Cardinality(S \cup {h}) = Cardinality(S) + 1
           /\ h \in S => Cardinality(S \ {h}) = Cardinality(S) - 1
<1>1. IsFiniteSet(S)
  BY HandlersAssumption, FS_Subset
<1> QED
  BY <1>1, FS_CardinalityType, FS_AddElement, FS_RemoveElement

CountInv == TypeOK /\ count = Cardinality(Counted)

LEMMA CountStep == CountInv /\ [Next]_vars => CountInv'
<1> SUFFICES ASSUME CountInv, [Next]_vars PROVE CountInv'
  OBVIOUS
<1>0. TypeOK' /\ TypeOK
  BY TypeStep DEF CountInv
<1>a. ASSUME UNCHANGED count, Counted' = Counted PROVE CountInv'
  BY <1>a, <1>0 DEF CountInv
<1>1. ASSUME NEW h \in Handlers, Session(h), ~RegisterCount(h), ~UnregisterCount(h)
      PROVE  UNCHANGED count /\ Counted' = Counted
  BY <1>1, <1>0 DEF Session, LoginStart, GetByUUIDVisit, GetByUUIDNil, RegisterLoadOrStore,
                    UnregisterDelete, Push, Drain, Counted, TypeOK
<1>2. ASSUME NEW h \in Handlers, RegisterCount(h) PROVE CountInv'
  <2>1. Counted' = Counted \cup {h} /\ h \notin Counted /\ count' = count + 1
    BY <1>2, <1>0 DEF RegisterCount, Counted, TypeOK
  <2>2. Counted \in SUBSET Handlers
    BY DEF Counted
  <2> QED
    BY <2>1, <2>2, <1>0, CountedCard DEF CountInv
<1>3. ASSUME NEW h \in Handlers, UnregisterCount(h) PROVE CountInv'
  <2>1. Counted' = Counted \ {h} /\ h \in Counted /\ count' = count - 1
    BY <1>3, <1>0 DEF UnregisterCount, Counted, TypeOK
  <2>2. Counted \in SUBSET Handlers
    BY DEF Counted
  <2> QED
    BY <2>1, <2>2, <1>0, CountedCard DEF CountInv
<1>4. CASE Broadcast
  BY <1>4, <1>a DEF Broadcast, BroadcastStart, BroadcastVisit, BroadcastEnd, Counted
<1>5. CASE UNCHANGED vars
  BY <1>5, <1>a DEF vars, Counted
<1> QED
  BY <1>a, <1>1, <1>2, <1>3, <1>4, <1>5 DEF Next

\* Players.Len() is the number of counted sessions in every state, for every
\* number of sessions: increments and decrements are never lost or doubled.
THEOREM CountCorrect == Spec => []CountAccurate
<1>1. Init => CountInv
  <2> SUFFICES ASSUME Init PROVE CountInv
    OBVIOUS
  <2>1. Counted = {}
    BY DEF Init, Counted
  <2> QED
    BY <2>1, FS_EmptySet, InvInit DEF CountInv, Init, Inv
<1>2. CountInv => CountAccurate
  <2> SUFFICES ASSUME CountInv PROVE CountAccurate
    OBVIOUS
  <2>1. IsFiniteSet(Counted)
    BY HandlersAssumption, FS_Subset DEF Counted
  <2> QED
    BY <2>1, FS_CardinalityType DEF CountInv, CountAccurate
<1> QED
  BY <1>1, <1>2, CountStep, PTL DEF Spec

-----------------------------------------------------------------------------
\* The map and the sessions that left it behave as PlayerRegistry says: seats
\* are taken when empty, given up by their holder, and never taken twice.
THEOREM RegistryCorrect == Spec => ImplementsRegistry
<1>1. Init => Registry!RInit
  BY DEF Init, Registry!RInit, Left
<1>2. Inv /\ [Next]_vars => [Registry!RNext]_(Registry!rvars)
  <2> SUFFICES ASSUME Inv, [Next]_vars PROVE [Registry!RNext]_(Registry!rvars)
    OBVIOUS
  <2> USE DEF Inv, TypeOK, HasKey, MapIsEntered, Left
  <2>a. ASSUME UNCHANGED m, Left' = Left PROVE UNCHANGED Registry!rvars
    BY <2>a DEF Registry!rvars
  <2>1. ASSUME NEW h \in Handlers, RegisterLoadOrStore(h), m[key[h]] = None
        PROVE  Registry!Enter(h, key[h])
    BY <2>1, HandlersAssumption DEF RegisterLoadOrStore, Registry!Enter
  <2>2. ASSUME NEW h \in Handlers, UnregisterDelete(h)
        PROVE  Registry!Leave(h, key[h])
    BY <2>2 DEF UnregisterDelete, Registry!Leave
  <2>3. ASSUME NEW h \in Handlers, Session(h), ~UnregisterDelete(h),
               ~(RegisterLoadOrStore(h) /\ m[key[h]] = None)
        PROVE  UNCHANGED m /\ Left' = Left
    BY <2>3 DEF Session, LoginStart, GetByUUIDVisit, GetByUUIDNil, RegisterLoadOrStore,
                RegisterCount, UnregisterCount, Push, Drain
  <2>4. CASE Broadcast
    BY <2>4, <2>a DEF Broadcast, BroadcastStart, BroadcastVisit, BroadcastEnd
  <2>5. CASE UNCHANGED vars
    BY <2>5, <2>a DEF vars
  <2>6. ASSUME NEW h \in Handlers, Session(h) PROVE [Registry!RNext]_(Registry!rvars)
    <3>1. CASE RegisterLoadOrStore(h) /\ m[key[h]] = None
      <4>1. key[h] \in Keys
        BY <3>1 DEF RegisterLoadOrStore
      <4> QED
        BY <2>1, <3>1, <4>1 DEF Registry!RNext
    <3>2. CASE UnregisterDelete(h)
      <4>1. key[h] \in Keys
        BY <3>2 DEF UnregisterDelete
      <4>2. Registry!Leave(h, key[h])
        BY <2>2, <3>2
      <4>3. \E g \in Handlers, k \in Keys : Registry!Enter(g, k) \/ Registry!Leave(g, k)
        <5> HIDE DEF Inv, TypeOK, HasKey, MapIsEntered, Left
        <5> WITNESS h \in Handlers, key[h] \in Keys
        <5> QED
          BY <4>2
      <4> QED
        BY <4>3 DEF Registry!RNext
    <3>3. CASE ~UnregisterDelete(h) /\ ~(RegisterLoadOrStore(h) /\ m[key[h]] = None)
      <4>1. UNCHANGED m /\ Left' = Left
        BY <2>3, <2>6, <3>3
      <4> QED
        BY <4>1, <2>a
    <3> QED
      BY <3>1, <3>2, <3>3
  <2> QED
    BY <2>4, <2>5, <2>6 DEF Next
<1> QED
  BY <1>1, <1>2, InvAlways, PTL DEF Spec, ImplementsRegistry, Registry!RSpec

-----------------------------------------------------------------------------
\* While a broadcast runs, an addressed session that stays in the map is sent
\* the line when its key is visited, unless its queue is full.  A
\* queue that is full while it runs holds its line already, or was filled by
\* others since it began.
BroadcastInv ==
    /\ bc.stayed \subseteq Entered \cap bc.to
    /\ bc.sent \subseteq bc.to
    /\ bc.on => Full \subseteq bc.sent \cup bc.crowded
    /\ \A h \in bc.stayed : key[h] \in bc.visited => h \in bc.sent \cup bc.crowded

LEMMA BroadcastStep == Inv /\ BroadcastInv /\ [Next]_vars => BroadcastInv'
<1> SUFFICES ASSUME Inv, BroadcastInv, [Next]_vars PROVE BroadcastInv'
  OBVIOUS
<1> USE DEF Inv, TypeOK, HasKey, MapIsEntered, BroadcastInv, Entered, Full
<1>1. ASSUME NEW h \in Handlers, Session(h), ~UnregisterDelete(h), ~Push(h), ~Drain(h)
      PROVE  BroadcastInv'
  <2>1. UNCHANGED <<queue, bc>> /\ Entered \subseteq Entered'
    BY <1>1 DEF Session, LoginStart, GetByUUIDVisit, GetByUUIDNil, RegisterLoadOrStore,
                RegisterCount, UnregisterCount
  <2>2. \A g \in Handlers : pc[g] # "new" => key'[g] = key[g]
    BY <1>1 DEF Session, LoginStart, GetByUUIDVisit, GetByUUIDNil, RegisterLoadOrStore,
                RegisterCount, UnregisterCount
  <2> QED
    BY <2>1, <2>2
<1>2. ASSUME NEW h \in Handlers, UnregisterDelete(h) PROVE BroadcastInv'
  BY <1>2 DEF UnregisterDelete
<1>3. ASSUME NEW to \in {Handlers, Staff}, BroadcastStart(to) PROVE BroadcastInv'
  BY <1>3 DEF BroadcastStart
<1>4. ASSUME NEW k \in Keys, BroadcastVisit(k) PROVE BroadcastInv'
  BY <1>4, HandlersAssumption, CapAssumption DEF BroadcastVisit, Takes
<1>5. CASE BroadcastEnd
  BY <1>5 DEF BroadcastEnd
<1>6. ASSUME NEW h \in Handlers, Push(h) PROVE BroadcastInv'
  BY <1>6 DEF Push
<1>7. ASSUME NEW h \in Handlers, Drain(h) PROVE BroadcastInv'
  BY <1>7, CapAssumption DEF Drain
<1>8. CASE UNCHANGED vars
  BY <1>8 DEF vars
<1> QED
  BY <1>1, <1>2, <1>3, <1>4, <1>5, <1>6, <1>7, <1>8 DEF Next, Broadcast, Session

\* A broadcast's line is queued for every addressed session that stays
\* registered while it runs, whatever the other sessions do to the map
\* meanwhile, except where others fill that session's queue.
THEOREM BroadcastCorrect == Spec => []BroadcastReaches
<1>1. Init => BroadcastInv
  BY DEF Init, BroadcastInv
<1>2. Inv /\ BroadcastInv => BroadcastReaches
  BY DEF Inv, HasKey, BroadcastInv, BroadcastReaches, Entered
<1> QED
  BY <1>1, <1>2, BroadcastStep, InvAlways, PTL DEF Spec

-----------------------------------------------------------------------------
\* A rival that stays in the map has a key the search has not visited yet, or
\* the search has found it.
RivalInv ==
    /\ \A h \in Handlers : \A g \in rivals[h] : g \in Entered /\ uuid[g] = uuid[h]
    /\ \A h \in Handlers : pc[h] = "new" => seen[h] = {} /\ rivals[h] = {}
    /\ \A h \in Handlers : pc[h] = "check" => \A g \in rivals[h] : key[g] \notin seen[h]
    /\ DuplicateRefused

LEMMA RivalStep == Inv /\ RivalInv /\ [Next]_vars => RivalInv'
<1> SUFFICES ASSUME Inv, RivalInv, [Next]_vars PROVE RivalInv'
  OBVIOUS
<1> USE DEF Inv, TypeOK, HasKey, MapIsEntered, RivalInv, DuplicateRefused, Entered
<1>1. ASSUME NEW h \in Handlers, NEW k \in Keys, NEW u \in UUIDs, LoginStart(h, k, u)
      PROVE  RivalInv'
  BY <1>1 DEF LoginStart
<1>2. ASSUME NEW h \in Handlers, NEW k \in Keys, GetByUUIDVisit(h, k) PROVE RivalInv'
  BY <1>2, HandlersAssumption DEF GetByUUIDVisit
<1>3. ASSUME NEW h \in Handlers, GetByUUIDNil(h) PROVE RivalInv'
  <2>1. rivals[h] = {}
    BY <1>3 DEF GetByUUIDNil
  <2> QED
    BY <1>3, <2>1 DEF GetByUUIDNil
<1>4. ASSUME NEW h \in Handlers, RegisterLoadOrStore(h) PROVE RivalInv'
  BY <1>4 DEF RegisterLoadOrStore
<1>5. ASSUME NEW h \in Handlers, RegisterCount(h) PROVE RivalInv'
  BY <1>5 DEF RegisterCount
<1>6. ASSUME NEW h \in Handlers, UnregisterDelete(h) PROVE RivalInv'
  <2>1. ASSUME NEW f \in Handlers, NEW g \in rivals'[f]
        PROVE  /\ g \in rivals[f] /\ g # h
               /\ g \in Entered' /\ uuid'[g] = uuid'[f]
    BY <1>6, <2>1 DEF UnregisterDelete
  <2>2. \A f \in Handlers : pc'[f] \in {"new", "check", "register", "add", "play"} => pc'[f] = pc[f]
    BY <1>6 DEF UnregisterDelete
  <2>3. \A f \in Handlers : rivals'[f] \subseteq rivals[f]
    BY <2>1
  <2>4. UNCHANGED <<key, seen>>
    BY <1>6 DEF UnregisterDelete
  <2> QED
    BY <2>1, <2>2, <2>3, <2>4
<1>7. ASSUME NEW h \in Handlers, UnregisterCount(h) PROVE RivalInv'
  BY <1>7 DEF UnregisterCount
<1>8. CASE Broadcast
  <2>1. UNCHANGED <<pc, key, uuid, seen, rivals>>
    BY <1>8 DEF Broadcast, BroadcastStart, BroadcastVisit, BroadcastEnd
  <2> QED
    BY <2>1
<1>9. ASSUME NEW h \in Handlers, Push(h) \/ Drain(h) PROVE RivalInv'
  <2>1. UNCHANGED <<pc, key, uuid, seen, rivals>>
    BY <1>9 DEF Push, Drain
  <2> QED
    BY <2>1
<1>10. CASE UNCHANGED vars
  BY <1>10 DEF vars
<1> QED
  BY <1>1, <1>2, <1>3, <1>4, <1>5, <1>6, <1>7, <1>8, <1>9, <1>10 DEF Next, Session

\* A login that passes the GetByUUID check shares its UUID with no session that
\* was registered before the check began and still is.
THEOREM DuplicateCorrect == Spec => []DuplicateRefused
<1>1. Init => RivalInv
  BY DEF Init, RivalInv, DuplicateRefused
<1>2. RivalInv => DuplicateRefused
  BY DEF RivalInv
<1> QED
  BY <1>1, <1>2, RivalStep, InvAlways, PTL DEF Spec
=============================================================================
