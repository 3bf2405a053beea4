---------------------------- MODULE TabListProofs ---------------------------
(***************************************************************************)
(* Proofs about TabList: the proxy knows what the client shows of an       *)
(* upstream (PlayerListCurrent), and what the list's owner flushes reaches *)
(* the client (TabSynced).                                                 *)
(***************************************************************************)
EXTENDS TabList, FiniteSetTheorems, TLAPS

-----------------------------------------------------------------------------
(* Greatest elements.  LastChange chooses one, so it must exist.           *)

\* Every nonempty set of naturals has a least element: of its initial segments
\* one contains no other.
LEMMA Least ==
    ASSUME NEW T \in SUBSET Nat, T # {}
    PROVE  \E x \in T : \A y \in T : x <= y
<1> DEFINE Segments == {1 .. x : x \in T}
<1>1. Segments \subseteq FiniteSubsetsOf(Nat) /\ Segments # {}
  <2>1. ASSUME NEW x \in T
        PROVE  1 .. x \in FiniteSubsetsOf(Nat)
    BY FS_Interval DEF FiniteSubsetsOf
  <2>2. QED BY <2>1
<1>2. \E d \in Segments : \A e \in Segments : <<e, d>> \notin StrictSubsetOrdering(Nat)
  <2>1. IsWellFoundedOn(StrictSubsetOrdering(Nat), FiniteSubsetsOf(Nat))
    BY FS_StrictSubsetOrderingWellFounded
  <2>2. QED BY <1>1, <2>1, WFMin, Zenon
<1>3. PICK x \in T : \A y \in T : <<1 .. y, 1 .. x>> \notin StrictSubsetOrdering(Nat)
  BY <1>2
<1>4. ASSUME NEW y \in T, y < x
      PROVE  FALSE
  <2>1. x \in 1 .. x /\ x \notin 1 .. y
    BY <1>4
  <2>2. 1 .. y \subseteq 1 .. x /\ 1 .. y # 1 .. x
    BY <2>1, <1>4
  <2>3. 1 .. y \in SUBSET Nat /\ 1 .. x \in SUBSET Nat
    OBVIOUS
  <2>4. QED BY <2>2, <2>3, <1>3 DEF StrictSubsetOrdering
<1>5. QED BY <1>4

\* Every nonempty set of naturals below a bound has a greatest element.
LEMMA Greatest ==
    ASSUME NEW n \in Nat, NEW T \in SUBSET (1 .. n), T # {}
    PROVE  \E x \in T : \A y \in T : y <= x
<1> DEFINE Mirror == {n - x : x \in T}
<1>1. Mirror \in SUBSET Nat /\ Mirror # {}
  <2>1. \A x \in T : x \in 1 .. n
    OBVIOUS
  <2>2. \A x \in T : n - x \in Nat
    BY <2>1
  <2>3. QED BY <2>2
<1>2. PICK m \in Mirror : \A k \in Mirror : m <= k
  BY <1>1, Least
<1>3. PICK x \in T : m = n - x
  OBVIOUS
<1>4. ASSUME NEW y \in T
      PROVE  y <= x
  <2>1. n - x <= n - y
    BY <1>2, <1>3
  <2>2. QED BY <2>1
<1>5. QED BY <1>4

-----------------------------------------------------------------------------
(* The last change of a cell in a list of changes.                         *)

\* It is a change of the cell, and 0 only when there is none.
LEMMA LastChangeIs ==
    ASSUME NEW L \in Seq(Change), NEW c \in Cells
    PROVE  /\ LastChange(L, c) \in 0 .. Len(L)
           /\ LastChange(L, c) # 0 => L[LastChange(L, c)] \in Change
<1> DEFINE at == {i \in 1 .. Len(L) : L[i].cell = c}
<1>1. CASE at = {}
  BY <1>1 DEF LastChange
<1>2. CASE at # {}
  <2>1. \E i \in at : \A j \in at : j <= i
    <3>1. Len(L) \in Nat /\ at \in SUBSET (1 .. Len(L))
      OBVIOUS
    <3>2. QED BY <1>2, <3>1, Greatest
  <2>2. LastChange(L, c) \in at
    BY <1>2, <2>1 DEF LastChange
  <2>3. QED BY <2>2
<1>3. QED BY <1>1, <1>2

\* An empty list changes nothing.
LEMMA LastOfNone ==
    ASSUME NEW c
    PROVE  LastChange(<<>>, c) = 0
BY DEF LastChange

\* A change appended to a list is the last of its cell and of no other.
LEMMA LastAppended ==
    ASSUME NEW L \in Seq(Change), NEW x \in Change, NEW c \in Cells
    PROVE  LastChange(Append(L, x), c) = IF x.cell = c THEN Len(L) + 1 ELSE LastChange(L, c)
<1> DEFINE at == {i \in 1 .. Len(L) : L[i].cell = c}
           new == {i \in 1 .. Len(Append(L, x)) : Append(L, x)[i].cell = c}
<1>1. /\ Len(Append(L, x)) = Len(L) + 1
      /\ \A i \in 1 .. Len(L) : Append(L, x)[i] = L[i]
      /\ Append(L, x)[Len(L) + 1] = x
  OBVIOUS
<1>2. CASE x.cell = c
  <2>1. Len(L) + 1 \in new /\ \A j \in new : j <= Len(L) + 1
    BY <1>1, <1>2
  <2>2. \A i \in new : (\A j \in new : j <= i) => i = Len(L) + 1
    BY <2>1
  <2>3. (CHOOSE i \in new : \A j \in new : j <= i) = Len(L) + 1
    BY <2>1, <2>2
  <2>4. LastChange(Append(L, x), c) = CHOOSE i \in new : \A j \in new : j <= i
    BY <2>1 DEF LastChange
  <2>5. QED BY <2>3, <2>4, <1>2
<1>3. CASE x.cell # c
  <2>1. new = at
    BY <1>1, <1>3
  <2> DEFINE greatest(S) == IF S = {} THEN 0 ELSE CHOOSE i \in S : \A j \in S : j <= i
  <2>2. LastChange(Append(L, x), c) = greatest(new) /\ LastChange(L, c) = greatest(at)
    BY Zenon DEF LastChange
  <2> HIDE DEF at, new, greatest
  <2>3. QED BY <2>1, <2>2, <1>3
<1>4. QED BY <1>2, <1>3

-----------------------------------------------------------------------------
(* What the proxy knows of the upstream's items.                           *)

\* Only the field that is being set may be torn.
Untorn ==
    \A c \in Cells, f \in {"DisplayName", "Properties"} :
        cells[c][f] = Torn => setting # None /\ setting.cell = c /\ setting.field = f

Current == TypeOK /\ Untorn /\ PlayerListTracks /\ NoGhosts

\* Nothing is shown and nothing is recorded at first.
LEMMA InitCurrent == Init => Current
<1> SUFFICES ASSUME Init PROVE Current
  OBVIOUS
<1>1. NewCell \in Cell /\ NewCell.DisplayName # Torn /\ NewCell.Properties # Torn
  BY ValuesAssumption DEF NewCell, Cell
<1>2. TypeOK /\ Untorn
  <2>1. Untorn
    BY <1>1 DEF Init, Untorn
  <2>2. TypeOK
    <3>1. /\ playerList \in [Players -> Item \cup {None}] /\ shown \in [Players -> Item \cup {None}]
          /\ from \in [Players -> 0 .. MaxGen] /\ gen \in 1 .. MaxGen /\ header \in -1 .. MaxGen
      BY BoundsAssumption DEF Init, NoItems, Blank
    <3>2. /\ cells \in [Cells -> Cell] /\ tab \in [Cells -> Cell \cup {None}]
          /\ \A c \in Cells : Torn \notin {cells[c].DisplayName, cells[c].Properties}
      BY <1>1 DEF Init
    <3>3. /\ queue \in Seq(Batch) /\ Len(queue) <= Cap /\ sets \in 0 .. MaxSets
          /\ changed_dn \in Seq(Change) /\ changed_ping \in Seq(Change)
      BY BoundsAssumption DEF Init
    <3>4. QED BY <3>1, <3>2, <3>3 DEF Init, TypeOK
  <2>3. QED BY <2>1, <2>2
<1>3. PlayerListTracks /\ NoGhosts
  BY DEF Init, PlayerListTracks, NoGhosts, NoItems, Blank, Own
<1>4. QED BY <1>2, <1>3 DEF Current

\* A packet of the upstream changes the record and the client's list alike.
LEMMA UpstreamCurrent ==
    ASSUME Current, Upstream
    PROVE  Current'
<1> USE DEF Current
<1>1. \A p \in Players : playerList[p] # None => playerList[p] \in Item
  BY DEF TypeOK
<1>2. ASSUME NEW S \in SUBSET Players, NEW item \in Item, AddPlayer(S, item)
      PROVE  Current'
  <2>1. TypeOK' /\ Untorn'
    BY <1>2 DEF AddPlayer, Put, TypeOK, Untorn, cellVars
  <2>2. PlayerListTracks' /\ NoGhosts'
    BY <1>2 DEF AddPlayer, Put, TypeOK, PlayerListTracks, NoGhosts, Blank, Own
  <2>3. QED BY <2>1, <2>2
<1>3. ASSUME NEW S \in SUBSET Players, NEW f \in {"GameMode", "DisplayName", "Ping"},
             NEW v \in Values, UpdatePlayer(S, f, v)
      PROVE  Current'
  <2>1. \A i \in Item : [i EXCEPT ![f] = v] \in Item
    BY DEF Item
  <2>2. playerList' \in [Players -> Item \cup {None}]
    BY <1>1, <1>3, <2>1 DEF UpdatePlayer, updatePlayerListItem, TypeOK
  <2>3. shown' = playerList' /\ \A p \in Players : shown'[p] # None => shown[p] # None
    BY <1>3 DEF UpdatePlayer, updatePlayerListItem, ClientUpdate, PlayerListTracks, TypeOK
  <2>4. TypeOK' /\ Untorn'
    BY <1>3, <2>2, <2>3 DEF UpdatePlayer, TypeOK, Untorn, cellVars
  <2>5. PlayerListTracks' /\ NoGhosts'
    BY <1>3, <2>3 DEF UpdatePlayer, TypeOK, PlayerListTracks, NoGhosts
  <2>6. QED BY <2>4, <2>5
<1>4. ASSUME NEW S \in SUBSET Players, RemovePlayer(S)
      PROVE  Current'
  <2>1. TypeOK' /\ Untorn'
    BY <1>4 DEF RemovePlayer, Put, TypeOK, Untorn, cellVars
  <2>2. PlayerListTracks' /\ NoGhosts'
    BY <1>4 DEF RemovePlayer, Put, TypeOK, PlayerListTracks, NoGhosts
  <2>3. QED BY <2>1, <2>2
<1>5. ASSUME UpstreamTitle
      PROVE  Current'
  BY <1>5 DEF UpstreamTitle, TypeOK, Untorn, PlayerListTracks, NoGhosts, listVars, cellVars
<1>6. ASSUME SendDimensionSwitch
      PROVE  Current'
  <2>1. shown' = NoItems /\ playerList' = NoItems
    BY <1>6 DEF SendDimensionSwitch, NoItems, PlayerListTracks
  <2>2. TypeOK' /\ Untorn'
    BY <1>6, <2>1, BoundsAssumption DEF SendDimensionSwitch, TypeOK, Untorn, NoItems, Blank, cellVars
  <2>3. PlayerListTracks' /\ NoGhosts'
    BY <1>6, <2>1 DEF SendDimensionSwitch, PlayerListTracks, NoGhosts, NoItems, Blank
  <2>4. QED BY <2>2, <2>3
<1>7. QED BY <1>2, <1>3, <1>4, <1>5, <1>6 DEF Upstream

\* The owner's calls touch neither list.
LEMMA OwnerCurrent ==
    ASSUME Current, Owner
    PROVE  Current'
<1> USE DEF Current
<1>1. Len(queue) \in Nat
  BY DEF TypeOK
<1>1a. Call => setting = None /\ sets' \in 0 .. MaxSets
  BY BoundsAssumption DEF Call, TypeOK
<1>2. ASSUME NEW c \in Cells, NEW f \in {"DisplayName", "Properties"}, NEW v \in Values,
             SetBegin(c, f, v)
      PROVE  Current'
  <2>1. setting' \in Setter /\ setting' # None /\ setting'.cell = c /\ setting'.field = f
    BY <1>2, NoneAssumption DEF SetBegin, Setter
  <2>2. \A d \in Cells : cells'[d] \in Cell
    BY <1>2 DEF SetBegin, TypeOK, Cell
  <2>3. cells' \in [Cells -> Cell]
    BY <1>2, <2>2 DEF SetBegin, TypeOK
  <2>4. Untorn'
    BY <1>2, <2>1 DEF SetBegin, Call, TypeOK, Untorn, Cell
  <2>5. TypeOK'
    BY <1>2, <1>1a, <2>1, <2>3 DEF SetBegin, TypeOK, listVars
  <2>6. PlayerListTracks' /\ NoGhosts'
    BY <1>2 DEF SetBegin, PlayerListTracks, NoGhosts, listVars
  <2>7. QED BY <2>4, <2>5, <2>6
<1>3. ASSUME SetEnd
      PROVE  Current'
  <2>1. setting \in Setter
    BY <1>3 DEF SetEnd, TypeOK
  <2>11. /\ setting.cell \in Cells /\ setting.value \in Values
         /\ setting.field \in {"DisplayName", "Properties"}
         /\ [cell |-> setting.cell, value |-> setting.value] \in Change
    BY <2>1 DEF Setter, Change
  <2>12. [cells[setting.cell] EXCEPT ![setting.field] = setting.value] \in Cell
    BY <2>11 DEF TypeOK, Cell
  <2>2. \A d \in Cells : cells'[d] \in Cell /\ cells'[d] =
            IF d = setting.cell THEN [cells[d] EXCEPT ![setting.field] = setting.value]
            ELSE cells[d]
    BY <1>3, <2>11, <2>12 DEF SetEnd, TypeOK
  <2>3. cells' \in [Cells -> Cell]
    BY <1>3, <2>2 DEF SetEnd, TypeOK
  <2>4. \A d \in Cells : Torn \notin {cells'[d].DisplayName, cells'[d].Properties}
    BY <1>3, <2>11, <2>2, ValuesAssumption DEF SetEnd, TypeOK, Untorn, Cell
  <2>5. changed_dn' \in Seq(Change)
    <3>1. Append(changed_dn, [cell |-> setting.cell, value |-> setting.value]) \in Seq(Change)
      BY <2>11 DEF TypeOK
    <3>2. QED BY <1>3, <3>1 DEF SetEnd, TypeOK
  <2>6. send_full' \in BOOLEAN
    BY <1>3 DEF SetEnd, TypeOK
  <2>7. TypeOK'
    BY <1>3, <2>3, <2>4, <2>5, <2>6 DEF SetEnd, TypeOK, listVars
  <2>8. Untorn'
    BY <2>4 DEF Untorn
  <2>9. PlayerListTracks' /\ NoGhosts'
    BY <1>3 DEF SetEnd, PlayerListTracks, NoGhosts, listVars
  <2>10. QED BY <2>7, <2>8, <2>9
<1>4. ASSUME NEW c \in Cells, NEW v \in Values, SetPing(c, v)
      PROVE  Current'
  <2>1. \A d \in Cells : /\ cells'[d] \in Cell
                         /\ cells'[d].DisplayName = cells[d].DisplayName
                         /\ cells'[d].Properties = cells[d].Properties
    BY <1>4 DEF SetPing, TypeOK, Cell
  <2>2. cells' \in [Cells -> Cell]
    BY <1>4, <2>1 DEF SetPing, TypeOK
  <2>3. changed_ping' \in Seq(Change)
    BY <1>4 DEF SetPing, TypeOK, Change
  <2>4. TypeOK' /\ Untorn'
    BY <1>4, <1>1a, <2>1, <2>2, <2>3 DEF SetPing, TypeOK, Untorn, listVars
  <2>5. PlayerListTracks' /\ NoGhosts'
    BY <1>4 DEF SetPing, PlayerListTracks, NoGhosts, listVars
  <2>6. QED BY <2>4, <2>5
<1>5. ASSUME SetTitle
      PROVE  Current'
  BY <1>5, <1>1a DEF SetTitle, TypeOK, Untorn, PlayerListTracks, NoGhosts, listVars
<1>6. ASSUME Flush
      PROVE  Current'
  <2>1. Packets \in Batch
    BY DEF Packets, Batch, TypeOK
  <2>2. queue' \in Seq(Batch) /\ Len(queue') <= Cap
    <3>1. Append(queue, Packets) \in Seq(Batch) /\ Len(Append(queue, Packets)) = Len(queue) + 1
      BY <2>1 DEF TypeOK
    <3>2. \/ queue' = queue
          \/ Len(queue) < Cap /\ queue' = Append(queue, Packets)
      BY <1>6 DEF Flush
    <3>3. queue \in Seq(Batch) /\ Len(queue) <= Cap /\ Cap \in Nat
      BY BoundsAssumption DEF TypeOK
    <3>4. QED BY <1>1, <3>1, <3>2, <3>3
  <2>3. TypeOK' /\ Untorn'
    <3>1. changed_dn' \in Seq(Change) /\ changed_ping' \in Seq(Change)
      BY <1>6 DEF Flush
    <3>2. send_full' \in BOOLEAN /\ title' \in BOOLEAN
      BY <1>6 DEF Flush
    <3>3. refused' \in BOOLEAN
      BY <1>6 DEF Flush, TypeOK
    <3>4. UNCHANGED <<listVars, header, cells, setting, writing, tab>> /\ Call
      BY <1>6 DEF Flush
    <3>5. QED BY <1>1a, <2>2, <3>1, <3>2, <3>3, <3>4 DEF TypeOK, Untorn, listVars
  <2>4. PlayerListTracks' /\ NoGhosts'
    BY <1>6 DEF Flush, PlayerListTracks, NoGhosts, listVars
  <2>5. QED BY <2>3, <2>4
<1>7. QED BY <1>2, <1>3, <1>4, <1>5, <1>6 DEF Owner

\* The value of an applied change is a value of the cell's field.
LEMMA ApplyType ==
    ASSUME NEW old \in [Cells -> Cell \cup {None}], NEW f \in {"DisplayName", "Ping"},
           NEW L \in Seq(Change)
    PROVE  Apply(old, f, L) \in [Cells -> Cell \cup {None}]
<1>1. ASSUME NEW c \in Cells, old[c] # None, LastChange(L, c) # 0
      PROVE  [old[c] EXCEPT ![f] = L[LastChange(L, c)].value] \in Cell
  <2>1. L[LastChange(L, c)].value \in Values
    BY <1>1, LastChangeIs DEF Change
  <2>2. old[c] \in Cell
    BY <1>1
  <2>3. QED BY <2>1, <2>2 DEF Cell
<1>2. QED BY <1>1 DEF Apply

\* An injection reads the cells and writes the client's; only the header is shared.
LEMMA InjectCurrent ==
    ASSUME Current, Inject
    PROVE  Current'
<1> USE DEF Current
<1>1. ASSUME InjectStart
      PROVE  Current'
  <2>1. Head(queue) \in Batch /\ Tail(queue) \in Seq(Batch) /\ Len(Tail(queue)) = Len(queue) - 1
    BY <1>1 DEF InjectStart, TypeOK
  <2>2. queue' \in Seq(Batch) /\ Len(queue') <= Cap
    <3>1. Len(queue) \in Nat /\ Len(queue) <= Cap
      BY DEF TypeOK
    <3>2. QED BY <1>1, <2>1, <3>1, BoundsAssumption DEF InjectStart
  <2>3. writing' \in Work
    BY <1>1, <2>1 DEF InjectStart, Batch, Work
  <2>4. TypeOK' /\ Untorn'
    BY <1>1, <2>2, <2>3 DEF InjectStart, TypeOK, Untorn, listVars, cellVars
  <2>5. PlayerListTracks' /\ NoGhosts'
    BY <1>1 DEF InjectStart, PlayerListTracks, NoGhosts, listVars
  <2>6. QED BY <2>4, <2>5
<1>2. ASSUME NEW c \in Cells, WriteCell(c)
      PROVE  Current'
  <2>1. writing' \in Work
    BY <1>2 DEF WriteCell, TypeOK, Work
  <2>2. tab' \in [Cells -> Cell \cup {None}]
    BY <1>2 DEF WriteCell, TypeOK
  <2>3. TypeOK' /\ Untorn'
    BY <1>2, <2>1, <2>2 DEF WriteCell, TypeOK, Untorn, listVars, cellVars
  <2>4. PlayerListTracks' /\ NoGhosts'
    BY <1>2 DEF WriteCell, PlayerListTracks, NoGhosts, listVars
  <2>5. QED BY <2>3, <2>4
<1>3. ASSUME WriteRest
      PROVE  Current'
  <2>1. writing.dn \in Seq(Change) /\ writing.ping \in Seq(Change)
    BY <1>3 DEF WriteRest, TypeOK, Work
  <2>2. tab' \in [Cells -> Cell \cup {None}]
    <3>1. Apply(tab, "DisplayName", writing.dn) \in [Cells -> Cell \cup {None}]
      BY <2>1, ApplyType DEF TypeOK
    <3>2. Apply(Apply(tab, "DisplayName", writing.dn), "Ping", writing.ping)
              \in [Cells -> Cell \cup {None}]
      BY <2>1, <3>1, ApplyType
    <3>3. QED BY <1>3, <3>2 DEF WriteRest
  <2>3. header' \in -1 .. MaxGen /\ header' \in {Blank, Own, gen}
    BY <1>3, BoundsAssumption DEF WriteRest, TypeOK, NoGhosts, Own
  <2>4. UNCHANGED <<listVars, cellVars, queue, refused, sets>> /\ writing' = None
    BY <1>3 DEF WriteRest
  <2>5. TypeOK' /\ Untorn'
    BY <2>2, <2>3, <2>4 DEF TypeOK, Untorn, listVars, cellVars
  <2>6. PlayerListTracks' /\ NoGhosts'
    BY <2>3, <2>4 DEF PlayerListTracks, NoGhosts, listVars
  <2>7. QED BY <2>5, <2>6
<1>4. QED BY <1>1, <1>2, <1>3 DEF Inject

\* A stutter.
LEMMA StutterCurrent ==
    ASSUME Current, UNCHANGED vars
    PROVE  Current'
BY DEF Current, TypeOK, Untorn, PlayerListTracks, NoGhosts, vars, listVars, cellVars

\* Current in every state.
LEMMA CurrentHolds == Spec => []Current
<1>1. Current /\ [Next]_vars => Current'
  BY UpstreamCurrent, OwnerCurrent, InjectCurrent, StutterCurrent DEF Next
<1>2. QED BY InitCurrent, <1>1, PTL DEF Spec

\* handler.playerList is what the upstream made the client show, field by field,
\* whatever it added, changed or removed; so that SendDimensionSwitch, which removes
\* what is recorded, leaves neither an item nor a title of an upstream left behind.
THEOREM PlayerListStaysCurrent == Spec => []PlayerListCurrent
<1>1. Current => PlayerListCurrent
  BY DEF Current, PlayerListCurrent
<1>2. QED BY CurrentHolds, <1>1, PTL

-----------------------------------------------------------------------------
(* The owner's changes on their way to the client.  They travel in batches: *)
(* what is being written (0), the queue's injections, and what is pending   *)
(* (Newest).                                                                *)

Newest == Len(queue) + 1

\* Batch i will write all of cell c.
FullIn(i, c) ==
    IF i = 0 THEN writing # None /\ c \in writing.todo
    ELSE IF i = Newest THEN send_full ELSE queue[i].full

\* The changes of field f in batch i.
Changes(i, f) ==
    IF i = 0 THEN IF writing = None THEN <<>> ELSE IF f = "Ping" THEN writing.ping ELSE writing.dn
    ELSE IF i = Newest THEN IF f = "Ping" THEN changed_ping ELSE changed_dn
    ELSE IF f = "Ping" THEN queue[i].ping ELSE queue[i].dn

Changed(i, c, f) == LastChange(Changes(i, f), c) # 0
ValueOf(L, c) == L[LastChange(L, c)].value

\* No setter is between its two steps on the field.
Steady(c, f) == setting = None \/ setting.cell # c \/ setting.field # f

NoFull(c) == \A i \in 0 .. Newest : ~FullIn(i, c)

\* Batch i holds the change of the field that the client will see last.
Final(i, c, f) ==
    /\ Changed(i, c, f)
    /\ \A j \in i + 1 .. Newest : ~FullIn(j, c) /\ ~Changed(j, c, f)

\* A full list is injected, and begun, without single changes beside it.
FullAlone ==
    /\ \A i \in 1 .. Len(queue) : queue[i].full => queue[i].dn = <<>> /\ queue[i].ping = <<>>
    /\ writing # None /\ writing.todo # {} => writing.dn = <<>> /\ writing.ping = <<>>

\* Unless a batch still writes all of a cell, the client shows the cell, with its
\* properties.
ShownCell(c) ==
    NoFull(c) => /\ tab[c] # None
                 /\ Steady(c, "Properties") => tab[c].Properties = cells[c].Properties

\* The last change under way carries the field's value; when none is, and no batch
\* writes the cell, the client shows that value already.
ShownField(c, f) ==
    Steady(c, f) =>
        /\ \A i \in 0 .. Newest : Final(i, c, f) => ValueOf(Changes(i, f), c) = cells[c][f]
        /\ NoFull(c) /\ (\A i \in 0 .. Newest : ~Changed(i, c, f)) => tab[c][f] = cells[c][f]

Fields == {"DisplayName", "Ping"}
Underway == ~refused => \A c \in Cells : ShownCell(c) /\ \A f \in Fields : ShownField(c, f)

Synced == FullAlone /\ Underway

\* The value of a list's last change after one is appended.
LEMMA ValueAppended ==
    ASSUME NEW L \in Seq(Change), NEW x \in Change, NEW c \in Cells,
           LastChange(Append(L, x), c) # 0
    PROVE  ValueOf(Append(L, x), c) = IF x.cell = c THEN x.value ELSE ValueOf(L, c)
<1>1. Append(L, x)[Len(L) + 1] = x /\ \A i \in 1 .. Len(L) : Append(L, x)[i] = L[i]
  OBVIOUS
<1>2. LastChange(L, c) \in 0 .. Len(L)
  BY LastChangeIs
<1>3. LastChange(Append(L, x), c) = IF x.cell = c THEN Len(L) + 1 ELSE LastChange(L, c)
  BY LastAppended
<1>4. QED BY <1>1, <1>2, <1>3 DEF ValueOf

\* The batches hold lists of changes.
LEMMA ChangesType ==
    ASSUME TypeOK, NEW i \in 0 .. Newest, NEW f
    PROVE  Changes(i, f) \in Seq(Change)
<1>1. i # 0 /\ i # Newest => queue[i] \in Batch
  BY DEF Newest, TypeOK
<1>2. QED BY <1>1 DEF Changes, TypeOK, Batch, Work

\* A step that leaves the batches alone.
LEMMA SameBatches ==
    ASSUME UNCHANGED <<queue, writing, send_full, changed_dn, changed_ping>>
    PROVE  /\ Newest' = Newest /\ FullAlone' = FullAlone
           /\ \A i, c : FullIn(i, c)' = FullIn(i, c)
           /\ \A i, f : Changes(i, f)' = Changes(i, f)
BY DEF Newest, FullAlone, FullIn, Changes

\* A cell stays shown when no batch gains or loses it, and its setter does not end.
LEMMA SameCell ==
    ASSUME NEW c \in Cells, Newest' = Newest, tab'[c] = tab[c],
           \A i \in 0 .. Newest : FullIn(i, c)' = FullIn(i, c),
           Steady(c, "Properties")' =>
               Steady(c, "Properties") /\ cells'[c].Properties = cells[c].Properties,
           ShownCell(c)
    PROVE  ShownCell(c)'
<1>1. NoFull(c)' = NoFull(c)
  BY DEF NoFull
<1>2. QED BY <1>1 DEF ShownCell

\* So does a field when no batch gains or loses a change of it either.
LEMMA SameField ==
    ASSUME NEW c \in Cells, NEW f, Newest' = Newest, tab'[c] = tab[c],
           \A i \in 0 .. Newest : FullIn(i, c)' = FullIn(i, c) /\ Changes(i, f)' = Changes(i, f),
           Steady(c, f)' => Steady(c, f) /\ cells'[c][f] = cells[c][f],
           ShownField(c, f)
    PROVE  ShownField(c, f)'
<1>1. NoFull(c)' = NoFull(c)
  BY DEF NoFull
<1>2. \A i \in 0 .. Newest : Changed(i, c, f)' = Changed(i, c, f)
  BY DEF Changed
<1>3. \A i \in 0 .. Newest : Final(i, c, f)' = Final(i, c, f)
  <2>1. \A i \in 0 .. Newest : \A j \in i + 1 .. Newest : j \in 0 .. Newest
    OBVIOUS
  <2>2. QED BY <1>2, <2>1 DEF Final
<1>4. \A i \in 0 .. Newest : ValueOf(Changes(i, f), c)' = ValueOf(Changes(i, f), c)
  BY DEF ValueOf
<1>5. QED BY <1>1, <1>2, <1>3, <1>4 DEF ShownField

\* Nothing is set and nothing is queued at first.
LEMMA InitSynced == Init => Synced
<1> SUFFICES ASSUME Init PROVE Synced
  OBVIOUS
<1>1. Newest = 1 /\ \A c : FullIn(Newest, c)
  BY DEF Init, Newest, FullIn
<1>2. \A i \in 0 .. Newest, f \in Fields : Changes(i, f) = <<>>
  BY <1>1 DEF Init, Changes, Fields
<1>3. FullAlone
  BY DEF Init, FullAlone
<1>4. \A c : ~NoFull(c)
  BY <1>1 DEF NoFull
<1>5. \A c : \A i \in 0 .. Newest, f \in Fields : ~Changed(i, c, f)
  BY <1>2, LastOfNone DEF Changed
<1>6. ASSUME NEW c \in Cells
      PROVE  ShownCell(c) /\ \A f \in Fields : ShownField(c, f)
  BY <1>4, <1>5 DEF ShownCell, ShownField, Final
<1>7. QED BY <1>3, <1>6 DEF Synced, Underway

\* A change of one cell's field is appended to the newest batch: it is the last of
\* that field, and carries its value.
LEMMA AppendedField ==
    ASSUME TypeOK, TypeOK', NEW c \in Cells, NEW f \in Fields, NEW x \in Change,
           Newest' = Newest,
           \A i \in 0 .. Newest : FullIn(i, c)' = FullIn(i, c),
           \A i \in 0 .. Newest - 1 : Changes(i, f)' = Changes(i, f),
           Changes(Newest, f)' = Append(Changes(Newest, f), x),
           tab' = tab,
           IF x.cell = c THEN cells'[c][f] = x.value
           ELSE cells'[c][f] = cells[c][f] /\ (Steady(c, f)' => Steady(c, f)),
           ShownField(c, f)
    PROVE  ShownField(c, f)'
<1>0. Newest \in Nat /\ Newest >= 1 /\ Newest \in 0 .. Newest
  BY DEF Newest, TypeOK
<1>1. Changes(Newest, f) \in Seq(Change)
  BY <1>0, ChangesType
<1>2. LastChange(Append(Changes(Newest, f), x), c) =
          IF x.cell = c THEN Len(Changes(Newest, f)) + 1 ELSE LastChange(Changes(Newest, f), c)
  BY <1>1, LastAppended
<1>3. \A i \in 0 .. Newest - 1 : Changed(i, c, f)' = Changed(i, c, f)
  BY DEF Changed
<1>4. NoFull(c)' = NoFull(c)
  BY DEF NoFull
<1>5. ValueOf(Changes(Newest, f), c)' = ValueOf(Append(Changes(Newest, f), x), c)
  BY DEF ValueOf
<1>6. Changed(Newest, c, f)' => LastChange(Append(Changes(Newest, f), x), c) # 0
  BY DEF Changed
<1>7. CASE x.cell = c
  <2>1. Changed(Newest, c, f)'
    BY <1>1, <1>2, <1>7 DEF Changed
  <2>2. ValueOf(Changes(Newest, f), c)' = cells'[c][f]
    <3>1. ValueOf(Append(Changes(Newest, f), x), c) = x.value
      BY <1>1, <1>7, <1>6, <2>1, ValueAppended
    <3>2. QED BY <1>7, <1>5, <3>1
  <2>3. \A i \in 0 .. Newest : Final(i, c, f)' => i = Newest
    BY <1>0, <2>1 DEF Final
  <2>4. QED BY <1>0, <2>1, <2>2, <2>3 DEF ShownField
<1>8. CASE x.cell # c
  <2>1. Changed(Newest, c, f)' = Changed(Newest, c, f)
    BY <1>2, <1>8 DEF Changed
  <2>2. \A i \in 0 .. Newest : Changed(i, c, f)' = Changed(i, c, f)
    BY <1>0, <1>3, <2>1
  <2>3. \A i \in 0 .. Newest : Final(i, c, f)' = Final(i, c, f)
    BY <1>0, <2>2 DEF Final
  <2>4. ASSUME Changed(Newest, c, f)'
        PROVE  ValueOf(Changes(Newest, f), c)' = ValueOf(Changes(Newest, f), c)
    BY <1>1, <1>8, <1>5, <1>6, <2>4, ValueAppended
  <2>5. ASSUME NEW i \in 0 .. Newest, Final(i, c, f)'
        PROVE  ValueOf(Changes(i, f), c)' = ValueOf(Changes(i, f), c)
    <3>1. Changed(i, c, f)'
      BY <2>5 DEF Final
    <3>2. CASE i = Newest
      BY <2>4, <3>1, <3>2
    <3>3. CASE i # Newest
      <4>1. Changes(i, f)' = Changes(i, f)
        BY <1>0, <3>3
      <4>2. QED BY <4>1 DEF ValueOf
    <3>4. QED BY <3>2, <3>3
  <2>6. QED BY <1>4, <1>8, <2>2, <2>3, <2>5 DEF ShownField
<1>9. QED BY <1>7, <1>8

\* What the owner sets is under way, or waits for its setter's second step.
LEMMA SetSynced ==
    ASSUME Current, Current', Synced,
           \/ \E c \in Cells, f \in {"DisplayName", "Properties"}, v \in Values : SetBegin(c, f, v)
           \/ SetEnd
           \/ \E c \in Cells, v \in Values : SetPing(c, v)
           \/ SetTitle
    PROVE  Synced'
<1>1. TypeOK /\ TypeOK'
  BY DEF Current
<1>2. Newest \in Nat /\ Newest >= 1 /\ Newest \in 0 .. Newest
  BY <1>1 DEF Newest, TypeOK
<1>3. ASSUME NEW c \in Cells, NEW f \in {"DisplayName", "Properties"}, NEW v \in Values,
             SetBegin(c, f, v)
      PROVE  Synced'
  <2>1. UNCHANGED <<queue, writing, send_full, changed_dn, changed_ping, tab, refused>>
    BY <1>3 DEF SetBegin
  <2>2. setting = None /\ setting' # None /\ setting'.cell = c /\ setting'.field = f
    BY <1>3, NoneAssumption DEF SetBegin, Call, Setter
  <2>3. \A d \in Cells, g \in {"DisplayName", "Properties", "Ping"} :
            d # c \/ g # f => cells'[d][g] = cells[d][g]
    BY <1>1, <1>3 DEF SetBegin, TypeOK, Cell
  <2>4. \A d, g : Steady(d, g)
    BY <2>2 DEF Steady
  <2>5. ~Steady(c, f)'
    BY <2>2 DEF Steady
  <2>6. /\ Newest' = Newest /\ FullAlone' = FullAlone
        /\ \A i, d : FullIn(i, d)' = FullIn(i, d)
        /\ \A i, g : Changes(i, g)' = Changes(i, g)
    BY <2>1, SameBatches
  <2>7. ASSUME NEW d \in Cells, ShownCell(d)
        PROVE  ShownCell(d)'
    BY <2>1, <2>3, <2>4, <2>5, <2>6, <2>7, SameCell
  <2>8. ASSUME NEW d \in Cells, NEW g \in Fields, ShownField(d, g)
        PROVE  ShownField(d, g)'
    <3>1. Steady(d, g)' => cells'[d][g] = cells[d][g]
      BY <2>3, <2>5 DEF Fields
    <3>2. QED BY <2>1, <2>4, <2>6, <2>8, <3>1, SameField
  <2>9. QED BY <2>1, <2>6, <2>7, <2>8 DEF Synced, Underway
<1>4. ASSUME SetTitle
      PROVE  Synced'
  <2>1. /\ UNCHANGED <<queue, writing, send_full, changed_dn, changed_ping, refused>>
        /\ cells' = cells /\ tab' = tab /\ setting' = setting
    BY <1>4 DEF SetTitle
  <2>2. /\ Newest' = Newest /\ FullAlone' = FullAlone
        /\ \A i, d : FullIn(i, d)' = FullIn(i, d)
        /\ \A i, g : Changes(i, g)' = Changes(i, g)
    BY <2>1, SameBatches
  <2>3. \A c, f : Steady(c, f)' = Steady(c, f)
    BY <2>1 DEF Steady
  <2>4. \A c \in Cells : ShownCell(c) => ShownCell(c)'
    BY <2>1, <2>2, <2>3, SameCell
  <2>5. \A c \in Cells : \A f : ShownField(c, f) => ShownField(c, f)'
    BY <2>1, <2>2, <2>3, SameField
  <2>6. QED BY <2>1, <2>2, <2>4, <2>5 DEF Synced, Underway
<1>5. ASSUME NEW c \in Cells, NEW v \in Values, SetPing(c, v)
      PROVE  Synced'
  <2> DEFINE x == [cell |-> c, value |-> v]
  <2>1. /\ queue' = queue /\ writing' = writing /\ send_full' = send_full
        /\ changed_dn' = changed_dn /\ tab' = tab /\ setting' = setting /\ refused' = refused
        /\ changed_ping' = Append(changed_ping, x)
    BY <1>5 DEF SetPing
  <2>2. x \in Change /\ x.cell = c /\ x.value = v
    BY DEF Change
  <2>3. /\ Newest' = Newest /\ FullAlone' = FullAlone
        /\ \A i, d : FullIn(i, d)' = FullIn(i, d)
    BY <2>1 DEF Newest, FullAlone, FullIn
  <2>4. /\ \A i : Changes(i, "DisplayName")' = Changes(i, "DisplayName")
        /\ \A i \in 0 .. Newest - 1 : Changes(i, "Ping")' = Changes(i, "Ping")
        /\ Changes(Newest, "Ping")' = Append(Changes(Newest, "Ping"), x)
    BY <1>2, <2>1, <2>3 DEF Changes
  <2>5. \A d, f : Steady(d, f)' = Steady(d, f)
    BY <2>1 DEF Steady
  <2>6. \A d \in Cells : /\ cells'[d].DisplayName = cells[d].DisplayName
                         /\ cells'[d].Properties = cells[d].Properties
                         /\ cells'[d].Ping = IF d = c THEN v ELSE cells[d].Ping
    BY <1>1, <1>5 DEF SetPing, TypeOK, Cell
  <2> HIDE DEF x
  <2>7. \A d \in Cells : ShownCell(d) => ShownCell(d)'
    BY <2>1, <2>3, <2>5, <2>6, SameCell
  <2>8. \A d \in Cells : ShownField(d, "DisplayName") => ShownField(d, "DisplayName")'
    BY <2>1, <2>3, <2>4, <2>5, <2>6, SameField
  <2>9. ASSUME NEW d \in Cells, ShownField(d, "Ping")
        PROVE  ShownField(d, "Ping")'
    BY <1>1, <2>1, <2>2, <2>3, <2>4, <2>5, <2>6, <2>9, AppendedField DEF Fields
  <2>10. QED BY <2>1, <2>3, <2>7, <2>8, <2>9 DEF Synced, Underway, Fields
<1>6. ASSUME SetEnd
      PROVE  Synced'
  <2> DEFINE c == setting.cell
             x == [cell |-> setting.cell, value |-> setting.value]
  <2>1. /\ queue' = queue /\ writing' = writing /\ changed_ping' = changed_ping
        /\ tab' = tab /\ refused' = refused /\ setting' = None /\ setting # None
    BY <1>6 DEF SetEnd
  <2>2. /\ setting.field \in {"DisplayName", "Properties"}
        /\ c \in Cells /\ x \in Change /\ x.cell = c /\ x.value = setting.value
    BY <1>1, <2>1 DEF TypeOK, Setter, Change
  <2>3. /\ Newest' = Newest /\ FullAlone' = FullAlone
        /\ \A i \in 0 .. Newest - 1 : \A d : FullIn(i, d)' = FullIn(i, d)
        /\ \A i \in 0 .. Newest - 1 : \A f : Changes(i, f)' = Changes(i, f)
        /\ \A i : Changes(i, "Ping")' = Changes(i, "Ping")
    BY <1>2, <2>1 DEF Newest, FullAlone, FullIn, Changes
  <2>4. /\ \A d, f : Steady(d, f)'
        /\ \A d, f : d # c \/ f # setting.field => Steady(d, f)
    BY <2>1 DEF Steady
  <2>5. \A d \in Cells, g \in {"DisplayName", "Properties", "Ping"} :
            cells'[d][g] = IF d = c /\ g = setting.field THEN setting.value ELSE cells[d][g]
    BY <1>1, <1>6, <2>2 DEF SetEnd, TypeOK, Cell
  <2> HIDE DEF x, c
  <2>6. CASE setting.field = "DisplayName"
    <3>1. send_full' = send_full /\ changed_dn' = Append(changed_dn, x)
      BY <1>6, <2>6 DEF SetEnd, x
    <3>2. /\ \A i \in 0 .. Newest : \A d : FullIn(i, d)' = FullIn(i, d)
          /\ Changes(Newest, "DisplayName")' = Append(Changes(Newest, "DisplayName"), x)
      BY <1>2, <2>1, <2>3, <3>1 DEF FullIn, Changes
    <3>3. \A d \in Cells : ShownCell(d) => ShownCell(d)'
      BY <2>1, <2>3, <2>4, <2>5, <2>6, <3>2, SameCell
    <3>4. ASSUME NEW d \in Cells, ShownField(d, "DisplayName")
          PROVE  ShownField(d, "DisplayName")'
      BY <1>1, <2>1, <2>2, <2>3, <2>4, <2>5, <2>6, <3>2, <3>4, AppendedField DEF Fields
    <3>5. \A d \in Cells : ShownField(d, "Ping") => ShownField(d, "Ping")'
      BY <2>1, <2>3, <2>4, <2>5, <2>6, <3>2, SameField
    <3>6. QED BY <2>1, <2>3, <3>3, <3>4, <3>5 DEF Synced, Underway, Fields
  <2>7. CASE setting.field = "Properties"
    <3>1. send_full' = TRUE /\ changed_dn' = changed_dn
      BY <1>6, <2>7 DEF SetEnd
    <3>2. \A d : FullIn(Newest, d)'
      BY <1>2, <2>3, <3>1 DEF FullIn
    <3>3. \A d : ~NoFull(d)'
      BY <1>2, <2>3, <3>2 DEF NoFull
    <3>4. \A i \in 0 .. Newest : \A f : Changes(i, f)' = Changes(i, f)
      BY <1>2, <2>1, <2>3, <3>1 DEF Changes
    <3>5. ASSUME NEW d \in Cells, NEW f \in Fields, NEW i \in 0 .. Newest,
                 ShownField(d, f), Final(i, d, f)'
          PROVE  ValueOf(Changes(i, f), d)' = cells'[d][f]
      <4>1. i = Newest
        BY <1>2, <2>3, <3>2, <3>5 DEF Final
      <4>2. Changed(Newest, d, f)
        BY <1>2, <3>4, <3>5, <4>1 DEF Final, Changed
      <4>3. Final(i, d, f)
        BY <1>2, <4>1, <4>2 DEF Final
      <4>4. Steady(d, f) /\ cells'[d][f] = cells[d][f]
        BY <2>4, <2>5, <2>7 DEF Fields
      <4>5. ValueOf(Changes(i, f), d)' = ValueOf(Changes(i, f), d)
        BY <3>4 DEF ValueOf
      <4>6. QED BY <3>5, <4>3, <4>4, <4>5 DEF ShownField
    <3>6. \A d \in Cells, f \in Fields : ShownField(d, f) => ShownField(d, f)'
      BY <2>3, <3>3, <3>5 DEF ShownField
    <3>7. \A d : ShownCell(d)'
      BY <3>3 DEF ShownCell
    <3>8. QED BY <2>1, <2>3, <3>6, <3>7 DEF Synced, Underway
  <2>8. QED BY <2>2, <2>6, <2>7
<1>7. QED BY <1>3, <1>4, <1>5, <1>6

\* A flushed batch joins the queue behind what is under way; a full list replaces the
\* single changes.
LEMMA FlushSynced ==
    ASSUME Current, Current', Synced, Flush
    PROVE  Synced'
<1>1. TypeOK /\ TypeOK'
  BY DEF Current
<1>2. PICK n \in Nat : n = Newest /\ n >= 1 /\ Len(queue) = n - 1
  <2>1. Len(queue) \in Nat
    BY <1>1 DEF TypeOK
  <2>2. QED BY <2>1 DEF Newest
<1>3. /\ writing' = writing /\ tab' = tab /\ cells' = cells /\ setting' = setting
      /\ send_full' = FALSE /\ changed_dn' = <<>> /\ changed_ping' = <<>>
  BY DEF Flush
<1>4. ASSUME queue' = Append(queue, Packets)
      PROVE  /\ Len(queue') = n /\ Newest' = n + 1
             /\ \A i \in 1 .. n - 1 : queue'[i] = queue[i]
             /\ queue'[n] = Packets
  BY <1>1, <1>2, <1>4 DEF Newest, TypeOK
<1>5. FullAlone'
  <2>1. Packets.full => Packets.dn = <<>> /\ Packets.ping = <<>>
    BY DEF Packets
  <2>2. \A i \in 1 .. n - 1 : queue[i].full => queue[i].dn = <<>> /\ queue[i].ping = <<>>
    BY <1>2 DEF Synced, FullAlone
  <2>3. \A i \in 1 .. Len(queue') :
            queue'[i].full => queue'[i].dn = <<>> /\ queue'[i].ping = <<>>
    <3>1. CASE queue' = queue
      BY <1>2, <2>2, <3>1
    <3>2. CASE queue' = Append(queue, Packets)
      BY <1>2, <1>4, <2>1, <2>2, <3>2
    <3>3. QED BY <3>1, <3>2 DEF Flush
  <2>4. QED BY <1>3, <2>3 DEF Synced, FullAlone
<1>6. ASSUME ~refused'
      PROVE  Underway'
  <2>1. ~refused /\ queue' = Append(queue, Packets)
    BY <1>6 DEF Flush
  <2>2. /\ Len(queue') = n /\ Newest' = n + 1
        /\ \A i \in 1 .. n - 1 : queue'[i] = queue[i]
        /\ queue'[n] = Packets
    BY <1>4, <2>1
  <2>3. /\ \A i \in 0 .. n - 1, c \in Cells : FullIn(i, c)' = FullIn(i, c)
        /\ \A c : FullIn(n, c) = send_full
        /\ \A c : FullIn(n, c)' = send_full
        /\ \A c : ~FullIn(n + 1, c)'
    BY <1>2, <1>3, <2>2 DEF FullIn, Packets
  <2>4. /\ \A i \in 0 .. n - 1, f \in Fields : Changes(i, f)' = Changes(i, f)
        /\ \A f \in Fields : Changes(n, f)' = IF send_full THEN <<>> ELSE Changes(n, f)
        /\ \A f \in Fields : Changes(n + 1, f)' = <<>>
    BY <1>2, <1>3, <2>2 DEF Changes, Packets, Fields
  <2>5. \A c \in Cells, f \in Fields :
            /\ \A i \in 0 .. n - 1 : Changed(i, c, f)' <=> Changed(i, c, f)
            /\ Changed(n, c, f)' <=> ~send_full /\ Changed(n, c, f)
            /\ ~Changed(n + 1, c, f)'
    BY <2>4, LastOfNone DEF Changed
  <2>6. \A c \in Cells : NoFull(c)' => NoFull(c) /\ ~send_full
    BY <1>2, <2>2, <2>3 DEF NoFull
  <2>7. \A c, f : Steady(c, f)' = Steady(c, f)
    BY <1>3 DEF Steady
  <2>8. \A c \in Cells : ShownCell(c) => ShownCell(c)'
    BY <1>3, <2>6, <2>7 DEF ShownCell
  <2>9. ASSUME NEW c \in Cells, NEW f \in Fields, ShownField(c, f)
        PROVE  ShownField(c, f)'
    <3>1. ASSUME NEW i \in 0 .. n + 1, Final(i, c, f)'
          PROVE  /\ i \in 0 .. n /\ Final(i, c, f)
                 /\ ValueOf(Changes(i, f), c)' = ValueOf(Changes(i, f), c)
      <4>1. Changed(i, c, f)' /\ i \in 0 .. n
        <5>1. Changed(i, c, f)'
          BY <3>1 DEF Final
        <5>2. QED BY <1>2, <2>5, <5>1
      <4>2. ~send_full
        <5>1. CASE i = n
          BY <2>5, <4>1, <5>1
        <5>2. CASE i # n
          <6>1. ~FullIn(n, c)'
            BY <1>2, <2>2, <3>1, <4>1, <5>2 DEF Final
          <6>2. QED BY <2>3, <6>1
        <5>3. QED BY <5>1, <5>2
      <4>3. /\ \A j \in 0 .. n : FullIn(j, c)' = FullIn(j, c)
            /\ \A j \in 0 .. n : Changed(j, c, f)' <=> Changed(j, c, f)
            /\ Changes(i, f)' = Changes(i, f)
        <5>1. \A j \in 0 .. n : j = n \/ j \in 0 .. n - 1
          BY <1>2
        <5>2. \A j \in 0 .. n : FullIn(j, c)' = FullIn(j, c)
          BY <2>3, <5>1
        <5>3. \A j \in 0 .. n : Changed(j, c, f)' <=> Changed(j, c, f)
          BY <2>5, <4>2, <5>1
        <5>4. Changes(i, f)' = Changes(i, f)
          BY <2>4, <4>1, <4>2, <5>1
        <5>5. QED BY <5>2, <5>3, <5>4
      <4>4. Final(i, c, f)
        BY <1>2, <2>2, <3>1, <4>1, <4>3 DEF Final
      <4>5. QED BY <4>1, <4>3, <4>4 DEF ValueOf
    <3>2. ASSUME NoFull(c)', \A i \in 0 .. n + 1 : ~Changed(i, c, f)'
          PROVE  NoFull(c) /\ (\A i \in 0 .. n : ~Changed(i, c, f))
      <4>1. NoFull(c) /\ ~send_full
        BY <2>6, <3>2
      <4>2. ASSUME NEW i \in 0 .. n
            PROVE  ~Changed(i, c, f)
        <5>1. CASE i = n
          BY <2>5, <3>2, <4>1, <5>1
        <5>2. CASE i # n
          <6>1. i \in 0 .. n - 1
            BY <1>2, <5>2
          <6>2. QED BY <2>5, <3>2, <6>1
        <5>3. QED BY <5>1, <5>2
      <4>3. QED BY <4>1, <4>2
    <3>3. QED BY <1>2, <1>3, <2>2, <2>7, <2>9, <3>1, <3>2 DEF ShownField
  <2>10. QED BY <2>1, <2>8, <2>9 DEF Synced, Underway
<1>7. QED BY <1>5, <1>6 DEF Synced, Underway

\* Starting an injection moves every batch one place on.
LEMMA StartSynced ==
    ASSUME Current, Current', Synced, InjectStart
    PROVE  Synced'
<1>1. TypeOK /\ TypeOK'
  BY DEF Current
<1>2. PICK n \in Nat : n = Newest /\ n >= 2 /\ Len(queue) = n - 1
  <2>1. Len(queue) \in Nat \ {0}
    BY <1>1 DEF InjectStart, TypeOK
  <2>2. QED BY <2>1 DEF Newest
<1>3. /\ writing = None /\ cells' = cells /\ tab' = tab /\ setting' = setting
      /\ refused' = refused /\ send_full' = send_full
      /\ changed_dn' = changed_dn /\ changed_ping' = changed_ping
  BY DEF InjectStart, cellVars
<1>4. /\ Head(queue) = queue[1] /\ Newest' = n - 1 /\ Len(queue') = n - 2
      /\ \A i \in 1 .. n - 2 : queue'[i] = queue[i + 1]
  BY <1>1, <1>2 DEF InjectStart, Newest, TypeOK
<1>5. /\ writing' # None
      /\ writing'.todo = IF queue[1].full THEN Cells ELSE {}
      /\ writing'.dn = queue[1].dn /\ writing'.ping = queue[1].ping
  <2>1. writing' \in Work
    <3>1. queue[1] \in Batch
      BY <1>1, <1>2 DEF TypeOK
    <3>2. QED BY <1>4, <3>1 DEF InjectStart, Batch, Work
  <2>2. QED BY <1>4, <2>1, NoneAssumption DEF InjectStart
<1>6. FullAlone'
  <2>1. \A i \in 1 .. n - 1 : queue[i].full => queue[i].dn = <<>> /\ queue[i].ping = <<>>
    BY <1>2 DEF Synced, FullAlone
  <2>2. \A i \in 1 .. n - 2 : queue'[i].full => queue'[i].dn = <<>> /\ queue'[i].ping = <<>>
    BY <1>2, <1>4, <2>1
  <2>3. queue[1].full => queue[1].dn = <<>> /\ queue[1].ping = <<>>
    BY <1>2, <2>1
  <2>4. QED BY <1>4, <1>5, <2>2, <2>3 DEF FullAlone
<1>7. \A i \in 0 .. n - 1, c \in Cells : FullIn(i, c)' <=> FullIn(i + 1, c)
  <2>1. \A c \in Cells : FullIn(0, c)' <=> FullIn(1, c)
    BY <1>2, <1>5 DEF FullIn
  <2>2. \A i \in 1 .. n - 1, c \in Cells : FullIn(i, c)' <=> FullIn(i + 1, c)
    BY <1>2, <1>3, <1>4 DEF FullIn
  <2>3. QED BY <1>2, <2>1, <2>2
<1>8. /\ \A i \in 0 .. n - 1, f \in Fields : Changes(i, f)' = Changes(i + 1, f)
      /\ \A f \in Fields : Changes(0, f) = <<>>
  BY <1>2, <1>3, <1>4, <1>5 DEF Changes, Fields
<1>9. \A c \in Cells, f \in Fields :
          /\ \A i \in 0 .. n - 1 : Changed(i, c, f)' <=> Changed(i + 1, c, f)
          /\ ~Changed(0, c, f)
  BY <1>8, LastOfNone DEF Changed
<1>10. \A c \in Cells : NoFull(c)' => NoFull(c)
  <2>1. SUFFICES ASSUME NEW c \in Cells, NoFull(c)', NEW i \in 0 .. n
                 PROVE  ~FullIn(i, c)
    BY <1>2 DEF NoFull
  <2>2. CASE i = 0
    BY <1>3, <2>2 DEF FullIn
  <2>3. CASE i # 0
    <3>1. i - 1 \in 0 .. n - 1 /\ i = (i - 1) + 1
      BY <2>3
    <3>2. ~FullIn(i - 1, c)'
      BY <1>4, <2>1, <3>1 DEF NoFull
    <3>3. QED BY <1>7, <3>1, <3>2
  <2>4. QED BY <2>2, <2>3
<1>11. \A c, f : Steady(c, f)' = Steady(c, f)
  BY <1>3 DEF Steady
<1>12. \A c \in Cells : ShownCell(c) => ShownCell(c)'
  BY <1>3, <1>10, <1>11 DEF ShownCell
<1>13. ASSUME NEW c \in Cells, NEW f \in Fields, ShownField(c, f)
       PROVE  ShownField(c, f)'
  <2>1. ASSUME NEW i \in 0 .. n - 1, Final(i, c, f)'
        PROVE  /\ i + 1 \in 0 .. n /\ Final(i + 1, c, f)
               /\ ValueOf(Changes(i, f), c)' = ValueOf(Changes(i + 1, f), c)
    <3>1. Changed(i + 1, c, f)
      BY <1>9, <2>1 DEF Final
    <3>2. ASSUME NEW j \in i + 2 .. n
          PROVE  ~FullIn(j, c) /\ ~Changed(j, c, f)
      <4>1. j - 1 \in i + 1 .. n - 1 /\ j - 1 \in 0 .. n - 1 /\ j = (j - 1) + 1
        BY <1>2
      <4>2. ~FullIn(j - 1, c)' /\ ~Changed(j - 1, c, f)'
        BY <1>4, <2>1, <4>1 DEF Final
      <4>3. QED BY <1>7, <1>9, <4>1, <4>2
    <3>3. Final(i + 1, c, f)
      BY <1>2, <3>1, <3>2 DEF Final
    <3>4. QED BY <1>2, <1>8, <3>3 DEF ValueOf
  <2>2. ASSUME \A i \in 0 .. n - 1 : ~Changed(i, c, f)'
        PROVE  \A i \in 0 .. n : ~Changed(i, c, f)
    <3>1. ASSUME NEW i \in 0 .. n, i # 0
          PROVE  ~Changed(i, c, f)
      <4>1. i - 1 \in 0 .. n - 1 /\ i = (i - 1) + 1
        BY <3>1
      <4>2. QED BY <1>9, <2>2, <4>1
    <3>2. QED BY <1>9, <3>1
  <2>3. QED BY <1>2, <1>3, <1>4, <1>10, <1>11, <1>13, <2>1, <2>2 DEF ShownField
<1>14. QED BY <1>3, <1>6, <1>12, <1>13 DEF Synced, Underway

\* A cell of a full list is copied as it is; a setter that is under way will add a
\* change behind it.
LEMMA WriteCellSynced ==
    ASSUME Current, Current', Synced, NEW c \in Cells, WriteCell(c)
    PROVE  Synced'
<1>1. TypeOK /\ TypeOK'
  BY DEF Current
<1>2. Newest \in Nat /\ Newest >= 1 /\ 0 \in 0 .. Newest
  BY <1>1 DEF Newest, TypeOK
<1>3. /\ cells' = cells /\ setting' = setting /\ queue' = queue /\ refused' = refused
      /\ send_full' = send_full /\ changed_dn' = changed_dn /\ changed_ping' = changed_ping
      /\ c \in writing.todo
      /\ \A d \in Cells : tab'[d] = IF d = c THEN cells[c] ELSE tab[d]
  BY <1>1 DEF WriteCell, cellVars, TypeOK
<1>4. /\ writing # None /\ writing' # None /\ writing'.todo = writing.todo \ {c}
      /\ writing'.dn = writing.dn /\ writing'.ping = writing.ping
  <2>1. writing \in Work /\ writing # None
    BY <1>1 DEF WriteCell, TypeOK
  <2>2. writing' = [todo |-> writing.todo \ {c}, dn |-> writing.dn,
                    ping |-> writing.ping, title |-> writing.title]
    BY <2>1 DEF WriteCell, Work
  <2>3. writing' \in Work
    BY <2>1, <2>2 DEF Work
  <2>4. QED BY <2>1, <2>2, <2>3, NoneAssumption
<1>5. FullAlone'
  BY <1>3, <1>4 DEF Synced, FullAlone
<1>6. /\ Newest' = Newest
      /\ \A i, f : Changes(i, f)' = Changes(i, f)
      /\ \A i, d : i # 0 \/ d # c => FullIn(i, d)' = FullIn(i, d)
  BY <1>3, <1>4 DEF Newest, Changes, FullIn
<1>7. \A f \in Fields : Changes(0, f) = <<>>
  BY <1>3, <1>4 DEF Synced, FullAlone, Changes, Fields
<1>8. \A d, f : Steady(d, f)' = Steady(d, f)
  BY <1>3 DEF Steady
<1>9. ASSUME NEW d \in Cells, ShownCell(d)
      PROVE  ShownCell(d)'
  <2>1. CASE d = c
    BY <1>1, <1>3, <2>1, NoneAssumption DEF ShownCell, TypeOK
  <2>2. CASE d # c
    BY <1>3, <1>6, <1>8, <1>9, <2>2, SameCell
  <2>3. QED BY <2>1, <2>2
<1>10. ASSUME NEW d \in Cells, NEW f \in Fields, ShownField(d, f)
       PROVE  ShownField(d, f)'
  <2>1. CASE d = c
    <3>1. \A i : Changed(i, c, f)' <=> Changed(i, c, f)
      BY <1>6 DEF Changed
    <3>2. ~Changed(0, c, f)
      BY <1>7, LastOfNone DEF Changed
    <3>3. ASSUME NEW i \in 0 .. Newest, Final(i, c, f)'
          PROVE  Final(i, c, f)
      <4>1. i # 0 /\ Changed(i, c, f)
        BY <3>1, <3>2, <3>3 DEF Final
      <4>2. \A j \in i + 1 .. Newest : ~FullIn(j, c) /\ ~Changed(j, c, f)
        BY <1>6, <3>1, <3>3, <4>1 DEF Final
      <4>3. QED BY <4>1, <4>2 DEF Final
    <3>4. \A i : ValueOf(Changes(i, f), c)' = ValueOf(Changes(i, f), c)
      BY <1>6 DEF ValueOf
    <3>5. QED BY <1>3, <1>6, <1>8, <1>10, <2>1, <3>3, <3>4 DEF ShownField
  <2>2. CASE d # c
    BY <1>3, <1>6, <1>8, <1>10, <2>2, SameField
  <2>3. QED BY <2>1, <2>2
<1>11. QED BY <1>3, <1>5, <1>9, <1>10 DEF Synced, Underway

\* What the client does with a list of changes.
LEMMA ApplyAt ==
    ASSUME NEW old \in [Cells -> Cell \cup {None}], NEW f \in Fields, NEW L \in Seq(Change),
           NEW c \in Cells
    PROVE  /\ old[c] = None => Apply(old, f, L)[c] = None
           /\ old[c] # None =>
                 /\ Apply(old, f, L)[c] # None
                 /\ Apply(old, f, L)[c][f] =
                       IF LastChange(L, c) = 0 THEN old[c][f] ELSE ValueOf(L, c)
                 /\ \A g \in {"Properties", "DisplayName", "Ping"} :
                       g # f => Apply(old, f, L)[c][g] = old[c][g]
<1>1. CASE old[c] = None
  BY <1>1 DEF Apply
<1>2. CASE old[c] # None /\ LastChange(L, c) = 0
  BY <1>2 DEF Apply
<1>3. CASE old[c] # None /\ LastChange(L, c) # 0
  <2>1. old[c] \in Cell /\ ValueOf(L, c) \in Values
    BY <1>3, LastChangeIs DEF Change, ValueOf
  <2>2. Apply(old, f, L)[c] = [old[c] EXCEPT ![f] = ValueOf(L, c)]
    BY <1>3 DEF Apply, ValueOf
  <2>3. [old[c] EXCEPT ![f] = ValueOf(L, c)] \in Cell
    BY <2>1 DEF Cell, Fields
  <2>4. QED BY <1>3, <2>1, <2>2, <2>3, NoneAssumption DEF Cell, Fields
<1>4. QED BY <1>1, <1>2, <1>3

\* The rest of an injection applies its changes, and leaves nothing of it.
LEMMA WriteRestSynced ==
    ASSUME Current, Current', Synced, WriteRest
    PROVE  Synced'
<1>1. TypeOK /\ TypeOK'
  BY DEF Current
<1>2. Newest \in Nat /\ Newest >= 1 /\ 0 \in 0 .. Newest
  BY <1>1 DEF Newest, TypeOK
<1>3. /\ cells' = cells /\ setting' = setting /\ queue' = queue /\ refused' = refused
      /\ send_full' = send_full /\ changed_dn' = changed_dn /\ changed_ping' = changed_ping
      /\ writing # None /\ writing.todo = {} /\ writing' = None
  BY DEF WriteRest, cellVars
<1>4. FullAlone'
  BY <1>3 DEF Synced, FullAlone
<1>5. /\ Newest' = Newest
      /\ \A i, f : i # 0 => Changes(i, f)' = Changes(i, f)
      /\ \A f : Changes(0, f)' = <<>>
      /\ \A i, c : FullIn(i, c)' <=> FullIn(i, c)
  BY <1>3 DEF Newest, Changes, FullIn
<1>6. \A c, f : Steady(c, f)' = Steady(c, f)
  BY <1>3 DEF Steady
<1>7. \A c : NoFull(c)' <=> NoFull(c)
  BY <1>5 DEF NoFull
<1>8. ASSUME NEW c \in Cells
      PROVE  tab[c] # None =>
                /\ tab'[c] # None /\ tab'[c].Properties = tab[c].Properties
                /\ \A f \in Fields : tab'[c][f] =
                      IF Changed(0, c, f) THEN ValueOf(Changes(0, f), c) ELSE tab[c][f]
  <2>1. /\ writing.dn \in Seq(Change) /\ writing.ping \in Seq(Change)
        /\ tab \in [Cells -> Cell \cup {None}]
    BY <1>1, <1>3 DEF TypeOK, Work
  <2> DEFINE named == Apply(tab, "DisplayName", writing.dn)
  <2>2. named \in [Cells -> Cell \cup {None}]
    BY <2>1, ApplyType
  <2>3. tab' = Apply(named, "Ping", writing.ping)
    BY DEF WriteRest
  <2>4. Changes(0, "DisplayName") = writing.dn /\ Changes(0, "Ping") = writing.ping
    BY <1>3 DEF Changes
  <2>5. tab[c] # None =>
            /\ named[c] # None /\ named[c].Properties = tab[c].Properties
            /\ named[c].Ping = tab[c].Ping
            /\ named[c].DisplayName =
                  IF Changed(0, c, "DisplayName") THEN ValueOf(Changes(0, "DisplayName"), c)
                  ELSE tab[c].DisplayName
    BY <2>1, <2>4, ApplyAt DEF Fields, Changed
  <2> HIDE DEF named
  <2>6. named[c] # None =>
            /\ tab'[c] # None /\ tab'[c].Properties = named[c].Properties
            /\ tab'[c].DisplayName = named[c].DisplayName
            /\ tab'[c].Ping =
                  IF Changed(0, c, "Ping") THEN ValueOf(Changes(0, "Ping"), c)
                  ELSE named[c].Ping
    BY <2>1, <2>2, <2>3, <2>4, ApplyAt DEF Fields, Changed
  <2>7. QED BY <2>5, <2>6 DEF Fields
<1>9. ASSUME NEW c \in Cells, ShownCell(c)
      PROVE  ShownCell(c)'
  BY <1>3, <1>6, <1>7, <1>8, <1>9 DEF ShownCell
<1>10. ASSUME NEW c \in Cells, NEW f \in Fields, ShownCell(c), ShownField(c, f)
       PROVE  ShownField(c, f)'
  <2>1. /\ \A i : i # 0 => (Changed(i, c, f)' <=> Changed(i, c, f))
        /\ ~Changed(0, c, f)'
    BY <1>5, LastOfNone DEF Changed
  <2>2. ASSUME NEW i \in 0 .. Newest, Final(i, c, f)'
        PROVE  Final(i, c, f) /\ ValueOf(Changes(i, f), c)' = ValueOf(Changes(i, f), c)
    <3>1. i # 0 /\ Changed(i, c, f)
      BY <2>1, <2>2 DEF Final
    <3>2. \A j \in i + 1 .. Newest : j # 0 /\ ~FullIn(j, c) /\ ~Changed(j, c, f)
      BY <1>5, <2>1, <2>2, <3>1 DEF Final
    <3>3. Final(i, c, f)
      BY <3>1, <3>2 DEF Final
    <3>4. QED BY <1>5, <3>1, <3>3 DEF ValueOf
  <2>3. ASSUME Steady(c, f), NoFull(c), \A i \in 0 .. Newest : ~Changed(i, c, f)'
        PROVE  tab'[c][f] = cells[c][f]
    <3>1. tab[c] # None
      BY <1>10, <2>3 DEF ShownCell
    <3>2. \A i \in 1 .. Newest : ~Changed(i, c, f) /\ ~FullIn(i, c)
      BY <2>1, <2>3 DEF NoFull
    <3>3. CASE Changed(0, c, f)
      <4>1. Final(0, c, f)
        BY <3>2, <3>3 DEF Final
      <4>2. ValueOf(Changes(0, f), c) = cells[c][f]
        BY <1>2, <1>10, <2>3, <4>1 DEF ShownField
      <4>3. QED BY <1>8, <3>1, <3>3, <4>2
    <3>4. CASE ~Changed(0, c, f)
      <4>1. \A i \in 0 .. Newest : ~Changed(i, c, f)
        BY <3>2, <3>4
      <4>2. QED BY <1>8, <1>10, <2>3, <3>1, <3>4, <4>1 DEF ShownField
    <3>5. QED BY <3>3, <3>4
  <2>4. QED BY <1>3, <1>5, <1>6, <1>7, <1>10, <2>2, <2>3 DEF ShownField
<1>11. QED BY <1>3, <1>4, <1>9, <1>10 DEF Synced, Underway

\* The session's packets of the upstream have nothing to do with the list.
LEMMA UpstreamSynced ==
    ASSUME Synced, Upstream \/ UNCHANGED vars
    PROVE  Synced'
<1>1. UNCHANGED <<cellVars, queue, writing, tab, refused>>
  BY DEF Upstream, AddPlayer, UpdatePlayer, RemovePlayer, UpstreamTitle, SendDimensionSwitch, vars
<1>2. QED BY <1>1 DEF Synced, FullAlone, Underway, ShownCell, ShownField, NoFull, Final, Changed,
                      FullIn, Changes, Newest, Steady, cellVars

\* What is pending, queued or being written makes up for what the client lacks.
LEMMA SyncedHolds == Spec => [](Current /\ Synced)
<1>1. Init => Current /\ Synced
  BY InitCurrent, InitSynced
<1>2. Current /\ [Next]_vars => Current'
  BY UpstreamCurrent, OwnerCurrent, InjectCurrent, StutterCurrent DEF Next
<1>3. Current /\ Current' /\ Synced /\ [Next]_vars => Synced'
  BY UpstreamSynced, SetSynced, FlushSynced, StartSynced, WriteCellSynced, WriteRestSynced
     DEF Next, Owner, Inject
<1>4. QED BY <1>1, <1>2, <1>3, PTL DEF Spec

\* Once everything flushed has been written and no Flush was refused, the client shows
\* the list's cells: a copy that was torn or outdated, or a change that a full list
\* overtook, is made good by a change behind it.
THEOREM TabStaysSynced == Spec => []TabSynced
<1>1. Current /\ Synced => TabSynced
  <2> SUFFICES ASSUME Current, Synced, Quiet, ~refused
               PROVE  tab = cells
    BY DEF TabSynced
  <2>1. Newest = 1 /\ \A c : NoFull(c)
    BY DEF Quiet, Newest, NoFull, FullIn
  <2>2. \A c : \A i \in 0 .. Newest, f \in Fields : ~Changed(i, c, f)
    <3>1. \A i \in 0 .. Newest, f \in Fields : Changes(i, f) = <<>>
      BY <2>1 DEF Quiet, Changes, Fields
    <3>2. QED BY <3>1, LastOfNone DEF Changed
  <2>3. \A c, f : Steady(c, f)
    BY DEF Quiet, Steady
  <2>4. ASSUME NEW c \in Cells
        PROVE  tab[c] = cells[c]
    <3>1. tab[c] # None /\ tab[c].Properties = cells[c].Properties
      BY <2>1, <2>3 DEF Synced, Underway, ShownCell
    <3>2. tab[c].DisplayName = cells[c].DisplayName /\ tab[c].Ping = cells[c].Ping
      BY <2>1, <2>2, <2>3 DEF Synced, Underway, ShownField, Fields
    <3>3. tab[c] \in Cell /\ cells[c] \in Cell
      BY <3>1 DEF Current, TypeOK
    <3>4. QED BY <3>1, <3>2, <3>3 DEF Cell
  <2>5. QED BY <2>4 DEF Current, TypeOK
<1>2. QED BY SyncedHolds, <1>1, PTL
=============================================================================
