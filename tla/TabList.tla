------------------------------- MODULE TabList ------------------------------
(***************************************************************************)
(* What a client's player list shows.  Its entries have two sources:       *)
(*                                                                         *)
(*   - PlayerListItem packets of the upstream, which savePlayerList        *)
(*     (filters.go) records in handler.playerList before they are passed   *)
(*     on, so that SendDimensionSwitch (commands.go) can remove them when  *)
(*     the session moves to another upstream;                              *)
(*   - the cells of a tab.TabList (filters/tab/tablist.go), which some     *)
(*     other goroutine, its owner, changes and flushes.  Flush injects     *)
(*     packets through commandChan; the session's goroutine writes them    *)
(*     later.  A full list is injected as a slice of the live cells, so    *)
(*     that goroutine copies each cell while the owner goes on setting     *)
(*     them.                                                               *)
(*                                                                         *)
(* A string or slice is stored in several words.  A setter therefore takes *)
(* two steps, and a copy made between them reads Torn.                     *)
(***************************************************************************)
EXTENDS Integers, Sequences

CONSTANTS
    Players,    \* UUIDs of the upstreams' players
    Cells,      \* the list's cells (80, with UUIDs of their own)
    Values,     \* values of every field of an item
    Default,    \* the value a new cell's fields have
    None,       \* no item, nothing being set
    Torn,       \* what a racing copy of a string or slice may yield
    Cap,        \* bound: the list's injections in commandChan (at most 10)
    MaxGen,     \* bound: upstreams of one behaviour
    MaxSets     \* bound: calls of the owner in one behaviour

ASSUME ValuesAssumption == Default \in Values /\ None \notin Values /\ Torn \notin Values
ASSUME BoundsAssumption == Cap \in Nat /\ MaxGen \in Nat \ {0} /\ MaxSets \in Nat

VARIABLES
    playerList, \* handler.playerList
    shown,      \* the upstreams' items the client shows
    from,       \* history: the upstream a shown item was added by
    gen,        \* the current upstream
    header,     \* the header the client shows: Blank, Own or an upstream's
    cells,      \* tb.cells
    setting,    \* the setter between its two steps
    send_full, changed_dn, changed_ping, title, \* tb's pending changes
    queue,      \* the list's injections in commandChan
    writing,    \* the injection being written
    tab,        \* the cells the client shows
    refused,    \* history: InjectPackets has refused a Flush
    sets        \* calls of the owner so far

listVars == <<playerList, shown, from, gen>>
cellVars == <<cells, setting, send_full, changed_dn, changed_ping, title>>
vars == <<listVars, header, cellVars, queue, writing, tab, refused, sets>>

Item == [GameMode : Values, DisplayName : Values, Ping : Values]
Cell == [Properties : Values \cup {Torn}, DisplayName : Values \cup {Torn}, Ping : Values]
Change == [cell : Cells, value : Values]
Setter == [cell : Cells, field : {"DisplayName", "Properties"}, value : Values]
Batch == [full : BOOLEAN, dn : Seq(Change), ping : Seq(Change), title : BOOLEAN]
Work == [todo : SUBSET Cells, dn : Seq(Change), ping : Seq(Change), title : BOOLEAN]

\* None is nil: none of the values a variable may hold besides.
ASSUME NoneAssumption == None \notin Cell /\ None \notin Setter /\ None \notin Work

Blank == 0      \* header of neither an upstream nor the list
Own == -1       \* header set by the list

NewCell == [Properties |-> Default, DisplayName |-> Default, Ping |-> Default]
NoItems == [p \in Players |-> None]

Init ==
    /\ playerList = NoItems /\ shown = NoItems
    /\ from = [p \in Players |-> 0] /\ gen = 1
    /\ header = Blank
    /\ cells = [c \in Cells |-> NewCell]
    /\ setting = None
    /\ send_full = TRUE
    /\ changed_dn = <<>> /\ changed_ping = <<>> /\ title = FALSE
    /\ queue = <<>> /\ writing = None
    /\ tab = [c \in Cells |-> None]
    /\ refused = FALSE /\ sets = 0

-----------------------------------------------------------------------------
(* The session's goroutine: packets of the upstream, and a switch.         *)

\* The list with the given players' items replaced.
Put(list, S, item) == [p \in Players |-> IF p \in S THEN item ELSE list[p]]

\* Mutant of updatePlayerListItem: a missing item is created.
updatePlayerListItemAny(list, S, field, v) ==
    [p \in Players |-> IF p \in S
                       THEN IF list[p] # None THEN [list[p] EXCEPT ![field] = v]
                            ELSE [GameMode |-> v, DisplayName |-> v, Ping |-> v]
                       ELSE list[p]]

\* Only items that are there are changed, in handler.playerList ...
updatePlayerListItem(list, S, field, v) ==
    [p \in Players |-> IF p \in S /\ list[p] # None
                       THEN [list[p] EXCEPT ![field] = v] ELSE list[p]]

\* ... and in the client's list.
ClientUpdate(list, S, field, v) ==
    [p \in Players |-> IF p \in S /\ list[p] # None
                       THEN [list[p] EXCEPT ![field] = v] ELSE list[p]]

\* A PlayerListItem packet of the upstream: savePlayerList, then the write.
AddPlayer(S, item) ==
    /\ writing = None
    /\ playerList' = Put(playerList, S, item)
    /\ shown' = Put(shown, S, item)
    /\ from' = [p \in Players |-> IF p \in S THEN gen ELSE from[p]]
    /\ UNCHANGED <<gen, header, cellVars, queue, writing, tab, refused, sets>>

UpdatePlayer(S, field, v) ==
    /\ writing = None
    /\ playerList' = updatePlayerListItem(playerList, S, field, v)
    /\ shown' = ClientUpdate(shown, S, field, v)
    /\ UNCHANGED <<from, gen, header, cellVars, queue, writing, tab, refused, sets>>

RemovePlayer(S) ==
    /\ writing = None
    /\ playerList' = Put(playerList, S, None)
    /\ shown' = Put(shown, S, None)
    /\ UNCHANGED <<from, gen, header, cellVars, queue, writing, tab, refused, sets>>

\* A PlayerListTitle packet of the upstream is passed on unparsed.
UpstreamTitle ==
    /\ writing = None
    /\ header' = gen
    /\ UNCHANGED <<listVars, cellVars, queue, writing, tab, refused, sets>>

\* REMOVE_PLAYER for every recorded item, an empty title, then the new world.
SendDimensionSwitch ==
    /\ writing = None
    /\ gen < MaxGen
    /\ gen' = gen + 1
    /\ shown' = [p \in Players |-> IF playerList[p] # None THEN None ELSE shown[p]]
    /\ playerList' = NoItems
    /\ header' = Blank
    /\ UNCHANGED <<from, cellVars, queue, writing, tab, refused, sets>>

-----------------------------------------------------------------------------
(* The owner of the TabList.                                               *)

Call == setting = None /\ sets < MaxSets /\ sets' = sets + 1

\* SetCell and SetProperties do nothing when the value is the one there.
SetBegin(c, field, v) ==
    /\ Call
    /\ cells[c][field] # v
    /\ cells' = [cells EXCEPT ![c] = [@ EXCEPT ![field] = Torn]]
    /\ setting' = [cell |-> c, field |-> field, value |-> v]
    /\ UNCHANGED <<listVars, header, send_full, changed_dn, changed_ping, title,
                   queue, writing, tab, refused>>

\* Mutant of SetEnd: new properties do not ask for a full list.
SetEndSilent ==
    /\ setting # None
    /\ cells' = [cells EXCEPT ![setting.cell] = [@ EXCEPT ![setting.field] = setting.value]]
    /\ changed_dn' = IF setting.field = "DisplayName"
                     THEN Append(changed_dn, [cell |-> setting.cell, value |-> setting.value])
                     ELSE changed_dn
    /\ setting' = None
    /\ UNCHANGED <<listVars, header, send_full, changed_ping, title, queue, writing, tab,
                   refused, sets>>

\* A new name is appended to changed_dn, new properties need a full list.
SetEnd ==
    /\ setting # None
    /\ cells' = [cells EXCEPT ![setting.cell] = [@ EXCEPT ![setting.field] = setting.value]]
    /\ IF setting.field = "DisplayName"
       THEN /\ changed_dn' = Append(changed_dn, [cell |-> setting.cell, value |-> setting.value])
            /\ UNCHANGED send_full
       ELSE /\ send_full' = TRUE
            /\ UNCHANGED changed_dn
    /\ setting' = None
    /\ UNCHANGED <<listVars, header, changed_ping, title, queue, writing, tab, refused, sets>>

\* A ping is one word.
SetPing(c, v) ==
    /\ Call
    /\ cells[c].Ping # v
    /\ cells' = [cells EXCEPT ![c] = [@ EXCEPT !.Ping = v]]
    /\ changed_ping' = Append(changed_ping, [cell |-> c, value |-> v])
    /\ UNCHANGED <<listVars, header, setting, send_full, changed_dn, title, queue,
                   writing, tab, refused>>

SetTitle ==
    /\ Call
    /\ title' = TRUE
    /\ UNCHANGED <<listVars, header, cells, setting, send_full, changed_dn, changed_ping,
                   queue, writing, tab, refused>>

Pending == send_full \/ changed_dn # <<>> \/ changed_ping # <<>> \/ title

\* The packets of a Flush: a full list replaces the single changes.
Packets ==
    [full |-> send_full,
     dn |-> IF send_full THEN <<>> ELSE changed_dn,
     ping |-> IF send_full THEN <<>> ELSE changed_ping,
     title |-> title]

\* The pending changes are forgotten whether or not InjectPackets, last, finds
\* room in commandChan, which holds other commands too.
Flush ==
    /\ Call
    /\ Pending
    /\ send_full' = FALSE
    /\ changed_dn' = <<>> /\ changed_ping' = <<>> /\ title' = FALSE
    /\ \/ Len(queue) < Cap /\ queue' = Append(queue, Packets) /\ UNCHANGED refused
       \/ refused' = TRUE /\ UNCHANGED queue
    /\ UNCHANGED <<listVars, header, cells, setting, writing, tab>>

-----------------------------------------------------------------------------
(* The session's goroutine executes the injection.                         *)

InjectStart ==
    /\ writing = None
    /\ queue # <<>>
    /\ queue' = Tail(queue)
    /\ writing' = [todo |-> IF Head(queue).full THEN Cells ELSE {},
                   dn |-> Head(queue).dn, ping |-> Head(queue).ping,
                   title |-> Head(queue).title]
    /\ UNCHANGED <<listVars, header, cellVars, tab, refused, sets>>

\* One cell of a full list: the loop in Serialize copies it from the live array.
WriteCell(c) ==
    /\ writing # None /\ c \in writing.todo
    /\ tab' = [tab EXCEPT ![c] = cells[c]]
    /\ writing' = [writing EXCEPT !.todo = @ \ {c}]
    /\ UNCHANGED <<listVars, header, cellVars, queue, refused, sets>>

\* The place of a cell's last change in a list of changes, 0 if there is none.
LastChange(changes, c) ==
    LET at == {i \in 1 .. Len(changes) : changes[i].cell = c}
    IN  IF at = {} THEN 0 ELSE CHOOSE i \in at : \A j \in at : j <= i

\* The client applies changes in order, and only to cells it shows.
Apply(shownCells, field, changes) ==
    [c \in Cells |->
       IF shownCells[c] = None \/ LastChange(changes, c) = 0 THEN shownCells[c]
       ELSE [shownCells[c] EXCEPT ![field] = changes[LastChange(changes, c)].value]]

\* The rest of the injection: names, then pings, then the title.
WriteRest ==
    /\ writing # None /\ writing.todo = {}
    /\ tab' = Apply(Apply(tab, "DisplayName", writing.dn), "Ping", writing.ping)
    /\ header' = IF writing.title THEN Own ELSE header
    /\ writing' = None
    /\ UNCHANGED <<listVars, cellVars, queue, refused, sets>>

Upstream ==
    \/ \E S \in SUBSET Players, item \in Item : S # {} /\ AddPlayer(S, item)
    \/ \E S \in SUBSET Players, f \in {"GameMode", "DisplayName", "Ping"}, v \in Values :
          S # {} /\ UpdatePlayer(S, f, v)
    \/ \E S \in SUBSET Players : S # {} /\ RemovePlayer(S)
    \/ UpstreamTitle
    \/ SendDimensionSwitch

Owner ==
    \/ \E c \in Cells, f \in {"DisplayName", "Properties"}, v \in Values : SetBegin(c, f, v)
    \/ SetEnd
    \/ \E c \in Cells, v \in Values : SetPing(c, v)
    \/ SetTitle
    \/ Flush

Inject == InjectStart \/ (\E c \in Cells : WriteCell(c)) \/ WriteRest

Next == Upstream \/ Owner \/ Inject

Spec == Init /\ [][Next]_vars

-----------------------------------------------------------------------------
\* The shape of the state; only a client's cell may be torn after its setter.
TypeOK ==
    /\ playerList \in [Players -> Item \cup {None}]
    /\ shown \in [Players -> Item \cup {None}]
    /\ from \in [Players -> 0 .. MaxGen] /\ gen \in 1 .. MaxGen
    /\ header \in -1 .. MaxGen
    /\ cells \in [Cells -> Cell] /\ tab \in [Cells -> Cell \cup {None}]
    /\ setting = None => \A c \in Cells : Torn \notin {cells[c].DisplayName, cells[c].Properties}
    /\ setting \in Setter \cup {None}
    /\ send_full \in BOOLEAN /\ title \in BOOLEAN /\ refused \in BOOLEAN
    /\ changed_dn \in Seq(Change) /\ changed_ping \in Seq(Change)
    /\ queue \in Seq(Batch) /\ Len(queue) <= Cap
    /\ writing \in Work \cup {None}
    /\ sets \in 0 .. MaxSets

\* handler.playerList is exactly what the upstream made the client show, field by
\* field, so that a switch can take all of it back.
PlayerListTracks == shown = playerList

\* After a switch the client shows nothing of an upstream it has left: neither a
\* player nor a title.
NoGhosts ==
    /\ \A p \in Players : shown[p] # None => from[p] = gen
    /\ header \in {Blank, Own, gen}

\* The proxy knows what the client shows, and all of it is the current upstream's.
PlayerListCurrent == TypeOK /\ PlayerListTracks /\ NoGhosts

Quiet ==
    /\ setting = None /\ ~send_full /\ changed_dn = <<>> /\ changed_ping = <<>>
    /\ queue = <<>> /\ writing = None

\* When everything flushed has been written and no Flush was refused, the client
\* shows the list's cells, although full lists were copied from cells that were
\* being set and may have shown a torn or an older value in between.
TabSynced == Quiet /\ ~refused => tab = cells
=============================================================================
