--------------------------- MODULE PlayerRegistry ---------------------------
(***************************************************************************)
(* What the rest of the proxy relies on when it asks potoq.Players for a   *)
(* player: a seat per key (a lower-cased nickname), taken by at most one   *)
(* session, given up only by the session that holds it, and never taken    *)
(* again by a session that left.  PlayerManager implements it.             *)
(***************************************************************************)
CONSTANTS
    Handlers,   \* the sessions (*Handler objects)
    Keys,       \* lower-cased nicknames
    None        \* the value of an empty seat

VARIABLES
    seat,       \* key -> the session a lookup of that key returns
    left        \* the sessions that gave up their seat

rvars == <<seat, left>>

RInit ==
    /\ seat = [k \in Keys |-> None]
    /\ left = {}

Enter(h, k) ==
    /\ seat[k] = None
    /\ h \notin left
    /\ \A j \in Keys : seat[j] # h
    /\ seat' = [seat EXCEPT ![k] = h]
    /\ UNCHANGED left

Leave(h, k) ==
    /\ seat[k] = h
    /\ seat' = [seat EXCEPT ![k] = None]
    /\ left' = left \cup {h}

RNext == \E h \in Handlers, k \in Keys : Enter(h, k) \/ Leave(h, k)

RSpec == RInit /\ [][RNext]_rvars
=============================================================================
