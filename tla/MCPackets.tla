----------------------------- MODULE MCPackets ------------------------------
(***************************************************************************)
(* Packets for TLC: which of them the filters see, and what reading and    *)
(* writing makes of their fields.  Dispatch has three packets a direction  *)
(* and two slots to a word.  A behaviour is of one of the two parts and    *)
(* leaves the other's state alone.                                         *)
(***************************************************************************)
EXTENDS MCDispatch, Codec, TLC

VARIABLE part

\* All packet types with one item to a list at most; the lists with two; and JoinGame, which
\* is long and does not come out as it went in.
MCLists == {"PlayerListItem", "Teams", "TabCompleteCB"}
MCSenders ==
    [name : PacketTypes \ {"JoinGame"}, lens : {{0, 4}}, numbers : {{0, 31}}, fills : {{5}},
     items : {1}, altered : {{0, 1, 7}}]
    \cup
    [name : MCLists, lens : {{4}}, numbers : {{31}}, fills : {{5}}, items : {2},
     altered : {{0, 1, 7}}]
    \cup
    [name : {"JoinGame"}, lens : {{4}}, numbers : {{31}}, fills : {{5}}, items : {1},
     altered : {{0}}]

MCInit ==
    /\ Init /\ CodecInit
    /\ \/ part = "dispatch" /\ sender.name = "StatusPing"
       \/ part = "codec"

MCNext ==
    /\ \/ part = "dispatch" /\ Next /\ UNCHANGED codecVars
       \/ part = "codec" /\ CodecNext /\ UNCHANGED vars
    /\ UNCHANGED part

MCSpec == MCInit /\ [][MCNext]_<<part, vars, codecVars>>
=============================================================================
