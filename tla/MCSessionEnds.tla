--------------------------- MODULE MCSessionEnds ----------------------------
(***************************************************************************)
(* How a Session ends, for TLC.  A behaviour is of one part: time and the  *)
(* packets of two upstreams with one command, or two commands with the     *)
(* packet of the upstream that a reconnect leads to; the client's packets  *)
(* are in neither.  Parts only bound what peers, the clock and other       *)
(* goroutines do, of which no fairness is assumed, so that fairness means  *)
(* what it does in Session.                                                *)
(***************************************************************************)
EXTENDS Session

VARIABLE part

\* One packet per connection.
MCOne == [s \in Streams |-> 1]

MCInit == Init /\ part \in {"packets", "commands"}

MCNext ==
    /\ Next
    /\ part = "packets" => got'[0] = 0 /\ pushed' <= 1
    /\ part = "commands" => got'[0] = 0 /\ got'[1] = 0 /\ idle' # "late"
    /\ UNCHANGED part

MCFairSpec == MCInit /\ [][MCNext]_<<part, vars>> /\ MainFairness /\ ReaderFairness
=============================================================================
