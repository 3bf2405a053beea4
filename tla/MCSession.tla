----------------------------- MODULE MCSession ------------------------------
(***************************************************************************)
(* Session for TLC: the bounds of its runs.                                *)
(***************************************************************************)
EXTENDS Session

\* One packet per connection: every reader can be caught in its send.
MCOne == [s \in Streams |-> 1]
=============================================================================
