----------------------------- MODULE MCDispatch -----------------------------
(***************************************************************************)
(* Dispatch for TLC: three packets a direction, two slots to a word.       *)
(***************************************************************************)
EXTENDS Dispatch

MCImplemented == Direction \X {0, 1}
=============================================================================
