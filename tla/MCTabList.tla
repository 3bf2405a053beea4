------------------------------ MODULE MCTabList -----------------------------
(***************************************************************************)
(* TabList for TLC: its two sources of entries in a run each, and titles,  *)
(* which both may set, in both.                                            *)
(***************************************************************************)
EXTENDS TabList, TLC

\* Players and cells are only compared with one another.
MCSymmetry == Permutations(Players) \cup Permutations(Cells)
=============================================================================
