---------------------------- MODULE MCAbuseCache ----------------------------
(***************************************************************************)
(* AbuseCache for TLC: one player, asked for by nickname and by UUID.      *)
(***************************************************************************)
EXTENDS AbuseCache, TLC

CONSTANTS n1, u1

MCLogins == {[player |-> n1, uuid |-> u1]}

\* Lookups and row ids are only compared with one another.
MCSymmetry == Permutations(Lookups) \cup Permutations(Ids)
=============================================================================
