-------------------------- MODULE MCPlayerManager ---------------------------
(***************************************************************************)
(* PlayerManager for TLC: three sessions compete for two nicknames and two *)
(* UUIDs, so that a third login can meet a session being registered and    *)
(* another being unregistered.                                             *)
(***************************************************************************)
EXTENDS PlayerManager, TLC

CONSTANTS h1, h2, h3

MCStaff == {h1}

\* h1 is told apart by Staff; the others, the keys and the UUIDs are only
\* compared with one another.
MCSymmetry ==
    Permutations({h2, h3}) \cup Permutations(Keys) \cup Permutations(UUIDs)
=============================================================================
