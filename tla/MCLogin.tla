------------------------------ MODULE MCLogin -------------------------------
(***************************************************************************)
(* Login for TLC.                                                          *)
(***************************************************************************)
EXTENDS Login

CONSTANTS n1, N1, n2, u1, u2, u3, u4

\* N1 is n1 with a capital letter, and the name the session server has for n1's
\* account; OfflinePlayerUUID tells all names apart.
MCToLower == [n \in Nicknames |-> IF n = N1 THEN n1 ELSE n]
MCOfflineUUID == [n \in Nicknames |-> CASE n = n1 -> u2 [] n = N1 -> u3 [] OTHER -> u4]
MCAnswers == {[nick |-> N1, uuid |-> u1]}
=============================================================================
