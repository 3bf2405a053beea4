----------------------------- MODULE MCFilters ------------------------------
(***************************************************************************)
(* The BungeeCord filter for TLC: commands, questions and server lists;    *)
(* the strings of its plugin messages; and the markup of the texts that it *)
(* and other filters send.  A behaviour is of one of the three and leaves  *)
(* the others' state alone.                                                *)
(***************************************************************************)
EXTENDS Bungee, Texts, TLC

CONSTANTS s1, s2, lobby, game

VARIABLE part

MCFiles == {{lobby}, {lobby, game}, {}}

\* Characters on both sides of every change of size, one that Java writes as two among them.
MCChars == {0, 1, 127, 128, 2047, 2048, 55295, 57344, 65535, 65536}

Symmetry == Permutations({s1, s2})

MCInit ==
    /\ Init /\ TextsInit
    /\ \/ part = "bungee"
       \/ part \in {"java", "markup"} /\ file = {lobby}

MCNext ==
    /\ \/ part = "bungee" /\ Next /\ UNCHANGED <<javaVars, markupVars>>
       \/ part = "java" /\ JavaStep /\ UNCHANGED vars
       \/ part = "markup" /\ MarkupStep /\ UNCHANGED vars
    /\ UNCHANGED part

MCSpec == MCInit /\ [][MCNext]_<<part, vars, javaVars, markupVars>>
=============================================================================
