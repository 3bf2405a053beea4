---------------------------- MODULE MCCloudyChat ----------------------------
(***************************************************************************)
(* The chat filters and the permissions for TLC.  A behaviour is of one    *)
(* part, within bounds of its own, and leaves the others' state alone.     *)
(***************************************************************************)
EXTENDS ChatFilters, TLC

CONSTANTS s1, s2, s3, na, nb, nc, m1, m2, l1, l2

VARIABLE part

\* Two players, one of whom logs in again and the other may spy.
MCNickOf == (s1 :> na) @@ (s2 :> nb) @@ (s3 :> na)
MCPerms ==
    LET usual == {"msg", "reply", "ignore"}
    IN  (s1 :> usual) @@ (s2 :> usual \cup {"socialspy"}) @@ (s3 :> usual)

Empty == [k \in {} |-> TRUE]

MCLower == ("Bob" :> "bob") @@ ("bob" :> "bob") @@ ("al" :> "al")

\* Permissions a, a.b and a.b.c; the second file has no vip, and a helper that takes a right away.
MCGroupFiles == {
    ("default" :> (<<"a">> :> TRUE)) @@
    ("vip" :> (<<"a", "b">> :> FALSE @@ <<"a", "b", "c">> :> TRUE)) @@
    ("mod" :> (<<"a", "b">> :> TRUE)),
    ("default" :> (<<"a">> :> FALSE @@ <<"a", "b">> :> TRUE)) @@
    ("mod" :> (<<"a", "b">> :> FALSE)),
    Empty}

MCUserFiles == {
    ("Bob" :> <<"vip", "mod">>) @@ ("bob" :> <<"mod">>),
    ("bob" :> <<"mod", "default">>),
    Empty}

MCSymmetry == Permutations({m1, m2}) \cup Permutations({l1, l2})

MCInit ==
    /\ FiltersInit
    /\ part \in {"private", "ignore", "reload", "talk", "permissions"}
    /\ part # "reload" => file.auto = 0
    /\ part # "permissions" => "Bob" \notin DOMAIN perm_users /\ "vip" \notin DOMAIN perm_groups

\* Conversations with ignore lists left alone, and either somebody who spies or lines that
\* are dropped; and one ignore list with one message.
PrivatePart ==
    \/ part = "private" /\ PrivateStep /\ UNCHANGED told
                        /\ (spies' = {} \/ \A s \in Sessions : swallowed'[s] = {})
    \/ part = "ignore" /\ PrivateStep /\ sent' <= 1 /\ s3 \notin {online'[n] : n \in Names}
                       /\ told'[s2] = told[s2] /\ UNCHANGED spies

\* Reloads of a file that changes three times; and time, players and status requests, with
\* a file that changes once, has no automessages, and is reloaded by one moderator.
ConfigPart ==
    \/ part = "reload" /\ ConfigStep /\ UNCHANGED <<now, last, said, helpop, asked, applied, lock>>
    \/ part = "talk" /\ ConfigStep /\ file'.version <= 1 /\ file'.auto = 0
                     /\ reload'[m2] = reload[m2]

MCNext ==
    /\ PrivatePart \/ ConfigPart \/ (part = "permissions" /\ PermissionStep)
    /\ UNCHANGED part

MCSpec == MCInit /\ [][MCNext]_<<part, privateVars, configVars, permissionVars>>
=============================================================================
