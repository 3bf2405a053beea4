----------------------------- MODULE Permissions ----------------------------
(***************************************************************************)
(* filters/permissions: the two files behind the permissions, their        *)
(* reloading while players log in, and the look-up of a permission.        *)
(*                                                                         *)
(* A permission "a.b.c" is the sequence of its words; a PermSet is a       *)
(* function from some permissions to BOOLEAN.                              *)
(***************************************************************************)
EXTENDS Naturals, SequencesExt

CONSTANTS
    GroupFiles,     \* contents perm_groups.yml may have: group -> PermSet
    UserFiles,      \* contents perm_users.yml may have: nickname -> groups
    Bad,            \* contents that cannot be read or parsed
    Lower,          \* nickname -> nickname in lower case
    Loaders,        \* goroutines that may run LoadPermissions
    Players,
    MaxEdits,       \* bound: changes of the files
    None

\* The permissions that are asked about: every one that some file has an entry for.
Asked == UNION {UNION {DOMAIN g[k] : k \in DOMAIN g} : g \in GroupFiles}

IsSequence(s) == s \in Seq(ToSet(s))

\* A permission is a sequence of words, and a user's entry a sequence of groups.
PermissionsAssumption ==
    /\ Bad \notin GroupFiles /\ Bad \notin UserFiles
    /\ \A q \in Asked : IsSequence(q)
    /\ \A file \in UserFiles : \A nick \in DOMAIN file : IsSequence(file[nick])
    /\ MaxEdits \in Nat

VARIABLES
    perm_groups, perm_users,    \* the files
    Groups, Users,              \* protected by GlobalPermLock
    load,                       \* loader -> its LoadPermissions
    permissions,                \* player -> its handler's PermSet, or None
    origin,                     \* history: the perm_users.yml that Users comes from
    given,                      \* history: player -> <<Groups, origin>> when it logged in
    edits

vars == <<perm_groups, perm_users, Groups, Users, load, permissions, origin, given, edits>>

-----------------------------------------------------------------------------
(* PermSet.                                                                *)

Empty == [k \in {} |-> TRUE]

\* Mutant of Apply: an entry that is there already stays.
ApplyKeep(ps, perms) ==
    [k \in DOMAIN ps \cup DOMAIN perms |-> IF k \in DOMAIN ps THEN ps[k] ELSE perms[k]]

\* Apply with root "" and override, as all callers have it: no error.
Apply(ps, perms) ==
    [k \in DOMAIN ps \cup DOMAIN perms |-> IF k \in DOMAIN perms THEN perms[k] ELSE ps[k]]

\* Drops words from the end of perm until an entry is found.
HasPermission(ps, perm) ==
    LET at[n \in 0 .. Len(perm)] ==
            IF n = 0 THEN FALSE
            ELSE IF SubSeq(perm, 1, n) \in DOMAIN ps THEN ps[SubSeq(perm, 1, n)]
            ELSE at[n - 1]
    IN  at[Len(perm)]

-----------------------------------------------------------------------------
\* The PermSet of a user with the groups grps; later groups override earlier ones.
Combined(groups, grps) ==
    LET ps[i \in 0 .. Len(grps)] == IF i = 0 THEN Empty ELSE Apply(ps[i - 1], groups[grps[i]])
    IN  ps[Len(grps)]

AllFound(groups, file) == \A nick \in DOMAIN file : ToSet(file[nick]) \subseteq DOMAIN groups

\* The loop over the users: of nicknames that differ in case only, the one the map
\* happens to yield last counts.
UsersOf(groups, file) ==
    {[n \in {Lower[nick] : nick \in DOMAIN file} |-> Combined(groups, file[last[n]])] :
        last \in {f \in [{Lower[nick] : nick \in DOMAIN file} -> DOMAIN file] :
                    \A n \in DOMAIN f : Lower[f[n]] = n}}

Idle == [at |-> "idle", groups |-> None, users |-> None, file |-> None]

\* RegisterFilters has loaded the files, and panics when it cannot.
Init ==
    /\ perm_groups \in GroupFiles /\ perm_users \in UserFiles
    /\ perm_groups # Empty /\ perm_users # Empty /\ AllFound(perm_groups, perm_users)
    /\ Groups = perm_groups /\ Users \in UsersOf(perm_groups, perm_users) /\ origin = perm_users
    /\ load = [l \in Loaders |-> Idle]
    /\ permissions = [p \in Players |-> None] /\ given = [p \in Players |-> None]
    /\ edits = 0

\* An administrator changes a file (external).
Edit ==
    /\ edits < MaxEdits
    /\ edits' = edits + 1
    /\ \/ perm_groups' \in GroupFiles \cup {Bad} /\ UNCHANGED perm_users
       \/ perm_users' \in UserFiles \cup {Bad} /\ UNCHANGED perm_groups
    /\ UNCHANGED <<Groups, Users, load, permissions, origin, given>>

\* Mutant of ReadGroups: decodes into the global variable.
ReadGroupsInPlace(l) ==
    /\ load[l].at = "idle"
    /\ load' = [load EXCEPT ![l] = IF perm_groups = Bad \/ perm_groups = Empty THEN Idle
                                   ELSE [Idle EXCEPT !.at = "users", !.groups = perm_groups]]
    /\ Groups' = IF perm_groups = Bad THEN Groups ELSE perm_groups
    /\ UNCHANGED <<perm_groups, perm_users, Users, permissions, origin, given, edits>>

\* LoadPermissions, from /gperm reload: the groups are read.
ReadGroups(l) ==
    /\ load[l].at = "idle"
    /\ load' = [load EXCEPT ![l] = IF perm_groups = Bad \/ perm_groups = Empty THEN Idle
                                   ELSE [Idle EXCEPT !.at = "users", !.groups = perm_groups]]
    /\ UNCHANGED <<perm_groups, perm_users, Groups, Users, permissions, origin, given, edits>>

\* The users are read, and their PermSets computed from the groups read before.
ReadUsers(l) ==
    /\ load[l].at = "users"
    /\ IF perm_users = Bad \/ perm_users = Empty THEN load' = [load EXCEPT ![l] = Idle]
       ELSE IF ~AllFound(load[l].groups, perm_users) THEN load' = [load EXCEPT ![l] = Idle]
       ELSE \E users \in UsersOf(load[l].groups, perm_users) :
               load' = [load EXCEPT ![l].at = "save", ![l].users = users, ![l].file = perm_users]
    /\ UNCHANGED <<perm_groups, perm_users, Groups, Users, permissions, origin, given, edits>>

\* Both variables are set under the lock.
Save(l) ==
    /\ load[l].at = "save"
    /\ Groups' = load[l].groups
    /\ Users' = load[l].users
    /\ origin' = load[l].file
    /\ load' = [load EXCEPT ![l] = Idle]
    /\ UNCHANGED <<perm_groups, perm_users, permissions, given, edits>>

At(f, k) == IF k \in DOMAIN f THEN f[k] ELSE Empty

\* GetPlayerPermissions, called by the login handler (which is not in the repository).
Login(p) ==
    /\ permissions[p] = None
    /\ permissions' = [permissions EXCEPT ![p] =
            Apply(Apply(Empty, At(Groups, "default")), At(Users, Lower[p]))]
    /\ given' = [given EXCEPT ![p] = <<Groups, origin>>]
    /\ UNCHANGED <<perm_groups, perm_users, Groups, Users, load, origin, edits>>

Logout(p) ==
    /\ permissions[p] # None
    /\ permissions' = [permissions EXCEPT ![p] = None]
    /\ given' = [given EXCEPT ![p] = None]
    /\ UNCHANGED <<perm_groups, perm_users, Groups, Users, load, origin, edits>>

Next ==
    \/ Edit
    \/ \E l \in Loaders : ReadGroups(l) \/ ReadUsers(l) \/ Save(l)
    \/ \E p \in Players : Login(p) \/ Logout(p)

Spec == Init /\ [][Next]_vars

-----------------------------------------------------------------------------
\* Whatever happens to the files while they are being read, and however reloads overlap
\* or fail, the users' permissions are made of the groups that are in force.
OneLoad == AllFound(Groups, origin) /\ Users \in UsersOf(Groups, origin)

\* The PermSets that decide about player p, the last first to be asked.
Layers(p) ==
    LET groups == given[p][1]
        file == given[p][2]
        nicks == {n \in DOMAIN file : Lower[n] = Lower[p]}
    IN  {<<At(groups, "default")>> \o [i \in DOMAIN grps |-> groups[grps[i]]] :
            grps \in IF nicks = {} THEN {<<>>} ELSE {file[n] : n \in nicks}}

\* A player's permission is decided by the entry nearest to it that any of its groups has,
\* and among the groups that have that entry by the last, the default group coming first.
NearestWins ==
    \A p \in {q \in Players : permissions[q] # None} :
        \E layers \in Layers(p) : \A q \in Asked :
            LET entries == {e \in (1 .. Len(q)) \X DOMAIN layers :
                                SubSeq(q, 1, e[1]) \in DOMAIN layers[e[2]]}
                nearest == {e \in entries : \A d \in entries : d[1] <= e[1]}
                last == CHOOSE e \in nearest : \A d \in nearest : d[2] <= e[2]
            IN  HasPermission(permissions[p], q) <=>
                    (entries # {} /\ layers[last[2]][SubSeq(q, 1, last[1])])
=============================================================================
