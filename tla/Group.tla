-------------------------------- MODULE Group --------------------------------
(***************************************************************************)
(* A group as its members see it: each has a role and has been there since *)
(* some time, and every request is one step that looks at both users and   *)
(* writes at once.                                                         *)
(***************************************************************************)
EXTENDS Naturals

CONSTANTS Users, Creator

VARIABLES
    role,       \* of each user; "OUT" for those who are not in the group
    since,
    clock

vars == <<role, since, clock>>

Roles == {"ADMIN", "MODERATOR", "MEMBER"}
In == {u \in Users : role[u] # "OUT"}
Admins == {u \in Users : role[u] = "ADMIN"}

Init ==
    /\ role \in [Users -> {"MEMBER", "OUT", "ADMIN"}]
    /\ Admins = {Creator}
    /\ since = [u \in Users |-> 0]
    /\ clock = 0

Admit(u, vs) ==
    /\ role[u] \in {"ADMIN", "MODERATOR"}
    /\ role' = [v \in Users |-> IF v \in vs THEN "MEMBER" ELSE role[v]]
    /\ clock' = clock + 1
    /\ since' = [v \in Users |-> IF v \in vs THEN clock + 1 ELSE since[v]]

Remove(u, v) ==
    /\ u # v /\ v # Creator
    /\ \/ role[u] = "ADMIN" /\ v \in In
       \/ role[u] = "MODERATOR" /\ role[v] = "MEMBER"
    /\ role' = [role EXCEPT ![v] = "OUT"]
    /\ UNCHANGED <<since, clock>>

SetRole(u, v, new) ==
    /\ role[u] = "ADMIN"
    /\ v \in In
    /\ v = Creator => new = "ADMIN"
    /\ role' = [role EXCEPT ![v] = new]
    /\ UNCHANGED <<since, clock>>

Longest(S) == {v \in S : \A w \in S : since[v] <= since[w]}

\* The last administrator to leave makes one of those who remain.
Leave(u) ==
    LET remaining == In \ {u} IN
    /\ u \in In
    /\ IF Admins = {u} /\ remaining # {}
       THEN \E v \in Longest(remaining) : role' = [role EXCEPT ![u] = "OUT", ![v] = "ADMIN"]
       ELSE role' = [role EXCEPT ![u] = "OUT"]
    /\ UNCHANGED <<since, clock>>

Next ==
    \E u \in Users :
        \/ Leave(u)
        \/ \E vs \in SUBSET Users : Admit(u, vs)
        \/ \E v \in Users :
              Remove(u, v) \/ \E new \in Roles : SetRole(u, v, new)

Spec == Init /\ [][Next]_vars
=============================================================================
