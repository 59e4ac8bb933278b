-------------------------------- MODULE Inbox --------------------------------
(***************************************************************************)
(* A conversation as its members see it: a message is addressed to those   *)
(* who are in it; then it appears, becomes the newest and is counted for   *)
(* them, all at once.  Who is added in between is not counted for.         *)
(***************************************************************************)
EXTENDS Naturals

CONSTANTS Users, Ids, NoId

VARIABLES
    members,
    posted,
    newest,
    unread,
    addressed,  \* a message is on its way
    audience    \* those it is addressed to

vars == <<members, posted, newest, unread, addressed, audience>>

Init ==
    /\ members \in SUBSET Users
    /\ posted = {}
    /\ newest = NoId
    /\ unread = [u \in Users |-> 0]
    /\ ~addressed
    /\ audience = {}

Appear(m) ==
    /\ m \notin posted
    /\ posted' = posted \cup {m}
    /\ newest' = m
    /\ UNCHANGED members

\* A message of u, to everybody else.
Address(u) ==
    /\ ~addressed
    /\ addressed'
    /\ audience' = members \ {u}
    /\ UNCHANGED <<members, posted, newest, unread>>

Ended == ~addressed' /\ audience' = {}

\* It appears.  Its author, who may have left since, has read it.
Post(u, m) ==
    /\ addressed /\ u \notin audience
    /\ Appear(m)
    /\ unread' = [v \in Users |-> IF v \in members /\ v = u THEN 0
                                  ELSE IF v \in audience THEN unread[v] + 1
                                  ELSE unread[v]]
    /\ Ended

Cancel == addressed /\ Ended /\ UNCHANGED <<members, posted, newest, unread>>

\* A system message, counted for nobody.
Notice(m) == Appear(m) /\ UNCHANGED <<unread, addressed, audience>>

See(u) ==
    /\ unread' = [unread EXCEPT ![u] = 0]
    /\ UNCHANGED <<members, posted, newest, addressed, audience>>

\* Nobody it is addressed to leaves before it appears.
Leave(u) ==
    /\ u \in members \ audience
    /\ members' = members \ {u}
    /\ UNCHANGED <<posted, newest, unread, addressed, audience>>

Join(u) ==
    /\ u \in Users \ members
    /\ members' = members \cup {u}
    /\ UNCHANGED <<posted, newest, unread, addressed, audience>>

Next ==
    \/ \E m \in Ids : Notice(m) \/ \E u \in Users : Post(u, m)
    \/ \E u \in Users : Address(u) \/ See(u) \/ Leave(u) \/ Join(u)
    \/ Cancel

Spec == Init /\ [][Next]_vars
=============================================================================
