--------------------------- MODULE RefreshTokens ---------------------------
(***************************************************************************)
(* The sessions of one user: login, refreshToken and logout of             *)
(* src/modules/auth/auth.service.ts.                                       *)
(*                                                                         *)
(* A session is a row of refresh_tokens in PostgreSQL and a key session:*  *)
(* in Redis, written one after the other; the requests of the user's       *)
(* clients interleave between any two queries, and any query may fail and  *)
(* end its request there.  A JSON web token is determined by the user and  *)
(* the second it is signed in, so a token is the number of that second     *)
(* here, the access token and the refresh token of one second go together, *)
(* and the unique index on the column refuses a second row for it.         *)
(* Registration ends like a login; the seven days of a token's life are    *)
(* longer than any history considered.                                     *)
(***************************************************************************)
EXTENDS Integers, FiniteSets

CONSTANTS
    Requests,       \* request slots, each used once
    MaxTime         \* bound on the clock, in seconds

ASSUME BoundsAssumption == MaxTime \in Nat \ {0}

Tokens == 1 .. MaxTime
NoToken == 0

VARIABLES
    time,
    rows,           \* refresh_tokens: "none", "valid" or "revoked"
    sessions,       \* tokens with a session key in Redis
    blacklisted,    \* access tokens with a blacklist key in Redis
    rs

vars == <<time, rows, sessions, blacklisted, rs>>

Ops == {"login", "refresh", "logout"}

\* old: the refresh token a request presents, access: the access token of a logout,
\* new: the token a request issues.  The code has no field after: it records the
\* requests answered before this one began.
RequestStates ==
    [pc : {"free", "revoke", "unset", "create", "set", "blacklist", "done", "failed"},
     op : Ops, old : Tokens \cup {NoToken}, new : Tokens \cup {NoToken},
     access : Tokens \cup {NoToken}, after : SUBSET Requests]

TypeOK ==
    /\ time \in Tokens
    /\ rows \in [Tokens -> {"none", "valid", "revoked"}]
    /\ sessions \subseteq Tokens
    /\ blacklisted \subseteq Tokens
    /\ rs \in [Requests -> RequestStates]

Init ==
    /\ time = 1
    /\ rows = [t \in Tokens |-> "none"]
    /\ sessions = {}
    /\ blacklisted = {}
    /\ rs = [r \in Requests |-> 
            [pc |-> "free", op |-> "login", old |-> NoToken, new |-> NoToken,
             access |-> NoToken, after |-> {}]]

InFlight == {r \in Requests : rs[r].pc \notin {"free", "done", "failed"}}

Answered == {r \in Requests : rs[r].pc = "done"}

\* Tokens a response has carried to a client.
Issued == {rs[r].new : r \in Answered} \ {NoToken}

Begin(r, op, pc, old, new, access) ==
    /\ rs[r].pc = "free"
    /\ rs' = [rs EXCEPT ![r] =
                [pc |-> pc, op |-> op, old |-> old, new |-> new,
                 access |-> access, after |-> Answered]]
    /\ UNCHANGED <<time, rows, sessions, blacklisted>>

Goto(r, pc) == rs' = [rs EXCEPT ![r].pc = pc]

-----------------------------------------------------------------------------
Tick ==
    /\ time < MaxTime
    /\ time' = time + 1
    /\ UNCHANGED <<rows, sessions, blacklisted, rs>>

\* login: the credentials are right; the tokens are signed now.
BeginLogin(r) == Begin(r, "login", "create", NoToken, time, NoToken)

Usable(t) == rows[t] = "valid"

\* refreshToken: the row is read and is neither missing nor revoked.
BeginRefresh(r, t) ==
    /\ t \in Issued
    /\ Usable(t)
    /\ Begin(r, "refresh", "revoke", t, NoToken, NoToken)

\* logout: the access token passed the authentication; the refresh token of the
\* body may be that of another login, or missing, and then the session is left alone.
BeginLogout(r, t, a) ==
    /\ t \in Issued \cup {NoToken}
    /\ a \in Issued \ blacklisted
    /\ Begin(r, "logout", IF t = NoToken THEN "blacklist" ELSE "revoke", t, NoToken, a)

\* Bad: the update names the user and not the token.
BadRevoke(r) ==
    /\ rs[r].pc = "revoke"
    /\ rows' = [t \in Tokens |-> IF rows[t] = "valid" THEN "revoked" ELSE rows[t]]
    /\ Goto(r, "unset")
    /\ UNCHANGED <<time, sessions, blacklisted>>

Revoke(r) ==
    /\ rs[r].pc = "revoke"
    /\ rows' = [rows EXCEPT ![rs[r].old] = "revoked"]
    /\ Goto(r, "unset")
    /\ UNCHANGED <<time, sessions, blacklisted>>

\* Bad: the key of the old session stays.
BadUnset(r) ==
    /\ rs[r].pc = "unset"
    /\ rs' = IF rs[r].op = "logout"
             THEN [rs EXCEPT ![r].pc = "blacklist"]
             ELSE [rs EXCEPT ![r].pc = "create", ![r].new = time]
    /\ UNCHANGED <<time, rows, sessions, blacklisted>>

\* The session key is deleted; a refresh goes on to sign the new tokens.
Unset(r) ==
    /\ rs[r].pc = "unset"
    /\ sessions' = sessions \ {rs[r].old}
    /\ rs' = IF rs[r].op = "logout"
             THEN [rs EXCEPT ![r].pc = "blacklist"]
             ELSE [rs EXCEPT ![r].pc = "create", ![r].new = time]
    /\ UNCHANGED <<time, rows, blacklisted>>

\* Bad: the row is written over one of the same token.
BadCreate(r) ==
    /\ rs[r].pc = "create"
    /\ rows' = [rows EXCEPT ![rs[r].new] = "valid"]
    /\ Goto(r, "set")
    /\ UNCHANGED <<time, sessions, blacklisted>>

\* The unique index on token refuses a row that exists, revoked or not.
Create(r) ==
    /\ rs[r].pc = "create"
    /\ IF rows[rs[r].new] = "none"
       THEN rows' = [rows EXCEPT ![rs[r].new] = "valid"] /\ Goto(r, "set")
       ELSE rows' = rows /\ Goto(r, "failed")
    /\ UNCHANGED <<time, sessions, blacklisted>>

\* The session key; then the response.
Set(r) ==
    /\ rs[r].pc = "set"
    /\ sessions' = sessions \cup {rs[r].new}
    /\ Goto(r, "done")
    /\ UNCHANGED <<time, rows, blacklisted>>

\* logout: the access token; presence and sockets follow.
Blacklist(r) ==
    /\ rs[r].pc = "blacklist"
    /\ blacklisted' = blacklisted \cup {rs[r].access}
    /\ Goto(r, "done")
    /\ UNCHANGED <<time, rows, sessions>>

\* A query fails, or the process stops: the request ends where it is.
Fail(r) ==
    /\ r \in InFlight
    /\ Goto(r, "failed")
    /\ UNCHANGED <<time, rows, sessions, blacklisted>>

Steps(r) == Revoke(r) \/ Unset(r) \/ Create(r) \/ Set(r) \/ Blacklist(r)

Next ==
    \/ Tick
    \/ \E r \in Requests :
         \/ BeginLogin(r)
         \/ \E t \in Tokens : BeginRefresh(r, t)
         \/ \E t \in Tokens \cup {NoToken}, a \in Tokens : BeginLogout(r, t, a)
         \/ Steps(r)
         \/ Fail(r)

Spec == Init /\ [][Next]_vars

-----------------------------------------------------------------------------
(* Properties.                                                             *)

\* Some request is at work on a token, or stopped half way through it.
Touched(t) ==
    \E r \in Requests :
        /\ rs[r].pc \notin {"free", "done"}
        /\ t \in {rs[r].old, rs[r].new}

\* The two stores agree on every token no request is, or was left, half way
\* through: a key in Redis for each valid row and no other, also after
\* refreshes and logouts of the same token overlap (auth.service.ts:186-211,
\* 224-230).
StoresAgree ==
    \A t \in Tokens : ~Touched(t) => (t \in sessions <=> rows[t] = "valid")

\* A client keeps the token it was issued until somebody presents that very
\* token to be rotated or logged out (auth.service.ts:186-189, 225-228).
KeptUntilPresented ==
    \A t \in Issued :
        rows[t] = "valid" \/ \E r \in Requests : rs[r].old = t

\* A token that a request finished rotating or logging out is spent: no
\* rotation that begins later gets past the check with it
\* (auth.service.ts:181-189, 225-228).
SpentIsSpent ==
    \A r \in Requests : rs[r].op = "refresh" =>
        \A q \in rs[r].after : rs[q].old # rs[r].old

\* Once a logout is answered its access token is barred, and the session of the
\* refresh token it was given, if any, is over in both stores; and it stays so: no
\* login of the same second, rotation or other logout of the token that was half way
\* through, or fails there, brings any of it back (auth.service.ts:189-211, 224-236).
LogoutLasts ==
    \A r \in Answered : rs[r].op = "logout" =>
        /\ rs[r].access \in blacklisted
        /\ rs[r].old # NoToken => rows[rs[r].old] = "revoked" /\ rs[r].old \notin sessions
=============================================================================
