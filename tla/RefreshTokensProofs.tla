------------------------ MODULE RefreshTokensProofs ------------------------
(***************************************************************************)
(* Proofs about RefreshTokens for any number of requests and seconds and   *)
(* any overlap and failure of the requests.                                *)
(***************************************************************************)
EXTENDS RefreshTokens, TLAPS

\* Where a request's two tokens come from: it presents one that was answered,
\* and issues none before it has revoked that one.
Shape ==
    \A r \in Requests :
        /\ rs[r].op = "login" => rs[r].old = NoToken
        /\ rs[r].op = "logout" => rs[r].new = NoToken
        /\ rs[r].op = "refresh" => rs[r].old # NoToken
        /\ rs[r].old # NoToken => rs[r].old \in Issued
        /\ rs[r].op # "logout" => rs[r].access = NoToken
        /\ rs[r].op = "logout" => rs[r].access \in Tokens
        /\ rs[r].pc = "free" => rs[r].op = "login"
        /\ rs[r].pc \in {"free", "revoke", "unset"} => rs[r].new = NoToken
        /\ rs[r].pc \in {"revoke", "unset"} => rs[r].old # NoToken
        /\ rs[r].pc \in {"create", "set"} => rs[r].op # "logout" /\ rs[r].new \in Tokens
        /\ rs[r].pc = "blacklist" => rs[r].op = "logout"

\* The row of the token a request issues is there.
Stored(r) == rs[r].pc \in {"set", "done"} /\ rs[r].new # NoToken

\* Each row was created by one request, and is valid until its token is
\* presented.
Created ==
    \A r \in Requests : Stored(r) =>
        /\ rows[rs[r].new] # "none"
        /\ \A q \in Requests : Stored(q) /\ rs[q].new = rs[r].new => q = r
        /\ \/ rows[rs[r].new] = "valid"
           \/ \E q \in Requests : rs[q].old = rs[r].new

\* What a request did with the token it presents is not undone.
Undone ==
    \A r \in Requests : rs[r].old # NoToken =>
        /\ rs[r].pc \in {"unset", "create", "set", "blacklist", "done"}
             => rows[rs[r].old] = "revoked"
        /\ rs[r].pc \in {"create", "set", "blacklist", "done"}
             => rs[r].old \notin sessions

AfterAnswered == \A r \in Requests : rs[r].after \subseteq Answered

IInv ==
    /\ TypeOK
    /\ Shape
    /\ Created
    /\ Undone
    /\ AfterAnswered
    /\ StoresAgree
    /\ SpentIsSpent

LEMMA InvInit == Init => IInv
    BY BoundsAssumption
    DEF Init, IInv, TypeOK, RequestStates, Ops, Tokens, NoToken, Shape, Stored, Created,
        Undone, AfterAnswered, Answered, StoresAgree, SpentIsSpent

\* A request that begins, and what it begins with.
Begins(r) ==
    \/ BeginLogin(r)
    \/ \E t \in Tokens : BeginRefresh(r, t)
    \/ \E t \in Tokens \cup {NoToken}, a \in Tokens : BeginLogout(r, t, a)

Fresh(x) ==
    /\ x.after = Answered
    /\ \/ /\ x.op = "login" /\ x.pc = "create"
          /\ x.old = NoToken /\ x.new = time /\ x.access = NoToken
       \/ /\ x.op = "refresh" /\ x.pc = "revoke"
          /\ x.old \in Issued /\ x.new = NoToken /\ x.access = NoToken
          /\ rows[x.old] = "valid"
       \/ /\ x.op = "logout" /\ x.pc = "revoke"
          /\ x.old \in Issued /\ x.new = NoToken /\ x.access \in Tokens
       \/ /\ x.op = "logout" /\ x.pc = "blacklist"
          /\ x.old = NoToken /\ x.new = NoToken /\ x.access \in Tokens

LEMMA BeginFields ==
    ASSUME TypeOK, NEW r \in Requests, Begins(r)
    PROVE  /\ rs[r].pc = "free"
           /\ UNCHANGED <<time, rows, sessions, blacklisted>>
           /\ \E x \in RequestStates : rs' = [rs EXCEPT ![r] = x] /\ Fresh(x)
<1>1. Issued \subseteq Tokens /\ NoToken \notin Issued
    BY DEF Issued, Answered, TypeOK, RequestStates
<1>2. Answered \subseteq Requests /\ time \in Tokens
    BY DEF Answered, TypeOK
<1>3. CASE BeginLogin(r)
  <2> DEFINE x == [pc |-> "create", op |-> "login", old |-> NoToken, new |-> time,
                   access |-> NoToken, after |-> Answered]
  <2>1. rs[r].pc = "free" /\ rs' = [rs EXCEPT ![r] = x]
        /\ UNCHANGED <<time, rows, sessions, blacklisted>>
    BY <1>3 DEF BeginLogin, Begin
  <2>2. x \in RequestStates /\ Fresh(x)
    BY <1>2 DEF RequestStates, Ops, Fresh
  <2> QED
    BY <2>1, <2>2
<1>4. ASSUME NEW t \in Tokens, BeginRefresh(r, t)
      PROVE  /\ rs[r].pc = "free"
             /\ UNCHANGED <<time, rows, sessions, blacklisted>>
             /\ \E x \in RequestStates : rs' = [rs EXCEPT ![r] = x] /\ Fresh(x)
  <2> DEFINE x == [pc |-> "revoke", op |-> "refresh", old |-> t, new |-> NoToken,
                   access |-> NoToken, after |-> Answered]
  <2>1. rs[r].pc = "free" /\ rs' = [rs EXCEPT ![r] = x]
        /\ UNCHANGED <<time, rows, sessions, blacklisted>>
    BY <1>4 DEF BeginRefresh, Begin
  <2>2. x \in RequestStates /\ Fresh(x)
    BY <1>2, <1>4 DEF RequestStates, Ops, Fresh, BeginRefresh, Usable
  <2> QED
    BY <2>1, <2>2
<1>5. ASSUME NEW t \in Tokens \cup {NoToken}, NEW a \in Tokens, BeginLogout(r, t, a)
      PROVE  /\ rs[r].pc = "free"
             /\ UNCHANGED <<time, rows, sessions, blacklisted>>
             /\ \E x \in RequestStates : rs' = [rs EXCEPT ![r] = x] /\ Fresh(x)
  <2> DEFINE x == [pc |-> IF t = NoToken THEN "blacklist" ELSE "revoke", op |-> "logout",
                   old |-> t, new |-> NoToken, access |-> a, after |-> Answered]
  <2>1. rs[r].pc = "free" /\ rs' = [rs EXCEPT ![r] = x]
        /\ UNCHANGED <<time, rows, sessions, blacklisted>>
    BY <1>5 DEF BeginLogout, Begin
  <2>2. x \in RequestStates
    BY <1>2 DEF RequestStates, Ops
  <2>3. Fresh(x)
    BY <1>1, <1>5 DEF BeginLogout, Fresh
  <2> QED
    BY <2>1, <2>2, <2>3
<1> QED
    BY <1>3, <1>4, <1>5 DEF Begins

LEMMA TypeNext ==
    ASSUME TypeOK, Shape, [Next]_vars
    PROVE  TypeOK'
<1> USE DEF TypeOK, RequestStates, Ops
<1>1. CASE Tick
    BY <1>1, BoundsAssumption DEF Tick, Tokens
<1>2. ASSUME NEW r \in Requests, Begins(r) PROVE TypeOK'
    BY <1>2, BeginFields
<1>3. ASSUME NEW r \in Requests, Revoke(r) PROVE TypeOK'
    BY <1>3 DEF Revoke, Goto
<1>4. ASSUME NEW r \in Requests, Unset(r) PROVE TypeOK'
  <2>1. CASE rs[r].op = "logout"
    BY <1>4, <2>1 DEF Unset
  <2>2. CASE rs[r].op # "logout"
    <3>1. rs' = [rs EXCEPT ![r].pc = "create", ![r].new = time]
      BY <1>4, <2>2 DEF Unset
    <3>2. [rs[r] EXCEPT !.pc = "create", !.new = time] \in RequestStates
      <4>1. rs[r] \in RequestStates /\ time \in Tokens
        OBVIOUS
      <4> QED
        BY <4>1
    <3>3. rs' \in [Requests -> RequestStates]
      BY <3>1, <3>2
    <3> QED
      BY <1>4, <3>3 DEF Unset
  <2> QED
    BY <2>1, <2>2
<1>5. ASSUME NEW r \in Requests, Create(r) PROVE TypeOK'
    BY <1>5 DEF Create, Goto
<1>6. ASSUME NEW r \in Requests, Set(r) PROVE TypeOK'
    BY <1>6 DEF Set, Goto, Shape
<1>7. ASSUME NEW r \in Requests, Blacklist(r) PROVE TypeOK'
  <2>1. rs[r].access \in Tokens
    BY <1>7 DEF Blacklist, Shape
  <2> QED
    BY <1>7, <2>1 DEF Blacklist, Goto
<1>8. ASSUME NEW r \in Requests, Fail(r) PROVE TypeOK'
    BY <1>8 DEF Fail, Goto
<1>9. CASE UNCHANGED vars
    BY <1>9 DEF vars
<1> QED
    BY <1>1, <1>2, <1>3, <1>4, <1>5, <1>6, <1>7, <1>8, <1>9 DEF Next, Steps, Begins

\* What a step does to the requests: one begins, goes on or ends, and keeps
\* what it presented; its token is fixed when it is signed.
LEMMA RequestSteps ==
    ASSUME TypeOK, [Next]_vars, NEW r \in Requests
    PROVE  \/ rs'[r] = rs[r]
           \/ /\ rs[r].pc = "free"
              /\ Fresh(rs'[r])
           \/ /\ rs'[r].op = rs[r].op /\ rs'[r].old = rs[r].old
              /\ rs'[r].access = rs[r].access
              /\ rs'[r].after = rs[r].after
              /\ \/ rs[r].pc = "unset" /\ rs'[r].pc = "create" /\ rs'[r].new = time
                       /\ rs[r].op # "logout"
                 \/ /\ rs'[r].new = rs[r].new
                    /\ \/ rs[r].pc = "revoke" /\ rs'[r].pc = "unset"
                       \/ rs[r].pc = "unset" /\ rs'[r].pc = "blacklist" /\ rs[r].op = "logout"
                       \/ rs[r].pc = "create" /\ rs'[r].pc = "set"
                             /\ rows[rs[r].new] = "none"
                       \/ rs[r].pc = "set" /\ rs'[r].pc = "done"
                       \/ rs[r].pc = "blacklist" /\ rs'[r].pc = "done"
                       \/ rs[r].pc \notin {"free", "done"} /\ rs'[r].pc = "failed"
<1> USE DEF TypeOK, RequestStates, Ops
<1>1. CASE Tick \/ UNCHANGED vars
    BY <1>1 DEF Tick, vars
<1>2. ASSUME Begins(r) PROVE rs[r].pc = "free" /\ Fresh(rs'[r])
    BY <1>2, BeginFields
<1>3. ASSUME NEW q \in Requests, q # r, Begins(q) \/ Steps(q) \/ Fail(q)
      PROVE  rs'[r] = rs[r]
  <2>1. CASE Begins(q)
    BY <1>3, <2>1, BeginFields
  <2>2. CASE Steps(q) \/ Fail(q)
    BY <1>3, <2>2 DEF Steps, Revoke, Unset, Create, Set, Blacklist, Fail, Goto
  <2> QED
    BY <1>3, <2>1, <2>2
<1>4. ASSUME Revoke(r) \/ Unset(r)
      PROVE  /\ rs'[r].op = rs[r].op /\ rs'[r].old = rs[r].old
             /\ rs'[r].access = rs[r].access /\ rs'[r].after = rs[r].after
             /\ \/ rs[r].pc = "unset" /\ rs'[r].pc = "create" /\ rs'[r].new = time
                      /\ rs[r].op # "logout"
                \/ /\ rs'[r].new = rs[r].new
                   /\ \/ rs[r].pc = "revoke" /\ rs'[r].pc = "unset"
                      \/ rs[r].pc = "unset" /\ rs'[r].pc = "blacklist" /\ rs[r].op = "logout"
    BY <1>4 DEF Revoke, Unset, Goto
<1>5. ASSUME Create(r) \/ Set(r) \/ Blacklist(r) \/ Fail(r)
      PROVE  /\ rs'[r].op = rs[r].op /\ rs'[r].old = rs[r].old
             /\ rs'[r].access = rs[r].access /\ rs'[r].after = rs[r].after
             /\ rs'[r].new = rs[r].new
             /\ \/ rs[r].pc = "create" /\ rs'[r].pc = "set" /\ rows[rs[r].new] = "none"
                \/ rs[r].pc = "set" /\ rs'[r].pc = "done"
                \/ rs[r].pc = "blacklist" /\ rs'[r].pc = "done"
                \/ rs[r].pc \notin {"free", "done"} /\ rs'[r].pc = "failed"
    BY <1>5 DEF Create, Set, Blacklist, Fail, Goto, InFlight
<1> QED
  <2>1. CASE \E q \in Requests : q # r /\ (Begins(q) \/ Steps(q) \/ Fail(q))
    BY <1>3, <2>1
  <2>2. CASE Begins(r)
    BY <1>2, <2>2
  <2>3. CASE Steps(r) \/ Fail(r)
    BY <1>4, <1>5, <2>3 DEF Steps
  <2> QED
    BY <1>1, <2>1, <2>2, <2>3 DEF Next, Begins

\* What a step does to the stores, and which request it is a step of.
LEMMA StoreSteps ==
    ASSUME TypeOK, [Next]_vars
    PROVE  \/ rows' = rows /\ sessions' = sessions
           \/ \E r \in Requests :
                 \/ /\ rs[r].pc = "revoke" /\ rs'[r].pc = "unset"
                    /\ rows' = [rows EXCEPT ![rs[r].old] = "revoked"]
                    /\ sessions' = sessions
                 \/ /\ rs[r].pc = "unset" /\ rs'[r].pc \in {"create", "blacklist"}
                    /\ rows' = rows
                    /\ sessions' = sessions \ {rs[r].old}
                 \/ /\ rs[r].pc = "create" /\ rs'[r].pc = "set"
                    /\ rows[rs[r].new] = "none"
                    /\ rows' = [rows EXCEPT ![rs[r].new] = "valid"]
                    /\ sessions' = sessions
                 \/ /\ rs[r].pc = "set" /\ rs'[r].pc = "done"
                    /\ rows' = rows
                    /\ sessions' = sessions \cup {rs[r].new}
<1> USE DEF TypeOK, RequestStates
<1>1. CASE Tick \/ UNCHANGED vars
    BY <1>1 DEF Tick, vars
<1>2. ASSUME NEW r \in Requests, Begins(r) \/ Blacklist(r) \/ Fail(r)
      PROVE  rows' = rows /\ sessions' = sessions
    BY <1>2, BeginFields DEF Blacklist, Fail
<1>3. ASSUME NEW r \in Requests, Revoke(r)
      PROVE  /\ rs[r].pc = "revoke" /\ rs'[r].pc = "unset"
             /\ rows' = [rows EXCEPT ![rs[r].old] = "revoked"]
             /\ sessions' = sessions
    BY <1>3 DEF Revoke, Goto
<1>4. ASSUME NEW r \in Requests, Unset(r)
      PROVE  /\ rs[r].pc = "unset" /\ rs'[r].pc \in {"create", "blacklist"}
             /\ rows' = rows
             /\ sessions' = sessions \ {rs[r].old}
    BY <1>4 DEF Unset
<1>5. ASSUME NEW r \in Requests, Create(r)
      PROVE  \/ rows' = rows /\ sessions' = sessions
             \/ /\ rs[r].pc = "create" /\ rs'[r].pc = "set"
                /\ rows[rs[r].new] = "none"
                /\ rows' = [rows EXCEPT ![rs[r].new] = "valid"]
                /\ sessions' = sessions
    BY <1>5 DEF Create, Goto
<1>6. ASSUME NEW r \in Requests, Set(r)
      PROVE  /\ rs[r].pc = "set" /\ rs'[r].pc = "done"
             /\ rows' = rows
             /\ sessions' = sessions \cup {rs[r].new}
    BY <1>6 DEF Set, Goto
<1> QED
  <2>1. CASE \E r \in Requests : Begins(r) \/ Blacklist(r) \/ Fail(r)
    BY <1>2, <2>1
  <2>2. CASE \E r \in Requests : Revoke(r) \/ Unset(r) \/ Create(r) \/ Set(r)
    BY <1>3, <1>4, <1>5, <1>6, <2>2
  <2> QED
    BY <1>1, <2>1, <2>2 DEF Next, Steps, Begins

\* Only a request's own steps change it once it has begun.
LEMMA StepOf ==
    ASSUME TypeOK, [Next]_vars, NEW r \in Requests, rs[r].pc # "free", rs'[r] # rs[r]
    PROVE  Steps(r) \/ Fail(r)
<1>1. ASSUME NEW q \in Requests, q # r, Steps(q) \/ Fail(q) PROVE rs'[r] = rs[r]
    BY <1>1 DEF TypeOK, Steps, Revoke, Unset, Create, Set, Blacklist, Fail, Goto
<1>2. ASSUME NEW q \in Requests, Begins(q) PROVE rs'[r] = rs[r]
    BY <1>2, BeginFields DEF TypeOK
<1>3. \E q \in Requests : Steps(q) \/ Fail(q)
    BY <1>2 DEF Next, Begins, vars, Tick
<1> QED
    BY <1>1, <1>3

(* What the steps that write the stores leave there.                        *)

LEMMA CreateStores ==
    ASSUME TypeOK, [Next]_vars, NEW r \in Requests,
           rs[r].pc = "create", rs'[r].pc = "set", rs[r].new \in Tokens
    PROVE  rows'[rs[r].new] = "valid"
<1>1. Steps(r)
    BY StepOf DEF Fail, Goto, TypeOK, RequestStates
<1>2. Create(r)
    BY <1>1 DEF Steps, Revoke, Unset, Create, Set, Blacklist
<1> QED
    BY <1>2 DEF Create, Goto, TypeOK, RequestStates

LEMMA RevokeStores ==
    ASSUME TypeOK, [Next]_vars, NEW r \in Requests,
           rs[r].pc = "revoke", rs'[r].pc = "unset", rs[r].old \in Tokens
    PROVE  rows'[rs[r].old] = "revoked"
<1>1. Steps(r)
    BY StepOf DEF Fail, Goto, TypeOK, RequestStates
<1>2. Revoke(r)
    BY <1>1 DEF Steps, Revoke, Unset, Create, Set, Blacklist
<1> QED
    BY <1>2 DEF Revoke, TypeOK

LEMMA UnsetStores ==
    ASSUME TypeOK, [Next]_vars, NEW r \in Requests,
           rs[r].pc = "unset", rs'[r].pc \in {"create", "blacklist"}
    PROVE  rs[r].old \notin sessions'
<1>1. Steps(r)
    BY StepOf DEF Fail, Goto, TypeOK, RequestStates
<1>2. Unset(r)
    BY <1>1 DEF Steps, Revoke, Unset, Create, Set, Blacklist
<1> QED
    BY <1>2 DEF Unset

LEMMA EndStores ==
    ASSUME TypeOK, [Next]_vars, NEW r \in Requests,
           rs[r].pc \in {"set", "blacklist"}, rs'[r].pc = "done"
    PROVE  /\ rows' = rows
           /\ rs[r].pc = "set" => rs[r].new \in sessions'
<1>1. Steps(r)
    BY StepOf DEF Fail, Goto, TypeOK, RequestStates
<1>2. Set(r) \/ Blacklist(r)
    BY <1>1 DEF Steps, Revoke, Unset, Create, Set, Blacklist
<1> QED
    BY <1>2 DEF Set, Blacklist

\* No step changes two requests.
LEMMA OneAtATime ==
    ASSUME TypeOK, [Next]_vars, NEW r \in Requests, NEW q \in Requests,
           rs'[r] # rs[r], rs'[q] # rs[q]
    PROVE  r = q
<1> USE DEF TypeOK
<1>1. ~(Tick \/ UNCHANGED vars)
    BY DEF Tick, vars
<1>2. ASSUME NEW a \in Requests, Begins(a) \/ Steps(a) \/ Fail(a)
      PROVE  r = a /\ q = a
  <2>1. CASE Begins(a)
    BY <2>1, BeginFields
  <2>2. CASE Steps(a) \/ Fail(a)
    BY <2>2 DEF Steps, Revoke, Unset, Create, Set, Blacklist, Fail, Goto
  <2> QED
    BY <1>2, <2>1, <2>2
<1> QED
    BY <1>1, <1>2 DEF Next, Begins

-----------------------------------------------------------------------------
(* The parts of the invariant.                                             *)

LEMMA IssuedBy ==
    ASSUME NEW t
    PROVE  t \in Issued <=>
             t # NoToken /\ \E p \in Requests : rs[p].pc = "done" /\ rs[p].new = t
    BY DEF Issued, Answered

\* What was answered stays answered.
LEMMA AnsweredStays ==
    ASSUME TypeOK, [Next]_vars
    PROVE  /\ \A p \in Answered : rs'[p] = rs[p]
           /\ Answered \subseteq Answered'
           /\ Issued \subseteq Issued'
<1>1. ASSUME NEW p \in Answered PROVE rs'[p] = rs[p]
    BY <1>1, RequestSteps DEF Answered
<1> QED
    BY <1>1 DEF Answered, Issued

LEMMA ShapeNext ==
    ASSUME TypeOK, Shape, [Next]_vars
    PROVE  Shape'
<1> SUFFICES ASSUME NEW r \in Requests
             PROVE  /\ rs'[r].op = "login" => rs'[r].old = NoToken
                    /\ rs'[r].op = "logout" => rs'[r].new = NoToken
                    /\ rs'[r].op = "refresh" => rs'[r].old # NoToken
                    /\ rs'[r].old # NoToken => rs'[r].old \in Issued'
                    /\ rs'[r].op # "logout" => rs'[r].access = NoToken
                    /\ rs'[r].op = "logout" => rs'[r].access \in Tokens
                    /\ rs'[r].pc = "free" => rs'[r].op = "login"
                    /\ rs'[r].pc \in {"free", "revoke", "unset"} => rs'[r].new = NoToken
                    /\ rs'[r].pc \in {"revoke", "unset"} => rs'[r].old # NoToken
                    /\ rs'[r].pc \in {"create", "set"} =>
                         rs'[r].op # "logout" /\ rs'[r].new \in Tokens
                    /\ rs'[r].pc = "blacklist" => rs'[r].op = "logout"
    BY DEF Shape
<1>1. Issued \subseteq Issued'
    BY AnsweredStays
<1>2. time \in Tokens
    BY DEF TypeOK
<1> QED
    BY <1>1, <1>2, RequestSteps, IssuedBy DEF Shape, Fresh

\* A row is revoked by a request that presents its token, and once.
LEMMA CreatedNext ==
    ASSUME TypeOK, Shape, Created, [Next]_vars
    PROVE  Created'
<1> USE DEF Stored
<1>1. SUFFICES ASSUME NEW r \in Requests, Stored(r)'
               PROVE  /\ rows'[rs'[r].new] # "none"
                      /\ \A q \in Requests : Stored(q)' /\ rs'[q].new = rs'[r].new => q = r
                      /\ \/ rows'[rs'[r].new] = "valid"
                         \/ \E q \in Requests : rs'[q].old = rs'[r].new
    BY DEF Created
<1>2. ASSUME NEW q \in Requests, Stored(q)'
      PROVE  /\ rs'[q].new = rs[q].new /\ rs[q].new \in Tokens
             /\ \/ Stored(q)
                \/ rs[q].pc = "create" /\ rs'[q].pc = "set" /\ rows[rs[q].new] = "none"
    BY <1>2, RequestSteps DEF Shape, TypeOK, RequestStates, NoToken, Fresh
<1>3. ASSUME NEW q \in Requests, Stored(q)', rs'[q].new = rs'[r].new PROVE q = r
    BY <1>1, <1>2, <1>3, OneAtATime DEF Created
<1>4. ASSUME NEW q \in Requests, rs[q].old # NoToken
      PROVE  rs'[q].old = rs[q].old
    BY <1>4, RequestSteps DEF Shape
<1>5. CASE ~Stored(r)
  <2>1. rs[r].pc = "create" /\ rs'[r].pc = "set"
    BY <1>1, <1>2, <1>5
  <2>2. rows'[rs[r].new] = "valid"
    BY <1>1, <1>2, <2>1, CreateStores
  <2> QED
    BY <1>1, <1>2, <1>3, <2>2
<1>6. CASE Stored(r)
  <2>1. rows[rs[r].new] # "none"
    BY <1>6 DEF Created
  <2>2. rows'[rs[r].new] # "none"
    BY <1>1, <1>2, <2>1, StoreSteps DEF TypeOK
  <2>3. \/ rows'[rs[r].new] = rows[rs[r].new]
        \/ \E q \in Requests : rs[q].old = rs[r].new
    BY <1>1, <1>2, <2>1, StoreSteps DEF TypeOK, Shape
  <2>4. \/ rows'[rs[r].new] = "valid"
        \/ \E q \in Requests : rs[q].old = rs[r].new
    BY <1>6, <2>3 DEF Created
  <2> QED
    BY <1>1, <1>2, <1>3, <1>4, <2>2, <2>4
<1> QED
    BY <1>5, <1>6

\* A token that was presented had been answered before.
LEMMA PresentedStored ==
    ASSUME TypeOK, Shape, NEW r \in Requests, rs[r].old # NoToken
    PROVE  /\ rs[r].old \in Tokens
           /\ \E p \in Requests : rs[p].pc = "done" /\ Stored(p) /\ rs[p].new = rs[r].old
<1>1. rs[r].old \in Issued
    BY DEF Shape
<1>2. PICK p \in Requests : rs[p].pc = "done" /\ rs[p].new = rs[r].old /\ rs[p].new # NoToken
    BY <1>1, IssuedBy
<1>3. rs[p].new \in Tokens
    BY <1>2 DEF TypeOK, RequestStates
<1> QED
    BY <1>2, <1>3 DEF Stored

\* The row of a presented token is never created again, and its key never set
\* again: both have been there when it was answered.
LEMMA UndoneNext ==
    ASSUME TypeOK, Shape, Created, Undone, [Next]_vars
    PROVE  Undone'
<1>1. SUFFICES ASSUME NEW r \in Requests, rs'[r].old # NoToken
               PROVE  /\ rs'[r].pc \in {"unset", "create", "set", "blacklist", "done"}
                           => rows'[rs'[r].old] = "revoked"
                      /\ rs'[r].pc \in {"create", "set", "blacklist", "done"}
                           => rs'[r].old \notin sessions'
    BY DEF Undone
<1>2. CASE rs[r].pc = "free"
    BY <1>1, <1>2, RequestSteps DEF Shape, Fresh
<1>3. CASE rs[r].pc # "free"
  <2>1. rs'[r].op = rs[r].op /\ rs'[r].old = rs[r].old
    BY <1>3, RequestSteps
  <2>2. PICK p \in Requests :
            rs[p].pc = "done" /\ Stored(p) /\ rs[p].new = rs[r].old /\ rs[r].old \in Tokens
    BY <1>1, <2>1, PresentedStored
  <2>3. rows[rs[r].old] # "none"
    BY <2>2 DEF Created
  <2>4. ASSUME NEW q \in Requests, rs[q].pc = "set", rs[q].new # NoToken
        PROVE  rs[q].new # rs[r].old
    BY <2>2, <2>4 DEF Created, Stored
  <2>5. ASSUME NEW q \in Requests, rs[q].pc = "set" PROVE rs[q].new # NoToken
    BY <2>5 DEF Shape, Tokens, NoToken
  <2>6. /\ rows[rs[r].old] = "revoked" => rows'[rs[r].old] = "revoked"
        /\ rs[r].old \notin sessions => rs[r].old \notin sessions'
    BY <2>2, <2>3, <2>4, <2>5, StoreSteps DEF TypeOK
  <2>7. ASSUME rs[r].pc = "revoke", rs'[r].pc = "unset"
        PROVE  rows'[rs[r].old] = "revoked"
    BY <2>2, <2>7, RevokeStores
  <2>8. ASSUME rs[r].pc = "unset", rs'[r].pc \in {"create", "blacklist"}
        PROVE  rs[r].old \notin sessions'
    BY <2>8, UnsetStores
  <2> QED
    BY <1>1, <1>3, <2>1, <2>6, <2>7, <2>8, RequestSteps DEF Undone
<1> QED
    BY <1>2, <1>3

LEMMA AfterNext ==
    ASSUME TypeOK, AfterAnswered, [Next]_vars
    PROVE  AfterAnswered'
<1>1. ASSUME NEW r \in Requests PROVE rs'[r].after \subseteq Answered'
    BY AnsweredStays, RequestSteps DEF AfterAnswered, Fresh
<1> QED
    BY <1>1 DEF AfterAnswered

\* Only the request that ends takes its marks off the tokens it worked on.
LEMMA AgreeNext ==
    ASSUME TypeOK, Shape, Created, Undone, StoresAgree, [Next]_vars
    PROVE  StoresAgree'
<1>1. SUFFICES ASSUME NEW t \in Tokens, ~Touched(t)'
               PROVE  t \in sessions' <=> rows'[t] = "valid"
    BY DEF StoresAgree
<1>2. CASE ~Touched(t)
  <2>1. ASSUME NEW r \in Requests, t \in {rs[r].old, rs[r].new}, rs[r].pc # "free"
        PROVE  rs[r].pc = "done"
    BY <1>2, <2>1 DEF Touched
  <2>2. ASSUME NEW r \in Requests, rs[r].pc \notin {"free", "done"}
        PROVE  t \notin {rs[r].old, rs[r].new}
    BY <2>1, <2>2
  <2>3. (t \in sessions' <=> t \in sessions) /\ rows'[t] = rows[t]
    BY <2>2, StoreSteps DEF TypeOK
  <2> QED
    BY <1>2, <2>3 DEF StoresAgree
<1>3. CASE Touched(t)
  <2>1. PICK r \in Requests : rs[r].pc \notin {"free", "done"} /\ t \in {rs[r].old, rs[r].new}
    BY <1>3 DEF Touched
  <2>2. rs[r].pc \in {"revoke", "unset"} => rs[r].new # t
    BY DEF Shape, Tokens, NoToken
  <2>3. t \in {rs'[r].old, rs'[r].new}
    BY <2>1, <2>2, RequestSteps
  <2>4. rs'[r].pc \in {"free", "done"}
    BY <1>1, <2>3 DEF Touched
  <2>5. rs[r].pc \in {"set", "blacklist"} /\ rs'[r].pc = "done"
    BY <2>1, <2>4, RequestSteps
  <2>6. rows' = rows /\ rs'[r].op = rs[r].op /\ rs'[r].old = rs[r].old /\ rs'[r].new = rs[r].new
    BY <2>5, EndStores, RequestSteps
  <2>7. CASE t = rs[r].old
    <3>1. rs[r].old # NoToken
      BY <2>7 DEF Tokens, NoToken
    <3>2. Undone'
      BY UndoneNext
    <3>3. rows'[t] = "revoked" /\ t \notin sessions'
      BY <2>5, <2>6, <2>7, <3>1, <3>2 DEF Undone
    <3> QED
      BY <3>3
  <2>8. CASE t = rs[r].new
    <3>1. rs[r].pc = "set" /\ Stored(r)
      BY <2>5, <2>8 DEF Shape, Stored, Tokens, NoToken
    <3>2. ASSUME NEW q \in Requests, rs[q].old # NoToken PROVE rs[q].old # t
      BY <2>8, <3>1, <3>2, PresentedStored DEF Created
    <3>3. rows[t] = "valid"
      BY <2>8, <3>1, <3>2 DEF Created, Tokens, NoToken
    <3>4. t \in sessions'
      BY <2>5, <2>8, <3>1, EndStores
    <3> QED
      BY <2>6, <3>3, <3>4
  <2> QED
    BY <2>1, <2>7, <2>8
<1> QED
    BY <1>2, <1>3

\* A rotation begins with a valid row, and the row of a token that was
\* presented and answered is revoked.
LEMMA SpentNext ==
    ASSUME TypeOK, Shape, Undone, AfterAnswered, SpentIsSpent, [Next]_vars
    PROVE  SpentIsSpent'
<1>1. SUFFICES ASSUME NEW r \in Requests, rs'[r].op = "refresh", NEW q \in rs'[r].after
               PROVE  rs'[q].old # rs'[r].old
    BY DEF SpentIsSpent
<1>2. CASE rs[r].pc = "free" /\ rs'[r] # rs[r]
  <2>1. /\ rs'[r].after = Answered /\ rs'[r].old \in Issued
        /\ rows[rs'[r].old] = "valid"
    BY <1>1, <1>2, RequestSteps DEF Fresh
  <2>2. q \in Requests /\ rs[q].pc = "done" /\ rs'[q] = rs[q]
    BY <2>1, AnsweredStays DEF Answered
  <2>3. rs'[r].old # NoToken
    BY <2>1 DEF Issued
  <2> QED
    BY <2>1, <2>2, <2>3 DEF Shape, Undone
<1>3. CASE rs[r].pc # "free" \/ rs'[r] = rs[r]
  <2>1. rs'[r].op = rs[r].op /\ rs'[r].old = rs[r].old /\ rs'[r].after = rs[r].after
    BY <1>3, RequestSteps
  <2>2. rs'[q] = rs[q]
    BY <1>1, <2>1, AnsweredStays DEF AfterAnswered
  <2> QED
    BY <1>1, <2>1, <2>2 DEF SpentIsSpent
<1> QED
    BY <1>2, <1>3

-----------------------------------------------------------------------------
(* The theorems.                                                           *)

\* The strengthening is an invariant: it relates each row and key to the one
\* request that created it and those that presented its token
\* (auth.service.ts:181-214, 223-236).
THEOREM Invariant == Spec => []IInv
<1>1. IInv /\ [Next]_vars => IInv'
    BY TypeNext, ShapeNext, CreatedNext, UndoneNext, AfterNext, AgreeNext, SpentNext DEF IInv
<1> QED
    BY InvInit, <1>1, PTL DEF Spec

\* The rows, the session and blacklist keys and the requests keep their types
\* (prisma/schema/user.prisma:46-61).
THEOREM TypeCorrect == Spec => []TypeOK
<1>1. IInv => TypeOK
    BY DEF IInv
<1> QED
    BY <1>1, Invariant, PTL

\* PostgreSQL and Redis agree on every token no request is, or was left, half
\* way through (auth.service.ts:186-211, 224-230).
THEOREM StoresStayTogether == Spec => []StoresAgree
<1>1. IInv => StoresAgree
    BY DEF IInv
<1> QED
    BY <1>1, Invariant, PTL

\* A client keeps the token it was issued until somebody presents that token
\* (auth.service.ts:186-189, 225-228).
THEOREM NobodyLosesAToken == Spec => []KeptUntilPresented
<1>1. ASSUME IInv, NEW t \in Issued
      PROVE  rows[t] = "valid" \/ \E r \in Requests : rs[r].old = t
  <2>1. PICK p \in Requests : rs[p].pc = "done" /\ rs[p].new = t /\ t # NoToken
    BY IssuedBy
  <2> QED
    BY <1>1, <2>1 DEF IInv, Created, Stored
<1>2. IInv => KeptUntilPresented
    BY <1>1 DEF KeptUntilPresented
<1> QED
    BY <1>2, Invariant, PTL

\* A token that a request finished rotating or logging out gets no later
\* rotation past the check (auth.service.ts:181-189, 225-228).
THEOREM SpentForGood == Spec => []SpentIsSpent
<1>1. IInv => SpentIsSpent
    BY DEF IInv
<1> QED
    BY <1>1, Invariant, PTL

\* A logout is answered after its access token was barred, and nobody lifts that.
Barred == \A r \in Answered : rs[r].op = "logout" => rs[r].access \in blacklisted

LEMMA BarredNext ==
    ASSUME TypeOK, Shape, Barred, [Next]_vars
    PROVE  Barred'
<1> SUFFICES ASSUME NEW r \in Requests, rs'[r].pc = "done", rs'[r].op = "logout"
             PROVE  rs'[r].access \in blacklisted'
    BY DEF Barred, Answered
<1>1. blacklisted \subseteq blacklisted'
    BY DEF Next, vars, Tick, BeginLogin, BeginRefresh, BeginLogout, Begin, Steps, Revoke, Unset,
           Create, Set, Blacklist, Fail
<1>2. CASE rs'[r] = rs[r]
    BY <1>1, <1>2 DEF Barred, Answered
<1>3. CASE rs'[r] # rs[r]
  <2>1. rs[r].pc \in {"set", "blacklist"} /\ rs'[r].op = rs[r].op /\ rs'[r].access = rs[r].access
    BY <1>3, RequestSteps DEF Fresh
  <2>2. rs[r].pc = "blacklist"
    BY <2>1 DEF Shape
  <2>3. Steps(r)
    BY <1>3, <2>2, StepOf DEF Fail, Goto, TypeOK, RequestStates
  <2>4. Blacklist(r)
    BY <2>2, <2>3 DEF Steps, Revoke, Unset, Create, Set, Blacklist
  <2> QED
    BY <2>1, <2>4 DEF Blacklist
<1> QED
    BY <1>2, <1>3

\* The access token of an answered logout is barred, and the session of its refresh
\* token, if it was given one, over in PostgreSQL and in Redis, for good, whatever logins of the same second, rotations and other
\* logouts of the token are half way through or fail
\* (auth.service.ts:189-211, 224-236).
THEOREM LogoutsLast == Spec => []LogoutLasts
<1>1. Init => Barred
    BY DEF Init, Barred, Answered
<1>2. IInv /\ Barred /\ [Next]_vars => Barred'
    BY BarredNext DEF IInv
<1>3. IInv /\ Barred => LogoutLasts
    BY DEF IInv, Undone, Barred, Answered, LogoutLasts
<1> QED
    BY <1>1, <1>2, <1>3, Invariant, PTL DEF Spec
=============================================================================
