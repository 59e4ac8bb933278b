--------------------------- MODULE MessagesProofs ---------------------------
(***************************************************************************)
(* The traffic of a conversation, for any members, requests and failures:  *)
(* types, that unread counters are exact, and which message is the last;   *)
(* and then the lists read page by page, for any rows, times and changes.  *)
(* The two share nothing: IInv is the inductive invariant of the first,    *)
(* PagingInv that of the second.                                           *)
(***************************************************************************)
EXTENDS Messages, Paging, TLAPS, FiniteSetTheorems

-----------------------------------------------------------------------------
(* The inductive invariant.                                                *)

Posts(r) == rs[r].op \in {"send", "timer"}

InTransaction(r) == rs[r].pc \in {"conversation", "members", "commit"}

\* What a request is about at each point of it.
ShapeOf(r) ==
    /\ rs[r].pc = "insert" \/ InTransaction(r) => rs[r].op = "send"
    /\ InTransaction(r) => rs[r].msg \in Ids /\ msgs[rs[r].msg] = "inserted"
    /\ Posts(r) /\ rs[r].pc \in {"free", "insert", "write"} => rs[r].msg = NoId
    /\ Posts(r) /\ rs[r].msg \in Ids => msgs[rs[r].msg] # "none"
    /\ Posted(r) => rs[r].pc = "done"
    /\ rs[r].after \subseteq Answered

Shape == \A r \in Requests : ShapeOf(r)

\* Every message has one request.
OwnMessages ==
    \A r, q \in Requests :
        Posts(r) /\ Posts(q) /\ rs[r].msg = rs[q].msg /\ rs[r].msg \in Ids => r = q

\* The conversation's row is held from its update to the end of the
\* transaction, and the members' rows from theirs; what a transaction wrote on
\* a member's row is one more than the row shows until then.
Locks ==
    /\ \A r \in Requests : rs[r].pc \in {"members", "commit"} <=> locked = r
    /\ \A u \in DOMAIN pending : pending[u] = unread[u] + 1
    /\ DOMAIN pending # {} => \E r \in Requests : rs[r].pc = "commit"
    /\ \A r \in Requests : rs[r].pc = "commit" => rs[r].user \notin DOMAIN pending

\* What counts as unread was committed.
FreshSent == \A u \in Users : fresh[u] \subseteq Sent

IInv ==
    /\ TypeOK /\ Shape /\ OwnMessages /\ Locks
    /\ FreshSent /\ CountersExact /\ LastNotOvertaken

-----------------------------------------------------------------------------
(* Operators.                                                              *)

\* The slot of a request after a step that moves it.
LEMMA GotoFields ==
    ASSUME TypeOK, NEW r \in Requests,
           NEW pc \in {"conversation", "members", "commit", "done", "failed"}, Goto(r, pc)
    PROVE  /\ rs' \in [Requests -> RequestStates]
           /\ \A q \in Requests \ {r} : rs'[q] = rs[q]
           /\ rs'[r].pc = pc /\ rs'[r].op = rs[r].op /\ rs'[r].user = rs[r].user
           /\ rs'[r].msg = rs[r].msg /\ rs'[r].after = rs[r].after
<1> DEFINE x == [rs[r] EXCEPT !.pc = pc]
<1>1. rs \in [Requests -> RequestStates] /\ rs[r] \in RequestStates
    BY DEF TypeOK
<1>2. rs' = [rs EXCEPT ![r] = x] /\ x \in RequestStates
    BY <1>1 DEF Goto, RequestStates
<1>3. /\ x.pc = pc /\ x.op = rs[r].op /\ x.user = rs[r].user
      /\ x.msg = rs[r].msg /\ x.after = rs[r].after
    BY <1>1 DEF RequestStates
<1> HIDE DEF x
<1> QED
    BY <1>1, <1>2, <1>3

\* The slot of a request that got its message.
LEMMA MessageFields ==
    ASSUME TypeOK, NEW r \in Requests, NEW pc \in {"conversation", "done"}, NEW m \in Ids,
           rs' = [rs EXCEPT ![r].pc = pc, ![r].msg = m]
    PROVE  /\ rs' \in [Requests -> RequestStates]
           /\ \A q \in Requests \ {r} : rs'[q] = rs[q]
           /\ rs'[r].pc = pc /\ rs'[r].op = rs[r].op /\ rs'[r].user = rs[r].user
           /\ rs'[r].msg = m /\ rs'[r].after = rs[r].after
<1> DEFINE x == [rs[r] EXCEPT !.pc = pc, !.msg = m]
<1>1. rs \in [Requests -> RequestStates] /\ rs[r] \in RequestStates
    BY DEF TypeOK
<1>2. rs' = [rs EXCEPT ![r] = x] /\ x \in RequestStates
    BY <1>1 DEF RequestStates
<1>3. /\ x.pc = pc /\ x.op = rs[r].op /\ x.user = rs[r].user
      /\ x.msg = m /\ x.after = rs[r].after
    BY <1>1 DEF RequestStates
<1> HIDE DEF x
<1> QED
    BY <1>1, <1>2, <1>3

LEMMA FreshFinite ==
    ASSUME FreshSent, NEW u \in Users
    PROVE  IsFiniteSet(fresh[u])
<1>1. IsFiniteSet(Ids)
    BY FS_Interval, BoundsAssumption DEF Ids
<1>2. fresh[u] \in SUBSET Ids
    BY DEF FreshSent, Sent
<1> QED
    BY <1>1, <1>2, FS_Subset

\* The requests answered stay answered, and what they posted stays posted.
LEMMA AnsweredLasts ==
    ASSUME NEW r \in Requests, rs[r].pc # "done", \A q \in Requests \ {r} : rs'[q] = rs[q]
    PROVE  /\ Answered \subseteq Answered'
           /\ \A q \in Answered : q # r /\ rs'[q] = rs[q]
    BY DEF Answered

\* A step that posts nothing leaves the order alone.
LEMMA LastKept ==
    ASSUME TypeOK, LastNotOvertaken, UNCHANGED last,
           \A x \in Requests : Posted(x)' =>
               Posted(x) /\ rs'[x].msg = rs[x].msg /\ rs'[x].after = rs[x].after
    PROVE  LastNotOvertaken'
<1>1. \A x \in Requests : rs[x].after \subseteq Requests
    BY DEF TypeOK, RequestStates
<1> QED
    BY <1>1 DEF LastNotOvertaken

-----------------------------------------------------------------------------
(* One lemma per kind of step.                                             *)

LEMMA InvInit == Init => IInv
<1> SUFFICES ASSUME Init
             PROVE  IInv
    OBVIOUS
<1> DEFINE x == [pc |-> "free", op |-> "send", user |-> NoUser, msg |-> NoId, expires |-> FALSE,
                 after |-> {}]
<1>1. x \in RequestStates
  <2>1. x.expires \in BOOLEAN
    BY Zenon
  <2> QED
    BY <2>1 DEF RequestStates, Ops
<1>2. x.pc = "free" /\ x.op = "send" /\ x.msg = NoId /\ x.after = {}
    OBVIOUS
<1>3. rs = [r \in Requests |-> x]
    BY DEF Init
<1> HIDE DEF x
<1>4. \A r \in Requests : rs[r] = x
    BY <1>3
<1>5. DOMAIN pending = {} /\ pending \in [DOMAIN pending -> Nat]
    BY DEF Init, NoRows
<1>6. TypeOK
  <2>1. disappearing \in BOOLEAN
    BY Zenon DEF Init
  <2>2. rs \in [Requests -> RequestStates]
    BY <1>1, <1>3
  <2>3. faults \in 0 .. MaxFaults
    BY BoundsAssumption DEF Init
  <2>4. /\ active \subseteq Users /\ msgs \in [Ids -> {"none", "inserted", "sent", "undone"}]
        /\ last \in Ids \cup {NoId} /\ locked \in Requests \cup {NoRequest}
        /\ receipts \in [Ids \X Users -> {"none", "DELIVERED", "READ"}] /\ toPurge \subseteq Ids
    BY DEF Init
  <2>5. unread \in [Users -> Nat] /\ fresh \in [Users -> SUBSET Ids]
    BY DEF Init
  <2> QED
    BY <1>5, <2>1, <2>2, <2>3, <2>4, <2>5 DEF TypeOK
<1>7. NoId \notin Ids /\ NoRequest \notin Requests
    BY BoundsAssumption DEF NoId, Ids, NoRequest, Requests
<1>8. Shape /\ OwnMessages
    BY <1>2, <1>4, <1>7 DEF Shape, ShapeOf, OwnMessages, Posts, Posted, Sent, InTransaction
<1>9. Locks
    BY <1>2, <1>4, <1>5, <1>7 DEF Locks, Init
<1>10. FreshSent /\ CountersExact
    BY FS_EmptySet DEF Init, FreshSent, CountersExact
<1>11. LastNotOvertaken
    BY <1>2, <1>4, <1>7 DEF LastNotOvertaken, Posted, Sent
<1> QED
    BY <1>6, <1>8, <1>9, <1>10, <1>11 DEF IInv

LEMMA BeginKeeps ==
    ASSUME IInv, NEW r \in Requests, NEW op \in Ops, NEW u \in Users, NEW m \in Ids \cup {NoId},
           NEW pc \in {"insert", "write"}, Begin(r, op, u, m, pc),
           op \in {"send", "timer"} => m = NoId, pc = "insert" => op = "send"
    PROVE  IInv'
<1> USE DEF IInv
<1> DEFINE x == [pc |-> pc, op |-> op, user |-> u, msg |-> m,
                 expires |-> disappearing, after |-> Answered]
<1>1. /\ rs' = [rs EXCEPT ![r] = x] /\ rs[r].pc = "free"
      /\ UNCHANGED <<rows, locks, toPurge, fresh, faults>>
    BY DEF Begin
<1>2. Answered \subseteq Requests /\ disappearing \in BOOLEAN
    BY DEF Answered, TypeOK
<1>3. x \in RequestStates
    BY <1>2 DEF RequestStates
<1>4. x.pc = pc /\ x.op = op /\ x.user = u /\ x.msg = m /\ x.after = Answered
    OBVIOUS
<1> HIDE DEF x
<1>5. /\ rs' \in [Requests -> RequestStates]
      /\ rs'[r] = x /\ \A q \in Requests \ {r} : rs'[q] = rs[q]
    BY <1>1, <1>3 DEF TypeOK
<1>6. Answered \subseteq Answered' /\ \A q \in Answered : q # r /\ rs'[q] = rs[q]
    BY <1>1, <1>5, AnsweredLasts
<1>7. TypeOK'
    BY <1>1, <1>5 DEF TypeOK, rows, locks
<1>8. NoId \notin Ids
    BY BoundsAssumption DEF NoId, Ids
<1>9. Sent' = Sent /\ UNCHANGED <<msgs, last, unread, locked, pending, fresh>>
    BY <1>1 DEF Sent, rows, locks
<1>10. ~Posted(r)' /\ \A q \in Requests \ {r} : Posted(q)' <=> Posted(q)
    BY <1>4, <1>5, <1>8, <1>9 DEF Posted, Sent
<1>11. Shape'
  <2>1. ShapeOf(r)'
    BY <1>4, <1>5, <1>6, <1>8, <1>10 DEF ShapeOf, Posts, InTransaction
  <2>2. \A q \in Requests \ {r} : ShapeOf(q)'
    BY <1>5, <1>6, <1>9, <1>10 DEF Shape, ShapeOf, Posts, InTransaction
  <2> QED
    BY <2>1, <2>2 DEF Shape
<1>12. OwnMessages'
    BY <1>4, <1>5, <1>8 DEF OwnMessages, Posts
<1>13. Locks'
  <2>1. locked # r
    BY <1>1 DEF Locks
  <2> QED
    BY <1>1, <1>4, <1>5, <1>9, <2>1 DEF Locks
<1>14. FreshSent' /\ CountersExact'
    BY <1>9 DEF FreshSent, CountersExact
<1>15. LastNotOvertaken'
    BY <1>5, <1>9, <1>10, LastKept
<1> QED
    BY <1>7, <1>11, <1>12, <1>13, <1>14, <1>15

\* A step that moves one request on and writes no message.
LEMMA MoveKeeps ==
    ASSUME IInv, NEW r \in Requests, NEW pc \in {"members", "commit", "done"}, Goto(r, pc),
           rs[r].pc \in {"conversation", "members", "write"}, UNCHANGED <<active, msgs, last>>,
           InTransaction(r) <=> pc # "done", Posts(r) => pc # "done"
    PROVE  /\ rs' \in [Requests -> RequestStates] /\ \A q \in Requests \ {r} : rs'[q] = rs[q]
           /\ rs'[r].pc = pc /\ rs'[r].user = rs[r].user
           /\ Shape' /\ OwnMessages' /\ LastNotOvertaken'
<1> USE DEF IInv
<1>1. /\ rs' \in [Requests -> RequestStates]
      /\ \A q \in Requests \ {r} : rs'[q] = rs[q]
      /\ rs'[r].pc = pc /\ rs'[r].op = rs[r].op /\ rs'[r].user = rs[r].user
      /\ rs'[r].msg = rs[r].msg /\ rs'[r].after = rs[r].after
    BY GotoFields
<1>2. Answered \subseteq Answered'
    BY <1>1, AnsweredLasts
<1>3. \A q \in Requests : Posted(q)' <=> Posted(q)
    BY <1>1 DEF Posted, Sent
<1>4. ~Posted(r)
    BY DEF Shape, ShapeOf
<1>5. ShapeOf(r)'
    BY <1>1, <1>2, <1>3, <1>4 DEF Shape, ShapeOf, Posts, InTransaction
<1>6. \A q \in Requests \ {r} : ShapeOf(q)'
    BY <1>1, <1>2, <1>3 DEF Shape, ShapeOf, Posts, InTransaction
<1>7. OwnMessages'
    BY <1>1 DEF OwnMessages, Posts
<1>8. LastNotOvertaken'
    BY <1>1, <1>3, LastKept
<1> QED
    BY <1>1, <1>5, <1>6, <1>7, <1>8 DEF Shape

LEMMA LockKeeps ==
    ASSUME IInv, NEW r \in Requests, LockConversation(r)
    PROVE  IInv'
<1> USE DEF IInv
<1>1. /\ rs[r].pc = "conversation" /\ locked = NoRequest /\ locked' = r /\ Goto(r, "members")
      /\ UNCHANGED <<active, msgs, last, disappearing, unread, receipts, pending, toPurge, fresh,
                     faults>>
    BY DEF LockConversation, rows
<1>2. /\ rs' \in [Requests -> RequestStates] /\ \A q \in Requests \ {r} : rs'[q] = rs[q]
      /\ rs'[r].pc = "members"
      /\ Shape' /\ OwnMessages' /\ LastNotOvertaken'
    BY <1>1, MoveKeeps DEF InTransaction
<1>3. TypeOK'
    BY <1>1, <1>2 DEF TypeOK
<1>4. NoRequest \notin Requests
    BY BoundsAssumption DEF NoRequest, Requests
<1>5. \A q \in Requests : rs[q].pc \notin {"members", "commit"}
    BY <1>1, <1>4 DEF Locks
<1>6. Locks'
    BY <1>1, <1>2, <1>5 DEF Locks
<1>7. FreshSent' /\ CountersExact'
    BY <1>1 DEF FreshSent, CountersExact, Sent
<1> QED
    BY <1>2, <1>3, <1>6, <1>7

LEMMA CountKeeps ==
    ASSUME IInv, NEW r \in Requests, CountMembers(r)
    PROVE  IInv'
<1> USE DEF IInv
<1>1. /\ rs[r].pc = "members" /\ Goto(r, "commit")
      /\ pending' = [u \in active \ {rs[r].user} |-> unread[u] + 1]
      /\ UNCHANGED <<active, msgs, last, disappearing, unread, receipts, locked, toPurge, fresh,
                     faults>>
    BY DEF CountMembers, rows
<1>2. /\ rs' \in [Requests -> RequestStates] /\ \A q \in Requests \ {r} : rs'[q] = rs[q]
      /\ rs'[r].pc = "commit" /\ rs'[r].user = rs[r].user
      /\ Shape' /\ OwnMessages' /\ LastNotOvertaken'
    BY <1>1, MoveKeeps DEF InTransaction
<1>3. DOMAIN pending' = active \ {rs[r].user}
      /\ \A u \in DOMAIN pending' : pending'[u] = unread[u] + 1
    BY <1>1
<1>4. \A u \in active : unread[u] + 1 \in Nat
    BY DEF TypeOK
<1>5. TypeOK'
  <2>1. DOMAIN pending' \subseteq Users /\ pending' \in [DOMAIN pending' -> Nat]
    BY <1>1, <1>3, <1>4 DEF TypeOK
  <2> QED
    BY <1>1, <1>2, <2>1 DEF TypeOK
<1>6. Locks'
  <2>1. locked = r /\ \A q \in Requests \ {r} : rs[q].pc \notin {"members", "commit"}
    BY <1>1 DEF Locks
  <2> QED
    BY <1>1, <1>2, <1>3, <2>1 DEF Locks
<1>7. FreshSent' /\ CountersExact'
    BY <1>1 DEF FreshSent, CountersExact, Sent
<1> QED
    BY <1>2, <1>5, <1>6, <1>7

\* Deliver, Read and Mark; the reset waits for the row.
LEMMA WriteKeeps ==
    ASSUME IInv, NEW r \in Requests, Deliver(r) \/ Read(r) \/ Mark(r)
    PROVE  IInv'
<1> USE DEF IInv
<1>1. /\ rs[r].pc = "write" /\ rs[r].op \notin {"send", "timer"} /\ Goto(r, "done")
      /\ UNCHANGED <<active, msgs, last, disappearing, locked, pending, toPurge, faults>>
    BY DEF Deliver, Read, Mark, Write, locks
<1>2. /\ rs' \in [Requests -> RequestStates] /\ \A q \in Requests \ {r} : rs'[q] = rs[q]
      /\ rs'[r].pc = "done"
      /\ Shape' /\ OwnMessages' /\ LastNotOvertaken'
    BY <1>1, MoveKeeps DEF InTransaction, Posts
<1>3. receipts' \in [Ids \X Users -> {"none", "DELIVERED", "READ"}]
    BY DEF Deliver, Read, Mark, Receive, TypeOK
<1>4. \/ UNCHANGED <<unread, fresh>>
      \/ Reset(rs[r].user)
    BY DEF Deliver, Read, Mark
<1>5. \/ UNCHANGED <<unread, fresh>>
      \/ \E u \in Users : /\ u \notin DOMAIN pending
                          /\ unread' = [unread EXCEPT ![u] = 0]
                          /\ fresh' = [fresh EXCEPT ![u] = {}]
  <2>1. CASE rs[r].user \in Users
    BY <1>4, <2>1 DEF Reset, Free
  <2>2. CASE rs[r].user \notin Users
    BY <1>4, <2>2 DEF Reset, TypeOK
  <2> QED
    BY <2>1, <2>2
<1>6. unread' \in [Users -> Nat] /\ fresh' \in [Users -> SUBSET Ids]
    BY <1>5 DEF TypeOK
<1>7. TypeOK'
    BY <1>1, <1>2, <1>3, <1>6 DEF TypeOK
<1>8. \A u \in DOMAIN pending : unread'[u] = unread[u]
    BY <1>5 DEF TypeOK
<1>9. Locks'
    BY <1>1, <1>2, <1>8 DEF Locks
<1>10. FreshSent' /\ CountersExact'
  <2>1. CASE UNCHANGED <<unread, fresh>>
    BY <1>1, <2>1 DEF FreshSent, CountersExact, Sent
  <2>2. ASSUME NEW u \in Users, unread' = [unread EXCEPT ![u] = 0], fresh' = [fresh EXCEPT ![u] = {}]
        PROVE  FreshSent' /\ CountersExact'
    <3>1. \A v \in Users : /\ unread'[v] = IF v = u THEN 0 ELSE unread[v]
                           /\ fresh'[v] = IF v = u THEN {} ELSE fresh[v]
      BY <2>2 DEF TypeOK
    <3> QED
      BY <1>1, <3>1, FS_EmptySet DEF FreshSent, CountersExact, Sent
  <2> QED
    BY <1>5, <2>1, <2>2
<1> QED
    BY <1>2, <1>7, <1>9, <1>10

LEMMA InsertKeeps ==
    ASSUME IInv, NEW r \in Requests, Insert(r)
    PROVE  IInv'
<1> USE DEF IInv
<1>1. PICK m \in Ids : /\ msgs[m] = "none" /\ msgs' = [msgs EXCEPT ![m] = "inserted"]
                       /\ rs' = [rs EXCEPT ![r].pc = "conversation", ![r].msg = m]
    BY DEF Insert, Created
<1>2. /\ rs[r].pc = "insert"
      /\ UNCHANGED <<active, last, disappearing, unread, receipts, locked, pending, toPurge, fresh,
                     faults>>
    BY DEF Insert, locks
<1>3. /\ rs' \in [Requests -> RequestStates] /\ \A q \in Requests \ {r} : rs'[q] = rs[q]
      /\ rs'[r].pc = "conversation" /\ rs'[r].op = rs[r].op /\ rs'[r].user = rs[r].user
      /\ rs'[r].msg = m /\ rs'[r].after = rs[r].after
    BY <1>1, MessageFields
<1>4. /\ msgs' \in [Ids -> {"none", "inserted", "sent", "undone"}]
      /\ \A k \in Ids : msgs'[k] = IF k = m THEN "inserted" ELSE msgs[k]
    BY <1>1 DEF TypeOK
<1>5. TypeOK'
    BY <1>2, <1>3, <1>4 DEF TypeOK
<1>6. Sent' = Sent
    BY <1>1, <1>4 DEF Sent
<1>7. \A q \in Requests \ {r} : Posts(q) => rs[q].msg # m
    BY <1>1 DEF Shape, ShapeOf
<1>8. ~Posted(r)' /\ \A q \in Requests \ {r} : Posted(q)' <=> Posted(q)
    BY <1>1, <1>3, <1>6 DEF Posted, Sent
<1>9. Answered \subseteq Answered'
    BY <1>2, <1>3, AnsweredLasts
<1>10. Shape'
  <2>1. ShapeOf(r)'
    BY <1>2, <1>3, <1>4, <1>8, <1>9 DEF Shape, ShapeOf, Posts, InTransaction
  <2>2. ASSUME NEW q \in Requests \ {r}
        PROVE  ShapeOf(q)'
    <3>1. InTransaction(q) => Posts(q)
      BY DEF Shape, ShapeOf, Posts
    <3>2. InTransaction(q) \/ Posts(q) => rs[q].msg # m
      BY <1>7, <2>2, <3>1
    <3> QED
      BY <1>3, <1>4, <1>8, <1>9, <3>2 DEF Shape, ShapeOf, Posts, InTransaction
  <2> QED
    BY <2>1, <2>2 DEF Shape
<1>11. OwnMessages'
    BY <1>3, <1>7 DEF OwnMessages, Posts
<1>12. Locks'
    BY <1>2, <1>3 DEF Locks
<1>13. FreshSent' /\ CountersExact'
    BY <1>2, <1>6 DEF FreshSent, CountersExact
<1>14. LastNotOvertaken'
    BY <1>2, <1>3, <1>8, LastKept
<1> QED
    BY <1>5, <1>10, <1>11, <1>12, <1>13, <1>14

\* The request r posts the message m, which becomes the last.
LEMMA PostKeeps ==
    ASSUME IInv, NEW r \in Requests, NEW m \in Ids,
           \A q \in Requests \ {r} : rs'[q] = rs[q],
           Posts(r), rs[r].pc # "done",
           rs'[r].pc = "done" /\ rs'[r].op = rs[r].op /\ rs'[r].msg = m /\ rs'[r].after = rs[r].after,
           \A q \in Requests \ {r} : Posts(q) => rs[q].msg # m,
           msgs' = [msgs EXCEPT ![m] = "sent"], last' = m
    PROVE  Shape' /\ OwnMessages' /\ LastNotOvertaken' /\ Sent' = Sent \cup {m}
<1> USE DEF IInv
<1>1. \A k \in Ids : msgs'[k] = IF k = m THEN "sent" ELSE msgs[k]
    BY DEF TypeOK
<1>2. Sent' = Sent \cup {m}
    BY <1>1 DEF Sent
<1>3. Answered \subseteq Answered' /\ \A q \in Answered : q # r /\ rs'[q] = rs[q]
    BY AnsweredLasts
<1>4. \A q \in Requests \ {r} : Posted(q)' <=> Posted(q)
    BY <1>2 DEF Posted, Posts
<1>5. Shape'
  <2>1. ShapeOf(r)'
    BY <1>1, <1>3 DEF Shape, ShapeOf, Posts, InTransaction, Posted
  <2>2. ASSUME NEW q \in Requests \ {r}
        PROVE  ShapeOf(q)'
    <3>1. InTransaction(q) => Posts(q)
      BY DEF Shape, ShapeOf, Posts
    <3>2. InTransaction(q) \/ Posts(q) => rs[q].msg # m
      BY <2>2, <3>1
    <3> QED
      BY <1>1, <1>3, <1>4, <3>2 DEF Shape, ShapeOf, Posts, InTransaction
  <2> QED
    BY <2>1, <2>2 DEF Shape
<1>6. OwnMessages'
    BY DEF OwnMessages, Posts
<1>7. LastNotOvertaken'
  <2>1. m # NoId
    BY BoundsAssumption DEF NoId, Ids
  <2>2. ASSUME NEW x \in Requests, NEW q \in rs'[x].after, Posted(q)'
        PROVE  rs'[q].msg # m
    <3>1. q \in Answered /\ q \in Requests \ {r}
      BY <1>3, <2>2 DEF Shape, ShapeOf, Answered
    <3>2. Posts(q)
      BY <1>4, <2>2, <3>1 DEF Posted, Posts
    <3> QED
      BY <3>1, <3>2
  <2> QED
    BY <2>1, <2>2 DEF LastNotOvertaken
<1> QED
    BY <1>2, <1>5, <1>6, <1>7

\* The counters of those the transaction counted for are one more than what
\* they had sent or read up to, which the new message is not part of.
LEMMA CommitKeeps ==
    ASSUME IInv, NEW r \in Requests, Commit(r)
    PROVE  IInv'
<1> USE DEF IInv
<1> DEFINE m == rs[r].msg
           own == active \cap {rs[r].user}
<1>1. /\ rs[r].pc = "commit" /\ Goto(r, "done")
      /\ msgs' = [msgs EXCEPT ![m] = "sent"] /\ last' = m
      /\ locked' = NoRequest /\ pending' = NoRows
      /\ UNCHANGED <<active, disappearing, receipts, faults>>
    BY DEF Commit
<1>2. /\ unread' = [u \in Users |-> CASE u \in own -> 0
                                      [] u \in DOMAIN pending -> pending[u]
                                      [] OTHER -> unread[u]]
      /\ fresh' = [u \in Users |-> CASE u \in own -> {}
                                     [] u \in DOMAIN pending -> fresh[u] \cup {m}
                                     [] OTHER -> fresh[u]]
      /\ toPurge' = IF rs[r].expires THEN toPurge \cup {m} ELSE toPurge
    BY DEF Commit
<1>3. rs[r].op = "send" /\ m \in Ids /\ msgs[m] = "inserted"
    BY <1>1 DEF Shape, ShapeOf, InTransaction
<1>4. /\ rs' \in [Requests -> RequestStates] /\ \A q \in Requests \ {r} : rs'[q] = rs[q]
      /\ rs'[r].pc = "done" /\ rs'[r].op = rs[r].op
      /\ rs'[r].msg = m /\ rs'[r].after = rs[r].after
    BY <1>1, GotoFields
<1>5. \A q \in Requests \ {r} : Posts(q) => rs[q].msg # m
    BY <1>3 DEF OwnMessages, Posts
<1>6. locked = r /\ rs[r].user \notin DOMAIN pending
      /\ \A u \in DOMAIN pending : pending[u] = unread[u] + 1
    BY <1>1 DEF Locks
<1>7. own \cap DOMAIN pending = {}
    BY <1>6
<1> HIDE DEF m, own
<1>8. Shape' /\ OwnMessages' /\ LastNotOvertaken' /\ Sent' = Sent \cup {m}
    BY <1>1, <1>3, <1>4, <1>5, PostKeeps DEF Posts
<1>9. ASSUME NEW u \in Users
      PROVE  \/ unread'[u] = 0 /\ fresh'[u] = {}
             \/ unread'[u] = unread[u] + 1 /\ fresh'[u] = fresh[u] \cup {m}
             \/ unread'[u] = unread[u] /\ fresh'[u] = fresh[u]
  <2>1. CASE u \in own
    BY <1>2, <1>7, <2>1
  <2>2. CASE u \notin own /\ u \in DOMAIN pending
    BY <1>2, <1>6, <2>2
  <2>3. CASE u \notin own /\ u \notin DOMAIN pending
    BY <1>2, <2>3
  <2> QED
    BY <2>1, <2>2, <2>3
<1>10. ASSUME NEW u \in Users
       PROVE  /\ unread'[u] \in Nat /\ fresh'[u] \subseteq Sent'
              /\ unread'[u] = Cardinality(fresh'[u])
  <2>1. unread[u] \in Nat /\ unread[u] = Cardinality(fresh[u]) /\ fresh[u] \subseteq Sent
    BY DEF TypeOK, CountersExact, FreshSent
  <2>2. m \notin fresh[u] /\ IsFiniteSet(fresh[u])
    BY <1>3, <2>1, FreshFinite DEF Sent
  <2>3. CASE unread'[u] = 0 /\ fresh'[u] = {}
    BY <2>3, FS_EmptySet
  <2>4. CASE unread'[u] = unread[u] + 1 /\ fresh'[u] = fresh[u] \cup {m}
    <3>1. Cardinality(fresh[u] \cup {m}) = Cardinality(fresh[u]) + 1
      BY <2>2, FS_AddElement
    <3> QED
      BY <1>8, <2>1, <2>4, <3>1
  <2>5. CASE unread'[u] = unread[u] /\ fresh'[u] = fresh[u]
    BY <1>8, <2>1, <2>5
  <2> QED
    BY <1>9, <2>3, <2>4, <2>5
<1>11. TypeOK'
  <2>1. unread' \in [Users -> Nat]
    BY <1>2, <1>10
  <2>2. fresh' \in [Users -> SUBSET Ids]
    BY <1>2, <1>10 DEF Sent
  <2>3. DOMAIN pending' = {} /\ pending' \in [DOMAIN pending' -> Nat]
    BY <1>1 DEF NoRows
  <2>4. /\ msgs' \in [Ids -> {"none", "inserted", "sent", "undone"}] /\ last' \in Ids \cup {NoId}
        /\ locked' \in Requests \cup {NoRequest} /\ toPurge' \subseteq Ids
    BY <1>1, <1>2, <1>3 DEF TypeOK
  <2> QED
    BY <1>1, <1>4, <2>1, <2>2, <2>3, <2>4 DEF TypeOK
<1>12. Locks'
  <2>1. \A q \in Requests \ {r} : rs[q].pc \notin {"members", "commit"}
    BY <1>6 DEF Locks
  <2>2. DOMAIN pending' = {} /\ NoRequest \notin Requests
    BY <1>1, BoundsAssumption DEF NoRows, NoRequest, Requests
  <2> QED
    BY <1>1, <1>4, <2>1, <2>2 DEF Locks
<1>13. FreshSent' /\ CountersExact'
    BY <1>10 DEF FreshSent, CountersExact
<1> QED
    BY <1>8, <1>11, <1>12, <1>13

LEMMA TimerKeeps ==
    ASSUME IInv, NEW r \in Requests, SetTimer(r)
    PROVE  IInv'
<1> USE DEF IInv
<1>1. PICK m \in Ids : /\ msgs[m] = "none" /\ msgs' = [msgs EXCEPT ![m] = "sent"] /\ last' = m
                       /\ rs' = [rs EXCEPT ![r].pc = "done", ![r].msg = m]
    BY DEF SetTimer, Created
<1>2. /\ rs[r].op = "timer" /\ rs[r].pc = "write" /\ disappearing' \in BOOLEAN
      /\ UNCHANGED <<active, unread, receipts, locked, pending, toPurge, fresh, faults>>
    BY DEF SetTimer, locks
<1>3. /\ rs' \in [Requests -> RequestStates] /\ \A q \in Requests \ {r} : rs'[q] = rs[q]
      /\ rs'[r].pc = "done" /\ rs'[r].op = rs[r].op
      /\ rs'[r].msg = m /\ rs'[r].after = rs[r].after
    BY <1>1, MessageFields
<1>4. \A q \in Requests \ {r} : Posts(q) => rs[q].msg # m
    BY <1>1 DEF Shape, ShapeOf
<1>5. Shape' /\ OwnMessages' /\ LastNotOvertaken' /\ Sent' = Sent \cup {m}
    BY <1>1, <1>2, <1>3, <1>4, PostKeeps DEF Posts
<1>6. TypeOK'
  <2>1. msgs' \in [Ids -> {"none", "inserted", "sent", "undone"}] /\ last' \in Ids \cup {NoId}
    BY <1>1 DEF TypeOK
  <2> QED
    BY <1>2, <1>3, <2>1 DEF TypeOK
<1>7. Locks'
    BY <1>2, <1>3 DEF Locks
<1>8. FreshSent' /\ CountersExact'
    BY <1>2, <1>5 DEF FreshSent, CountersExact
<1> QED
    BY <1>5, <1>6, <1>7, <1>8

LEMMA FailKeeps ==
    ASSUME IInv, NEW r \in Requests, Fail(r)
    PROVE  IInv'
<1> USE DEF IInv
<1>1. /\ rs[r].pc \notin {"free", "done", "failed"} /\ Goto(r, "failed")
      /\ faults < MaxFaults /\ faults' = faults + 1
      /\ msgs' = IF InTransaction(r) THEN [msgs EXCEPT ![rs[r].msg] = "undone"] ELSE msgs
      /\ UNCHANGED <<active, last, disappearing, unread, receipts, toPurge, fresh>>
    BY DEF Fail, InFlight, InTransaction
<1>2. /\ locked = r => locked' = NoRequest /\ pending' = NoRows
      /\ locked # r => UNCHANGED <<locked, pending>>
    BY DEF Fail, locks
<1>3. /\ rs' \in [Requests -> RequestStates] /\ \A q \in Requests \ {r} : rs'[q] = rs[q]
      /\ rs'[r].pc = "failed" /\ rs'[r].op = rs[r].op
      /\ rs'[r].msg = rs[r].msg /\ rs'[r].after = rs[r].after
    BY <1>1, GotoFields
<1>4. InTransaction(r) => rs[r].op = "send" /\ rs[r].msg \in Ids /\ msgs[rs[r].msg] = "inserted"
    BY DEF Shape, ShapeOf
<1>5. \A k \in Ids : msgs'[k] = IF InTransaction(r) /\ k = rs[r].msg THEN "undone" ELSE msgs[k]
    BY <1>1 DEF TypeOK
<1>6. msgs' \in [Ids -> {"none", "inserted", "sent", "undone"}]
    BY <1>1 DEF TypeOK
<1>7. Sent' = Sent
    BY <1>4, <1>5 DEF Sent
<1>8. \A q \in Requests : Posted(q)' <=> Posted(q)
    BY <1>3, <1>7 DEF Posted
<1>9. ~Posted(r) /\ Answered \subseteq Answered'
    BY <1>1, <1>3, AnsweredLasts DEF Shape, ShapeOf
<1>10. DOMAIN NoRows = {} /\ NoRows \in [{} -> Nat] /\ NoRequest \notin Requests
    BY BoundsAssumption DEF NoRows, NoRequest, Requests
<1>11. TypeOK'
  <2>1. faults' \in 0 .. MaxFaults
    BY <1>1, BoundsAssumption DEF TypeOK
  <2>2. locked' \in Requests \cup {NoRequest} /\ DOMAIN pending' \subseteq Users
        /\ pending' \in [DOMAIN pending' -> Nat]
    BY <1>2, <1>10 DEF TypeOK
  <2> QED
    BY <1>1, <1>3, <1>6, <2>1, <2>2 DEF TypeOK
<1>12. Shape'
  <2>1. ShapeOf(r)'
    BY <1>3, <1>4, <1>5, <1>8, <1>9 DEF Shape, ShapeOf, Posts, InTransaction
  <2>2. ASSUME NEW q \in Requests \ {r}
        PROVE  ShapeOf(q)'
    <3>1. InTransaction(r) /\ (Posts(q) \/ InTransaction(q)) => rs[q].msg # rs[r].msg
      BY <1>4 DEF OwnMessages, Posts, Shape, ShapeOf
    <3> QED
      BY <1>3, <1>5, <1>8, <1>9, <3>1 DEF Shape, ShapeOf, Posts, InTransaction
  <2> QED
    BY <2>1, <2>2 DEF Shape
<1>13. OwnMessages'
    BY <1>3 DEF OwnMessages, Posts
<1>14. Locks'
  <2>1. CASE locked = r
    <3>1. \A q \in Requests \ {r} : rs[q].pc \notin {"members", "commit"}
      BY <2>1 DEF Locks
    <3> QED
      BY <1>2, <1>3, <1>10, <2>1, <3>1 DEF Locks
  <2>2. CASE locked # r
    <3>1. rs[r].pc \notin {"members", "commit"}
      BY <2>2 DEF Locks
    <3> QED
      BY <1>1, <1>2, <1>3, <2>2, <3>1 DEF Locks
  <2> QED
    BY <2>1, <2>2
<1>15. FreshSent' /\ CountersExact'
    BY <1>1, <1>7 DEF FreshSent, CountersExact
<1>16. LastNotOvertaken'
    BY <1>1, <1>3, <1>8, LastKept
<1> QED
    BY <1>11, <1>12, <1>13, <1>14, <1>15, <1>16

\* A member leaves or is added, or nothing happens.
LEMMA MembersKeep ==
    ASSUME IInv, (\E u \in Users : Leave(u) \/ Join(u)) \/ UNCHANGED vars
    PROVE  IInv'
<1> USE DEF IInv
<1>1. /\ active' \subseteq Users
      /\ UNCHANGED <<msgs, last, disappearing, unread, receipts, locked, pending, toPurge, rs, fresh,
                     faults>>
    BY DEF Leave, Join, vars, rows, locks, TypeOK
<1>2. TypeOK'
    BY <1>1 DEF TypeOK
<1>3. Answered' = Answered /\ Sent' = Sent /\ \A q \in Requests : Posted(q)' <=> Posted(q)
    BY <1>1 DEF Answered, Sent, Posted
<1>4. Shape' /\ OwnMessages'
    BY <1>1, <1>3 DEF Shape, ShapeOf, Posts, InTransaction, OwnMessages
<1>5. Locks'
    BY <1>1 DEF Locks
<1>6. FreshSent' /\ CountersExact'
    BY <1>1, <1>3 DEF FreshSent, CountersExact
<1>7. LastNotOvertaken'
    BY <1>1, <1>3, LastKept
<1> QED
    BY <1>2, <1>4, <1>5, <1>6, <1>7

LEMMA InvNext == IInv /\ [Next]_vars => IInv'
<1> SUFFICES ASSUME IInv, [Next]_vars
             PROVE  IInv'
    OBVIOUS
<1>1. ASSUME NEW r \in Requests, NEW u \in Users,
             BeginSend(r, u) \/ BeginTimer(r, u) \/ BeginMark(r, u)
      PROVE  IInv'
    BY <1>1, BeginKeeps DEF BeginSend, BeginTimer, BeginMark, Ops
<1>2. ASSUME NEW r \in Requests, NEW u \in Users, NEW m \in Ids, BeginReceipt(r, u, m)
      PROVE  IInv'
    BY <1>2, BeginKeeps DEF BeginReceipt, Ops
<1>3. ASSUME NEW r \in Requests, Steps(r)
      PROVE  IInv'
    BY <1>3, InsertKeeps, LockKeeps, CountKeeps, CommitKeeps, TimerKeeps, WriteKeeps DEF Steps
<1> QED
    BY <1>1, <1>2, <1>3, FailKeeps, MembersKeep DEF Next

\* The conjuncts of IInv hold in every state of Spec.
THEOREM Invariant == Spec => []IInv
    BY InvInit, InvNext, PTL DEF Spec

-----------------------------------------------------------------------------
(* What follows from it.                                                   *)

\* The rows of a conversation, its members and its receipts keep their types;
\* a counter is never negative (prisma/schema/conversation.prisma).
THEOREM TypeCorrect == Spec => []TypeOK
<1>1. IInv => TypeOK
    BY DEF IInv
<1> QED
    BY <1>1, Invariant, PTL

\* No increment of an unread counter is lost, counted twice or left over, for
\* any number of messages, resets and rollbacks at a time
\* (message.service.ts:246-267, 760-766, chat.service.ts:859-862).
THEOREM UnreadExact == Spec => []CountersExact
<1>1. IInv => CountersExact
    BY DEF IInv
<1> QED
    BY <1>1, Invariant, PTL

\* The conversation's last message is none that was answered before the
\* request of another began, in whatever order the transactions lock the row
\* (message.service.ts:237-243, chat.service.ts:941-947).
THEOREM LastIsRecent == Spec => []LastNotOvertaken
<1>1. IInv => LastNotOvertaken
    BY DEF IInv
<1> QED
    BY <1>1, Invariant, PTL

-----------------------------------------------------------------------------
(* The conversation as its members see it.                                 *)

\* A request that has begun is some user's.
Authored == \A r \in Requests : rs[r].pc # "free" => rs[r].user \in Users

LEMMA AuthoredInit == Init => Authored
<1> SUFFICES ASSUME Init, NEW r \in Requests PROVE rs[r].pc = "free"
    BY DEF Authored
<1> QED
    BY DEF Init

LEMMA AuthoredNext == IInv /\ Authored /\ [Next]_vars => Authored'
<1> SUFFICES ASSUME IInv, Authored, [Next]_vars PROVE Authored'
    OBVIOUS
<1> USE DEF IInv
<1>1. ASSUME NEW r \in Requests, NEW op, NEW u \in Users, NEW m, NEW pc, Begin(r, op, u, m, pc)
      PROVE  Authored'
  <2> DEFINE x == [pc |-> pc, op |-> op, user |-> u, msg |-> m,
                   expires |-> disappearing, after |-> Answered]
  <2>1. rs' = [rs EXCEPT ![r] = x] /\ x.user = u
    BY <1>1 DEF Begin
  <2> HIDE DEF x
  <2>2. rs'[r] = x /\ \A q \in Requests \ {r} : rs'[q] = rs[q]
    BY <2>1 DEF TypeOK
  <2> QED
    BY <2>1, <2>2 DEF Authored
<1>2. ASSUME NEW r \in Requests, NEW u \in Users,
             \/ BeginSend(r, u) \/ BeginTimer(r, u) \/ BeginMark(r, u)
             \/ \E m \in Ids : BeginReceipt(r, u, m)
      PROVE  Authored'
    BY <1>1, <1>2 DEF BeginSend, BeginTimer, BeginMark, BeginReceipt
<1>3. ASSUME NEW r \in Requests, Insert(r) \/ SetTimer(r) PROVE Authored'
  <2>1. PICK m \in Ids, pc \in {"conversation", "done"} :
            rs' = [rs EXCEPT ![r].pc = pc, ![r].msg = m]
    BY <1>3 DEF Insert, SetTimer
  <2>2. (\A q \in Requests \ {r} : rs'[q] = rs[q]) /\ rs'[r].user = rs[r].user
    BY <2>1, MessageFields
  <2>3. rs[r].pc # "free"
    BY <1>3 DEF Insert, SetTimer
  <2> QED
    BY <2>2, <2>3 DEF Authored
<1>4. ASSUME NEW r \in Requests,
             \/ LockConversation(r) \/ CountMembers(r) \/ Commit(r)
             \/ Deliver(r) \/ Read(r) \/ Mark(r) \/ Fail(r)
      PROVE  Authored'
  <2>1. rs[r].pc # "free" /\ \E pc \in {"members", "commit", "done", "failed"} : Goto(r, pc)
    BY <1>4 DEF LockConversation, CountMembers, Commit, Deliver, Read, Mark, Write, Fail, InFlight
  <2>2. (\A q \in Requests \ {r} : rs'[q] = rs[q]) /\ rs'[r].user = rs[r].user
    BY <2>1, GotoFields
  <2> QED
    BY <2>1, <2>2 DEF Authored
<1>5. CASE UNCHANGED vars \/ \E u \in Users : Leave(u) \/ Join(u)
  <2>1. UNCHANGED rs
    BY <1>5 DEF vars, Leave, Join
  <2> QED
    BY <2>1 DEF Authored
<1> QED
    BY <1>2, <1>3, <1>4, <1>5 DEF Next, Steps

\* A message is on its way to its readers when a transaction is about to commit it.
LEMMA CountingIs ==
    ASSUME IInv
    PROVE  /\ Counting <=> \E r \in Requests : rs[r].pc = "commit"
           /\ ~Counting => DOMAIN pending = {}
<1> NoRequest \notin Requests
    BY DEF NoRequest, Requests
<1> QED
    BY DEF IInv, TypeOK, Locks, Counting

LEMMA BoxInit == Init => Box!Init
<1> SUFFICES ASSUME Init PROVE Box!Init
    OBVIOUS
<1>1. Sent = {} /\ DOMAIN pending = {} /\ ~Counting
    BY DEF Init, Sent, NoRows, Counting
<1> QED
    BY <1>1 DEF Init, Box!Init

\* A step that moves one request on, neither to the commit nor from it.
LEMMA UnaddressedKept ==
    ASSUME TypeOK, NEW r \in Requests, \A q \in Requests \ {r} : rs'[q] = rs[q],
           rs[r].pc # "commit", rs'[r].pc # "commit", UNCHANGED locks
    PROVE  Counting' = Counting /\ DOMAIN pending' = DOMAIN pending
    BY DEF Counting, TypeOK, locks

LEMMA CountAddresses ==
    ASSUME IInv, Authored, NEW r \in Requests, CountMembers(r)
    PROVE  Box!Next
<1> USE DEF IInv
<1>1. /\ rs[r].pc = "members" /\ Goto(r, "commit") /\ rs[r].user \in Users
      /\ DOMAIN pending' = active \ {rs[r].user}
      /\ UNCHANGED <<active, msgs, last, unread, locked>>
    BY DEF CountMembers, rows, Authored
<1>2. rs'[r].pc = "commit"
    BY <1>1, GotoFields
<1>3. locked = r /\ r # NoRequest
    BY <1>1 DEF Locks, NoRequest, Requests
<1>4. ~Counting /\ Counting'
    BY <1>1, <1>2, <1>3 DEF Counting
<1> QED
    BY <1>1, <1>4 DEF Box!Next, Box!Address, Sent

\* The commit counts the message for each of those it is addressed to.
LEMMA CommitPosts ==
    ASSUME IInv, Authored, NEW r \in Requests, Commit(r)
    PROVE  Box!Next
<1> USE DEF IInv
<1> DEFINE m == rs[r].msg
           own == active \cap {rs[r].user}
<1>1. /\ rs[r].pc = "commit" /\ Goto(r, "done")
      /\ msgs' = [msgs EXCEPT ![m] = "sent"] /\ last' = m /\ UNCHANGED active
      /\ unread' = [u \in Users |-> CASE u \in own -> 0
                                      [] u \in DOMAIN pending -> pending[u]
                                      [] OTHER -> unread[u]]
      /\ locked' = NoRequest /\ pending' = NoRows
    BY DEF Commit
<1>2. m \in Ids /\ msgs[m] = "inserted" /\ rs[r].user \in Users
    BY <1>1 DEF Shape, ShapeOf, InTransaction, Authored
<1>3. rs[r].user \notin DOMAIN pending /\ \A u \in DOMAIN pending : pending[u] = unread[u] + 1
    BY <1>1 DEF Locks
<1>4. m \notin Sent /\ Sent' = Sent \cup {m}
    BY <1>1, <1>2 DEF Sent, TypeOK
<1>5. Counting /\ ~Counting' /\ DOMAIN pending' = {}
    BY <1>1, CountingIs DEF Counting, NoRows
<1> HIDE DEF m
<1>6. own \cap DOMAIN pending = {} /\ \A u \in Users : u \in own <=> u \in active /\ u = rs[r].user
    BY <1>3
<1> HIDE DEF own
<1>7. ASSUME NEW u \in Users
      PROVE  unread'[u] = IF u \in active /\ u = rs[r].user THEN 0
                          ELSE IF u \in DOMAIN pending THEN unread[u] + 1 ELSE unread[u]
  <2>1. CASE u \in own
    BY <1>1, <1>6, <2>1
  <2>2. CASE u \notin own /\ u \in DOMAIN pending
    BY <1>1, <1>3, <1>6, <2>2
  <2>3. CASE u \notin own /\ u \notin DOMAIN pending
    BY <1>1, <1>3, <1>6, <2>3
  <2> QED
    BY <2>1, <2>2, <2>3
<1>8. unread' = [u \in Users |-> IF u \in active /\ u = rs[r].user THEN 0
                                 ELSE IF u \in DOMAIN pending THEN unread[u] + 1 ELSE unread[u]]
    BY <1>1, <1>7
<1> QED
    BY <1>1, <1>2, <1>3, <1>4, <1>5, <1>8 DEF Box!Next, Box!Post, Box!Appear, Box!Ended

LEMMA TimerNotifies ==
    ASSUME IInv, NEW r \in Requests, SetTimer(r)
    PROVE  Box!Next
<1>1. PICK m \in Ids :
          /\ msgs[m] = "none" /\ msgs' = [msgs EXCEPT ![m] = "sent"] /\ last' = m
          /\ rs' = [rs EXCEPT ![r].pc = "done", ![r].msg = m]
    BY DEF SetTimer, Created
<1>2. rs[r].pc = "write" /\ UNCHANGED <<active, unread, locks>>
    BY DEF SetTimer
<1>3. m \notin Sent /\ Sent' = Sent \cup {m}
    BY <1>1 DEF Sent, IInv, TypeOK
<1>4. rs'[r].pc = "done" /\ \A q \in Requests \ {r} : rs'[q] = rs[q]
    BY <1>1, MessageFields DEF IInv
<1>5. Counting' = Counting /\ DOMAIN pending' = DOMAIN pending
    BY <1>2, <1>4, UnaddressedKept DEF IInv
<1> QED
    BY <1>1, <1>2, <1>3, <1>5 DEF Box!Next, Box!Notice, Box!Appear

\* A receipt moves a request from its write to its end.
LEMMA WriteUnaddressed ==
    ASSUME IInv, NEW r \in Requests, rs[r].pc = "write", Goto(r, "done"), UNCHANGED locks
    PROVE  Counting' = Counting /\ DOMAIN pending' = DOMAIN pending
<1>1. rs'[r].pc = "done" /\ \A q \in Requests \ {r} : rs'[q] = rs[q]
    BY GotoFields DEF IInv
<1> QED
    BY <1>1, UnaddressedKept DEF IInv

LEMMA ResetSees ==
    ASSUME IInv, Authored, NEW r \in Requests, Read(r) \/ Mark(r)
    PROVE  Box!Next
<1>1. /\ rs[r].pc = "write" /\ Goto(r, "done") /\ UNCHANGED locks
      /\ rs[r].user \in Users /\ unread' = [unread EXCEPT ![rs[r].user] = 0]
      /\ UNCHANGED <<active, msgs, last>>
    BY DEF Read, Mark, Write, Reset, Authored
<1> QED
    BY <1>1, WriteUnaddressed DEF Box!Next, Box!See, Sent

\* What is undone was not there for anybody.
LEMMA FailUnseen ==
    ASSUME IInv, NEW r \in Requests, Fail(r)
    PROVE  Box!Next \/ UNCHANGED Box!vars
<1> USE DEF IInv
<1>1. /\ msgs' = IF InTransaction(r) THEN [msgs EXCEPT ![rs[r].msg] = "undone"] ELSE msgs
      /\ Goto(r, "failed") /\ UNCHANGED <<active, last, unread>>
    BY DEF Fail, InTransaction
<1>2. InTransaction(r) => rs[r].msg \in Ids /\ msgs[rs[r].msg] = "inserted"
    BY DEF Shape, ShapeOf
<1>3. Sent' = Sent
    BY <1>1, <1>2 DEF Sent, TypeOK
<1>4. rs'[r].pc = "failed" /\ \A q \in Requests \ {r} : rs'[q] = rs[q]
    BY <1>1, GotoFields
<1>5. CASE locked = r
  <2>1. locked' = NoRequest /\ pending' = NoRows
    BY <1>5 DEF Fail
  <2>2. ~Counting' /\ DOMAIN pending' = {}
    BY <2>1 DEF Counting, NoRows
  <2>3. CASE Counting
    BY <1>1, <1>3, <2>2, <2>3 DEF Box!Next, Box!Cancel, Box!Ended
  <2>4. CASE ~Counting
    <3>1. DOMAIN pending = {} /\ Counting' = Counting
      BY <2>2, <2>4, CountingIs DEF Counting
    <3> QED
      BY <1>1, <1>3, <2>2, <3>1 DEF Box!vars
  <2> QED
    BY <2>3, <2>4
<1>6. CASE locked # r
  <2>1. UNCHANGED locks /\ rs[r].pc # "commit"
    BY <1>6 DEF Fail, Locks
  <2>2. Counting' = Counting /\ DOMAIN pending' = DOMAIN pending
    BY <1>4, <2>1, UnaddressedKept
  <2> QED
    BY <1>1, <1>3, <2>2 DEF Box!vars
<1> QED
    BY <1>5, <1>6

\* What nobody in the conversation sees.
LEMMA BeginUnseen ==
    ASSUME IInv, NEW r \in Requests, NEW op, NEW u, NEW m, NEW pc \in {"insert", "write"},
           Begin(r, op, u, m, pc)
    PROVE  UNCHANGED Box!vars
<1> DEFINE x == [pc |-> pc, op |-> op, user |-> u, msg |-> m,
                 expires |-> disappearing, after |-> Answered]
<1>1. /\ rs[r].pc = "free" /\ rs' = [rs EXCEPT ![r] = x] /\ x.pc = pc
      /\ UNCHANGED <<active, msgs, last, unread, locks>>
    BY DEF Begin, rows
<1> HIDE DEF x
<1>2. rs'[r].pc = pc /\ \A q \in Requests \ {r} : rs'[q] = rs[q]
    BY <1>1 DEF IInv, TypeOK
<1>3. Counting' = Counting /\ DOMAIN pending' = DOMAIN pending
    BY <1>1, <1>2, UnaddressedKept DEF IInv
<1> QED
    BY <1>1, <1>3 DEF Box!vars, Sent

LEMMA LockUnseen ==
    ASSUME IInv, NEW r \in Requests, LockConversation(r)
    PROVE  UNCHANGED Box!vars
<1>1. /\ locked = NoRequest /\ locked' = r /\ Goto(r, "members")
      /\ UNCHANGED <<active, msgs, last, unread, pending>>
    BY DEF LockConversation, rows
<1>2. rs'[r].pc = "members"
    BY <1>1, GotoFields DEF IInv
<1>3. Counting' = Counting /\ DOMAIN pending' = DOMAIN pending
    BY <1>1, <1>2 DEF Counting
<1> QED
    BY <1>1, <1>3 DEF Box!vars, Sent

LEMMA InsertUnseen ==
    ASSUME IInv, NEW r \in Requests, Insert(r)
    PROVE  UNCHANGED Box!vars
<1>1. PICK m \in Ids : /\ msgs[m] = "none" /\ msgs' = [msgs EXCEPT ![m] = "inserted"]
                       /\ rs' = [rs EXCEPT ![r].pc = "conversation", ![r].msg = m]
    BY DEF Insert, Created
<1>2. rs[r].pc = "insert" /\ UNCHANGED <<active, last, unread, locks>>
    BY DEF Insert
<1>3. Sent' = Sent
    BY <1>1 DEF Sent, IInv, TypeOK
<1>4. rs'[r].pc = "conversation" /\ \A q \in Requests \ {r} : rs'[q] = rs[q]
    BY <1>1, MessageFields DEF IInv
<1>5. Counting' = Counting /\ DOMAIN pending' = DOMAIN pending
    BY <1>2, <1>4, UnaddressedKept DEF IInv
<1> QED
    BY <1>2, <1>3, <1>5 DEF Box!vars

LEMMA DeliverUnseen ==
    ASSUME IInv, NEW r \in Requests, Deliver(r)
    PROVE  UNCHANGED Box!vars
<1>1. /\ rs[r].pc = "write" /\ Goto(r, "done")
      /\ UNCHANGED <<active, msgs, last, unread, locks>>
    BY DEF Deliver, Write
<1> QED
    BY <1>1, WriteUnaddressed DEF Box!vars, Sent

\* Nobody who is counted leaves before the commit; one who is added is not counted.
LEMMA MembersChange ==
    ASSUME NEW u \in Users, Leave(u) \/ Join(u)
    PROVE  Box!Next
<1>1. UNCHANGED <<msgs, last, unread, locked, pending, rs>>
    BY DEF Leave, Join, locks
<1>2. Sent' = Sent /\ Counting' = Counting
    BY <1>1 DEF Sent, Counting
<1>3. CASE Leave(u)
    BY <1>1, <1>2, <1>3 DEF Leave, Free, Box!Next, Box!Leave
<1>4. CASE Join(u)
    BY <1>1, <1>2, <1>4 DEF Join, Box!Next, Box!Join
<1> QED
    BY <1>3, <1>4

LEMMA BoxNext == IInv /\ Authored /\ [Next]_vars => [Box!Next]_Box!vars
<1> SUFFICES ASSUME IInv, Authored, [Next]_vars PROVE Box!Next \/ UNCHANGED Box!vars
    OBVIOUS
<1>1. ASSUME NEW r \in Requests, NEW u \in Users,
             \/ BeginSend(r, u) \/ BeginTimer(r, u) \/ BeginMark(r, u)
             \/ \E m \in Ids : BeginReceipt(r, u, m)
      PROVE  UNCHANGED Box!vars
    BY <1>1, BeginUnseen DEF BeginSend, BeginTimer, BeginMark, BeginReceipt
<1>2. ASSUME NEW r \in Requests, Steps(r) PROVE Box!Next \/ UNCHANGED Box!vars
    BY <1>2, InsertUnseen, LockUnseen, CountAddresses, CommitPosts, TimerNotifies,
       DeliverUnseen, ResetSees DEF Steps
<1>3. CASE UNCHANGED vars
  <2>1. UNCHANGED <<active, msgs, last, unread, locked, pending, rs>>
    BY <1>3 DEF vars, rows, locks
  <2> QED
    BY <2>1 DEF Box!vars, Sent, Counting
<1> QED
    BY <1>1, <1>2, <1>3, FailUnseen, MembersChange DEF Next

\* A message is addressed to those who are in the conversation at one moment; then
\* none of them gets away until it is there, is the newest and is counted once for
\* each of them and for nobody else, all at one stroke, or it is undone.  So for any
\* number of messages, resets, departures, additions and rollbacks at a time
\* (message.service.ts:188-270, 760-766, chat.service.ts:571-592, 859-862, 926-949).
THEOREM InboxRefinement == Spec => ImplementsInbox
<1>1. Init => IInv /\ Authored /\ Box!Init
    BY InvInit, AuthoredInit, BoxInit
<1>2. IInv /\ Authored /\ [Next]_vars => IInv' /\ Authored' /\ [Box!Next]_Box!vars
    BY InvNext, AuthoredNext, BoxNext
<1> QED
    BY <1>1, <1>2, PTL DEF Spec, Box!Spec, ImplementsInbox

-----------------------------------------------------------------------------
(* Lists read page by page.                                                *)

\* Rows that were there all the time.
Stayers == start \ (private \cup left \cup moved)

Got(i) == i \in seen \/ (i \in doubles /\ doubles \cap seen # {})

\* What excuses that a row came twice.
Excused(i) ==
    /\ list # "messages"
    /\ \/ i \in moved
       \/ \E c \in cuts : c[1] \in moved
       \/ Cut(i)
       \/ list = "conversations" /\ came # {}

\* The client is between two pages.
Reading == page > 0 /\ ~finished

ListShape ==
    /\ page = 0 =>
        /\ seen = {} /\ again = {} /\ cuts = {} /\ ~finished /\ ~lost
        /\ start = {} /\ left = {} /\ came = {} /\ moved = {} /\ back = {}
    /\ list # "feed" => private = {}
    /\ list \notin {"viewers", "conversations"} => moved = {}
    /\ list # "conversations" /\ Reading => cursor \in Existing
    /\ list = "conversations" => \A i, j \in Existing : i # j => at[i] # at[j]
    /\ list = "conversations" => cuts = {} /\ ~lost
    /\ doubles \in SUBSET Rows
    /\ start \ left \subseteq Selected
    /\ seen \subseteq Existing

\* What stays and was not seen is still to come: it is not later than the cursor.
Ahead ==
    list # "conversations" /\ Reading =>
        /\ list \in {"messages", "calls"} => cursor \in seen
        /\ \A i \in Stayers :
              i \in seen \/ Cut(i) \/ lost \/ Slipped \/ cursor \in back \/ at[i] <= at[cursor]

\* What was seen does not come again: it is not earlier than the cursor.
Behind ==
    list # "conversations" /\ Reading =>
        \A i \in seen :
            \/ Excused(i)
            \/ list # "messages" /\ cursor \in moved
            \/ at[i] >= at[cursor] /\ (i = cursor => list \in {"messages", "calls"})

\* The same for offsets: as long as nothing leaves or goes back, what stays and
\* was not seen has a whole page before it for every page read; as long as nothing comes, what
\* was seen is among so many.
Above(i) == {j \in Selected : at[j] > at[i]}
Upto(i) == {j \in Selected : at[j] >= at[i]}

AheadOfOffset ==
    list = "conversations" /\ ~finished /\ left \cup back = {} =>
        \A i \in Stayers : Got(i) \/ Cardinality(Above(i)) >= page * Limit

BehindOffset ==
    list = "conversations" /\ came = {} =>
        \A i \in seen \cap Selected : Cardinality(Upto(i)) <= page * Limit

PagingInv ==
    /\ PagingTypeOK /\ ListShape
    /\ Ahead /\ Behind /\ AheadOfOffset /\ BehindOffset
    /\ NothingSkipped /\ NothingTwice
-----------------------------------------------------------------------------
(* Pages.                                                                  *)

LEMMA SubFinite ==
    ASSUME NEW S \in SUBSET Rows
    PROVE  IsFiniteSet(S) /\ Cardinality(S) \in Nat
<1>1. IsFiniteSet(Rows)
    BY PagingBounds, FS_Interval DEF Rows
<1> QED
    BY <1>1, FS_Subset, FS_CardinalityType

\* A page is full or holds all rows, and no other row is later than one of it.
LEMMA LatestRows ==
    ASSUME NEW S \in SUBSET Rows, NEW n \in Nat, NEW P \in Latest(S, n)
    PROVE  /\ P \in SUBSET S
           /\ Cardinality(P) \in Nat /\ Cardinality(P) <= n
           /\ Cardinality(P) < n => P = S
           /\ P = {} /\ n > 0 => S = {}
           /\ \A i \in P, j \in S \ P : at[i] >= at[j]
<1>1. /\ P \in SUBSET S
      /\ Cardinality(P) = IF Cardinality(S) < n THEN Cardinality(S) ELSE n
      /\ \A i \in P, j \in S \ P : at[i] >= at[j]
    BY DEF Latest
<1>2. Cardinality(P) \in Nat /\ Cardinality(S) \in Nat /\ IsFiniteSet(S)
    BY <1>1, SubFinite
<1>3. Cardinality(P) < n => P = S
    BY <1>1, <1>2, FS_Subset
<1>4. P = {} => Cardinality(P) = 0
    BY FS_EmptySet
<1> QED
    BY <1>1, <1>2, <1>3, <1>4

\* A page shows the rows of S up to the new cursor, or all of them.
LEMMA PageCuts ==
    ASSUME NEW S \in SUBSET Rows, at \in [Rows -> 0 .. 2 * MaxTime], PageOf(S)
    PROVE  \E shown \in SUBSET S :
             /\ Get(shown \ private)
             /\ \/ shown = S /\ cursor' = 0 /\ finished' = TRUE
                \/ /\ cursor' \in S /\ finished' = FALSE
                   /\ \A i \in shown : at[i] >= at[cursor']
                   /\ \A i \in S \ shown : at[i] <= at[cursor']
                   /\ cursor' \in shown <=> list \notin {"feed", "viewers"}
<1>0. Limit + 1 \in Nat /\ Limit \in Nat
    BY LimitAssumption
<1>1. PICK P \in Latest(S, Limit + 1) :
        IF Cardinality(P) > Limit
        THEN \E extra \in P, final \in P :
               /\ Last(extra, P) /\ Last(final, P \ {extra})
               /\ cursor' = IF list \in {"feed", "viewers"} THEN extra ELSE final
               /\ finished' = FALSE
               /\ Get((P \ {extra}) \ private)
        ELSE cursor' = 0 /\ finished' = TRUE /\ Get(P \ private)
    BY DEF PageOf
<1>2. /\ P \in SUBSET S
      /\ Cardinality(P) \in Nat
      /\ Cardinality(P) < Limit + 1 => P = S
      /\ \A i \in P, j \in S \ P : at[i] >= at[j]
    BY <1>0, LatestRows
<1>3. CASE Cardinality(P) > Limit
  <2>1. PICK extra \in P, final \in P :
               /\ Last(extra, P) /\ Last(final, P \ {extra})
               /\ cursor' = IF list \in {"feed", "viewers"} THEN extra ELSE final
               /\ finished' = FALSE
               /\ Get((P \ {extra}) \ private)
    BY <1>1, <1>3
  <2> DEFINE shown == P \ {extra}
  <2>2. /\ \A j \in P : at[extra] <= at[j]
        /\ final \in shown
        /\ \A j \in shown : at[final] <= at[j]
    BY <2>1 DEF Last
  <2>3. \A i \in Rows : at[i] \in Int
    BY PagingBounds
  <2>4. \A i \in S \ shown : at[i] <= at[extra] /\ at[i] <= at[final]
    BY <1>2, <2>2, <2>3
  <2>5. /\ \A i \in shown : at[i] >= at[extra] /\ at[i] >= at[final]
        /\ extra \notin shown /\ extra \in S /\ final \in S
    BY <1>2, <2>2, <2>3
  <2>6. cursor' \in {extra, final} /\ (cursor' \in shown <=> list \notin {"feed", "viewers"})
    BY <2>1, <2>2
  <2> HIDE DEF shown
  <2>7. /\ \A i \in shown : at[i] >= at[cursor']
        /\ \A i \in S \ shown : at[i] <= at[cursor']
        /\ cursor' \in S
    <3>1. CASE cursor' = extra
      BY <3>1, <2>4, <2>5
    <3>2. CASE cursor' = final
      BY <3>2, <2>4, <2>5
    <3> QED
      BY <2>6, <3>1, <3>2
  <2>8. shown \in SUBSET S /\ Get(shown \ private) /\ finished' = FALSE
    BY <1>2, <2>1 DEF shown
  <2> QED
    BY <2>6, <2>7, <2>8
<1>4. CASE ~(Cardinality(P) > Limit)
  <2>1. P = S
    BY <1>0, <1>2, <1>4
  <2>2. cursor' = 0 /\ finished' = TRUE /\ Get(P \ private)
    BY <1>1, <1>4
  <2> QED
    BY <2>1, <2>2
<1> QED
    BY <1>3, <1>4

LEMMA Facts ==
    ASSUME PagingTypeOK
    PROVE  /\ Existing \in SUBSET Rows /\ Selected \in SUBSET Existing
           /\ \A i \in Rows : at[i] \in Nat /\ at[i] \in 0 .. 2 * MaxTime
           /\ list # "conversations" => \A i \in Existing : at[i] \in 1 .. MaxTime
           /\ 0 \notin Existing
    BY PagingBounds DEF PagingTypeOK, Silent, Existing, Selected, Rows

\* A step of the client that leaves the list alone.
LEMMA ExcusedStays ==
    ASSUME NEW i, Excused(i), cuts \subseteq cuts',
           UNCHANGED <<list, at, moved, came>>
    PROVE  Excused(i)'
    BY DEF Excused, Cut

\* What a page of the rows S keeps, if S has what must still come and nothing
\* that must not come again.
LEMMA PageKeeps ==
    ASSUME PagingInv, list # "conversations", ~finished,
           NEW S \in SUBSET Selected, PageOf(S),
           cuts' = cuts \/ (page > 0 /\ cuts' = cuts \cup {<<cursor, at[cursor]>>}),
           lost' \in BOOLEAN, page = 0 => UNCHANGED lost,
           \A i \in Stayers' : i \in seen \/ Cut(i)' \/ lost' \/ Slipped' \/ i \in S,
           \A i \in S \cap seen : Excused(i)',
           \A i \in seen : Excused(i)' \/ \A j \in S : at[i] >= at[j]
    PROVE  PagingInv'
<1> USE DEF PagingInv
<1>1. /\ Existing \in SUBSET Rows /\ Selected \in SUBSET Existing
      /\ \A i \in Rows : at[i] \in Nat
      /\ \A i \in Existing : at[i] \in 1 .. MaxTime
    BY Facts
<1>2. S \in SUBSET Rows /\ at \in [Rows -> 0 .. 2 * MaxTime]
    BY <1>1 DEF PagingTypeOK
<1>3. PICK shown \in SUBSET S :
        /\ Get(shown \ private)
        /\ \/ shown = S /\ cursor' = 0 /\ finished' = TRUE
           \/ /\ cursor' \in S /\ finished' = FALSE
              /\ \A i \in shown : at[i] >= at[cursor']
              /\ \A i \in S \ shown : at[i] <= at[cursor']
              /\ cursor' \in shown <=> list \notin {"feed", "viewers"}
    BY <1>2, PageCuts
<1>4. /\ UNCHANGED <<list, at, unselected, private, doubles, changes, left, came, moved, back>>
      /\ page' = 1
      /\ seen' = seen \cup (shown \ private)
      /\ again' = again \cup (seen \cap (shown \ private))
      /\ start' = IF page = 0 THEN Selected ELSE start
    BY <1>3 DEF Get, table
<1>5. Existing' = Existing /\ Selected' = Selected
    BY <1>4 DEF Existing, Selected
<1>6. cuts' \subseteq Rows \X (1 .. MaxTime) /\ cuts \subseteq cuts'
    BY <1>1 DEF PagingTypeOK, ListShape, Reading
<1>7. cursor' \in {0} \cup Rows /\ finished' \in BOOLEAN /\ (~finished' => cursor' \in Existing)
    BY <1>1, <1>3
<1>8. PagingTypeOK'
  <2>1. seen' \subseteq Rows \ private' /\ again' \subseteq seen'
    BY <1>1, <1>2, <1>4 DEF PagingTypeOK
  <2>2. start' \cup left' \cup moved' \subseteq Existing' /\ back' \subseteq moved' /\ moved' \subseteq came'
    BY <1>1, <1>4, <1>5 DEF PagingTypeOK
  <2>3. page' \in Nat
    BY <1>4
  <2> QED
    BY <1>4, <1>5, <1>6, <1>7, <2>1, <2>2, <2>3 DEF PagingTypeOK, Silent
<1>9. ListShape'
  <2>1. start' \ left' \subseteq Selected' /\ seen' \subseteq Existing'
    BY <1>1, <1>4, <1>5 DEF ListShape
  <2>2. list' # "conversations" /\ page' # 0
    BY <1>4
  <2> QED
    BY <1>4, <1>5, <1>7, <2>1, <2>2 DEF ListShape, Reading
<1>10. \A i \in Stayers' : i \in seen' \/ Cut(i)' \/ lost' \/ Slipped' \/ i \in S \ shown
    BY <1>4 DEF Stayers
<1>11. Ahead'
  <2>1. ASSUME ~finished', list' \in {"messages", "calls"} PROVE cursor' \in seen'
    <3>1. cursor' \in shown /\ private = {}
      BY <2>1, <1>3, <1>4 DEF ListShape
    <3> QED
      BY <3>1, <1>4
  <2> QED
    BY <1>3, <1>4, <1>10, <2>1 DEF Ahead, Reading
<1>12. NothingSkipped'
    BY <1>3, <1>10 DEF NothingSkipped, Stayers
<1>13. NothingTwice'
  <2>1. \A i \in again : Excused(i)'
    <3>1. \A i \in again : Excused(i)
      BY DEF NothingTwice, Excused
    <3> QED
      BY <3>1, <1>4, <1>6, ExcusedStays
  <2>2. \A i \in again' : Excused(i)'
    BY <1>4, <2>1
  <2> QED
    BY <2>2 DEF NothingTwice, Excused
<1>14. Behind'
  <2> SUFFICES ASSUME ~finished', NEW i \in seen', ~Excused(i)'
               PROVE  at'[i] >= at'[cursor'] /\ (i = cursor' => list' \in {"messages", "calls"})
    BY DEF Behind, Reading
  <2>0. list \in {"messages", "calls", "feed", "viewers"}
    BY DEF PagingTypeOK, Lists
  <2>1. CASE i \in seen
    <3>1. i \notin S /\ \A j \in S : at[i] >= at[j]
      BY <2>1
    <3> QED
      BY <1>3, <1>4, <3>1
  <2>2. CASE i \in shown
    BY <1>3, <1>4, <2>0, <2>2
  <2> QED
    BY <1>4, <2>1, <2>2
<1> QED
    BY <1>4, <1>8, <1>9, <1>11, <1>12, <1>13, <1>14 DEF AheadOfOffset, BehindOffset

LEMMA FirstPageKeeps ==
    ASSUME PagingInv, FirstPage
    PROVE  PagingInv'
<1> USE DEF PagingInv, FirstPage
<1>1. page = 0 /\ seen = {} /\ ~finished /\ lost \in BOOLEAN
    BY DEF ListShape, PagingTypeOK
<1>2. \A i \in Stayers' : i \in Selected
  <2>1. start' = Selected
    BY DEF PageOf, Get
  <2> QED
    BY <2>1 DEF Stayers
<1> QED
    BY <1>1, <1>2, PageKeeps

\* The page after the cursor: besides the earlier rows, some of the same time.
LEMMA NextPageKeeps ==
    ASSUME PagingInv, list # "conversations", NextPage,
           NEW S \in SUBSET Selected, PageOf(S), lost' \in BOOLEAN,
           lost' \/ (UNCHANGED lost /\ Older(cursor) \subseteq S),
           S \subseteq Older(cursor) \cup Tied(cursor) \cup {cursor},
           list \in {"feed", "viewers"} /\ ~lost' => cursor \in S,
           list = "messages" => S \subseteq Older(cursor),
           list = "calls" => cursor \notin S
    PROVE  PagingInv'
<1> USE DEF PagingInv
<1>1. /\ Existing \in SUBSET Rows /\ Selected \in SUBSET Existing
      /\ \A i \in Rows : at[i] \in Nat
    BY Facts
<1>2. /\ Reading /\ ~finished /\ cursor \in Existing
      /\ cuts' = cuts \cup {<<cursor, at[cursor]>>}
      /\ list \in {"messages", "calls", "feed", "viewers"}
    BY DEF NextPage, Reading, ListShape, PagingTypeOK, Lists
<1>3. UNCHANGED <<list, at, unselected, private, left, moved, came, back>> /\ start' = start
  <2>1. S \in SUBSET Rows /\ at \in [Rows -> 0 .. 2 * MaxTime] /\ page > 0 /\ page # 0
    BY <1>1, <1>2 DEF PagingTypeOK, Reading
  <2>2. PICK shown \in SUBSET S : Get(shown \ private)
    BY <2>1, PageCuts
  <2> QED
    BY <2>1, <2>2 DEF Get, table
<1>0. PICK c \in cuts' : c[1] = cursor /\ c[2] = at[cursor]
  <2>1. <<cursor, at[cursor]>> \in cuts'
    BY <1>2
  <2> QED
    BY <2>1
<1>4. \A i : at[i] = at[cursor] /\ i # cursor => Cut(i)'
    BY <1>0, <1>3 DEF Cut
<1>5. \A i : Cut(i) => Cut(i)'
    BY <1>2, <1>3 DEF Cut
<1>6. ASSUME NEW i \in Stayers' PROVE i \in seen \/ Cut(i)' \/ lost' \/ Slipped' \/ i \in S
  <2> SUFFICES ASSUME i \notin seen, ~Cut(i)', ~lost', ~Slipped' PROVE i \in S
    OBVIOUS
  <2>1. i \in Stayers /\ i \in Selected /\ ~lost
    BY <1>3 DEF Stayers, ListShape
  <2>2. at[i] <= at[cursor] /\ (list \in {"messages", "calls"} => i # cursor)
    <3>1. ~Slipped /\ cursor \notin back
      BY <1>0, <1>2, <1>3 DEF Slipped
    <3> QED
      BY <1>2, <1>5, <2>1, <3>1 DEF Ahead
  <2>3. CASE at[i] < at[cursor]
    BY <2>1, <2>3 DEF Older
  <2>4. CASE at[i] = at[cursor]
    BY <1>2, <1>4, <2>2, <2>4
  <2> QED
    BY <1>1, <1>2, <2>1, <2>2, <2>3, <2>4
<1>7. ASSUME NEW i \in seen, ~Excused(i)'
      PROVE  i \notin S /\ \A j \in S : at[i] >= at[j]
  <2>1. ~Excused(i)
    BY <1>2, <1>3, <1>7, ExcusedStays
  <2>2. list # "messages" => cursor \notin moved
    BY <1>0, <1>3, <1>7 DEF Excused
  <2>3. at[i] >= at[cursor] /\ (i = cursor => list \in {"messages", "calls"})
    BY <1>2, <2>1, <2>2 DEF Behind
  <2>4. \A j \in S : at[j] <= at[cursor]
    BY <1>1, <1>2 DEF Older, Tied
  <2>5. \A j \in S : at[i] >= at[j]
    BY <1>1, <1>2, <2>3, <2>4 DEF ListShape
  <2>6. i \notin S
    <3>1. CASE i = cursor
      <4>1. cursor \notin Older(cursor)
        BY <1>1, <1>2 DEF Older
      <4> QED
        BY <2>3, <3>1, <4>1
    <3>2. CASE i # cursor
      <4>1. i \notin Older(cursor)
        BY <1>1, <1>2, <2>3 DEF Older, ListShape
      <4>2. CASE list = "messages"
        BY <4>1, <4>2
      <4>3. CASE list # "messages"
        <5>1. i \notin Tied(cursor)
          BY <1>3, <1>4, <1>7, <3>2, <4>3 DEF Tied, Excused
        <5> QED
          BY <3>2, <4>1, <5>1
      <4> QED
        BY <4>2, <4>3
    <3> QED
      BY <3>1, <3>2
  <2> QED
    BY <2>5, <2>6
<1>8. page > 0 /\ page # 0
    BY <1>2 DEF Reading
<1>9. \A i \in Stayers' : i \in seen \/ Cut(i)' \/ lost' \/ Slipped' \/ i \in S
    BY <1>6
<1>10. \A i \in S \cap seen : Excused(i)'
    BY <1>7
<1>11. \A i \in seen : Excused(i)' \/ \A j \in S : at[i] >= at[j]
    BY <1>7
<1> QED
    BY <1>2, <1>8, <1>9, <1>10, <1>11, PageKeeps

LEMMA CursorPageKeeps ==
    ASSUME PagingInv, MessagesPage \/ CallsPage \/ StoriesPage \/ LostPage
    PROVE  PagingInv'
<1> USE DEF PagingInv
<1>1. /\ Older(cursor) \in SUBSET Selected /\ Tied(cursor) \in SUBSET Selected
      /\ cursor \notin Tied(cursor)
    BY DEF Older, Tied
<1>2. cursor \notin Older(cursor)
  <2>1. Existing \in SUBSET Rows /\ Selected \in SUBSET Existing /\ \A i \in Rows : at[i] \in Nat
    BY Facts
  <2> QED
    BY <2>1 DEF Older
<1>3. lost \in BOOLEAN
    BY DEF PagingTypeOK
<1>4. CASE MessagesPage
    BY <1>1, <1>3, <1>4, NextPageKeeps DEF MessagesPage
<1>5. CASE CallsPage
  <2>1. PICK T \in SUBSET Tied(cursor) : PageOf(Older(cursor) \cup T)
    BY <1>5 DEF CallsPage
  <2>2. list = "calls" /\ NextPage /\ UNCHANGED lost
    BY <1>5 DEF CallsPage
  <2>3. /\ Older(cursor) \cup T \in SUBSET Selected
        /\ Older(cursor) \cup T \subseteq Older(cursor) \cup Tied(cursor) \cup {cursor}
        /\ Older(cursor) \subseteq Older(cursor) \cup T
        /\ cursor \notin Older(cursor) \cup T
    BY <1>1, <1>2
  <2> QED
    BY <1>3, <2>1, <2>2, <2>3, NextPageKeeps
<1>6. CASE StoriesPage
  <2>1. PICK T \in SUBSET Tied(cursor) : PageOf({cursor} \cup Older(cursor) \cup T)
    BY <1>6 DEF StoriesPage
  <2>2. list \in {"feed", "viewers"} /\ NextPage /\ cursor \in Selected /\ UNCHANGED lost
    BY <1>6 DEF StoriesPage
  <2>3. /\ {cursor} \cup Older(cursor) \cup T \in SUBSET Selected
        /\ {cursor} \cup Older(cursor) \cup T
             \subseteq Older(cursor) \cup Tied(cursor) \cup {cursor}
        /\ Older(cursor) \subseteq {cursor} \cup Older(cursor) \cup T
        /\ cursor \in {cursor} \cup Older(cursor) \cup T
    BY <1>1, <2>2
  <2> QED
    BY <1>3, <2>1, <2>2, <2>3, NextPageKeeps
<1>7. CASE LostPage
  <2>1. PICK S \in {{}, Older(cursor)} : PageOf(S)
    BY <1>7 DEF LostPage
  <2>2. list \in {"calls", "feed", "viewers"} /\ NextPage /\ lost' = TRUE
    BY <1>7 DEF LostPage
  <2>3. /\ S \in SUBSET Selected
        /\ S \subseteq Older(cursor) \cup Tied(cursor) \cup {cursor}
        /\ cursor \notin S
    BY <1>1, <1>2
  <2> QED
    BY <2>1, <2>2, <2>3, NextPageKeeps
<1> QED
    BY <1>4, <1>5, <1>6, <1>7

\* No two conversations have the same time, so that the rows before a page are
\* those later than its own.
LEMMA SkippedRows ==
    ASSUME PagingInv, list = "conversations",
           NEW before \in Latest(Selected, page * Limit)
    PROVE  /\ \A i \in Stayers : left \cup back = {} /\ ~finished => Got(i) \/ i \notin before
           /\ \A i \in seen \cap Selected : came = {} => i \in before
<1> USE DEF PagingInv
<1>1. /\ Selected \in SUBSET Existing /\ Selected \in SUBSET Rows
      /\ \A i \in Rows : at[i] \in Nat
    BY Facts
<1>2. page * Limit \in Nat
    BY LimitAssumption DEF PagingTypeOK
<1>3. /\ before \in SUBSET Selected
      /\ Cardinality(before) \in Nat /\ Cardinality(before) <= page * Limit
      /\ Cardinality(before) < page * Limit => before = Selected
      /\ \A i \in before, j \in Selected \ before : at[i] >= at[j]
    BY <1>1, <1>2, LatestRows
<1>4. IsFiniteSet(before)
    BY <1>1, <1>3, SubFinite
<1>5. ASSUME NEW i \in Stayers, left \cup back = {}, ~finished, ~Got(i), i \in before PROVE FALSE
  <2>1. Cardinality(Above(i)) >= page * Limit
    BY <1>5 DEF AheadOfOffset
  <2>2. Above(i) \in SUBSET (before \ {i})
    BY <1>1, <1>3, <1>5 DEF Above
  <2>3. IsFiniteSet(before \ {i}) /\ Cardinality(before \ {i}) = Cardinality(before) - 1
    BY <1>4, <1>5, FS_RemoveElement
  <2>4. Cardinality(Above(i)) <= Cardinality(before \ {i}) /\ IsFiniteSet(Above(i))
    BY <2>2, <2>3, FS_Subset
  <2>5. Cardinality(Above(i)) \in Nat
    BY <2>4, FS_CardinalityType
  <2> QED
    BY <1>2, <1>3, <2>1, <2>3, <2>4, <2>5
<1>6. ASSUME NEW i \in seen \cap Selected, came = {}, i \notin before PROVE FALSE
  <2>1. Cardinality(Upto(i)) <= page * Limit
    BY <1>6 DEF BehindOffset
  <2>2. before \cup {i} \in SUBSET Upto(i) /\ Upto(i) \in SUBSET Rows
    BY <1>1, <1>3, <1>6 DEF Upto
  <2>3. Cardinality(before \cup {i}) = Cardinality(before) + 1
    BY <1>4, <1>6, FS_AddElement
  <2>4. IsFiniteSet(Upto(i)) /\ Cardinality(Upto(i)) \in Nat
    BY <2>2, SubFinite
  <2>5. Cardinality(before \cup {i}) <= Cardinality(Upto(i))
    BY <2>2, <2>4, FS_Subset
  <2>6. before # Selected
    BY <1>6
  <2> QED
    BY <1>2, <1>3, <2>1, <2>3, <2>4, <2>5, <2>6
<1> QED
    BY <1>5, <1>6

LEMMA ConversationsPageKeeps ==
    ASSUME PagingInv, ConversationsPage
    PROVE  PagingInv'
<1> USE DEF PagingInv
<1>1. /\ Existing \in SUBSET Rows /\ Selected \in SUBSET Existing /\ Selected \in SUBSET Rows
      /\ \A i \in Rows : at[i] \in Nat
    BY Facts
<1>2. /\ list = "conversations" /\ ~finished /\ private = {} /\ UNCHANGED <<cursor, cuts, lost>>
      /\ cuts = {} /\ ~lost
    BY DEF ConversationsPage, ListShape
<1>a. PICK before \in Latest(Selected, page * Limit) :
        \E P \in Latest(Selected \ before, Limit) :
          /\ finished' = (P = {})
          /\ \E kept \in Latest(P \cap doubles, 1) : Get((P \ doubles) \cup kept)
    BY DEF ConversationsPage
<1>b. PICK P \in Latest(Selected \ before, Limit) :
        /\ finished' = (P = {})
        /\ \E kept \in Latest(P \cap doubles, 1) : Get((P \ doubles) \cup kept)
    BY <1>a
<1>c. PICK kept \in Latest(P \cap doubles, 1) : Get((P \ doubles) \cup kept)
    BY <1>b
<1>3. finished' = (P = {}) /\ Get((P \ doubles) \cup kept)
    BY <1>b, <1>c
<1> DEFINE shown == (P \ doubles) \cup kept
<1>4. /\ page * Limit \in Nat /\ Limit \in Nat /\ Limit > 0 /\ page \in Nat
      /\ (page + 1) * Limit = page * Limit + Limit
    BY LimitAssumption DEF PagingTypeOK
<1>5. /\ before \in SUBSET Selected
      /\ Cardinality(before) \in Nat /\ Cardinality(before) <= page * Limit
      /\ Cardinality(before) < page * Limit => before = Selected
      /\ \A i \in before, j \in Selected \ before : at[i] >= at[j]
    BY <1>1, <1>4, LatestRows
<1>6. /\ P \in SUBSET (Selected \ before)
      /\ Cardinality(P) \in Nat /\ Cardinality(P) <= Limit
      /\ Cardinality(P) < Limit => P = Selected \ before
      /\ P = {} => Selected \ before = {}
      /\ \A i \in P, j \in (Selected \ before) \ P : at[i] >= at[j]
  <2>1. Selected \ before \in SUBSET Rows
    BY <1>1
  <2> QED
    BY <1>4, <2>1, LatestRows
<1>7. kept \in SUBSET (P \cap doubles) /\ (kept = {} => P \cap doubles = {})
  <2>1. P \cap doubles \in SUBSET Rows /\ 1 \in Nat /\ 1 > 0
    BY <1>1, <1>6
  <2> QED
    BY <2>1, LatestRows
<1>8. shown \in SUBSET P
    BY <1>7
<1>9. /\ UNCHANGED <<list, at, unselected, private, doubles, changes, left, came, moved, back>>
      /\ page' = page + 1
      /\ seen' = seen \cup shown
      /\ again' = again \cup (seen \cap shown)
      /\ start' = IF page = 0 THEN Selected ELSE start
    BY <1>2, <1>3 DEF Get, table
<1>10. Existing' = Existing /\ Selected' = Selected
    BY <1>9 DEF Existing, Selected
<1>11. shown \in SUBSET Selected /\ shown \in SUBSET Existing /\ shown \in SUBSET Rows
    BY <1>1, <1>6, <1>8
<1>12. finished' \in BOOLEAN
    BY <1>3
<1> HIDE DEF shown
<1>13. PagingTypeOK'
  <2>1. seen' \subseteq Rows \ private' /\ again' \subseteq seen'
    BY <1>2, <1>9, <1>11 DEF PagingTypeOK
  <2>2. start' \cup left' \cup moved' \subseteq Existing' /\ back' \subseteq moved' /\ moved' \subseteq came'
    BY <1>1, <1>9, <1>10 DEF PagingTypeOK
  <2>3. page' \in Nat
    BY <1>4, <1>9
  <2> QED
    BY <1>2, <1>9, <1>10, <1>12, <2>1, <2>2, <2>3 DEF PagingTypeOK
<1>14. ListShape'
  <2>1. start' \ left' \subseteq Selected' /\ seen' \subseteq Existing'
    BY <1>1, <1>9, <1>10, <1>11 DEF ListShape
  <2>2. page' # 0
    BY <1>4, <1>9
  <2> QED
    BY <1>2, <1>9, <1>10, <2>1, <2>2 DEF ListShape
<1>15. ASSUME NEW i \in Stayers', left \cup back = {}
       PROVE  Got(i)' \/ (i \in Selected \ (before \cup P))
  <2>1. i \in Selected
    BY <1>1, <1>9, <1>15 DEF Stayers, ListShape
  <2>2. i \in Stayers \/ page = 0
    BY <1>9 DEF Stayers
  <2>3. CASE i \in P
    <3>1. CASE i \in doubles
      <4>1. kept # {} /\ kept \subseteq doubles /\ kept \subseteq seen'
        BY <1>7, <1>9, <2>3, <3>1 DEF shown
      <4> QED
        BY <1>9, <3>1, <4>1 DEF Got
    <3>2. CASE i \notin doubles
      BY <1>9, <2>3, <3>2 DEF Got, shown
    <3> QED
      BY <3>1, <3>2
  <2>4. CASE i \in before
    <3>1. i \in Stayers
      <4>1. CASE page = 0
        <5>1. Cardinality(before) = 0
          BY <1>4, <1>5, <4>1
        <5>2. IsFiniteSet(before)
          BY <1>1, <1>5, SubFinite
        <5> QED
          BY <2>4, <5>1, <5>2, FS_EmptySet
      <4> QED
        BY <2>2, <4>1
    <3>2. Got(i)
      BY <1>2, <1>15, <2>4, <3>1, SkippedRows
    <3> QED
      BY <1>9, <3>2 DEF Got
  <2> QED
    BY <2>1, <2>3, <2>4
<1>16. AheadOfOffset'
  <2> SUFFICES ASSUME ~finished', left \cup back = {}, NEW i \in Stayers', ~Got(i)'
               PROVE  Cardinality(Above(i)') >= page' * Limit
    BY <1>9 DEF AheadOfOffset
  <2>1. i \in Selected /\ i \notin before /\ i \notin P
    BY <1>15
  <2>2. before \cup P \in SUBSET Above(i)
    <3>1. \A j \in before \cup P : j \in Selected /\ at[j] >= at[i] /\ j # i
      BY <1>5, <1>6, <2>1
    <3>2. \A j \in Selected : j # i => at[j] # at[i]
      BY <1>1, <1>2, <2>1 DEF ListShape
    <3> QED
      BY <1>1, <2>1, <3>1, <3>2 DEF Above
  <2>3. Cardinality(before) = page * Limit /\ Cardinality(P) = Limit
    BY <1>4, <1>5, <1>6, <2>1
  <2>4. Cardinality(before \cup P) = page * Limit + Limit
    <3>1. IsFiniteSet(before) /\ IsFiniteSet(P)
      BY <1>1, <1>5, <1>6, SubFinite
    <3>2. Cardinality(before \cap P) = 0
      BY <1>6, FS_EmptySet
    <3>3. Cardinality(before \cup P) =
            Cardinality(before) + Cardinality(P) - Cardinality(before \cap P)
      BY <3>1, FS_Union
    <3>4. Cardinality(before \cup P) = Cardinality(before) + Cardinality(P)
      BY <1>5, <1>6, <3>2, <3>3
    <3> QED
      BY <2>3, <3>4
  <2>5. IsFiniteSet(Above(i)) /\ Cardinality(Above(i)) \in Nat
    BY <1>1, SubFinite DEF Above
  <2>6. Cardinality(before \cup P) <= Cardinality(Above(i))
    BY <2>2, <2>5, FS_Subset
  <2>7. Above(i)' = Above(i)
    BY <1>9, <1>10 DEF Above
  <2> QED
    BY <1>4, <1>9, <2>4, <2>5, <2>6, <2>7
<1>17. BehindOffset'
  <2> SUFFICES ASSUME came = {}, NEW i \in seen' \cap Selected
               PROVE  Cardinality(Upto(i)') <= page' * Limit
    BY <1>9, <1>10 DEF BehindOffset
  <2>1. Upto(i)' = Upto(i)
    BY <1>9, <1>10 DEF Upto
  <2>2. CASE i \in seen
    <3>1. Cardinality(Upto(i)) <= page * Limit
      BY <1>2, <2>2 DEF BehindOffset
    <3>2. Cardinality(Upto(i)) \in Nat
      BY <1>1, SubFinite DEF Upto
    <3> QED
      BY <1>4, <1>9, <2>1, <3>1, <3>2
  <2>3. CASE i \in P
    <3>1. Upto(i) \in SUBSET (before \cup P)
      <4>1. \A j \in Selected : j # i => at[j] # at[i]
        BY <1>1, <1>2 DEF ListShape
      <4> QED
        BY <1>1, <1>6, <2>3, <4>1 DEF Upto
    <3>2. IsFiniteSet(before) /\ IsFiniteSet(P)
      BY <1>1, <1>5, <1>6, SubFinite
    <3>3. /\ Cardinality(before \cup P) =
               Cardinality(before) + Cardinality(P) - Cardinality(before \cap P)
          /\ IsFiniteSet(before \cup P)
      BY <3>2, FS_Union
    <3>4. Cardinality(before \cap P) = 0
      BY <1>6, FS_EmptySet
    <3>5. Cardinality(Upto(i)) <= Cardinality(before \cup P) /\ IsFiniteSet(Upto(i))
      BY <3>1, <3>3, FS_Subset
    <3>6. Cardinality(Upto(i)) \in Nat
      BY <3>5, FS_CardinalityType
    <3> QED
      BY <1>4, <1>5, <1>6, <1>9, <2>1, <3>3, <3>4, <3>5, <3>6
  <2> QED
    BY <1>8, <1>9, <2>2, <2>3
<1>18. NothingSkipped'
  <2> SUFFICES ASSUME finished', left \cup back = {}, NEW i \in Stayers' PROVE Got(i)'
    BY <1>2, <1>9 DEF NothingSkipped, Got, Stayers
  <2> QED
    BY <1>3, <1>6, <1>15
<1>19. NothingTwice'
  <2>1. \A i \in again : Excused(i)
    BY DEF NothingTwice, Excused
  <2>2. \A i \in again : Excused(i)'
    BY <1>2, <1>9, <2>1 DEF Excused, Cut
  <2>3. ASSUME NEW i \in seen \cap shown PROVE came # {}
    BY <1>2, <1>6, <1>8, <1>11, SkippedRows
  <2>4. \A i \in again' : Excused(i)'
    BY <1>2, <1>9, <2>2, <2>3 DEF Excused
  <2> QED
    BY <2>4 DEF NothingTwice, Excused
<1> QED
    BY <1>2, <1>9, <1>13, <1>14, <1>16, <1>17, <1>18, <1>19 DEF Ahead, Behind

-----------------------------------------------------------------------------
(* What changes meanwhile.                                                 *)

LEMMA PlacesAre ==
    ASSUME PagingTypeOK, NEW t \in Now \cup Unspoken
    PROVE  /\ t \in 1 .. 2 * MaxTime /\ (t \in Now => t <= MaxTime)
           /\ list = "conversations" => \A i \in Rows : at[i] # t
    BY PagingBounds DEF Now, Unspoken, Untaken

\* What a change keeps of the list and of its history.
LEMMA ChangeFacts ==
    ASSUME PagingInv, NEW i \in Rows, Add(i) \/ Drop(i) \/ Restore(i) \/ Move(i)
    PROVE  /\ page > 0 /\ ~finished
           /\ UNCHANGED <<list, private, doubles, client, start, cuts, lost>>
           /\ changes' \in 0 .. MaxChanges
           /\ at' \in [Rows -> 0 .. 2 * MaxTime]
           /\ Existing \subseteq Existing' /\ unselected' \subseteq Existing'
           /\ left \subseteq left' /\ came \subseteq came' /\ moved \subseteq moved'
           /\ back \subseteq back' /\ back' \subseteq moved' /\ moved' \subseteq came'
           /\ left' \cup moved' \subseteq Existing'
           /\ list # "conversations" => \A j \in Rows : at'[j] <= MaxTime
           /\ \A j \in Existing :
                (j \notin back' => at'[j] >= at[j]) /\ (j \notin moved' => at'[j] = at[j])
           /\ list = "conversations" => \A j, k \in Existing' : j # k => at'[j] # at'[k]
           /\ moved' = moved \/ list \in {"viewers", "conversations"}
           /\ left' = {} => Selected \subseteq Selected'
           /\ Selected \ left' \subseteq Selected'
           /\ came' = {} => UNCHANGED at /\ Selected' \subseteq Selected
<1> USE DEF PagingInv
<1>1. /\ Existing \in SUBSET Rows /\ Selected \in SUBSET Existing
      /\ \A j \in Rows : at[j] \in Nat /\ at[j] \in 0 .. 2 * MaxTime
      /\ Existing = {j \in Rows : at[j] # 0} /\ Existing' = {j \in Rows : at'[j] # 0}
      /\ Selected = Existing \ unselected /\ Selected' = Existing' \ unselected'
    BY Facts DEF Existing, Selected
<1>2. /\ at \in [Rows -> 0 .. 2 * MaxTime] /\ unselected \subseteq Existing
      /\ left \cup moved \subseteq Existing /\ back \subseteq moved /\ moved \subseteq came
      /\ list # "conversations" => \A j \in Rows : at[j] <= MaxTime
  <2>1. \A j \in Rows : ~(at[j] > MaxTime) => at[j] <= MaxTime
    BY <1>1, PagingBounds
  <2> QED
    BY <2>1 DEF PagingTypeOK, ListShape, Silent
<1>3. Change
    BY DEF Add, Drop, Restore, Move
<1>4. /\ page > 0 /\ ~finished
      /\ UNCHANGED <<list, private, doubles, client, start, cuts, lost>>
      /\ changes' \in 0 .. MaxChanges
  <2>1. changes \in 0 .. MaxChanges /\ changes < MaxChanges /\ changes' = changes + 1
    BY <1>3 DEF Change, PagingTypeOK
  <2>2. changes' \in 0 .. MaxChanges
    BY <2>1, PagingBounds
  <2> QED
    BY <1>3, <2>2 DEF Change
<1>5. list = "conversations" => \A j, k \in Existing : j # k => at[j] # at[k]
    BY DEF ListShape
<1>6. CASE Add(i) \/ Move(i)
  <2>1. PICK t \in Now \cup Unspoken :
          /\ at' = [at EXCEPT ![i] = t]
          /\ t \in Now \/ list = "conversations"
          /\ \/ i \notin Existing /\ back' = back /\ moved' = moved
             \/ /\ back' = IF t < at[i] THEN back \cup {i} ELSE back
                /\ moved' = moved \cup {i} /\ list \in {"viewers", "conversations"}
    <3>1. CASE Add(i)
      <4>1. PICK t \in IF list = "conversations" THEN Unspoken ELSE Now :
              at' = [at EXCEPT ![i] = t]
        BY <3>1 DEF Add
      <4> QED
        BY <3>1, <4>1 DEF Add
    <3>2. CASE Move(i)
      <4>1. PICK t \in IF Silent(i) THEN Now \cup Unspoken ELSE Now :
              /\ at' = [at EXCEPT ![i] = t]
              /\ back' = IF t < at[i] THEN back \cup {i} ELSE back
        BY <3>2 DEF Move
      <4>2. Silent(i) => list = "conversations"
        BY DEF PagingTypeOK
      <4> QED
        BY <3>2, <4>1, <4>2 DEF Move
    <3> QED
      BY <1>6, <3>1, <3>2
  <2>2. /\ t \in 1 .. 2 * MaxTime /\ (t \in Now => t <= MaxTime)
        /\ list = "conversations" => \A j \in Rows : at[j] # t
    BY PlacesAre
  <2>3. /\ at'[i] = t /\ t # 0 /\ t \in 0 .. 2 * MaxTime /\ t \in Nat
        /\ \A j \in Rows : j # i => at'[j] = at[j]
    BY <1>2, <2>1, <2>2, PagingBounds
  <2>4. at' \in [Rows -> 0 .. 2 * MaxTime]
    BY <1>2, <2>1, <2>3
  <2>5. Existing' = Existing \cup {i}
    BY <1>1, <2>3
  <2>6. UNCHANGED <<unselected, left>> /\ came' = came \cup {i}
    BY <1>6 DEF Add, Move
  <2>7. \A j \in Existing :
          (j \notin back' => at'[j] >= at[j]) /\ (j \notin moved' => at'[j] = at[j])
    <3> SUFFICES ASSUME NEW j \in Existing
                 PROVE  (j \notin back' => at'[j] >= at[j]) /\ (j \notin moved' => at'[j] = at[j])
      OBVIOUS
    <3>1. at[j] \in Nat
      BY <1>1
    <3>2. CASE j = i
      BY <2>1, <2>3, <3>1, <3>2
    <3>3. CASE j # i
      BY <1>1, <2>3, <3>1, <3>3
    <3> QED
      BY <3>2, <3>3
  <2>8. list = "conversations" => \A j, k \in Existing' : j # k => at'[j] # at'[k]
    BY <1>1, <1>5, <2>2, <2>3, <2>5
  <2>9. list # "conversations" => \A j \in Rows : at'[j] <= MaxTime
    BY <1>2, <2>1, <2>2, <2>3
  <2>10. Selected \subseteq Selected'
    BY <1>1, <2>5, <2>6
  <2>11. /\ back \subseteq back' /\ back' \subseteq moved' /\ moved \subseteq moved'
         /\ moved' \subseteq came' /\ left' \cup moved' \subseteq Existing'
         /\ moved' = moved \/ list \in {"viewers", "conversations"}
    BY <1>2, <2>1, <2>5, <2>6
  <2> QED
    BY <1>2, <1>4, <2>4, <2>5, <2>6, <2>7, <2>8, <2>9, <2>10, <2>11
<1>7. CASE Drop(i) \/ Restore(i)
  <2>1. UNCHANGED <<at, moved, back>>
    BY <1>7 DEF Drop, Restore
  <2>2. Existing' = Existing
    BY <1>1, <2>1
  <2>3. \/ /\ i \in Selected /\ unselected' = unselected \cup {i}
           /\ left' = left \cup {i} /\ came' = came
        \/ /\ unselected' = unselected \ {i} /\ left' = left /\ came' = came \cup {i}
    BY <1>7 DEF Drop, Restore
  <2>4. \A j \in Existing : at'[j] >= at[j] /\ at'[j] = at[j]
    BY <1>1, <2>1
  <2> QED
    BY <1>1, <1>2, <1>4, <1>5, <2>1, <2>2, <2>3, <2>4
<1> QED
    BY <1>6, <1>7

LEMMA ChangeKeeps ==
    ASSUME PagingInv, NEW x \in Rows, Add(x) \/ Drop(x) \/ Restore(x) \/ Move(x)
    PROVE  PagingInv'
<1> USE DEF PagingInv
<1>1. /\ Existing \in SUBSET Rows /\ Selected \in SUBSET Existing
      /\ \A j \in Rows : at[j] \in Nat
    BY Facts
<1>2. /\ page > 0 /\ ~finished
      /\ UNCHANGED <<list, private, doubles, start, cuts, lost>>
      /\ UNCHANGED <<page, cursor, finished, seen, again>>
      /\ changes' \in 0 .. MaxChanges
      /\ at' \in [Rows -> 0 .. 2 * MaxTime]
    BY ChangeFacts DEF client
<1>3. /\ Existing \subseteq Existing' /\ unselected' \subseteq Existing'
      /\ left \subseteq left' /\ came \subseteq came' /\ moved \subseteq moved'
      /\ back \subseteq back' /\ back' \subseteq moved' /\ moved' \subseteq came'
      /\ left' \cup moved' \subseteq Existing'
      /\ list # "conversations" => \A j \in Rows : at'[j] <= MaxTime
      /\ moved' = moved \/ list \in {"viewers", "conversations"}
    BY ChangeFacts
<1>4. /\ \A j \in Existing :
            (j \notin back' => at'[j] >= at[j]) /\ (j \notin moved' => at'[j] = at[j])
      /\ list = "conversations" => \A j, k \in Existing' : j # k => at'[j] # at'[k]
    BY ChangeFacts
<1>5. /\ left' = {} => Selected \subseteq Selected'
      /\ Selected \ left' \subseteq Selected'
      /\ came' = {} => UNCHANGED at /\ Selected' \subseteq Selected
    BY ChangeFacts
<1>6. /\ Existing' \in SUBSET Rows /\ Selected' \in SUBSET Existing'
      /\ \A j \in Rows : at'[j] \in Nat
    BY <1>2, PagingBounds DEF Existing, Selected
<1>7. PagingTypeOK'
  <2>1. list' # "conversations" => \A j \in Rows : ~Silent(j)'
    BY <1>2, <1>3, <1>6, PagingBounds DEF Silent
  <2> QED
    BY <1>2, <1>3, <2>1 DEF PagingTypeOK
<1>8. ListShape'
  <2>1. page # 0
    BY <1>2 DEF PagingTypeOK
  <2>2. start' \ left' \subseteq Selected'
    BY <1>2, <1>3, <1>5 DEF ListShape
  <2>3. list' \notin {"viewers", "conversations"} => moved' = {}
    BY <1>2, <1>3 DEF ListShape
  <2> QED
    BY <1>2, <1>3, <1>4, <2>1, <2>2, <2>3 DEF ListShape, Reading
<1>9. \A j \in Existing : j \notin moved' => (Cut(j) => Cut(j)')
    BY <1>2, <1>4 DEF Cut
<1>a. Slipped => Slipped'
    BY <1>2, <1>3 DEF Slipped
<1>10. \A j \in Existing : Excused(j) => Excused(j)'
    BY <1>2, <1>3, <1>9 DEF Excused
<1>11. \A j \in Stayers' : j \in Stayers /\ j \in Existing /\ at'[j] = at[j] /\ j \notin moved'
    BY <1>1, <1>2, <1>3, <1>4 DEF Stayers, ListShape
<1>12. Ahead'
  <2> SUFFICES ASSUME list # "conversations"
               PROVE  /\ list \in {"messages", "calls"} => cursor \in seen
                      /\ \A i \in Stayers' :
                            \/ i \in seen \/ Cut(i)' \/ lost \/ Slipped' \/ cursor \in back'
                            \/ at'[i] <= at'[cursor]
    BY <1>2 DEF Ahead
  <2>1. Reading /\ cursor \in Existing
    BY <1>2 DEF ListShape, Reading
  <2>2. ASSUME NEW i \in Stayers', cursor \notin back', ~Slipped'
        PROVE  i \in seen \/ Cut(i)' \/ lost \/ at'[i] <= at'[cursor]
    <3>1. at'[cursor] >= at[cursor] /\ at'[cursor] \in Nat /\ at[cursor] \in Nat
      BY <1>1, <1>4, <1>6, <2>1, <2>2
    <3>2. i \in seen \/ Cut(i) \/ lost \/ at[i] <= at[cursor]
      BY <1>3, <1>a, <1>11, <2>1, <2>2 DEF Ahead
    <3>3. at'[i] = at[i] /\ at[i] \in Nat
      BY <1>1, <1>11, <2>2
    <3> QED
      BY <1>9, <1>11, <2>2, <3>1, <3>2, <3>3
  <2> QED
    BY <2>1, <2>2 DEF Ahead
<1>13. Behind'
  <2> SUFFICES ASSUME list # "conversations", NEW i \in seen,
                      ~Excused(i)', ~(list # "messages" /\ cursor \in moved')
               PROVE  at'[i] >= at'[cursor] /\ (i = cursor => list \in {"messages", "calls"})
    BY <1>2 DEF Behind
  <2>1. Reading /\ cursor \in Existing /\ i \in Existing
    BY <1>2 DEF ListShape, Reading
  <2>2. cursor \notin moved'
    BY <1>2, <1>3 DEF ListShape
  <2>3. at'[cursor] = at[cursor] /\ at'[i] = at[i]
    <3>1. i \notin moved'
      BY <1>2, <1>3 DEF Excused, ListShape
    <3> QED
      BY <1>4, <2>1, <2>2, <3>1
  <2>4. at[i] >= at[cursor] /\ (i = cursor => list \in {"messages", "calls"})
    BY <1>3, <1>10, <2>1, <2>2 DEF Behind
  <2> QED
    BY <1>1, <1>6, <2>1, <2>3, <2>4
<1>14. AheadOfOffset'
  <2> SUFFICES ASSUME list = "conversations", left' \cup back' = {}, NEW i \in Stayers', ~Got(i)'
               PROVE  Cardinality(Above(i)') >= page * Limit
    BY <1>2 DEF AheadOfOffset
  <2>1. left \cup back = {} /\ left' = {} /\ back' = {} /\ ~Got(i)
    BY <1>2, <1>3 DEF Got
  <2>2. Cardinality(Above(i)) >= page * Limit
    BY <1>2, <1>11, <2>1 DEF AheadOfOffset
  <2>3. Above(i) \in SUBSET Above(i)'
    <3>1. \A j \in Selected : j \in Selected' /\ at'[j] >= at[j]
      BY <1>1, <1>4, <1>5, <2>1
    <3>2. at'[i] = at[i] /\ i \in Existing
      BY <1>11
    <3> QED
      BY <1>1, <1>6, <3>1, <3>2 DEF Above
  <2>4. Above(i)' \in SUBSET Rows
    BY <1>6 DEF Above
  <2>5. IsFiniteSet(Above(i)') /\ Cardinality(Above(i)') \in Nat
    BY <2>4, SubFinite
  <2>6. Cardinality(Above(i)) <= Cardinality(Above(i)') /\ Cardinality(Above(i)) \in Nat
    BY <2>3, <2>5, FS_Subset, FS_CardinalityType
  <2>7. page * Limit \in Nat
    BY LimitAssumption DEF PagingTypeOK
  <2> QED
    BY <2>2, <2>5, <2>6, <2>7
<1>15. BehindOffset'
  <2> SUFFICES ASSUME list = "conversations", came' = {}, NEW i \in seen \cap Selected'
               PROVE  Cardinality(Upto(i)') <= page * Limit
    BY <1>2 DEF BehindOffset
  <2>1. came = {} /\ i \in Selected /\ UNCHANGED at /\ Selected' \subseteq Selected
    BY <1>3, <1>5
  <2>2. Cardinality(Upto(i)) <= page * Limit
    BY <2>1 DEF BehindOffset
  <2>3. Upto(i)' \in SUBSET Upto(i)
    BY <2>1 DEF Upto
  <2>4. Upto(i) \in SUBSET Rows
    BY <1>1 DEF Upto
  <2>5. IsFiniteSet(Upto(i)) /\ Cardinality(Upto(i)) \in Nat
    BY <2>4, SubFinite
  <2>6. Cardinality(Upto(i)') <= Cardinality(Upto(i)) /\ Cardinality(Upto(i)') \in Nat
    BY <2>3, <2>5, FS_Subset, FS_CardinalityType
  <2>7. page * Limit \in Nat
    BY LimitAssumption DEF PagingTypeOK
  <2> QED
    BY <2>2, <2>5, <2>6, <2>7
<1>16. NothingSkipped'
    BY <1>2 DEF NothingSkipped
<1>17. NothingTwice'
  <2>1. \A i \in again : Excused(i) /\ i \in Existing
    BY DEF NothingTwice, Excused, PagingTypeOK, ListShape
  <2> QED
    BY <1>2, <1>10, <2>1 DEF NothingTwice, Excused
<1> QED
    BY <1>7, <1>8, <1>12, <1>13, <1>14, <1>15, <1>16, <1>17

-----------------------------------------------------------------------------

LEMMA PagingStart == PagingInit => PagingInv
<1> SUFFICES ASSUME PagingInit PROVE PagingInv
    OBVIOUS
<1>1. PICK n \in 0 .. MaxRows,
           f \in [Rows -> 1 .. IF list = "conversations" THEN 2 * MaxTime ELSE MaxTime] :
        /\ \A i, j \in 1 .. n : i < j => IF list = "conversations" THEN f[i] < f[j] ELSE f[i] <= f[j]
        /\ at = [i \in Rows |-> IF i <= n THEN f[i] ELSE 0]
    BY DEF PagingInit
<1>2. at \in [Rows -> 0 .. 2 * MaxTime]
    BY <1>1, PagingBounds
<1>3. private \in SUBSET Rows /\ doubles \in SUBSET Rows /\ (list # "feed" => private = {})
    BY SetsAssumption DEF PagingInit
<1>4. list = "conversations" => \A i, j \in Existing : i # j => at[i] # at[j]
  <2> SUFFICES ASSUME list = "conversations", NEW i \in Existing, NEW j \in Existing, i # j
               PROVE  at[i] # at[j]
    OBVIOUS
  <2>1. i \in 1 .. n /\ j \in 1 .. n /\ i \in Rows /\ j \in Rows
    BY <1>1, PagingBounds DEF Existing, Rows
  <2>2. at[i] = f[i] /\ at[j] = f[j] /\ f[i] \in Nat /\ f[j] \in Nat
    BY <1>1, <2>1, PagingBounds
  <2>3. (i < j => f[i] < f[j]) /\ (j < i => f[j] < f[i])
    BY <1>1, <2>1
  <2>4. i < j \/ j < i
    BY <2>1, PagingBounds
  <2> QED
    BY <2>2, <2>3, <2>4
<1>5. PagingTypeOK
  <2>1. /\ list \in Lists /\ changes = 0 /\ page = 0 /\ cursor = 0
        /\ finished = FALSE /\ lost = FALSE
        /\ unselected = {} /\ seen = {} /\ again = {} /\ cuts = {}
        /\ start = {} /\ left = {} /\ came = {} /\ moved = {} /\ back = {}
    BY DEF PagingInit
  <2>2. changes \in 0 .. MaxChanges /\ page \in Nat
    BY <2>1, PagingBounds
  <2>3. list # "conversations" => \A i \in Rows : ~Silent(i)
    BY <1>1, PagingBounds DEF Silent
  <2> QED
    BY <1>2, <1>3, <2>1, <2>2, <2>3 DEF PagingTypeOK
<1>6. ListShape
    BY <1>3, <1>4 DEF PagingInit, ListShape, Reading
<1>7. Ahead /\ Behind /\ NothingSkipped /\ NothingTwice
    BY DEF PagingInit, Ahead, Behind, NothingSkipped, NothingTwice, Reading
<1>8. AheadOfOffset /\ BehindOffset
    BY DEF PagingInit, AheadOfOffset, BehindOffset, Stayers
<1> QED
    BY <1>5, <1>6, <1>7, <1>8 DEF PagingInv

LEMMA PagingStutters == PagingInv /\ UNCHANGED pagingVars => PagingInv'
    BY DEF PagingInv, PagingTypeOK, ListShape, Ahead, Behind, AheadOfOffset, BehindOffset,
           NothingSkipped, NothingTwice, pagingVars, table, client, history, Existing,
           Selected, Reading, Stayers, Got, Excused, Cut, Slipped, Above, Upto, Silent

\* The invariant of the lists read page by page.
THEOREM PagingInvariant == PagingSpec => []PagingInv
<1>1. PagingInv /\ [PagingNext]_pagingVars => PagingInv'
  <2> SUFFICES ASSUME PagingInv, [PagingNext]_pagingVars PROVE PagingInv'
    OBVIOUS
  <2>1. CASE Pages
    BY <2>1, FirstPageKeeps, CursorPageKeeps, ConversationsPageKeeps DEF Pages
  <2>2. ASSUME NEW x \in Rows, Add(x) \/ Drop(x) \/ Restore(x) \/ Move(x) PROVE PagingInv'
    BY <2>2, ChangeKeeps
  <2>3. CASE UNCHANGED pagingVars
    BY <2>3, PagingStutters
  <2> QED
    BY <2>1, <2>2, <2>3 DEF PagingNext
<1> QED
    BY <1>1, PagingStart, PTL DEF PagingSpec

\* A list and what a client got of it keep their types, for any rows, times and
\* changes.
THEOREM PagingTypeCorrect == PagingSpec => []PagingTypeOK
<1>1. PagingInv => PagingTypeOK
    BY DEF PagingInv
<1> QED
    BY <1>1, PagingInvariant, PTL

\* Whoever reads to the end gets what was there all the time, but for the named
\* cases, for any rows, ties, pages and changes.
THEOREM PagesComplete == PagingSpec => []NothingSkipped
<1>1. PagingInv => NothingSkipped
    BY DEF PagingInv
<1> QED
    BY <1>1, PagingInvariant, PTL

\* No row comes twice, but in the named cases; a message never.
THEOREM PagesDisjoint == PagingSpec => []NothingTwice
<1>1. PagingInv => NothingTwice
    BY DEF PagingInv
<1> QED
    BY <1>1, PagingInvariant, PTL
=============================================================================
