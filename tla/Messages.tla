------------------------------ MODULE Messages ------------------------------
(***************************************************************************)
(* The traffic of one conversation: sendMessage and updateReceipts of      *)
(* src/modules/message/message.service.ts, markAsRead and                  *)
(* updateDisappearingTimer of src/modules/chat/chat.service.ts.  What      *)
(* happens to one message afterwards is in MessageContent.                 *)
(*                                                                         *)
(* Requests interleave between any two queries.  A transaction runs at     *)
(* READ COMMITTED: what it wrote shows when it commits, and a row it wrote *)
(* stays locked until then.  A message is numbered in the order of         *)
(* creation, which is the order of createdAt.  A receipt request names one *)
(* message.                                                                *)
(***************************************************************************)
EXTENDS FiniteSets, Integers

CONSTANTS
    Users,          \* the conversation's members, and those who may be added
    NoUser,
    Staff,          \* administrators and moderators, who never change here
    MaxRequests,    \* bound on the requests, each used once
    MaxFaults       \* bound on failed queries

ASSUME UsersAssumption == Staff \subseteq Users /\ NoUser \notin Users
ASSUME BoundsAssumption == MaxRequests \in Nat /\ MaxFaults \in Nat

\* Requests are numbered in the order in which they begin.
Requests == 1 .. MaxRequests
Ids == 1 .. MaxRequests
NoId == 0
NoRequest == 0

VARIABLES
    active,         \* members with leftAt null
    msgs,           \* messages: "none", "inserted", "sent" or "undone"
    last,           \* conversations.lastMessageId
    disappearing,   \* conversations.disappearingDuration is set
    unread,         \* conversation_members.unreadCount
    locked,         \* the transaction that holds the conversation's row
    pending,        \* the counters it wrote on members' rows, which it holds
    receipts,       \* message_receipts.status
    toPurge,        \* messages for which a purge job is asked
    rs,             \* requests
    fresh,          \* history: messages counted for a member since the last reset
    faults

rows == <<active, msgs, last, disappearing, unread, receipts>>
locks == <<locked, pending>>
vars == <<rows, locks, toPurge, rs, fresh, faults>>

Ops == {"send", "timer", "delivered", "read", "mark"}

\* The code has no field after: the requests that were answered when this one
\* began.
RequestStates ==
    [pc : {"free", "insert", "conversation", "members", "commit", "write", "done", "failed"},
     op : Ops, user : Users \cup {NoUser}, msg : Ids \cup {NoId}, expires : BOOLEAN, after : SUBSET Requests]

TypeOK ==
    /\ active \subseteq Users
    /\ msgs \in [Ids -> {"none", "inserted", "sent", "undone"}]
    /\ last \in Ids \cup {NoId}
    /\ disappearing \in BOOLEAN
    /\ unread \in [Users -> Nat]
    /\ locked \in Requests \cup {NoRequest}
    /\ DOMAIN pending \subseteq Users
    /\ pending \in [DOMAIN pending -> Nat]
    /\ receipts \in [Ids \X Users -> {"none", "DELIVERED", "READ"}]
    /\ toPurge \subseteq Ids
    /\ rs \in [Requests -> RequestStates]
    /\ fresh \in [Users -> SUBSET Ids]
    /\ faults \in 0 .. MaxFaults

NoRows == [u \in {} |-> 0]

\* A new conversation.
Init ==
    /\ active \in SUBSET Users
    /\ msgs = [m \in Ids |-> "none"]
    /\ last = NoId
    /\ disappearing = FALSE
    /\ unread = [u \in Users |-> 0]
    /\ locked = NoRequest
    /\ pending = NoRows
    /\ receipts = [x \in Ids \X Users |-> "none"]
    /\ toPurge = {}
    /\ rs = [r \in Requests |->
               [pc |-> "free", op |-> "send", user |-> NoUser, msg |-> NoId, expires |-> FALSE,
                after |-> {}]]
    /\ fresh = [u \in Users |-> {}]
    /\ faults = 0

InFlight == {r \in Requests : rs[r].pc \notin {"free", "done", "failed"}}
Answered == {r \in Requests : rs[r].pc = "done"}
Sent == {m \in Ids : msgs[m] = "sent"}

Goto(r, pc) == rs' = [rs EXCEPT ![r].pc = pc]

-----------------------------------------------------------------------------
(* The beginnings: what a request checks before its first write.           *)

Begin(r, op, u, m, pc) ==
    /\ rs[r].pc = "free"
    /\ \A q \in Requests : q < r => rs[q].pc # "free"
    /\ rs' = [rs EXCEPT ![r] = [pc |-> pc, op |-> op, user |-> u, msg |-> m,
                                expires |-> disappearing, after |-> Answered]]
    /\ UNCHANGED <<rows, locks, toPurge, fresh, faults>>

\* The membership and the conversation's timer are read together.
BeginSend(r, u) == u \in active /\ Begin(r, "send", u, NoId, "insert")

BeginTimer(r, u) == u \in active \cap Staff /\ Begin(r, "timer", u, NoId, "write")

BeginReceipt(r, u, m) ==
    /\ m \in Sent
    /\ u \in active
    /\ \E op \in {"delivered", "read"} : Begin(r, op, u, m, "write")

BeginMark(r, u) == u \in active /\ Begin(r, "mark", u, NoId, "write")

-----------------------------------------------------------------------------
(* sendMessage.                                                            *)

\* The next number, which a transaction that is undone leaves unused.
Created(m, state) ==
    /\ msgs[m] = "none"
    /\ \A k \in Ids : k < m => msgs[k] # "none"
    /\ msgs' = [msgs EXCEPT ![m] = state]

Insert(r) ==
    /\ rs[r].pc = "insert"
    /\ \E m \in Ids :
         /\ Created(m, "inserted")
         /\ rs' = [rs EXCEPT ![r].pc = "conversation", ![r].msg = m]
    /\ UNCHANGED <<active, last, disappearing, unread, receipts, locks, toPurge, fresh, faults>>

\* The update of the conversation waits for the transaction that holds it.
LockConversation(r) ==
    /\ rs[r].pc = "conversation"
    /\ locked = NoRequest
    /\ locked' = r
    /\ Goto(r, "members")
    /\ UNCHANGED <<rows, pending, toPurge, fresh, faults>>

\* Bad: those who left are counted for, too.
BadCountMembers(r) ==
    /\ rs[r].pc = "members"
    /\ pending' = [u \in Users \ {rs[r].user} |-> unread[u] + 1]
    /\ Goto(r, "commit")
    /\ UNCHANGED <<rows, locked, toPurge, fresh, faults>>

\* Everybody else's counter is incremented from what it holds by then.
CountMembers(r) ==
    /\ rs[r].pc = "members"
    /\ pending' = [u \in active \ {rs[r].user} |-> unread[u] + 1]
    /\ Goto(r, "commit")
    /\ UNCHANGED <<rows, locked, toPurge, fresh, faults>>

\* The sender's own counter is reset and all of it commits; the purge of a
\* message with an expiry is asked for.  The events, notifications and media jobs
\* that are then sent off unawaited change nothing here.
Commit(r) ==
    /\ rs[r].pc = "commit"
    /\ LET m == rs[r].msg
           own == active \cap {rs[r].user} IN
         /\ msgs' = [msgs EXCEPT ![m] = "sent"]
         /\ last' = m
         /\ unread' = [u \in Users |-> CASE u \in own -> 0
                                        [] u \in DOMAIN pending -> pending[u]
                                        [] OTHER -> unread[u]]
         /\ fresh' = [u \in Users |-> CASE u \in own -> {}
                                        [] u \in DOMAIN pending -> fresh[u] \cup {m}
                                        [] OTHER -> fresh[u]]
         /\ toPurge' = IF rs[r].expires THEN toPurge \cup {m} ELSE toPurge
    /\ locked' = NoRequest
    /\ pending' = NoRows
    /\ Goto(r, "done")
    /\ UNCHANGED <<active, disappearing, receipts, faults>>

-----------------------------------------------------------------------------
\* Bad: the system message is not the conversation's last.
BadSetTimer(r) ==
    /\ rs[r].op = "timer" /\ rs[r].pc = "write"
    /\ locked = NoRequest
    /\ disappearing' \in BOOLEAN
    /\ \E m \in Ids :
         /\ Created(m, "sent")
         /\ rs' = [rs EXCEPT ![r].pc = "done", ![r].msg = m]
    /\ UNCHANGED <<active, last, unread, receipts, locks, toPurge, fresh, faults>>

\* updateDisappearingTimer: one transaction, the conversation's row first;
\* the system message it leaves is counted for nobody.
SetTimer(r) ==
    /\ rs[r].op = "timer" /\ rs[r].pc = "write"
    /\ locked = NoRequest
    /\ disappearing' \in BOOLEAN
    /\ \E m \in Ids :
         /\ Created(m, "sent")
         /\ last' = m
         /\ rs' = [rs EXCEPT ![r].pc = "done", ![r].msg = m]
    /\ UNCHANGED <<active, unread, receipts, locks, toPurge, fresh, faults>>

-----------------------------------------------------------------------------
(* updateReceipts and markAsRead.                                          *)

Write(r, op) == rs[r].op = op /\ rs[r].pc = "write" /\ Goto(r, "done")

\* Bad: the row is not locked until the commit.
BadFree(u) == TRUE

Free(u) == u \notin DOMAIN pending

Reset(u) ==
    /\ Free(u)
    /\ unread' = [unread EXCEPT ![u] = 0]
    /\ fresh' = [fresh EXCEPT ![u] = {}]

\* The status is written over whatever it was.
Receive(r, status) ==
    receipts' = [receipts EXCEPT ![<<rs[r].msg, rs[r].user>>] = status]

Deliver(r) ==
    /\ Write(r, "delivered")
    /\ Receive(r, "DELIVERED")
    /\ UNCHANGED <<active, msgs, last, disappearing, unread, locks, toPurge, fresh, faults>>

Read(r) ==
    /\ Write(r, "read")
    /\ Receive(r, "READ")
    /\ Reset(rs[r].user)
    /\ UNCHANGED <<active, msgs, last, disappearing, locks, toPurge, faults>>

Mark(r) ==
    /\ Write(r, "mark")
    /\ Reset(rs[r].user)
    /\ UNCHANGED <<active, msgs, last, disappearing, receipts, locks, toPurge, faults>>

-----------------------------------------------------------------------------
\* A query fails: the request ends where it is, its transaction rolled back.
Fail(r) ==
    /\ r \in InFlight
    /\ faults < MaxFaults
    /\ faults' = faults + 1
    /\ Goto(r, "failed")
    /\ msgs' = IF rs[r].pc \in {"conversation", "members", "commit"}
               THEN [msgs EXCEPT ![rs[r].msg] = "undone"] ELSE msgs
    /\ IF locked = r
       THEN locked' = NoRequest /\ pending' = NoRows
       ELSE UNCHANGED locks
    /\ UNCHANGED <<active, last, disappearing, unread, receipts, toPurge, fresh>>

\* A member leaves or is removed, as in GroupMembership.
Leave(u) ==
    /\ u \in active
    /\ Free(u)
    /\ active' = active \ {u}
    /\ UNCHANGED <<msgs, last, disappearing, unread, receipts, locks, toPurge, rs, fresh, faults>>

\* addMembers: the row of one who left is restored with the counter it had, a new one
\* starts at 0.  It waits for no message: one who left is not counted for.
Join(u) ==
    /\ u \in Users \ active
    /\ active' = active \cup {u}
    /\ UNCHANGED <<msgs, last, disappearing, unread, receipts, locks, toPurge, rs, fresh, faults>>

Steps(r) ==
    \/ Insert(r) \/ LockConversation(r) \/ CountMembers(r) \/ Commit(r)
    \/ SetTimer(r)
    \/ Deliver(r) \/ Read(r) \/ Mark(r)

Next ==
    \/ \E r \in Requests :
         \/ \E u \in Users :
              \/ BeginSend(r, u) \/ BeginTimer(r, u) \/ BeginMark(r, u)
              \/ \E m \in Ids : BeginReceipt(r, u, m)
         \/ Steps(r)
         \/ Fail(r)
    \/ \E u \in Users : Leave(u) \/ Join(u)

Spec == Init /\ [][Next]_vars

-----------------------------------------------------------------------------
(* Properties.                                                             *)

\* An unread counter is the number of messages that were counted for the member
\* and committed since the member last sent or read: no increment is lost to a reset,
\* to another message or to a departure and a return, and none survives a rollback
\* (message.service.ts:246-267, 760-766, chat.service.ts:859-862).
CountersExact == \A u \in Users : unread[u] = Cardinality(fresh[u])

Posted(r) == rs[r].op \in {"send", "timer"} /\ rs[r].msg \in Sent

\* The conversation's last message may be older than another only if their
\* requests overlapped: it is never one that was answered before the request
\* of another began (message.service.ts:237-243, chat.service.ts:941-947).
LastNotOvertaken ==
    \A r \in Requests : Posted(r) =>
        /\ last # NoId
        /\ \A q \in rs[r].after : Posted(q) => rs[q].msg # last

\* The conversation as its members see it.  Though its queries interleave with
\* resets, departures, additions and other messages, a sending is addressed to those
\* who are in the conversation at one moment, nobody of them gets away before it
\* appears, and then, at once, the message is there, is the newest, and is counted
\* once for each of them and for nobody else: one who is added in between is in the
\* conversation and not counted for (message.service.ts:188-270,
\* chat.service.ts:571-592, 926-949).
Counting == locked # NoRequest /\ rs[locked].pc = "commit"

Box ==
    INSTANCE Inbox WITH
        members <- active,
        posted <- Sent,
        newest <- last,
        addressed <- Counting,
        audience <- DOMAIN pending

ImplementsInbox == Box!Spec
=============================================================================
