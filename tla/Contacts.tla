------------------------------ MODULE Contacts ------------------------------
(***************************************************************************)
(* Contacts, direct conversations and blocks: sendContactRequest,          *)
(* blockUser and unblockUser of src/modules/user/user.service.ts,          *)
(* getOrCreateDirectChat of src/modules/chat/chat.service.ts, and the      *)
(* readers of blocks: placing a call, viewing a story, the story feed.     *)
(*                                                                         *)
(* Requests interleave between any two queries.  A row of contacts, and a  *)
(* direct conversation, is named after the request that created it.  No    *)
(* code writes the status PENDING, so every row is ACCEPTED and answering  *)
(* a pending request finds none.  Nobody leaves a direct conversation.     *)
(***************************************************************************)
EXTENDS FiniteSets, Integers

CONSTANTS
    Users,
    MaxRequests,    \* bound on the requests, each used once
    MaxInFlight,    \* bound on those at work at a time
    MaxFaults       \* bound on failed queries

ASSUME BoundsAssumption == {MaxRequests, MaxInFlight, MaxFaults} \subseteq Nat

\* Requests are numbered in the order in which they begin.
Requests == 1 .. MaxRequests

VARIABLES
    contacts,       \* rows of contacts
    chats,          \* committed direct conversations
    blocks,         \* blocked_users: blocker and blocked
    rs,             \* requests
    faults

vars == <<contacts, chats, blocks, rs, faults>>

Readers == {"call", "view", "feed"}
Ops == {"contact", "chat", "block", "unblock"} \cup Readers

\* The code has no field after: the requests answered before this one began.
RequestStates ==
    [pc : {"free", "check", "find", "look", "create", "commit", "delete", "upsert",
           "seek", "remove", "done", "refused", "failed"},
     op : Ops, by : Users, with : Users, after : SUBSET Requests]

TypeOK ==
    /\ contacts \subseteq Requests
    /\ chats \subseteq Requests
    /\ blocks \subseteq Users \X Users
    /\ rs \in [Requests -> RequestStates]
    /\ faults \in 0 .. MaxFaults

Init ==
    /\ contacts = {} /\ chats = {} /\ blocks = {}
    /\ \E u \in Users :
         rs = [r \in Requests |->
                 [pc |-> "free", op |-> "call", by |-> u, with |-> u, after |-> {}]]
    /\ faults = 0

Answered == {r \in Requests : rs[r].pc = "done"}
InFlight == {r \in Requests : rs[r].pc \notin {"free", "done", "refused", "failed"}}

Pair(r) == {rs[r].by, rs[r].with}
Alike(r, q) == rs[r].by = rs[q].by /\ rs[r].with = rs[q].with

Goto(r, pc) == rs' = [rs EXCEPT ![r].pc = pc]

Begin(r, op, u, v, pc) ==
    /\ rs[r].pc = "free"
    /\ \A q \in Requests : q < r => rs[q].pc # "free"
    /\ Cardinality(InFlight) < MaxInFlight
    /\ u # v
    /\ rs' = [rs EXCEPT ![r] =
                [pc |-> pc, op |-> op, by |-> u, with |-> v, after |-> Answered]]
    /\ UNCHANGED <<contacts, chats, blocks, faults>>

-----------------------------------------------------------------------------
(* What a block stops.                                                     *)

BeginChecked(r, u, v) ==
    \E op \in {"contact", "chat"} \cup Readers : Begin(r, op, u, v, "check")

\* Bad: only the requester's own blocks.
BadBlockedWith(r) == <<rs[r].by, rs[r].with>> \in blocks

\* In either direction.
BlockedWith(r) == \E b \in blocks : {b[1], b[2]} = Pair(r)

\* The feed goes out without the other's stories: refused, too.
Check(r) ==
    /\ rs[r].pc = "check"
    /\ Goto(r, IF BlockedWith(r) THEN "refused"
               ELSE IF rs[r].op \in {"call", "view"} THEN "done" ELSE "find")
    /\ UNCHANGED <<contacts, chats, blocks, faults>>

-----------------------------------------------------------------------------
(* sendContactRequest, getOrCreateDirectChat and the feed.                 *)

AtFind(r, op) == rs[r].op = op /\ rs[r].pc = "find"
AtLook(r, op) == rs[r].op = op /\ rs[r].pc = "look"

ContactsWith(r) == {c \in contacts : Pair(c) = Pair(r)}

\* Bad: only conversations the requester created.
BadChatsWith(r) == {c \in chats : Alike(c, r)}

ChatsWith(r) == {c \in chats : Pair(c) = Pair(r)}

FindContact(r) ==
    /\ AtFind(r, "contact")
    /\ Goto(r, IF ContactsWith(r) # {} THEN "done" ELSE "create")
    /\ UNCHANGED <<contacts, chats, blocks, faults>>

FindChat(r) ==
    /\ AtFind(r, "chat")
    /\ Goto(r, IF ChatsWith(r) # {} THEN "done" ELSE "look")
    /\ UNCHANGED <<contacts, chats, blocks, faults>>

\* The conversation is written, in a transaction; the contact is not part of it.
LookForContact(r) ==
    /\ AtLook(r, "chat")
    /\ Goto(r, IF ContactsWith(r) # {} THEN "commit" ELSE "create")
    /\ UNCHANGED <<contacts, chats, blocks, faults>>

\* The unique index is on the two users in their order.
Refused(r) == \E c \in contacts : Alike(c, r)

\* A conversation goes on without the contact it could not create.
CreateContact(r) ==
    /\ rs[r].pc = "create"
    /\ contacts' = IF Refused(r) THEN contacts ELSE contacts \cup {r}
    /\ Goto(r, IF rs[r].op = "chat" THEN "commit"
               ELSE IF Refused(r) THEN "failed" ELSE "done")
    /\ UNCHANGED <<chats, blocks, faults>>

Commit(r) ==
    /\ rs[r].pc = "commit"
    /\ chats' = chats \cup {r}
    /\ Goto(r, "done")
    /\ UNCHANGED <<contacts, blocks, faults>>

\* The feed shows the stories of contacts and partners of direct conversations.
FeedContacts(r) ==
    /\ AtFind(r, "feed")
    /\ Goto(r, IF ContactsWith(r) # {} THEN "done" ELSE "look")
    /\ UNCHANGED <<contacts, chats, blocks, faults>>

FeedChats(r) ==
    /\ AtLook(r, "feed")
    /\ Goto(r, IF ChatsWith(r) # {} THEN "done" ELSE "refused")
    /\ UNCHANGED <<contacts, chats, blocks, faults>>

-----------------------------------------------------------------------------
(* blockUser and unblockUser.                                              *)

BeginBlock(r, u, v) == Begin(r, "block", u, v, "delete")

\* Bad: only the blocker's own rows.
BadDeleteContacts(r) ==
    /\ rs[r].pc = "delete"
    /\ contacts' = {c \in contacts : ~Alike(c, r)}
    /\ Goto(r, "upsert")
    /\ UNCHANGED <<chats, blocks, faults>>

DeleteContacts(r) ==
    /\ rs[r].pc = "delete"
    /\ contacts' = contacts \ ContactsWith(r)
    /\ Goto(r, "upsert")
    /\ UNCHANGED <<chats, blocks, faults>>

UpsertBlock(r) ==
    /\ rs[r].pc = "upsert"
    /\ blocks' = blocks \cup {<<rs[r].by, rs[r].with>>}
    /\ Goto(r, "done")
    /\ UNCHANGED <<contacts, chats, faults>>

BeginUnblock(r, u, v) == Begin(r, "unblock", u, v, "seek")

SeekBlock(r) ==
    /\ rs[r].pc = "seek"
    /\ Goto(r, IF <<rs[r].by, rs[r].with>> \in blocks THEN "remove" ELSE "refused")
    /\ UNCHANGED <<contacts, chats, blocks, faults>>

\* Bad: in either direction, as blocks are checked.
BadRemoveBlock(r) ==
    /\ rs[r].pc = "remove"
    /\ blocks' = {b \in blocks : {b[1], b[2]} # Pair(r)}
    /\ Goto(r, "done")
    /\ UNCHANGED <<contacts, chats, faults>>

\* Deleting a row that is gone is an error.
RemoveBlock(r) ==
    /\ rs[r].pc = "remove"
    /\ blocks' = blocks \ {<<rs[r].by, rs[r].with>>}
    /\ Goto(r, IF <<rs[r].by, rs[r].with>> \in blocks THEN "done" ELSE "failed")
    /\ UNCHANGED <<contacts, chats, faults>>

-----------------------------------------------------------------------------
\* A query fails.  The contact of a conversation may fail without ending it,
\* and stays when the conversation is rolled back.
Fail(r) ==
    /\ r \in InFlight
    /\ faults < MaxFaults
    /\ faults' = faults + 1
    /\ \/ Goto(r, "failed")
       \/ rs[r].op = "chat" /\ rs[r].pc \in {"look", "create"} /\ Goto(r, "commit")
    /\ UNCHANGED <<contacts, chats, blocks>>

Steps(r) ==
    \/ Check(r)
    \/ FindContact(r) \/ FindChat(r) \/ LookForContact(r) \/ CreateContact(r) \/ Commit(r)
    \/ FeedContacts(r) \/ FeedChats(r)
    \/ DeleteContacts(r) \/ UpsertBlock(r)
    \/ SeekBlock(r) \/ RemoveBlock(r)

Next ==
    \E r \in Requests :
        \/ \E u, v \in Users : BeginChecked(r, u, v) \/ BeginBlock(r, u, v) \/ BeginUnblock(r, u, v)
        \/ Steps(r)
        \/ Fail(r)

Spec == Init /\ [][Next]_vars

-----------------------------------------------------------------------------
(* Properties.                                                             *)

Is(r, op) == rs[r].op = op /\ rs[r].pc # "free"

\* The block b is lifted: the blocker's own unblocking was answered, and not
\* before b began.
Lifted(b) == \E q \in Answered \ rs[b].after : Is(q, "unblock") /\ Alike(q, b)

\* A block that was answered lasts until the blocker lifts it: neither the
\* other's unblocking nor a block of the other's ends it
\* (user.service.ts:356-364, 375-391).
BlockLasts ==
    \A b \in Answered : Is(b, "block") /\ ~Lifted(b) => <<rs[b].by, rs[b].with>> \in blocks

\* Whatever begins after a block was answered does not get past it, from
\* either side, unless the block was lifted: no contact, conversation, call,
\* view or story in the feed (user.service.ts:203-214, chat.service.ts:65-76,
\* call.handler.ts:169-188, story.service.ts:164-217, 348-359).
BlockStops ==
    \A r \in Requests : rs[r].op \in {"contact", "chat"} \cup Readers
                        /\ rs[r].pc \notin {"free", "check", "refused", "failed"} =>
        \A b \in rs[r].after : Is(b, "block") /\ Pair(b) = Pair(r) => Lifted(b)

Overlapping(r, q) == r \notin rs[q].after /\ q \notin rs[r].after

\* Two users one of whom blocks the other are no contacts, unless the request
\* that made them so overlapped with a block between them, having checked for
\* blocks before that one was written (user.service.ts:203-257, 349-364,
\* chat.service.ts:143-167).
BlockEndsContact ==
    \A c \in contacts :
        BlockedWith(c) =>
            \E b \in Requests : Is(b, "block") /\ Pair(b) = Pair(c) /\ Overlapping(b, c)

\* Two direct conversations of the same users, or two contact rows, come only
\* from requests that overlapped (chat.service.ts:79-142, user.service.ts:217-251).
DoublesOverlap ==
    \A r, q \in Requests :
        /\ r # q
        /\ {r, q} \subseteq chats \/ {r, q} \subseteq contacts
        /\ Pair(r) = Pair(q)
        => Overlapping(r, q)
=============================================================================
