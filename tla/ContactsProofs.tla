--------------------------- MODULE ContactsProofs ---------------------------
(***************************************************************************)
(* Proofs about Contacts for any number of users and requests and any      *)
(* overlap and failure of the requests.                                    *)
(***************************************************************************)
EXTENDS Contacts, TLAPS

Admissions == {"contact", "chat"} \cup Readers
Making == {"contact", "chat"}

\* Which requests stand where, and where the rows come from.
Shape ==
    /\ \A r \in Requests :
        /\ rs[r].pc = "check" => rs[r].op \in Admissions
        /\ rs[r].pc = "find" => rs[r].op \in Making \cup {"feed"}
        /\ rs[r].pc = "look" => rs[r].op \in {"chat", "feed"}
        /\ rs[r].pc = "create" => rs[r].op \in Making
        /\ rs[r].pc = "commit" => rs[r].op = "chat"
        /\ rs[r].pc \in {"delete", "upsert"} => rs[r].op = "block"
        /\ rs[r].pc \in {"seek", "remove"} => rs[r].op = "unblock"
    /\ \A c \in contacts : rs[c].op \in Making /\ rs[c].pc \in {"commit", "done", "failed"}
    /\ \A c \in chats : rs[c].op = "chat" /\ rs[c].pc = "done"

AfterAnswered == \A r \in Requests : rs[r].after \subseteq Answered

\* A request past the check for blocks made a contact, or may make one.
Passed(c) ==
    c \in contacts \/ (rs[c].op \in Making /\ rs[c].pc \in {"find", "look", "create"})

\* If its users are blocked then a block overlapped with it.
BlockedLater ==
    \A c \in Requests : Passed(c) /\ BlockedWith(c) =>
        \E b \in Requests : Is(b, "block") /\ Pair(b) = Pair(c) /\ Overlapping(b, c)

\* A block took away the contacts that were there when it began.
Deleted ==
    \A b \in Requests : rs[b].pc = "upsert" =>
        \A c \in contacts : Pair(c) = Pair(b) => c \notin rs[b].after

\* What a request did not find was not made before it began.
NotFound ==
    \A r \in Requests :
        /\ rs[r].pc = "create" =>
             \A c \in contacts : Pair(c) = Pair(r) => c \notin rs[r].after
        /\ rs[r].op = "chat" /\ rs[r].pc \in {"look", "create", "commit"} =>
             \A c \in chats : Pair(c) = Pair(r) => c \notin rs[r].after

IInv ==
    /\ TypeOK
    /\ Shape
    /\ AfterAnswered
    /\ BlockLasts
    /\ BlockStops
    /\ BlockedLater
    /\ Deleted
    /\ NotFound
    /\ DoublesOverlap

-----------------------------------------------------------------------------
(* What a step does.                                                       *)

LEMMA InvInit == Init => IInv
<1> SUFFICES ASSUME Init PROVE IInv
    OBVIOUS
<1>1. TypeOK
    BY BoundsAssumption DEF Init, TypeOK, RequestStates, Ops, Readers
<1>2. \A r \in Requests : rs[r].pc = "free" /\ rs[r].op = "call" /\ rs[r].after = {}
    BY DEF Init
<1>3. contacts = {} /\ chats = {} /\ blocks = {}
    BY DEF Init
<1> QED
    BY <1>1, <1>2, <1>3
    DEF IInv, Shape, AfterAnswered, Answered, BlockLasts, BlockStops, BlockedLater, BlockedWith,
        Passed, Making, Deleted, NotFound, DoublesOverlap

\* Only a request's own steps change it once it has begun, and keep what it
\* was asked.
LEMMA StepOf ==
    ASSUME TypeOK, [Next]_vars, NEW r \in Requests, rs[r].pc # "free", rs'[r] # rs[r]
    PROVE  Steps(r) \/ Fail(r)
<1>1. ASSUME NEW q \in Requests, q # r, Steps(q) \/ Fail(q) PROVE rs'[r] = rs[r]
    BY <1>1 DEF TypeOK, Steps, Check, FindContact, FindChat, LookForContact, CreateContact, Commit,
                FeedContacts, FeedChats, DeleteContacts, UpsertBlock, SeekBlock, RemoveBlock, Fail,
                Goto
<1>2. ASSUME NEW q \in Requests, NEW u \in Users, NEW v \in Users,
             BeginChecked(q, u, v) \/ BeginBlock(q, u, v) \/ BeginUnblock(q, u, v)
      PROVE  rs'[r] = rs[r]
    BY <1>2 DEF TypeOK, BeginChecked, BeginBlock, BeginUnblock, Begin
<1>3. \E q \in Requests : Steps(q) \/ Fail(q)
    BY <1>2 DEF Next, vars
<1> QED
    BY <1>1, <1>3

\* No step changes two requests.
LEMMA OneAtATime ==
    ASSUME TypeOK, [Next]_vars, NEW r \in Requests, NEW q \in Requests,
           rs'[r] # rs[r], rs'[q] # rs[q]
    PROVE  r = q
<1>1. ASSUME NEW a \in Requests, Steps(a) \/ Fail(a) PROVE r = a /\ q = a
    BY <1>1 DEF TypeOK, Steps, Check, FindContact, FindChat, LookForContact, CreateContact, Commit,
                FeedContacts, FeedChats, DeleteContacts, UpsertBlock, SeekBlock, RemoveBlock, Fail,
                Goto
<1>2. ASSUME NEW a \in Requests, NEW u \in Users, NEW v \in Users,
             BeginChecked(a, u, v) \/ BeginBlock(a, u, v) \/ BeginUnblock(a, u, v)
      PROVE  r = a /\ q = a
    BY <1>2 DEF TypeOK, BeginChecked, BeginBlock, BeginUnblock, Begin
<1> QED
    BY <1>1, <1>2 DEF Next, vars

\* A request begins.
Begins(r) ==
    /\ rs[r].pc = "free"
    /\ rs'[r].after = Answered
    /\ \/ rs'[r].op \in Admissions /\ rs'[r].pc = "check"
       \/ rs'[r].op = "block" /\ rs'[r].pc = "delete"
       \/ rs'[r].op = "unblock" /\ rs'[r].pc = "seek"

\* A request goes on, with what it found.
GoesOn(r) ==
    /\ rs'[r].op = rs[r].op /\ rs'[r].by = rs[r].by /\ rs'[r].with = rs[r].with
    /\ rs'[r].after = rs[r].after
    /\ \/ rs[r].pc = "check" /\ rs'[r].pc = "refused"
       \/ rs[r].pc = "check" /\ ~BlockedWith(r) /\ rs[r].op \in {"call", "view"} /\ rs'[r].pc = "done"
       \/ rs[r].pc = "check" /\ ~BlockedWith(r) /\ rs[r].op \notin {"call", "view"}
            /\ rs'[r].pc = "find"
       \/ rs[r].pc = "find" /\ rs'[r].pc = "done"
       \/ rs[r].pc = "find" /\ rs[r].op = "contact" /\ rs'[r].pc = "create" /\ ContactsWith(r) = {}
       \/ rs[r].pc = "find" /\ rs[r].op = "chat" /\ rs'[r].pc = "look" /\ ChatsWith(r) = {}
       \/ rs[r].pc = "find" /\ rs[r].op = "feed" /\ rs'[r].pc = "look"
       \/ rs[r].pc = "look" /\ rs[r].op = "feed" /\ rs'[r].pc \in {"done", "refused"}
       \/ rs[r].pc = "look" /\ rs[r].op = "chat" /\ rs'[r].pc = "create" /\ ContactsWith(r) = {}
       \/ rs[r].pc \in {"look", "create"} /\ rs[r].op = "chat" /\ rs'[r].pc = "commit"
       \/ rs[r].pc = "create" /\ rs[r].op # "chat" /\ rs'[r].pc = "done"
       \/ rs[r].pc = "commit" /\ rs'[r].pc = "done"
       \/ rs[r].pc = "delete" /\ rs'[r].pc = "upsert"
       \/ rs[r].pc = "upsert" /\ rs'[r].pc = "done"
       \/ rs[r].pc = "seek" /\ rs'[r].pc \in {"remove", "refused"}
       \/ rs[r].pc = "remove" /\ rs'[r].pc = "done"
       \/ rs[r].pc \notin {"free", "done", "refused"} /\ rs'[r].pc = "failed"

LEMMA RequestSteps ==
    ASSUME TypeOK, [Next]_vars, NEW r \in Requests, rs'[r] # rs[r]
    PROVE  Begins(r) \/ GoesOn(r)
<1> USE DEF TypeOK, RequestStates
<1>1. CASE rs[r].pc = "free"
  <2>1. ASSUME NEW q \in Requests, Steps(q) \/ Fail(q) PROVE q # r
    BY <1>1, <2>1
    DEF Steps, Check, FindContact, FindChat, LookForContact, CreateContact, Commit, FeedContacts,
        FeedChats, DeleteContacts, UpsertBlock, SeekBlock, RemoveBlock, Fail, InFlight, AtFind,
        AtLook
  <2>2. ASSUME NEW q \in Requests, Steps(q) \/ Fail(q) PROVE rs'[r] = rs[r]
    BY <2>1, <2>2
    DEF Steps, Check, FindContact, FindChat, LookForContact, CreateContact, Commit, FeedContacts,
        FeedChats, DeleteContacts, UpsertBlock, SeekBlock, RemoveBlock, Fail, Goto
  <2>3. PICK q \in Requests, u \in Users, v \in Users :
            BeginChecked(q, u, v) \/ BeginBlock(q, u, v) \/ BeginUnblock(q, u, v)
    BY <2>2 DEF Next, vars
  <2>4. PICK op \in Ops, pc \in {"check", "delete", "seek"} :
            /\ Begin(q, op, u, v, pc)
            /\ \/ op \in Admissions /\ pc = "check"
               \/ op = "block" /\ pc = "delete"
               \/ op = "unblock" /\ pc = "seek"
    BY <2>3 DEF BeginChecked, BeginBlock, BeginUnblock, Ops, Admissions
  <2> QED
    BY <1>1, <2>4 DEF Begin, Begins
<1>2. CASE rs[r].pc # "free"
  <2>1. ASSUME Check(r) PROVE GoesOn(r)
    BY <2>1 DEF Check, Goto, GoesOn
  <2>2. ASSUME FindContact(r) \/ FindChat(r) \/ LookForContact(r) PROVE GoesOn(r)
    BY <2>2 DEF FindContact, FindChat, LookForContact, AtFind, AtLook, Goto, GoesOn
  <2>3. ASSUME CreateContact(r) \/ Commit(r) PROVE GoesOn(r)
    BY <2>3 DEF CreateContact, Commit, Goto, GoesOn
  <2>4. ASSUME FeedContacts(r) \/ FeedChats(r) PROVE GoesOn(r)
    BY <2>4 DEF FeedContacts, FeedChats, AtFind, AtLook, Goto, GoesOn
  <2>5. ASSUME DeleteContacts(r) \/ UpsertBlock(r) PROVE GoesOn(r)
    BY <2>5 DEF DeleteContacts, UpsertBlock, Goto, GoesOn
  <2>6. ASSUME SeekBlock(r) \/ RemoveBlock(r) PROVE GoesOn(r)
    BY <2>6 DEF SeekBlock, RemoveBlock, Goto, GoesOn
  <2>7. ASSUME Fail(r) PROVE GoesOn(r)
    BY <2>7 DEF Fail, InFlight, Goto, GoesOn
  <2> QED
    BY <1>2, <2>1, <2>2, <2>3, <2>4, <2>5, <2>6, <2>7, StepOf DEF Steps
<1> QED
    BY <1>1, <1>2

\* Which step writes to the stores.
LEMMA StoreSteps ==
    ASSUME TypeOK, [Next]_vars
    PROVE  \/ UNCHANGED <<contacts, chats, blocks>>
           \/ \E r \in Requests :
                 \/ /\ rs[r].pc = "create" /\ rs'[r].pc \in {"commit", "done"}
                    /\ contacts' = contacts \cup {r} /\ UNCHANGED <<chats, blocks>>
                 \/ /\ rs[r].pc = "commit" /\ rs'[r].pc = "done"
                    /\ chats' = chats \cup {r} /\ UNCHANGED <<contacts, blocks>>
                 \/ /\ rs[r].pc = "delete" /\ rs'[r].pc = "upsert"
                    /\ contacts' = contacts \ ContactsWith(r) /\ UNCHANGED <<chats, blocks>>
                 \/ /\ rs[r].pc = "upsert" /\ rs'[r].pc = "done"
                    /\ blocks' = blocks \cup {<<rs[r].by, rs[r].with>>}
                    /\ UNCHANGED <<contacts, chats>>
                 \/ /\ rs[r].pc = "remove" /\ rs'[r].pc = "done"
                    /\ blocks' = blocks \ {<<rs[r].by, rs[r].with>>}
                    /\ UNCHANGED <<contacts, chats>>
<1> USE DEF TypeOK, RequestStates
<1>1. CASE UNCHANGED vars
    BY <1>1 DEF vars
<1>2. ASSUME NEW r \in Requests, NEW u \in Users, NEW v \in Users,
             BeginChecked(r, u, v) \/ BeginBlock(r, u, v) \/ BeginUnblock(r, u, v)
      PROVE  UNCHANGED <<contacts, chats, blocks>>
    BY <1>2 DEF BeginChecked, BeginBlock, BeginUnblock, Begin
<1>3. ASSUME NEW r \in Requests,
             Check(r) \/ FindContact(r) \/ FindChat(r) \/ LookForContact(r) \/ FeedContacts(r)
               \/ FeedChats(r) \/ SeekBlock(r) \/ Fail(r)
      PROVE  UNCHANGED <<contacts, chats, blocks>>
    BY <1>3 DEF Check, FindContact, FindChat, LookForContact, FeedContacts, FeedChats, SeekBlock, Fail
<1>4. ASSUME NEW r \in Requests, CreateContact(r)
      PROVE  \/ UNCHANGED <<contacts, chats, blocks>>
             \/ /\ rs[r].pc = "create" /\ rs'[r].pc \in {"commit", "done"}
                /\ contacts' = contacts \cup {r} /\ UNCHANGED <<chats, blocks>>
    BY <1>4 DEF CreateContact, Goto
<1>5. ASSUME NEW r \in Requests, Commit(r)
      PROVE  /\ rs[r].pc = "commit" /\ rs'[r].pc = "done"
             /\ chats' = chats \cup {r} /\ UNCHANGED <<contacts, blocks>>
    BY <1>5 DEF Commit, Goto
<1>6. ASSUME NEW r \in Requests, DeleteContacts(r)
      PROVE  /\ rs[r].pc = "delete" /\ rs'[r].pc = "upsert"
             /\ contacts' = contacts \ ContactsWith(r) /\ UNCHANGED <<chats, blocks>>
    BY <1>6 DEF DeleteContacts, Goto
<1>7. ASSUME NEW r \in Requests, UpsertBlock(r)
      PROVE  /\ rs[r].pc = "upsert" /\ rs'[r].pc = "done"
             /\ blocks' = blocks \cup {<<rs[r].by, rs[r].with>>}
             /\ UNCHANGED <<contacts, chats>>
    BY <1>7 DEF UpsertBlock, Goto
<1>8. ASSUME NEW r \in Requests, RemoveBlock(r)
      PROVE  \/ UNCHANGED <<contacts, chats, blocks>>
             \/ /\ rs[r].pc = "remove" /\ rs'[r].pc = "done"
                /\ blocks' = blocks \ {<<rs[r].by, rs[r].with>>}
                /\ UNCHANGED <<contacts, chats>>
    BY <1>8 DEF RemoveBlock, Goto
<1> QED
  <2>1. CASE \E r \in Requests : Fail(r)
                \/ \E u, v \in Users : BeginChecked(r, u, v) \/ BeginBlock(r, u, v) \/ BeginUnblock(r, u, v)
    BY <1>2, <1>3, <2>1
  <2>2. CASE \E r \in Requests : Steps(r)
    BY <1>3, <1>4, <1>5, <1>6, <1>7, <1>8, <2>2 DEF Steps
  <2> QED
    BY <1>1, <2>1, <2>2 DEF Next

LEMMA UpsertStores ==
    ASSUME TypeOK, [Next]_vars, NEW r \in Requests, rs[r].pc = "upsert", rs'[r].pc = "done"
    PROVE  <<rs[r].by, rs[r].with>> \in blocks'
<1>1. Steps(r)
    BY StepOf DEF Fail, Goto, TypeOK, RequestStates
<1>2. UpsertBlock(r)
    BY <1>1
    DEF Steps, Check, FindContact, FindChat, LookForContact, CreateContact, Commit, FeedContacts,
        FeedChats, DeleteContacts, SeekBlock, RemoveBlock, AtFind, AtLook
<1> QED
    BY <1>2 DEF UpsertBlock

LEMMA DeleteStores ==
    ASSUME TypeOK, [Next]_vars, NEW r \in Requests, rs[r].pc = "delete", rs'[r].pc = "upsert"
    PROVE  contacts' = contacts \ ContactsWith(r)
<1>1. Steps(r)
    BY StepOf DEF Fail, Goto, TypeOK, RequestStates
<1>2. DeleteContacts(r)
    BY <1>1
    DEF Steps, Check, FindContact, FindChat, LookForContact, CreateContact, Commit, FeedContacts,
        FeedChats, UpsertBlock, SeekBlock, RemoveBlock, AtFind, AtLook
<1> QED
    BY <1>2 DEF DeleteContacts

\* What was answered stays answered, and what has begun keeps what it was asked.
LEMMA AnsweredStays ==
    ASSUME TypeOK, [Next]_vars
    PROVE  /\ \A p \in Answered : rs'[p] = rs[p]
           /\ Answered \subseteq Answered'
           /\ \A p \in Requests : rs[p].pc # "free" =>
                /\ rs'[p].op = rs[p].op /\ rs'[p].by = rs[p].by /\ rs'[p].with = rs[p].with
                /\ rs'[p].after = rs[p].after
                /\ rs'[p].pc # "free"
<1>1. ASSUME NEW p \in Requests, rs[p].pc # "free"
      PROVE  /\ rs'[p].op = rs[p].op /\ rs'[p].by = rs[p].by /\ rs'[p].with = rs[p].with
             /\ rs'[p].after = rs[p].after
             /\ rs'[p].pc # "free"
             /\ rs[p].pc = "done" => rs'[p] = rs[p]
    BY <1>1, RequestSteps DEF Begins, GoesOn
<1> QED
    BY <1>1 DEF Answered

-----------------------------------------------------------------------------
(* The parts of the invariant.                                             *)

LEMMA TypeNext ==
    ASSUME TypeOK, Shape, [Next]_vars
    PROVE  TypeOK'
<1> USE DEF TypeOK, RequestStates
<1>1. contacts' \subseteq Requests /\ chats' \subseteq Requests
    BY StoreSteps
<1>2. blocks' \subseteq Users \X Users
    BY StoreSteps
<1>3. faults' \in 0 .. MaxFaults
  <2>1. ASSUME NEW r \in Requests, Steps(r) PROVE faults' = faults
    BY <2>1
    DEF Steps, Check, FindContact, FindChat, LookForContact, CreateContact, Commit, FeedContacts,
        FeedChats, DeleteContacts, UpsertBlock, SeekBlock, RemoveBlock
  <2>2. ASSUME NEW r \in Requests, Fail(r) PROVE faults' \in 0 .. MaxFaults
    BY <2>2, BoundsAssumption DEF Fail
  <2>3. ASSUME NEW r \in Requests, NEW u \in Users, NEW v \in Users,
               BeginChecked(r, u, v) \/ BeginBlock(r, u, v) \/ BeginUnblock(r, u, v)
        PROVE  faults' = faults
    BY <2>3 DEF BeginChecked, BeginBlock, BeginUnblock, Begin
  <2> QED
    BY <2>1, <2>2, <2>3 DEF Next, vars
<1>4. rs' \in [Requests -> RequestStates]
  <2>1. ASSUME NEW r \in Requests, NEW pc, Goto(r, pc),
               pc \in {"find", "look", "create", "commit", "upsert", "remove", "done", "refused",
                       "failed"}
        PROVE  rs' \in [Requests -> RequestStates]
    BY <2>1 DEF Goto
  <2>2. ASSUME NEW r \in Requests, Steps(r) \/ Fail(r)
        PROVE  \E pc \in {"find", "look", "create", "commit", "upsert", "remove", "done",
                          "refused", "failed"} : Goto(r, pc)
    <3>1. ASSUME Check(r) \/ FindContact(r) \/ FindChat(r) \/ LookForContact(r)
          PROVE  \E pc \in {"find", "look", "create", "commit", "done", "refused"} : Goto(r, pc)
      BY <3>1 DEF Check, FindContact, FindChat, LookForContact
    <3>2. ASSUME CreateContact(r) \/ Commit(r) \/ FeedContacts(r) \/ FeedChats(r)
          PROVE  \E pc \in {"look", "commit", "done", "refused", "failed"} : Goto(r, pc)
      BY <3>2 DEF CreateContact, Commit, FeedContacts, FeedChats
    <3>3. ASSUME DeleteContacts(r) \/ UpsertBlock(r) \/ SeekBlock(r) \/ RemoveBlock(r)
          PROVE  \E pc \in {"upsert", "done", "remove", "refused", "failed"} : Goto(r, pc)
      BY <3>3 DEF DeleteContacts, UpsertBlock, SeekBlock, RemoveBlock
    <3>4. ASSUME Fail(r) PROVE \E pc \in {"failed", "commit"} : Goto(r, pc)
      BY <3>4 DEF Fail
    <3> QED
      BY <2>2, <3>1, <3>2, <3>3, <3>4 DEF Steps
  <2>3. ASSUME NEW r \in Requests, NEW u \in Users, NEW v \in Users,
               BeginChecked(r, u, v) \/ BeginBlock(r, u, v) \/ BeginUnblock(r, u, v)
        PROVE  rs' \in [Requests -> RequestStates]
    BY <2>3 DEF BeginChecked, BeginBlock, BeginUnblock, Begin, Ops, Readers, Answered
  <2> QED
    BY <2>1, <2>2, <2>3 DEF Next, vars
<1> QED
    BY <1>1, <1>2, <1>3, <1>4

LEMMA ShapeNext ==
    ASSUME TypeOK, Shape, [Next]_vars
    PROVE  Shape'
<1>1. ASSUME NEW r \in Requests
      PROVE  /\ rs'[r].pc = "check" => rs'[r].op \in Admissions
             /\ rs'[r].pc = "find" => rs'[r].op \in Making \cup {"feed"}
             /\ rs'[r].pc = "look" => rs'[r].op \in {"chat", "feed"}
             /\ rs'[r].pc = "create" => rs'[r].op \in Making
             /\ rs'[r].pc = "commit" => rs'[r].op = "chat"
             /\ rs'[r].pc \in {"delete", "upsert"} => rs'[r].op = "block"
             /\ rs'[r].pc \in {"seek", "remove"} => rs'[r].op = "unblock"
    BY <1>1, RequestSteps DEF Shape, Begins, GoesOn, Admissions, Making, Readers
<1>2. ASSUME NEW c \in contacts'
      PROVE  rs'[c].op \in Making /\ rs'[c].pc \in {"commit", "done", "failed"}
  <2>1. c \in Requests /\ (c \in contacts \/ (rs[c].pc = "create" /\ rs'[c].pc \in {"commit", "done"}))
    BY StoreSteps DEF TypeOK
  <2> QED
    BY <2>1, RequestSteps DEF Shape, Begins, GoesOn
<1>3. ASSUME NEW c \in chats' PROVE rs'[c].op = "chat" /\ rs'[c].pc = "done"
  <2>1. c \in Requests /\ (c \in chats \/ (rs[c].pc = "commit" /\ rs'[c].pc = "done"))
    BY StoreSteps DEF TypeOK
  <2> QED
    BY <2>1, RequestSteps DEF Shape, Begins, GoesOn
<1> QED
    BY <1>1, <1>2, <1>3 DEF Shape

LEMMA AfterNext ==
    ASSUME TypeOK, AfterAnswered, [Next]_vars
    PROVE  AfterAnswered'
<1>1. ASSUME NEW r \in Requests PROVE rs'[r].after \subseteq Answered'
    BY AnsweredStays, RequestSteps DEF AfterAnswered, Begins, GoesOn
<1> QED
    BY <1>1 DEF AfterAnswered

LEMMA LiftedStays ==
    ASSUME TypeOK, [Next]_vars, NEW b \in Requests, rs[b].pc # "free", Lifted(b)
    PROVE  Lifted(b)'
<1>1. PICK q \in Answered \ rs[b].after : Is(q, "unblock") /\ Alike(q, b)
    BY DEF Lifted
<1>2. /\ rs'[q] = rs[q] /\ q \in Answered' /\ rs'[b].after = rs[b].after
      /\ rs'[b].by = rs[b].by /\ rs'[b].with = rs[b].with
    BY <1>1, AnsweredStays
<1> QED
    BY <1>1, <1>2 DEF Lifted, Is, Alike

\* Only an unblocking takes a block away, and one that was not answered when
\* the block began.
LEMMA LastsNext ==
    ASSUME TypeOK, Shape, AfterAnswered, BlockLasts, [Next]_vars
    PROVE  BlockLasts'
<1>1. SUFFICES ASSUME NEW b \in Answered', Is(b, "block")', ~Lifted(b)'
               PROVE  <<rs'[b].by, rs'[b].with>> \in blocks'
    BY DEF BlockLasts
<1>2. b \in Requests /\ rs'[b].pc = "done" /\ rs'[b].op = "block"
    BY <1>1 DEF Answered, Is
<1>3. CASE b \notin Answered
  <2>1. rs[b].pc = "upsert" /\ rs'[b].by = rs[b].by /\ rs'[b].with = rs[b].with
    BY <1>2, <1>3, RequestSteps
    DEF Answered, Begins, GoesOn, Shape, Making, Admissions, Readers
  <2> QED
    BY <1>2, <2>1, UpsertStores
<1>4. CASE b \in Answered
  <2>1. rs'[b] = rs[b]
    BY <1>4, AnsweredStays
  <2>2. ~Lifted(b)
    BY <1>1, <1>2, <1>4, LiftedStays DEF Answered
  <2>3. <<rs[b].by, rs[b].with>> \in blocks
    BY <1>1, <1>4, <2>1, <2>2 DEF BlockLasts, Is
  <2>4. ASSUME NEW q \in Requests, rs[q].pc = "remove", rs'[q].pc = "done"
        PROVE  <<rs[q].by, rs[q].with>> # <<rs[b].by, rs[b].with>>
    <3>1. /\ rs'[q].op = "unblock" /\ q \in Answered'
          /\ rs'[q].by = rs[q].by /\ rs'[q].with = rs[q].with
      BY <2>4, AnsweredStays DEF Shape, Answered
    <3>2. q \notin rs'[b].after
      BY <1>2, <2>1, <2>4 DEF AfterAnswered, Answered
    <3> QED
      BY <1>1, <2>1, <2>4, <3>1, <3>2 DEF Lifted, Is, Alike
  <2> QED
    BY <2>1, <2>3, <2>4, StoreSteps
<1> QED
    BY <1>3, <1>4

\* A request that gets past the check saw no block; one that was answered
\* before and not lifted would have been there.
LEMMA StopsNext ==
    ASSUME TypeOK, Shape, AfterAnswered, BlockLasts, BlockStops, [Next]_vars
    PROVE  BlockStops'
<1>1. SUFFICES ASSUME NEW r \in Requests, rs'[r].op \in Admissions,
                      rs'[r].pc \notin {"free", "check", "refused", "failed"},
                      NEW b \in rs'[r].after, Is(b, "block")', Pair(b)' = Pair(r)'
               PROVE  Lifted(b)'
    BY DEF BlockStops, Admissions
<1>2. /\ rs[r].pc # "free" /\ rs'[r].op = rs[r].op /\ rs'[r].after = rs[r].after
      /\ rs'[r].by = rs[r].by /\ rs'[r].with = rs[r].with
    BY <1>1, RequestSteps DEF Begins, GoesOn, Admissions, Readers
<1>3. b \in Answered /\ b \in Requests /\ rs'[b] = rs[b] /\ rs[b].pc = "done"
    BY <1>2, AnsweredStays DEF AfterAnswered, Answered
<1>4. Is(b, "block") /\ Pair(b) = Pair(r)
    BY <1>1, <1>2, <1>3 DEF Is, Pair
<1>5. Lifted(b)
  <2>1. CASE rs[r].pc = "check"
    <3>1. ~BlockedWith(r)
      BY <1>1, <2>1, RequestSteps DEF Begins, GoesOn
    <3>2. <<rs[b].by, rs[b].with>> \notin blocks
      BY <1>4, <3>1 DEF BlockedWith, Pair
    <3> QED
      BY <1>3, <1>4, <3>2 DEF BlockLasts
  <2>2. CASE rs[r].pc # "check"
    <3>1. rs[r].pc \notin {"free", "check", "refused", "failed"}
      BY <1>1, <1>2, <2>2, RequestSteps DEF Begins, GoesOn
    <3> QED
      BY <1>1, <1>2, <1>4, <3>1 DEF BlockStops, Admissions
  <2> QED
    BY <2>1, <2>2
<1> QED
    BY <1>3, <1>5, LiftedStays

\* A row that a step adds belongs to a request not answered before it.
LEMMA NewRows ==
    ASSUME TypeOK, [Next]_vars
    PROVE  /\ \A c \in contacts' \ contacts : c \in Requests /\ rs[c].pc = "create"
                                               /\ rs'[c].pc \in {"commit", "done"}
           /\ \A c \in chats' \ chats : c \in Requests /\ rs[c].pc = "commit"
                                         /\ rs'[c].pc = "done"
    BY StoreSteps DEF TypeOK

LEMMA PairStays ==
    ASSUME TypeOK, [Next]_vars, NEW r \in Requests, rs[r].pc # "free"
    PROVE  Pair(r)' = Pair(r) /\ rs'[r].after = rs[r].after
    BY AnsweredStays DEF Pair

\* The block that comes into being after a request passed the check overlaps
\* with it: it was not answered when the request began, and had it begun
\* after the request was answered it would have deleted the contact.
LEMMA LaterNext ==
    ASSUME TypeOK, Shape, AfterAnswered, BlockedLater, Deleted, [Next]_vars
    PROVE  BlockedLater'
<1>1. SUFFICES ASSUME NEW c \in Requests, Passed(c)', BlockedWith(c)'
               PROVE  \E b \in Requests : Is(b, "block")' /\ Pair(b)' = Pair(c)'
                                          /\ Overlapping(b, c)'
    BY DEF BlockedLater
<1>2. rs[c].pc # "free"
  <2>1. CASE c \in contacts'
    BY <2>1, NewRows DEF Shape, Making
  <2>2. CASE rs'[c].pc \in {"find", "look", "create"}
    BY <2>2, RequestSteps DEF Begins, GoesOn
  <2> QED
    BY <1>1, <2>1, <2>2 DEF Passed
<1>3. Pair(c)' = Pair(c) /\ rs'[c].after = rs[c].after /\ rs'[c].op = rs[c].op
    BY <1>2, PairStays, AnsweredStays
<1>4. CASE Passed(c) /\ BlockedWith(c)
  <2>1. PICK b \in Requests : Is(b, "block") /\ Pair(b) = Pair(c) /\ Overlapping(b, c)
    BY <1>4 DEF BlockedLater
  <2>2. Is(b, "block")' /\ Pair(b)' = Pair(b) /\ rs'[b].after = rs[b].after
    BY <2>1, PairStays, AnsweredStays DEF Is
  <2> QED
    BY <1>3, <2>1, <2>2 DEF Overlapping
<1>5. CASE ~BlockedWith(c)
  <2>1. PICK b \in Requests : /\ rs[b].pc = "upsert" /\ rs'[b].pc = "done"
                              /\ Pair(b) = Pair(c)
    <3>1. PICK x \in blocks' : {x[1], x[2]} = Pair(c)
      BY <1>1, <1>3 DEF BlockedWith
    <3>2. x \notin blocks
      BY <1>5, <3>1 DEF BlockedWith
    <3>3. \E b \in Requests : /\ rs[b].pc = "upsert" /\ rs'[b].pc = "done"
                              /\ x = <<rs[b].by, rs[b].with>>
      BY <3>2, StoreSteps
    <3> QED
      BY <3>1, <3>3 DEF Pair
  <2>2. Is(b, "block")' /\ Pair(b)' = Pair(c)' /\ rs'[b].after = rs[b].after
    BY <1>3, <2>1, PairStays, AnsweredStays DEF Is, Shape
  <2>3. b \notin rs[c].after
    BY <2>1 DEF AfterAnswered, Answered
  <2>4. c \in contacts \/ rs[c].pc \in {"find", "look", "create"}
    <3>1. CASE rs[c].pc = "check"
      <4>1. rs'[c] = rs[c]
        BY <2>1, <3>1, OneAtATime
      <4> QED
        BY <1>1, <3>1, <4>1, NewRows DEF Passed
    <3>2. CASE rs[c].pc # "check"
      BY <1>1, <1>2, <3>2, NewRows, RequestSteps DEF Passed, Begins, GoesOn
    <3> QED
      BY <3>1, <3>2
  <2>5. c \notin rs[b].after
    BY <2>1, <2>4 DEF Deleted, AfterAnswered, Answered
  <2> QED
    BY <1>3, <2>2, <2>3, <2>5 DEF Overlapping
<1>6. CASE ~Passed(c) /\ BlockedWith(c)
  <2>1. c \notin contacts'
    BY <1>6, NewRows DEF Passed, Shape
  <2>2. rs'[c].pc \in {"find", "look", "create"} /\ rs'[c].op \in Making
    BY <1>1, <2>1 DEF Passed
  <2>3. rs[c].pc \notin {"find", "look", "create"}
    BY <1>3, <1>6, <2>2 DEF Passed
  <2> QED
    BY <1>2, <1>6, <2>2, <2>3, RequestSteps DEF Begins, GoesOn
<1> QED
    BY <1>4, <1>5, <1>6

LEMMA DeletedNext ==
    ASSUME TypeOK, Shape, AfterAnswered, Deleted, [Next]_vars
    PROVE  Deleted'
<1>1. SUFFICES ASSUME NEW b \in Requests, rs'[b].pc = "upsert",
                      NEW c \in contacts', Pair(c)' = Pair(b)'
               PROVE  c \notin rs'[b].after
    BY DEF Deleted
<1>2. rs[b].pc # "free"
    BY <1>1, RequestSteps DEF Begins, GoesOn
<1>3. c \in Requests /\ rs[c].pc # "free"
    BY NewRows DEF Shape, TypeOK
<1>4. Pair(c) = Pair(b) /\ rs'[b].after = rs[b].after
    BY <1>1, <1>2, <1>3, PairStays
<1>5. CASE c \notin contacts
    BY <1>4, <1>5, NewRows DEF AfterAnswered, Answered
<1>6. CASE c \in contacts
  <2>1. rs[b].pc = "upsert"
    <3>1. rs[b].pc # "delete"
      BY <1>1, <1>4, <1>6, DeleteStores DEF ContactsWith
    <3> QED
      BY <1>1, <1>2, <3>1, RequestSteps DEF Begins, GoesOn
  <2> QED
    BY <1>4, <1>6, <2>1 DEF Deleted
<1> QED
    BY <1>5, <1>6

LEMMA NotFoundNext ==
    ASSUME TypeOK, Shape, AfterAnswered, NotFound, [Next]_vars
    PROVE  NotFound'
<1>1. SUFFICES ASSUME NEW r \in Requests
               PROVE  /\ rs'[r].pc = "create" =>
                           \A c \in contacts' : Pair(c)' = Pair(r)' => c \notin rs'[r].after
                      /\ rs'[r].op = "chat" /\ rs'[r].pc \in {"look", "create", "commit"} =>
                           \A c \in chats' : Pair(c)' = Pair(r)' => c \notin rs'[r].after
    BY DEF NotFound
<1>2. ASSUME NEW c \in contacts' \cup chats', rs[r].pc # "free", Pair(c)' = Pair(r)'
      PROVE  c \in Requests /\ Pair(c) = Pair(r) /\ rs'[r].after = rs[r].after
                /\ rs'[r].op = rs[r].op
  <2>1. c \in Requests /\ rs[c].pc # "free"
    BY NewRows DEF Shape, TypeOK
  <2> QED
    BY <1>2, <2>1, PairStays, AnsweredStays
<1>3. ASSUME rs'[r].pc = "create", NEW c \in contacts', Pair(c)' = Pair(r)'
      PROVE  c \notin rs'[r].after
  <2>1. rs[r].pc # "free" /\ (rs[r].pc = "create" \/ ContactsWith(r) = {})
    BY <1>3, RequestSteps DEF Begins, GoesOn
  <2>2. CASE c \notin contacts
    BY <1>2, <1>3, <2>1, <2>2, NewRows DEF AfterAnswered, Answered
  <2>3. CASE c \in contacts
    BY <1>2, <1>3, <2>1, <2>3 DEF NotFound, ContactsWith
  <2> QED
    BY <2>2, <2>3
<1>4. ASSUME rs'[r].op = "chat", rs'[r].pc \in {"look", "create", "commit"},
             NEW c \in chats', Pair(c)' = Pair(r)'
      PROVE  c \notin rs'[r].after
  <2>1. rs[r].pc # "free" /\ rs[r].op = "chat"
    BY <1>4, RequestSteps DEF Begins, GoesOn
  <2>2. rs[r].pc \in {"look", "create", "commit"} \/ ChatsWith(r) = {}
    BY <1>4, <2>1, RequestSteps DEF Begins, GoesOn
  <2>3. CASE c \notin chats
    BY <1>2, <1>4, <2>1, <2>3, NewRows DEF AfterAnswered, Answered
  <2>4. CASE c \in chats
    BY <1>2, <1>4, <2>1, <2>2, <2>4 DEF NotFound, ChatsWith
  <2> QED
    BY <2>3, <2>4
<1> QED
    BY <1>3, <1>4

\* Of two rows the later one was not yet there when its request looked, nor
\* answered when the other's request began.
LEMMA DoublesNext ==
    ASSUME TypeOK, Shape, AfterAnswered, NotFound, DoublesOverlap, [Next]_vars
    PROVE  DoublesOverlap'
<1>1. SUFFICES ASSUME NEW r \in Requests, NEW q \in Requests, r # q,
                      {r, q} \subseteq chats' \/ {r, q} \subseteq contacts', Pair(r)' = Pair(q)'
               PROVE  r \notin rs'[q].after /\ q \notin rs'[r].after
    BY DEF DoublesOverlap, Overlapping
<1>2. rs[r].pc # "free" /\ rs[q].pc # "free"
    BY <1>1, NewRows DEF Shape
<1>3. Pair(r) = Pair(q) /\ rs'[r].after = rs[r].after /\ rs'[q].after = rs[q].after
    BY <1>1, <1>2, PairStays
<1>4. ASSUME NEW a \in Requests, NEW b \in Requests, Pair(a) = Pair(b),
             \/ a \in chats' \ chats /\ b \in chats
             \/ a \in contacts' \ contacts /\ b \in contacts
      PROVE  a \notin rs[b].after /\ b \notin rs[a].after
  <2>1. a \notin Answered
    BY <1>4, NewRows DEF Answered
  <2>2. b \notin rs[a].after
    BY <1>4, NewRows DEF NotFound, Shape
  <2> QED
    BY <2>1, <2>2 DEF AfterAnswered
<1>5. {r, q} \subseteq chats' => r \in chats \/ q \in chats
    BY <1>1, NewRows, OneAtATime
<1>6. {r, q} \subseteq contacts' => r \in contacts \/ q \in contacts
    BY <1>1, NewRows, OneAtATime
<1>7. CASE {r, q} \subseteq chats \/ {r, q} \subseteq contacts
    BY <1>1, <1>3, <1>7 DEF DoublesOverlap, Overlapping
<1>8. CASE \/ r \in chats' \ chats /\ q \in chats
           \/ r \in contacts' \ contacts /\ q \in contacts
  <2>1. r \notin rs[q].after /\ q \notin rs[r].after
    BY <1>3, <1>4, <1>8
  <2> QED
    BY <1>3, <2>1
<1>9. CASE \/ q \in chats' \ chats /\ r \in chats
           \/ q \in contacts' \ contacts /\ r \in contacts
  <2>1. q \notin rs[r].after /\ r \notin rs[q].after
    BY <1>3, <1>4, <1>9
  <2> QED
    BY <1>3, <2>1
<1> QED
    BY <1>1, <1>5, <1>6, <1>7, <1>8, <1>9

-----------------------------------------------------------------------------
(* The theorems.                                                           *)

\* The strengthening is an invariant: it tells for each row which requests its
\* own can have met (user.service.ts:203-265, 349-391, chat.service.ts:65-169).
THEOREM Invariant == Spec => []IInv
<1>1. IInv /\ [Next]_vars => IInv'
    BY TypeNext, ShapeNext, AfterNext, LastsNext, StopsNext, LaterNext, DeletedNext, NotFoundNext,
       DoublesNext DEF IInv
<1> QED
    BY InvInit, <1>1, PTL DEF Spec

\* Contacts, conversations, blocks and requests keep their types
\* (prisma/schema/user.prisma, prisma/schema/conversation.prisma).
THEOREM TypeCorrect == Spec => []TypeOK
<1>1. IInv => TypeOK
    BY DEF IInv
<1> QED
    BY <1>1, Invariant, PTL

\* A block that was answered lasts until its blocker lifts it
\* (user.service.ts:356-364, 375-391).
THEOREM BlocksLast == Spec => []BlockLasts
<1>1. IInv => BlockLasts
    BY DEF IInv
<1> QED
    BY <1>1, Invariant, PTL

\* What begins after a block was answered does not get past it
\* (user.service.ts:203-214, chat.service.ts:65-76, call.handler.ts:169-188,
\* story.service.ts:164-217, 348-359).
THEOREM BlocksStop == Spec => []BlockStops
<1>1. IInv => BlockStops
    BY DEF IInv
<1> QED
    BY <1>1, Invariant, PTL

\* A contact across a block comes only from a request that overlapped with one
\* (user.service.ts:203-257, 349-364, chat.service.ts:143-167).
THEOREM BlocksEndContacts == Spec => []BlockEndsContact
<1>1. ASSUME IInv, NEW c \in contacts, BlockedWith(c)
      PROVE  \E b \in Requests : Is(b, "block") /\ Pair(b) = Pair(c) /\ Overlapping(b, c)
    BY <1>1 DEF IInv, BlockedLater, Passed, TypeOK
<1>2. IInv => BlockEndsContact
    BY <1>1 DEF BlockEndsContact
<1> QED
    BY <1>2, Invariant, PTL

\* Two conversations or two contact rows of a pair come only from requests that
\* overlapped (chat.service.ts:79-142, user.service.ts:217-251).
THEOREM DoublesOnlyOverlapping == Spec => []DoublesOverlap
<1>1. IInv => DoublesOverlap
    BY DEF IInv
<1> QED
    BY <1>1, Invariant, PTL
=============================================================================
