------------------------------- MODULE Paging -------------------------------
(***************************************************************************)
(* Lists read page by page while they change: getMessageHistory of         *)
(* src/modules/message/message.service.ts, getCallHistory of               *)
(* src/modules/call/call.service.ts, getStoryFeed and getStoryViewers of   *)
(* src/modules/story/story.service.ts, and getUserConversations of         *)
(* src/modules/chat/chat.service.ts.                                       *)
(*                                                                         *)
(* A list holds rows in the order of a time, the latest first; rows of the *)
(* same time come in any order, which may differ from query to query (of   *)
(* conversations, a second time decides).  Conversations without a message *)
(* have no time of a last one, and come before all others.  One client     *)
(* reads the list from the first page to the last.  Meanwhile rows come,   *)
(* drop out of what the query selects, or get another place.               *)
(***************************************************************************)
EXTENDS FiniteSets, Integers

CONSTANTS
    MaxRows,        \* bound on the rows of the list
    MaxTime,        \* bound on the times
    MaxChanges,     \* bound on the changes while the client reads
    Limit,          \* rows of a page
    PrivateSets,    \* which stories may not be for the reader
    DoubleSets      \* which direct conversations may be with the same user

Rows == 1 .. MaxRows

ASSUME PagingBounds == {MaxRows, MaxTime, MaxChanges} \subseteq Nat
ASSUME LimitAssumption == Limit \in Nat \ {0}
ASSUME SetsAssumption == PrivateSets \cup DoubleSets \subseteq SUBSET Rows

\* Messages and calls go on after the cursor, the feed and the viewers from
\* it, and conversations after so many rows.
Lists == {"messages", "calls", "feed", "viewers", "conversations"}

VARIABLES
    list,           \* the list that is read
    at,             \* time of each row; 0: there is no row; a conversation without
                    \* a message has the time of its last update plus MaxTime
    unselected,     \* rows that the query does not select
    private,        \* stories that are not for the reader
    doubles,        \* direct conversations with the same user
    changes,        \* changes so far
    page,           \* pages read so far; of conversations alone more than one counts
    cursor,         \* nextCursor of the last one; 0: none
    finished,       \* the client has the last page
    seen, again,    \* rows the client got, and got more than once
    start,          \* history: rows selected when the first page was read
    left, came,     \* history: rows unselected since; added, moved or selected
    moved,          \* history: those of them that got a new time
    back,           \* history: those of them that it put further behind
    cuts,           \* history: rows that a page began at, with their times
    lost            \* history: a page began at a row that was not selected

table == <<list, at, unselected, private, doubles>>
client == <<page, cursor, finished, seen, again>>
history == <<start, left, came, moved, back, cuts, lost>>
pagingVars == <<table, changes, client, history>>

Existing == {i \in Rows : at[i] # 0}
Selected == Existing \ unselected

\* A conversation without a message: lastMessageAt is null, which PostgreSQL puts
\* first in descending order.
Silent(i) == at[i] > MaxTime

PagingTypeOK ==
    /\ list \in Lists
    /\ at \in [Rows -> 0 .. 2 * MaxTime]
    /\ list # "conversations" => \A i \in Rows : ~Silent(i)
    /\ unselected \subseteq Existing /\ private \subseteq Rows /\ doubles \subseteq Rows
    /\ changes \in 0 .. MaxChanges /\ page \in Nat
    /\ cursor \in {0} \cup Rows /\ finished \in BOOLEAN
    /\ again \subseteq seen /\ seen \subseteq Rows \ private
    /\ start \cup left \cup moved \subseteq Existing /\ back \subseteq moved /\ moved \subseteq came
    /\ cuts \subseteq Rows \X (1 .. MaxTime) /\ lost \in BOOLEAN

\* Rows are numbered in the order of their times at first.
PagingInit ==
    /\ list \in Lists
    /\ \E n \in 0 .. MaxRows,
         f \in [Rows -> 1 .. IF list = "conversations" THEN 2 * MaxTime ELSE MaxTime] :
         /\ \A i, j \in 1 .. n : i < j => IF list = "conversations" THEN f[i] < f[j] ELSE f[i] <= f[j]
         /\ at = [i \in Rows |-> IF i <= n THEN f[i] ELSE 0]
    /\ unselected = {}
    /\ private \in IF list = "feed" THEN PrivateSets ELSE {{}}
    /\ doubles \in IF list = "conversations" THEN DoubleSets ELSE {{}}
    /\ changes = 0
    /\ page = 0 /\ cursor = 0 /\ finished = FALSE
    /\ seen = {} /\ again = {}
    /\ start = {} /\ left = {} /\ came = {} /\ moved = {} /\ back = {} /\ cuts = {} /\ lost = FALSE

-----------------------------------------------------------------------------
(* Pages.                                                                  *)

\* What a query for the latest n of the rows S may return.
Latest(S, n) ==
    {P \in SUBSET S : /\ Cardinality(P) = IF Cardinality(S) < n THEN Cardinality(S) ELSE n
                      /\ \A i \in P, j \in S \ P : at[i] >= at[j]}

\* The row i may come last of P.
Last(i, P) == i \in P /\ \A j \in P : at[i] <= at[j]

\* The client gets the page shown.
Get(shown) ==
    /\ page' = IF list = "conversations" THEN page + 1 ELSE 1
    /\ seen' = seen \cup shown
    /\ again' = again \cup (seen \cap shown)
    /\ start' = IF page = 0 THEN Selected ELSE start
    /\ UNCHANGED <<table, changes, left, came, moved, back>>

\* Bad: the next page begins after the row too many.
BadPageOf(S) ==
    \E P \in Latest(S, Limit + 1) :
        IF Cardinality(P) > Limit
        THEN \E extra \in P :
               /\ Last(extra, P)
               /\ cursor' = extra
               /\ finished' = FALSE
               /\ Get((P \ {extra}) \ private)
        ELSE cursor' = 0 /\ finished' = TRUE /\ Get(P \ private)

\* The query asks for one row more than a page holds, to see whether there is
\* one.  The next page begins after the last row shown, or at the row too many.
\* Private stories count, but are not shown.
PageOf(S) ==
    \E P \in Latest(S, Limit + 1) :
        IF Cardinality(P) > Limit
        THEN \E extra \in P, last \in P :
               /\ Last(extra, P) /\ Last(last, P \ {extra})
               /\ cursor' = IF list \in {"feed", "viewers"} THEN extra ELSE last
               /\ finished' = FALSE
               /\ Get((P \ {extra}) \ private)
        ELSE cursor' = 0 /\ finished' = TRUE /\ Get(P \ private)

\* Bad: one page of everything, private stories included.
BadFirstPage ==
    /\ list # "conversations"
    /\ page = 0
    /\ cursor' = 0 /\ finished' = TRUE
    /\ Get(Selected)
    /\ UNCHANGED <<cuts, lost>>

FirstPage ==
    /\ list # "conversations"
    /\ page = 0
    /\ PageOf(Selected)
    /\ UNCHANGED <<cuts, lost>>

Older(c) == {i \in Selected : at[i] < at[c]}
Tied(c) == {i \in Selected \ {c} : at[i] = at[c]}

NextPage == page > 0 /\ ~finished /\ cuts' = cuts \cup {<<cursor, at[cursor]>>}

\* The cursor stands for its time.  Its row is found whether or not the query
\* still selects it.
MessagesPage ==
    /\ list = "messages"
    /\ NextPage
    /\ PageOf(Older(cursor))
    /\ UNCHANGED lost

\* Bad: the row of the cursor is not skipped.
BadCallsPage ==
    /\ list = "calls"
    /\ NextPage
    /\ cursor \in Selected
    /\ \E T \in SUBSET Tied(cursor) : PageOf({cursor} \cup Older(cursor) \cup T)
    /\ UNCHANGED lost

\* The rows of the cursor's time come before it or after it.
CallsPage ==
    /\ list = "calls"
    /\ NextPage
    /\ cursor \in Selected
    /\ \E T \in SUBSET Tied(cursor) : PageOf(Older(cursor) \cup T)
    /\ UNCHANGED lost

StoriesPage ==
    /\ list \in {"feed", "viewers"}
    /\ NextPage
    /\ cursor \in Selected
    /\ \E T \in SUBSET Tied(cursor) : PageOf({cursor} \cup Older(cursor) \cup T)
    /\ UNCHANGED lost

\* The client of PostgreSQL looks for the cursor in what the query selects;
\* without it the page is empty, or goes on from where the row was.
LostPage ==
    /\ list \in {"calls", "feed", "viewers"}
    /\ NextPage
    /\ cursor \notin Selected
    /\ \E S \in {{}, Older(cursor)} : PageOf(S)
    /\ lost' = TRUE

\* Skips so many rows, and of the conversations with the same user keeps the
\* first of the page.  The client asks until it gets an empty page: the total counts no
\* other page.
ConversationsPage ==
    /\ list = "conversations"
    /\ ~finished
    /\ \E before \in Latest(Selected, page * Limit) :
         \E P \in Latest(Selected \ before, Limit) :
           /\ finished' = (P = {})
           /\ \E kept \in Latest(P \cap doubles, 1) : Get((P \ doubles) \cup kept)
    /\ UNCHANGED <<cursor, cuts, lost>>

Pages ==
    FirstPage \/ MessagesPage \/ CallsPage \/ StoriesPage \/ LostPage \/ ConversationsPage

-----------------------------------------------------------------------------
(* What changes meanwhile.                                                 *)

Change ==
    /\ page > 0 /\ ~finished
    /\ changes < MaxChanges
    /\ changes' = changes + 1
    /\ UNCHANGED <<list, private, doubles, client, start, cuts, lost>>

Untaken(T) == {t \in T : list = "conversations" => \A i \in Rows : at[i] # t}

\* The time that a row gets: of two requests that overlap, the one that took its
\* time first may write it last.
Now == Untaken(1 .. MaxTime)

\* The place of a conversation without a message that is new or updated.
Unspoken == Untaken(MaxTime + 1 .. 2 * MaxTime)

\* A message, a call, a story, a first view, a new conversation.
Add(i) ==
    /\ Change
    /\ i \notin Existing
    /\ \E t \in IF list = "conversations" THEN Unspoken ELSE Now : at' = [at EXCEPT ![i] = t]
    /\ came' = came \cup {i}
    /\ UNCHANGED <<unselected, left, moved, back>>

\* Deleted for the reader or expired, of another status than asked for, the
\* reader no longer a member; views stay.
Drop(i) ==
    /\ Change
    /\ list # "viewers"
    /\ i \in Selected
    /\ unselected' = unselected \cup {i} /\ left' = left \cup {i}
    /\ UNCHANGED <<at, came, moved, back>>

\* Of the status asked for again, an author linked again, a member again.
Restore(i) ==
    /\ Change
    /\ list \in {"calls", "feed", "conversations"}
    /\ i \in unselected
    /\ unselected' = unselected \ {i} /\ came' = came \cup {i}
    /\ UNCHANGED <<at, left, moved, back>>

\* A story viewed again, a message in a conversation, an update of one without a
\* message.  A first message puts its conversation behind those without one, and a
\* message behind those that overtook it.
Move(i) ==
    /\ Change
    /\ list \in {"viewers", "conversations"}
    /\ i \in Existing
    /\ \E t \in IF Silent(i) THEN Now \cup Unspoken ELSE Now :
         /\ at' = [at EXCEPT ![i] = t]
         /\ back' = IF t < at[i] THEN back \cup {i} ELSE back
    /\ came' = came \cup {i} /\ moved' = moved \cup {i}
    /\ UNCHANGED <<unselected, left>>

PagingNext == Pages \/ \E i \in Rows : Add(i) \/ Drop(i) \/ Restore(i) \/ Move(i)

PagingSpec == PagingInit /\ [][PagingNext]_pagingVars

-----------------------------------------------------------------------------
(* Properties.                                                             *)

\* A page began at another row of the same time.
Cut(i) == \E c \in cuts : c[1] # i /\ c[2] = at[i]

\* A page began at a row that had got an earlier time.
Slipped == \E c \in cuts : c[1] \in back

\* A client that read to the end got every row that was there all the time.
\* What may be missing is a row of the very time a page began at, or any, when the
\* row a page was to begin at is no longer selected or went back, and when a
\* conversation is left or goes back, as it does with its first message
\* (message.service.ts:382-405, call.service.ts:39-69, story.service.ts:218-250,
\* 444-462, chat.service.ts:112-122, 265-290).
NothingSkipped ==
    finished =>
        \A i \in start \ (private \cup left \cup moved) :
            \/ i \in seen
            \/ i \in doubles /\ doubles \cap seen # {}
            \/ Cut(i)
            \/ lost \/ Slipped
            \/ list = "conversations" /\ left \cup back # {}

\* No row comes twice, unless it got a new time, or a row of a page's beginning
\* did, or conversations came before it, or it is of the very time a page began
\* at; a message never comes twice.
NothingTwice ==
    \A i \in again :
        /\ list # "messages"
        /\ \/ i \in moved
           \/ \E c \in cuts : c[1] \in moved
           \/ Cut(i)
           \/ list = "conversations" /\ came # {}
=============================================================================
