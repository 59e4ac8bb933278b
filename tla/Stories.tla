------------------------------ MODULE Stories ------------------------------
(***************************************************************************)
(* Stories: createStory, getStoryFeed, viewStory, deleteStory and          *)
(* getMyStories of src/modules/story/story.service.ts, and the sweep of    *)
(* expired stories of src/queues/workers/ephemeral.worker.ts.              *)
(*                                                                         *)
(* A story is a row of PostgreSQL and, unless its media is only a link, an *)
(* asset of Cloudinary, an image or a video; both are named after the      *)
(* request that creates them.  The client may name the asset of another    *)
(* story.  Requests interleave between any two calls of a store, and a     *)
(* call may fail.  Contacts, direct conversations and blocks change as     *)
(* they please: module Contacts is about them.  The feed is its first      *)
(* page, and long enough: module Paging is about pages.                    *)
(***************************************************************************)
EXTENDS FiniteSets, Integers

CONSTANTS
    Users,
    Offers,         \* what a story to create may come with
    MaxRequests,    \* bound on the requests, each used once
    MaxStories,     \* bound on those that create a story
    MaxInFlight,    \* bound on those at work at a time
    MaxEvents       \* bound on failed calls and changes of links

ASSUME BoundsAssumption == {MaxRequests, MaxStories, MaxInFlight, MaxEvents} \subseteq Nat

Privacies == {"ALL_CONTACTS", "SELECTED", "CLOSE_FRIENDS"}

\* The media comes with the request, was uploaded before, is that of another
\* story, or is a link.
Sources == {"inline", "uploaded", "shared", "link"}

ASSUME OffersAssumption ==
    Offers \subseteq [source : Sources, privacy : Privacies, allowed : SUBSET Users]

\* Requests are numbered in the order in which they begin.
Requests == 1 .. MaxRequests

VARIABLES
    rows,           \* rows of stories
    assets,         \* images in Cloudinary, named after the request they came with
    videos,         \* videos in Cloudinary
    views,          \* rows of story_views: story and viewer
    expired,        \* stories whose expiresAt has passed
    contacts,       \* pairs of users with a row of contacts
    chats,          \* pairs with a direct conversation
    blocks,         \* pairs one of whom blocks the other
    troubled,       \* history: pairs one of whom ever blocked the other
    rs,             \* requests
    events          \* failed calls and changes so far

data == <<rows, assets, videos, views, expired>>
links == <<contacts, chats, blocks, troubled>>
vars == <<data, links, rs, events>>

Pairs == {p \in SUBSET Users : Cardinality(p) = 2}
Ops == {"create", "feed", "mine", "view", "delete", "sweep"}

\* asset: the asset that the story names, or 0; audience, announced: what the privacy of the story comes to; past: what had
\* expired when the request took the time; barred, users: whom it found
\* blocked, and whom it counts as the requester's; stories: those it shows, or
\* means to delete; viewed: those it shows as viewed; left: those whose asset
\* it has yet to destroy; kept: those whose asset it could not destroy.  The
\* code has no field after: the requests answered before this one began.
RequestStates ==
    [pc : {"free", "upload", "insert", "blocks", "contacts", "chats", "list",
           "find", "check", "upsert", "count", "destroy", "remove", "done", "failed"},
     op : Ops, by : Users, story : {0} \cup Requests,
     asset : {0} \cup Requests, audience : SUBSET Users, announced : BOOLEAN,
     past : SUBSET Requests, barred : SUBSET Users, users : SUBSET Users,
     stories : SUBSET Requests, viewed : SUBSET Requests,
     left : SUBSET Requests, kept : SUBSET Requests, after : SUBSET Requests]

TypeOK ==
    /\ rows \subseteq Requests /\ expired \subseteq Requests
    /\ assets \subseteq Requests /\ videos \subseteq Requests
    /\ views \subseteq rows \X Users
    /\ contacts \subseteq Pairs /\ chats \subseteq Pairs
    /\ blocks \subseteq troubled /\ troubled \subseteq Pairs
    /\ rs \in [Requests -> RequestStates]
    /\ events \in 0 .. MaxEvents

Unused(u) ==
    [pc |-> "free", op |-> "create", by |-> u, story |-> 0,
     asset |-> 0, audience |-> {}, announced |-> FALSE, past |-> {},
     barred |-> {}, users |-> {},
     stories |-> {}, viewed |-> {}, left |-> {}, kept |-> {}, after |-> {}]

Init ==
    /\ rows = {} /\ assets = {} /\ videos = {} /\ views = {} /\ expired = {}
    /\ contacts \in {{}, Pairs} /\ chats = Pairs \ contacts
    /\ blocks = {} /\ troubled = {}
    /\ \E u \in Users : rs = [r \in Requests |-> Unused(u)]
    /\ events = 0

Answered == {r \in Requests : rs[r].pc = "done"}
InFlight == {r \in Requests : rs[r].pc \notin {"free", "done", "failed"}}

Event == events < MaxEvents /\ events' = events + 1

At(r, op, pc) == rs[r].op = op /\ rs[r].pc = pc
Goto(r, pc) == rs' = [rs EXCEPT ![r].pc = pc]

\* Refused or broken off: only what a deletion was about still matters.
Break(r) ==
    rs' = [rs EXCEPT ![r] =
             [Unused(rs[r].by) EXCEPT !.pc = "failed", !.op = rs[r].op, !.stories = rs[r].stories,
                                      !.left = rs[r].left, !.kept = rs[r].kept]]

CanBegin(r) ==
    /\ rs[r].pc = "free"
    /\ \A q \in Requests : q < r => rs[q].pc # "free"
    /\ Cardinality(InFlight) < MaxInFlight

Begun(r, op, u, pc) ==
    [Unused(u) EXCEPT !.pc = pc, !.op = op, !.past = expired, !.after = Answered]

ContactsOf(u) == {v \in Users : {u, v} \in contacts}
PartnersOf(u) == {v \in Users : {u, v} \in chats}
BlockedWith(u) == {v \in Users : {u, v} \in blocks}

\* A story whose row was written has an id, and an asset, that requests can name.
Known(s) == rs[s].op = "create" /\ rs[s].pc \in {"contacts", "chats", "done"}

-----------------------------------------------------------------------------
(* createStory.                                                            *)

\* The assets that the story of r may name.
AssetNames(r, source) ==
    CASE source = "link"   -> {0}
      [] source = "shared" -> {rs[s].asset : s \in {q \in Requests : Known(q)}} \ {0}
      [] OTHER             -> {r}

\* The asset of r comes to Cloudinary.
Store(r) ==
    \/ assets' = assets \cup {r} /\ UNCHANGED videos
    \/ videos' = videos \cup {r} /\ UNCHANGED assets

BeginCreate(r, u) ==
    /\ CanBegin(r)
    /\ Cardinality({q \in Requests : rs[q].op = "create" /\ rs[q].pc # "free"}) < MaxStories
    /\ \E o \in Offers : \E a \in AssetNames(r, o.source) :
         /\ rs' = [rs EXCEPT ![r] =
                     [Begun(r, "create", u, IF o.source = "inline" THEN "upload" ELSE "insert")
                        EXCEPT !.asset = a,
                               !.audience = IF o.privacy = "ALL_CONTACTS" THEN Users ELSE o.allowed,
                               !.announced = (o.privacy # "CLOSE_FRIENDS")]]
         /\ IF o.source = "uploaded" THEN Store(r) ELSE UNCHANGED <<assets, videos>>
    /\ UNCHANGED <<rows, views, expired, links, events>>

Upload(r) ==
    /\ rs[r].pc = "upload"
    /\ Store(r)
    /\ Goto(r, "insert")
    /\ UNCHANGED <<rows, views, expired, links, events>>

Insert(r) ==
    /\ rs[r].pc = "insert"
    /\ rows' = rows \cup {r}
    /\ Goto(r, "contacts")
    /\ UNCHANGED <<assets, videos, views, expired, links, events>>

TargetContacts(r) ==
    /\ At(r, "create", "contacts")
    /\ rs' = [rs EXCEPT ![r].users = ContactsOf(rs[r].by), ![r].pc = "chats"]
    /\ UNCHANGED <<data, links, events>>

TargetChats(r) ==
    /\ At(r, "create", "chats")
    /\ rs' = [rs EXCEPT ![r].users = @ \cup PartnersOf(rs[r].by), ![r].pc = "done"]
    /\ UNCHANGED <<data, links, events>>

\* Whom STORY_NEW of s goes to; close friends are not told.
Told(s) == IF rs[s].announced THEN rs[s].users \cap rs[s].audience ELSE {}

-----------------------------------------------------------------------------
(* getStoryFeed and getMyStories.                                          *)

\* One's own stories need no other user.
BeginFeed(r, u) ==
    /\ CanBegin(r)
    /\ \/ rs' = [rs EXCEPT ![r] = Begun(r, "feed", u, "blocks")]
       \/ rs' = [rs EXCEPT ![r] = [Begun(r, "mine", u, "list") EXCEPT !.users = {u}]]
    /\ UNCHANGED <<data, links, events>>

FeedBlocks(r) ==
    /\ At(r, "feed", "blocks")
    /\ rs' = [rs EXCEPT ![r].barred = BlockedWith(rs[r].by), ![r].pc = "contacts"]
    /\ UNCHANGED <<data, links, events>>

FeedContacts(r) ==
    /\ At(r, "feed", "contacts")
    /\ rs' = [rs EXCEPT ![r].users = ContactsOf(rs[r].by) \ rs[r].barred, ![r].pc = "chats"]
    /\ UNCHANGED <<data, links, events>>

\* Bad: the partners of direct conversations are left out.
BadFeedChats(r) ==
    /\ At(r, "feed", "chats")
    /\ rs' = [rs EXCEPT ![r].users = @ \cup {rs[r].by}, ![r].pc = "list"]
    /\ UNCHANGED <<data, links, events>>

FeedChats(r) ==
    /\ At(r, "feed", "chats")
    /\ rs' = [rs EXCEPT ![r].users = @ \cup {rs[r].by} \cup (PartnersOf(rs[r].by) \ rs[r].barred),
                        ![r].pc = "list"]
    /\ UNCHANGED <<data, links, events>>

Visible(s, u) == rs[s].by = u \/ u \in rs[s].audience

\* Bad: everything in the feed counts as viewed by whoever viewed it.
BadViewedBy(u) == {s \in rows : <<s, rs[s].by>> \in views}

ViewedBy(u) == {s \in rows : <<s, u>> \in views}

\* What had expired is judged by the time at which the request began.
List(r) ==
    /\ rs[r].pc = "list"
    /\ LET shown == {s \in rows : /\ rs[s].by \in rs[r].users
                                  /\ s \notin rs[r].past
                                  /\ Visible(s, rs[r].by)}
       IN  rs' = [rs EXCEPT ![r].stories = shown,
                            ![r].viewed = shown \cap ViewedBy(rs[r].by),
                            ![r].barred = {}, ![r].users = {}, ![r].pc = "done"]
    /\ UNCHANGED <<data, links, events>>

-----------------------------------------------------------------------------
(* viewStory.                                                              *)

BeginView(r, u, s) ==
    /\ CanBegin(r)
    /\ Known(s)
    /\ rs' = [rs EXCEPT ![r] = [Begun(r, "view", u, "find") EXCEPT !.story = s]]
    /\ UNCHANGED <<data, links, events>>

\* The time is taken after the row is read.
FindViewed(r) ==
    /\ At(r, "view", "find")
    /\ IF rs[r].story \in rows \ expired THEN Goto(r, "check") ELSE Break(r)
    /\ UNCHANGED <<data, links, events>>

CheckBlocks(r) ==
    /\ rs[r].pc = "check"
    /\ IF rs[rs[r].story].by \in BlockedWith(rs[r].by) THEN Break(r) ELSE Goto(r, "upsert")
    /\ UNCHANGED <<data, links, events>>

\* The foreign key refuses a view of a story that is gone.
UpsertView(r) ==
    /\ rs[r].pc = "upsert"
    /\ IF rs[r].story \in rows
       THEN Goto(r, "count") /\ views' = views \cup {<<rs[r].story, rs[r].by>>}
       ELSE Break(r) /\ UNCHANGED views
    /\ UNCHANGED <<rows, assets, videos, expired, links, events>>

\* The views are counted for the answer.
CountViews(r) ==
    /\ rs[r].pc = "count"
    /\ Goto(r, "done")
    /\ UNCHANGED <<data, links, events>>

-----------------------------------------------------------------------------
(* deleteStory and purgeExpiredStories.                                    *)

BeginDelete(r, u, s) ==
    /\ CanBegin(r)
    /\ Known(s)
    /\ rs' = [rs EXCEPT ![r] = [Begun(r, "delete", u, "find") EXCEPT !.story = s]]
    /\ UNCHANGED <<data, links, events>>

BeginSweep(r) ==
    /\ CanBegin(r)
    /\ rs' = [rs EXCEPT ![r] = Begun(r, "sweep", rs[r].by, "find")]
    /\ UNCHANGED <<data, links, events>>

\* The request r goes on to delete the stories ss, their assets first.
Doom(r, ss) ==
    LET left == {s \in ss : rs[s].asset # 0}
    IN  rs' = [rs EXCEPT ![r].stories = ss, ![r].left = left,
                         ![r].pc = IF left # {} THEN "destroy" ELSE "remove"]

\* Bad: the row is deleted without a look at its asset.
BadFindDeleted(r) ==
    /\ At(r, "delete", "find")
    /\ IF rs[r].story \in rows /\ rs[rs[r].story].by = rs[r].by
       THEN Goto(r, "remove")
       ELSE Break(r)
    /\ UNCHANGED <<data, links, events>>

FindDeleted(r) ==
    /\ At(r, "delete", "find")
    /\ IF rs[r].story \in rows /\ rs[rs[r].story].by = rs[r].by
       THEN Doom(r, {rs[r].story})
       ELSE Break(r)
    /\ UNCHANGED <<data, links, events>>

FindExpired(r) ==
    /\ At(r, "sweep", "find")
    /\ IF rows \cap rs[r].past # {} THEN Doom(r, rows \cap rs[r].past) ELSE Goto(r, "done")
    /\ UNCHANGED <<data, links, events>>

\* The request r is through with the asset of s.
Through(r, s) ==
    /\ rs[r].pc = "destroy"
    /\ s \in rs[r].left
    /\ rs' = [rs EXCEPT ![r].left = @ \ {s},
                        ![r].pc = IF rs[r].left = {s} THEN "remove" ELSE "destroy",
                        ![r].kept = IF rs[s].asset \in assets' THEN @ \cup {s} ELSE @]

\* Destroying names no kind and so asks for an image: one that is not there,
\* and a video of that name, count as done.
Destroy(r) ==
    /\ \E s \in rs[r].left : assets' = assets \ {rs[s].asset} /\ Through(r, s)
    /\ UNCHANGED <<rows, videos, views, expired, links, events>>

\* The error is logged, and the row goes all the same.
DestroyFails(r) ==
    /\ Event
    /\ \E s \in rs[r].left : UNCHANGED assets /\ Through(r, s)
    /\ UNCHANGED <<rows, videos, views, expired, links>>

\* The views of a story go with it.
Delete(ss) ==
    /\ rows' = rows \ ss
    /\ views' = {w \in views : w[1] \notin ss}

\* Bad: deleteMany, which finds nothing wrong with a row that is gone.
BadRemove(r) ==
    /\ At(r, "delete", "remove")
    /\ Delete(rs[r].stories) /\ Goto(r, "done")
    /\ UNCHANGED <<assets, videos, expired, links, events>>

\* Deleting a row that is gone is an error.  STORY_DELETED goes to everybody
\* connected, in the step that finds the row deleted.
Remove(r) ==
    /\ At(r, "delete", "remove")
    /\ IF rs[r].story \in rows
       THEN Delete({rs[r].story}) /\ Goto(r, "done")
       ELSE Break(r) /\ UNCHANGED <<rows, views>>
    /\ UNCHANGED <<assets, videos, expired, links, events>>

RemoveExpired(r) ==
    /\ At(r, "sweep", "remove")
    /\ Delete(rs[r].stories)
    /\ rs' = [rs EXCEPT ![r].pc = "done", ![r].past = {}]
    /\ UNCHANGED <<assets, videos, expired, links, events>>

-----------------------------------------------------------------------------
\* A query fails or the process ends.  A story that is written stays written
\* when those to tell of it cannot be found; nobody is told.  A view that is
\* not counted stays written, although the request fails.
Fail(r) ==
    /\ r \in InFlight
    /\ Event
    /\ IF rs[r].op = "create" /\ rs[r].pc \in {"contacts", "chats"}
       THEN rs' = [rs EXCEPT ![r].users = {}, ![r].pc = "done"]
       ELSE IF rs[r].pc = "count" THEN Goto(r, "failed") ELSE Break(r)
    /\ UNCHANGED <<data, links>>

Expire(s) ==
    /\ s \in rows \ (expired \cup InFlight)
    /\ expired' = expired \cup {s}
    /\ UNCHANGED <<rows, assets, videos, views, links, rs, events>>

\* A contact or a conversation of the pair p comes up, or one blocks the
\* other, which ends their contact.
Meet(p) ==
    /\ Event
    /\ \/ contacts' = contacts \cup {p} /\ UNCHANGED chats
       \/ chats' = chats \cup {p} /\ UNCHANGED contacts
    /\ UNCHANGED <<data, blocks, troubled, rs>>

Block(p) ==
    /\ Event
    /\ contacts' = contacts \ {p}
    /\ blocks' = blocks \cup {p} /\ troubled' = troubled \cup {p}
    /\ UNCHANGED <<data, chats, rs>>

Steps(r) ==
    \/ Upload(r) \/ Insert(r) \/ TargetContacts(r) \/ TargetChats(r)
    \/ FeedBlocks(r) \/ FeedContacts(r) \/ FeedChats(r) \/ List(r)
    \/ FindViewed(r) \/ CheckBlocks(r) \/ UpsertView(r) \/ CountViews(r)
    \/ FindDeleted(r) \/ FindExpired(r) \/ Destroy(r) \/ Remove(r) \/ RemoveExpired(r)

Next ==
    \/ \E r \in Requests :
         \/ \E u \in Users :
              \/ BeginCreate(r, u) \/ BeginFeed(r, u)
              \/ \E s \in Requests : BeginView(r, u, s) \/ BeginDelete(r, u, s)
         \/ BeginSweep(r) \/ Steps(r)
         \/ DestroyFails(r) \/ Fail(r)
         \/ Expire(r)
    \/ \E p \in Pairs : Meet(p) \/ Block(p)

Spec == Init /\ [][Next]_vars

-----------------------------------------------------------------------------
(* Properties.                                                             *)

\* An image that no row names is that of a story whose creation is not at its
\* end, or broke off before it, or could not be destroyed; a row whose image
\* is gone is one that a deletion under way, or broken off, is yet to delete,
\* or shared the image with a story that was, or is to be, deleted
\* (story.service.ts:50-81, 499-510, ephemeral.worker.ts:33-49).
MediaMatchesRow ==
    /\ \A a \in assets :
         \/ \E s \in rows : rs[s].asset = a
         \/ rs[a].pc \in {"insert", "failed"}
         \/ \E r \in Requests : \E s \in rs[r].kept : rs[s].asset = a
    /\ \A s \in rows :
         rs[s].asset \notin {0} \cup assets \cup videos =>
             \E r \in Requests :
                 /\ rs[r].op \in {"delete", "sweep"}
                 /\ \E q \in rs[r].stories \ (rs[r].left \cup rs[r].kept) :
                      /\ rs[q].asset = rs[s].asset
                      /\ q = s => rs[r].pc \in {"destroy", "remove", "failed"}

Deletes(r, s) == At(r, "delete", "done") /\ rs[r].story = s

\* A story that was created stays for its day: before it expires only its
\* author takes it away, and the deletion is announced once, however many of
\* the author's requests, and sweeps, delete it at the same time
\* (story.service.ts:487-516, ephemeral.worker.ts:19-49).
KeptForItsDay ==
    /\ \A s \in Requests :
         Known(s) /\ s \notin rows \cup expired =>
             \E r \in Requests : Deletes(r, s) /\ rs[r].by = rs[s].by
    /\ \A s \in Requests : Cardinality({r \in Requests : Deletes(r, s)}) <= 1

\* Who was told of a story finds it in every feed asked for later, until it
\* expires or is deleted; only a block may stand between
\* (story.service.ts:82-138 against 163-243).
ToldIsShown ==
    \A f \in Answered, s \in Requests :
        /\ rs[f].op = "feed" /\ rs[s].op = "create"
        /\ s \in rs[f].after /\ rs[f].by \in Told(s)
        /\ {rs[f].by, rs[s].by} \notin troubled
        => s \in rs[f].stories \cup rs[f].past \/ s \notin rows

\* Once its deletion was answered a story is in no feed asked for later and
\* is not viewed; what a user viewed before asking shows as viewed to that
\* user, and to nobody else, whether or not the views were counted for the
\* answer (story.service.ts:331-407, 224-243, 269-300).
FeedInStep ==
    \A r \in Answered :
        /\ \A d \in rs[r].after :
             /\ At(d, "delete", "done") =>
                  /\ rs[r].op \in {"feed", "mine"} => rs[d].story \notin rs[r].stories
                  /\ rs[r].op = "view" => rs[d].story # rs[r].story
             /\ rs[r].op = "feed" /\ At(d, "view", "done") /\ rs[d].by = rs[r].by =>
                  rs[d].story \notin rs[r].stories \ rs[r].viewed
        /\ \A s \in rs[r].viewed :
             \E v \in Requests : /\ rs[v].op = "view" /\ rs[v].pc \in {"count", "done", "failed"}
                                 /\ rs[v].story = s /\ rs[v].by = rs[r].by
=============================================================================
