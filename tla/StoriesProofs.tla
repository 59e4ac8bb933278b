--------------------------- MODULE StoriesProofs ---------------------------
(***************************************************************************)
(* Stories for any users, requests, offers, links and failures: types,     *)
(* that rows and assets match, what keeps a story for its day, and what    *)
(* the feed shows.                                                         *)
(***************************************************************************)
EXTENDS Stories, TLAPS, FiniteSetTheorems

-----------------------------------------------------------------------------
(* The inductive invariant.                                                *)

\* What a request is about at each point of it.
ShapeOf(r) ==
    /\ rs[r].pc \notin {"destroy", "remove", "done", "failed"} =>
         rs[r].left = {} /\ rs[r].kept = {}
    /\ rs[r].pc \notin {"done", "failed"} => rs[r].viewed = {}
    /\ rs[r].pc \in {"free", "find"} => rs[r].stories = {}
    /\ rs[r].op \in {"delete", "sweep"} =>
         rs[r].pc \in {"find", "destroy", "remove", "done", "failed"}
    /\ rs[r].pc = "upload" => rs[r].op = "create" /\ rs[r].asset = r
    /\ rs[r].pc = "insert" => rs[r].op = "create"
    /\ rs[r].pc \in {"check", "upsert", "count"} => rs[r].op = "view"
    /\ rs[r].pc = "list" => rs[r].op \in {"feed", "mine"}
    /\ rs[r].pc \in {"destroy", "remove"} => rs[r].op \in {"delete", "sweep"}
    /\ rs[r].op \in {"view", "delete"} /\ rs[r].pc \notin {"free", "failed"} =>
         rs[r].story \in Requests /\ Known(rs[r].story)
    /\ rs[r].past \subseteq expired
    /\ rs[r].after \subseteq Answered

Shape == \A r \in Requests : ShapeOf(r)

\* A request that deletes stories has found them; those it is through with
\* have no image.
DeletingOf(r) ==
    /\ rs[r].left \subseteq rs[r].stories \ rs[r].kept /\ rs[r].kept \subseteq rs[r].stories
    /\ rs[r].pc = "remove" => rs[r].left = {}
    /\ \A s \in rs[r].stories : s \in Requests /\ Known(s)
    /\ rs[r].op = "delete" /\ rs[r].pc \in {"destroy", "remove"} =>
         rs[r].stories = {rs[r].story} /\ rs[rs[r].story].by = rs[r].by
    /\ rs[r].op = "sweep" /\ rs[r].pc \in {"destroy", "remove"} => rs[r].stories \subseteq expired
    /\ rs[r].pc \in {"destroy", "remove"} =>
         \A s \in rs[r].stories \ (rs[r].left \cup rs[r].kept) : rs[s].asset \notin assets

Deleting == \A r \in Requests : DeletingOf(r)

\* Where rows and assets come from.
Owned ==
    /\ \A s \in rows : Known(s)
    /\ \A a \in assets :
         \/ rs[a].pc = "failed"
         \/ rs[a].op = "create" /\ rs[a].asset = a /\ rs[a].pc \notin {"free", "upload"}
    /\ \A s \in Requests : rs[s].pc = "insert" /\ rs[s].asset = s => s \in assets \cup videos
    /\ \A s \in Requests : rs[s].asset \notin {0, s} => Known(rs[s].asset)

\* A deletion is through with the asset a.
Destroyed(a) ==
    \E r \in Requests : /\ rs[r].op \in {"delete", "sweep"}
                        /\ \E q \in rs[r].stories \ (rs[r].left \cup rs[r].kept) : rs[q].asset = a

\* Nothing but a deletion takes the asset of a story.
Gone ==
    \A s \in Requests :
        /\ rs[s].op = "create" /\ rs[s].pc \in {"insert", "contacts", "chats", "done"}
        /\ rs[s].asset \notin {0} \cup assets \cup videos
        => Destroyed(rs[s].asset)

\* A deletion at its end has deleted what it found.
DoneGone ==
    \A r \in Requests :
        rs[r].op \in {"delete", "sweep"} /\ rs[r].pc = "done" => rs[r].stories \cap rows = {}

\* A deletion that was answered has deleted.
DeletedGone ==
    /\ \A r, s \in Requests : Deletes(r, s) => s \notin rows
    /\ \A r, q, s \in Requests : Deletes(r, s) /\ Deletes(q, s) => r = q

\* v is a request by u that wrote a view of s.
Viewed(v, s, u) ==
    /\ rs[v].op = "view" /\ rs[v].pc \in {"count", "done", "failed"}
    /\ rs[v].story = s /\ rs[v].by = u

\* The views are those that requests wrote, of stories that are still there.
ViewsAnswered ==
    /\ \A r \in Requests : rs[r].op = "view" /\ rs[r].pc \in {"count", "done"} =>
         rs[r].story \notin rows \/ <<rs[r].story, rs[r].by>> \in views
    /\ \A w \in views : \E v \in Requests : Viewed(v, w[1], w[2])

\* What is viewed had not been deleted when it was asked for.
ViewsStood ==
    \A r \in Requests : rs[r].pc = "count" =>
        \A d \in rs[r].after : At(d, "delete", "done") => rs[d].story # rs[r].story

\* Whom a story was meant for is, or once was, linked with its author.
Linked == contacts \cup chats \cup troubled

ToldLinked ==
    \A s \in Requests : rs[s].op = "create" /\ rs[s].pc \in {"chats", "done"} =>
        \A u \in rs[s].users : {rs[s].by, u} \in Linked

\* What the feed f owes its reader: stories told before it was asked for.
Owed(f) ==
    {s \in rs[f].after : /\ rs[s].op = "create" /\ rs[f].by \in Told(s)
                         /\ {rs[f].by, rs[s].by} \notin troubled}

\* A feed on its way finds the authors of all it owes.
FeedFinds ==
    \A f \in Requests : rs[f].op = "feed" =>
        /\ rs[f].pc \in {"contacts", "chats"} =>
             \A v \in rs[f].barred : {rs[f].by, v} \in troubled
        /\ rs[f].pc = "chats" => \A s \in Owed(f) :
             rs[s].by \in rs[f].users \/ {rs[f].by, rs[s].by} \in chats
        /\ rs[f].pc = "list" => \A s \in Owed(f) : rs[s].by \in rs[f].users

IInv ==
    /\ TypeOK /\ Shape
    /\ Deleting /\ Owned /\ Gone /\ DoneGone /\ MediaMatchesRow
    /\ KeptForItsDay /\ DeletedGone
    /\ ViewsAnswered /\ ViewsStood /\ FeedInStep
    /\ ToldLinked /\ FeedFinds /\ ToldIsShown

-----------------------------------------------------------------------------
(* What each kind of step does to the request r, to the others and to the  *)
(* stores, field by field: the invariant is proved from these alone.       *)

Others(r) == \A q \in Requests \ {r} : rs'[q] = rs[q]

\* A request that goes on keeps what it began with.
Same(r) ==
    /\ Others(r)
    /\ rs'[r].op = rs[r].op /\ rs'[r].by = rs[r].by /\ rs'[r].story = rs[r].story
    /\ rs'[r].asset = rs[r].asset /\ rs'[r].audience = rs[r].audience
    /\ rs'[r].announced = rs[r].announced /\ rs'[r].after = rs[r].after

SameStories(r) ==
    /\ rs'[r].stories = rs[r].stories /\ rs'[r].viewed = rs[r].viewed
    /\ rs'[r].left = rs[r].left /\ rs'[r].kept = rs[r].kept

SameUsers(r) == rs'[r].barred = rs[r].barred /\ rs'[r].users = rs[r].users

SamePast(r) == rs'[r].past = rs[r].past

Moves(r, from, to) == rs[r].pc = from /\ rs'[r].pc = to

Starts(r) ==
    /\ rs[r].pc = "free" /\ Others(r)
    /\ rs'[r].after = Answered /\ rs'[r].past = expired
    /\ rs'[r].stories = {} /\ rs'[r].viewed = {} /\ rs'[r].left = {} /\ rs'[r].kept = {}
    /\ rs'[r].barred = {}
    /\ UNCHANGED <<rows, views, expired, links>>

StartsCreate(r) ==
    /\ Starts(r)
    /\ rs'[r].op = "create"
    /\ \/ rs'[r].pc = "upload" /\ rs'[r].asset = r /\ UNCHANGED <<assets, videos>>
       \/ rs'[r].pc = "insert" /\ rs'[r].asset = r /\ Store(r)
       \/ /\ rs'[r].pc = "insert" /\ UNCHANGED <<assets, videos>>
          /\ \/ rs'[r].asset = 0
             \/ \E q \in Requests : Known(q) /\ rs'[r].asset = rs[q].asset

StartsRead(r) ==
    /\ Starts(r)
    /\ \/ rs'[r].op = "feed" /\ rs'[r].pc = "blocks"
       \/ rs'[r].op = "mine" /\ rs'[r].pc = "list"
       \/ rs'[r].op = "sweep" /\ rs'[r].pc = "find"
    /\ rs'[r].asset = 0
    /\ UNCHANGED <<assets, videos>>

StartsOn(r) ==
    /\ Starts(r)
    /\ rs'[r].op \in {"view", "delete"} /\ rs'[r].pc = "find"
    /\ rs'[r].story \in Requests /\ Known(rs'[r].story)
    /\ rs'[r].asset = 0
    /\ UNCHANGED <<assets, videos>>

Breaks(r) ==
    /\ r \in InFlight /\ ~Known(r) /\ rs[r].pc # "count"
    /\ Others(r) /\ rs'[r].op = rs[r].op /\ rs'[r].by = rs[r].by
    /\ rs'[r].pc = "failed"
    /\ rs'[r].stories = rs[r].stories /\ rs'[r].left = rs[r].left /\ rs'[r].kept = rs[r].kept
    /\ rs'[r].past = {} /\ rs'[r].after = {} /\ rs'[r].asset = 0
    /\ UNCHANGED <<data, links>>

Uploads(r) ==
    /\ Moves(r, "upload", "insert")
    /\ Same(r) /\ SameStories(r) /\ SameUsers(r) /\ SamePast(r)
    /\ Store(r)
    /\ UNCHANGED <<rows, views, expired, links>>

Inserts(r) ==
    /\ Moves(r, "insert", "contacts")
    /\ Same(r) /\ SameStories(r) /\ SameUsers(r) /\ SamePast(r)
    /\ rows' = rows \cup {r}
    /\ UNCHANGED <<assets, videos, views, expired, links>>

Tells(r) ==
    /\ rs[r].op = "create"
    /\ \/ Moves(r, "contacts", "chats") /\ rs'[r].users = ContactsOf(rs[r].by)
       \/ Moves(r, "chats", "done") /\ rs'[r].users = rs[r].users \cup PartnersOf(rs[r].by)
       \/ /\ rs[r].pc \in {"contacts", "chats"} /\ rs'[r].pc = "done"
          /\ rs'[r].users = {}
    /\ Same(r) /\ SameStories(r) /\ SamePast(r)
    /\ UNCHANGED <<data, links>>

Looks(r) ==
    /\ rs[r].op = "feed"
    /\ \/ Moves(r, "blocks", "contacts") /\ rs'[r].barred = BlockedWith(rs[r].by)
       \/ /\ Moves(r, "contacts", "chats") /\ rs'[r].barred = rs[r].barred
          /\ rs'[r].users = ContactsOf(rs[r].by) \ rs[r].barred
       \/ /\ Moves(r, "chats", "list")
          /\ rs'[r].users = rs[r].users \cup {rs[r].by} \cup (PartnersOf(rs[r].by) \ rs[r].barred)
    /\ Same(r) /\ SameStories(r) /\ SamePast(r)
    /\ UNCHANGED <<data, links>>

Shown(r) == {s \in rows : /\ rs[s].by \in rs[r].users
                          /\ s \notin rs[r].past
                          /\ Visible(s, rs[r].by)}

Lists(r) ==
    /\ Moves(r, "list", "done")
    /\ rs'[r].stories = Shown(r) /\ rs'[r].viewed = Shown(r) \cap ViewedBy(rs[r].by)
    /\ rs'[r].left = rs[r].left /\ rs'[r].kept = rs[r].kept
    /\ Same(r) /\ SamePast(r)
    /\ UNCHANGED <<data, links>>

Goes(r) ==
    /\ \/ rs[r].op = "view" /\ (Moves(r, "find", "check") \/ Moves(r, "check", "upsert"))
       \/ rs[r].op = "sweep" /\ Moves(r, "find", "done")
    /\ Same(r) /\ SameStories(r) /\ SameUsers(r) /\ SamePast(r)
    /\ UNCHANGED <<data, links>>

Counts(r) ==
    /\ rs[r].op = "view"
    /\ Moves(r, "count", "done") \/ Moves(r, "count", "failed")
    /\ Same(r) /\ SameStories(r) /\ SameUsers(r) /\ SamePast(r)
    /\ UNCHANGED <<data, links>>

Views(r) ==
    /\ Moves(r, "upsert", "count")
    /\ rs[r].story \in rows
    /\ views' = views \cup {<<rs[r].story, rs[r].by>>}
    /\ Same(r) /\ SameStories(r) /\ SameUsers(r) /\ SamePast(r)
    /\ UNCHANGED <<rows, assets, videos, expired, links>>

Dooms(r) ==
    /\ rs[r].pc = "find" /\ rs'[r].stories \subseteq rows
    /\ \/ /\ rs[r].op = "delete" /\ rs'[r].stories = {rs[r].story}
          /\ rs[rs[r].story].by = rs[r].by
       \/ rs[r].op = "sweep" /\ rs'[r].stories \subseteq rs[r].past
    /\ rs'[r].left = {s \in rs'[r].stories : rs[s].asset # 0} /\ rs'[r].kept = rs[r].kept
    /\ rs'[r].pc = IF rs'[r].left # {} THEN "destroy" ELSE "remove"
    /\ rs'[r].viewed = rs[r].viewed
    /\ Same(r) /\ SameUsers(r) /\ SamePast(r)
    /\ UNCHANGED <<data, links>>

GetsThrough(r, s) ==
    /\ rs[r].pc = "destroy" /\ s \in rs[r].left
    /\ rs'[r].left = rs[r].left \ {s}
    /\ rs'[r].pc = IF rs[r].left = {s} THEN "remove" ELSE "destroy"
    /\ rs'[r].kept = IF rs[s].asset \in assets' THEN rs[r].kept \cup {s} ELSE rs[r].kept
    /\ assets' = assets \/ assets' = assets \ {rs[s].asset}
    /\ rs'[r].stories = rs[r].stories /\ rs'[r].viewed = rs[r].viewed
    /\ Same(r) /\ SameUsers(r) /\ SamePast(r)
    /\ UNCHANGED <<rows, videos, views, expired, links>>

Removes(r) ==
    /\ rs[r].op = "delete" /\ Moves(r, "remove", "done")
    /\ rs[r].story \in rows
    /\ rows' = rows \ {rs[r].story}
    /\ views' = {w \in views : w[1] # rs[r].story}
    /\ Same(r) /\ SameStories(r) /\ SameUsers(r) /\ SamePast(r)
    /\ UNCHANGED <<assets, videos, expired, links>>

Sweeps(r) ==
    /\ rs[r].op = "sweep" /\ Moves(r, "remove", "done")
    /\ rows' = rows \ rs[r].stories
    /\ views' = {w \in views : w[1] \notin rs[r].stories}
    /\ rs'[r].past = {}
    /\ Same(r) /\ SameStories(r) /\ SameUsers(r)
    /\ UNCHANGED <<assets, videos, expired, links>>

Expires(s) ==
    /\ expired' = expired \cup {s}
    /\ UNCHANGED <<rows, assets, videos, views, links, rs>>

\* Links come and go; a pair that loses its contact is troubled.
Relinks ==
    /\ contacts \subseteq contacts' \cup troubled' /\ chats \subseteq chats'
    /\ troubled \subseteq troubled'
    /\ UNCHANGED <<data, rs>>

KindOf(r) ==
    \/ StartsCreate(r) \/ StartsRead(r) \/ StartsOn(r) \/ Breaks(r)
    \/ Uploads(r) \/ Inserts(r) \/ Tells(r) \/ Looks(r) \/ Lists(r)
    \/ Goes(r) \/ Counts(r) \/ Views(r) \/ Dooms(r)
    \/ \E s \in Requests : GetsThrough(r, s)
    \/ Removes(r) \/ Sweeps(r)

Kinds == \/ \E r \in Requests : KindOf(r) \/ Expires(r)
         \/ Relinks

-----------------------------------------------------------------------------
(* Every step is of one of the kinds, and keeps the types.                 *)

TypedStep(r) == rs' \in [Requests -> RequestStates] /\ KindOf(r)

LEMMA UnusedType ==
    ASSUME NEW u \in Users
    PROVE  Unused(u) \in RequestStates
<1>1. Unused(u).announced \in BOOLEAN
    BY Zenon DEF Unused
<1> QED
    BY <1>1 DEF Unused, RequestStates, Ops

LEMMA SlotType ==
    ASSUME NEW r \in Requests, NEW x \in RequestStates, rs \in [Requests -> RequestStates],
           rs' = [rs EXCEPT ![r] = x]
    PROVE  rs' \in [Requests -> RequestStates] /\ rs'[r] = x /\ Others(r)
    BY DEF Others

LEMMA BegunFields ==
    ASSUME TypeOK, NEW u \in Users, NEW op \in Ops, NEW r \in Requests,
           NEW pc \in {"upload", "insert", "blocks", "list", "find"}
    PROVE  /\ Begun(r, op, u, pc) \in RequestStates
           /\ Begun(r, op, u, pc).op = op /\ Begun(r, op, u, pc).pc = pc
           /\ Begun(r, op, u, pc).by = u
           /\ Begun(r, op, u, pc).past = expired /\ Begun(r, op, u, pc).after = Answered
           /\ Begun(r, op, u, pc).stories = {} /\ Begun(r, op, u, pc).viewed = {}
           /\ Begun(r, op, u, pc).left = {} /\ Begun(r, op, u, pc).kept = {}
           /\ Begun(r, op, u, pc).barred = {} /\ Begun(r, op, u, pc).asset = 0
<1>1. expired \subseteq Requests /\ Answered \subseteq Requests
    BY DEF TypeOK, Answered
<1>2. Unused(u) \in RequestStates
    BY UnusedType
<1>3. Begun(r, op, u, pc) \in RequestStates
    BY <1>1, <1>2 DEF Begun, RequestStates
<1> QED
    BY <1>3 DEF Begun, Unused

LEMMA BreakFields ==
    ASSUME TypeOK, NEW r \in Requests, Break(r), r \in InFlight, ~Known(r), rs[r].pc # "count",
           UNCHANGED <<data, links>>
    PROVE  TypedStep(r)
<1>1. rs \in [Requests -> RequestStates] /\ rs[r] \in RequestStates
    BY DEF TypeOK
<1> DEFINE x == [Unused(rs[r].by) EXCEPT !.pc = "failed", !.op = rs[r].op, !.stories = rs[r].stories,
                                      !.left = rs[r].left, !.kept = rs[r].kept]
<1>2. rs[r].by \in Users /\ Unused(rs[r].by) \in RequestStates
    BY <1>1, UnusedType DEF RequestStates
<1>3. x \in RequestStates
    BY <1>1, <1>2 DEF RequestStates
<1>4. /\ x.op = rs[r].op /\ x.by = rs[r].by /\ x.pc = "failed"
      /\ x.stories = rs[r].stories /\ x.left = rs[r].left /\ x.kept = rs[r].kept
      /\ x.past = {} /\ x.after = {} /\ x.asset = 0
    BY DEF Unused
<1>5. rs' = [rs EXCEPT ![r] = x]
    BY DEF Break
<1> HIDE DEF x
<1> QED
    BY <1>1, <1>3, <1>4, <1>5, SlotType DEF TypedStep, KindOf, Breaks

LEMMA CreateFields ==
    ASSUME TypeOK, NEW r \in Requests, NEW u \in Users, BeginCreate(r, u)
    PROVE  TypedStep(r)
<1> DEFINE Creates(o, a) ==
             /\ rs' = [rs EXCEPT ![r] =
                         [Begun(r, "create", u, IF o.source = "inline" THEN "upload" ELSE "insert")
                            EXCEPT !.asset = a,
                                   !.audience = IF o.privacy = "ALL_CONTACTS" THEN Users ELSE o.allowed,
                                   !.announced = (o.privacy # "CLOSE_FRIENDS")]]
             /\ IF o.source = "uploaded" THEN Store(r) ELSE UNCHANGED <<assets, videos>>
<1>0. PICK o \in Offers : \E a \in AssetNames(r, o.source) : Creates(o, a)
    BY DEF BeginCreate
<1>1. PICK a \in AssetNames(r, o.source) : Creates(o, a)
    BY <1>0
<1> DEFINE pc == IF o.source = "inline" THEN "upload" ELSE "insert"
           b == Begun(r, "create", u, pc)
           announced == (o.privacy # "CLOSE_FRIENDS")
           audience == IF o.privacy = "ALL_CONTACTS" THEN Users ELSE o.allowed
           x == [b EXCEPT !.asset = a, !.audience = audience, !.announced = announced]
<1>2. o.source \in Sources /\ o.allowed \in SUBSET Users
    BY OffersAssumption
<1>3. pc \in {"upload", "insert"} /\ announced \in BOOLEAN
    OBVIOUS
<1>4. audience \subseteq Users
    BY <1>2
<1>5. /\ b \in RequestStates /\ b.op = "create" /\ b.pc = pc /\ b.past = expired /\ b.after = Answered
      /\ b.stories = {} /\ b.viewed = {} /\ b.left = {} /\ b.kept = {} /\ b.barred = {}
    BY <1>3, BegunFields DEF Ops
<1>6. /\ o.source \in {"inline", "uploaded"} => a = r
      /\ o.source = "link" => a = 0
      /\ o.source = "shared" => \E q \in Requests : Known(q) /\ a = rs[q].asset
  <2>1. o.source \in {"inline", "uploaded"} => AssetNames(r, o.source) = {r}
    BY DEF AssetNames
  <2>2. o.source = "link" => AssetNames(r, o.source) = {0}
    BY DEF AssetNames
  <2>3. o.source = "shared" =>
            AssetNames(r, o.source) = {rs[s].asset : s \in {q \in Requests : Known(q)}} \ {0}
    BY DEF AssetNames
  <2> QED
    BY <1>1, <2>1, <2>2, <2>3
<1>7. a \in {0} \cup Requests
  <2>1. \A q \in Requests : rs[q].asset \in {0} \cup Requests
    BY DEF TypeOK, RequestStates
  <2> QED
    BY <1>2, <1>6, <2>1 DEF Sources
<1>8. pc = IF o.source = "inline" THEN "upload" ELSE "insert"
    OBVIOUS
<1> HIDE DEF pc, b, announced, audience
<1>9. x \in RequestStates
    BY <1>3, <1>4, <1>5, <1>7 DEF RequestStates
<1>10. /\ x.asset = a /\ x.op = b.op /\ x.pc = b.pc /\ x.past = b.past /\ x.after = b.after
       /\ x.stories = b.stories /\ x.viewed = b.viewed /\ x.left = b.left /\ x.kept = b.kept
       /\ x.barred = b.barred
    BY <1>5 DEF RequestStates
<1>11. rs' = [rs EXCEPT ![r] = x]
    BY <1>1 DEF pc, b, announced, audience
<1>12. rs[r].pc = "free" /\ UNCHANGED <<rows, views, expired, links>>
    BY DEF BeginCreate, CanBegin
<1> HIDE DEF x
<1>13. rs' \in [Requests -> RequestStates] /\ rs'[r] = x /\ Others(r)
    BY <1>9, <1>11, SlotType DEF TypeOK
<1>14. Starts(r) /\ rs'[r].op = "create" /\ rs'[r].pc = pc /\ rs'[r].asset = a
    BY <1>5, <1>10, <1>12, <1>13 DEF Starts
<1>15. StartsCreate(r)
  <2>1. CASE o.source = "inline"
    BY <1>1, <1>6, <1>8, <1>14, <2>1 DEF StartsCreate
  <2>2. CASE o.source = "uploaded"
    BY <1>1, <1>6, <1>8, <1>14, <2>2 DEF StartsCreate
  <2>3. CASE o.source \in {"shared", "link"}
    BY <1>1, <1>6, <1>8, <1>14, <2>3 DEF StartsCreate
  <2> QED
    BY <1>2, <2>1, <2>2, <2>3 DEF Sources
<1> QED
    BY <1>13, <1>15 DEF TypedStep, KindOf

LEMMA FeedStartFields ==
    ASSUME TypeOK, NEW r \in Requests, NEW u \in Users, BeginFeed(r, u) \/ BeginSweep(r)
    PROVE  TypedStep(r)
<1>1. rs[r].pc = "free" /\ UNCHANGED <<data, links>> /\ rs[r].by \in Users
    BY DEF BeginFeed, BeginSweep, CanBegin, TypeOK, RequestStates
<1>2. ASSUME NEW x \in RequestStates, rs' = [rs EXCEPT ![r] = x],
             /\ x.past = expired /\ x.after = Answered /\ x.barred = {} /\ x.asset = 0
             /\ x.stories = {} /\ x.viewed = {} /\ x.left = {} /\ x.kept = {},
             \/ x.op = "feed" /\ x.pc = "blocks"
             \/ x.op = "mine" /\ x.pc = "list"
             \/ x.op = "sweep" /\ x.pc = "find"
      PROVE  TypedStep(r)
  <2>1. rs' \in [Requests -> RequestStates] /\ rs'[r] = x /\ Others(r)
    BY <1>2, SlotType DEF TypeOK
  <2> QED
    BY <1>1, <1>2, <2>1 DEF TypedStep, KindOf, StartsRead, Starts, data
<1>3. CASE rs' = [rs EXCEPT ![r] = Begun(r, "feed", u, "blocks")]
  <2> DEFINE b == Begun(r, "feed", u, "blocks")
  <2>1. /\ b \in RequestStates /\ b.op = "feed" /\ b.pc = "blocks" /\ b.past = expired
        /\ b.after = Answered /\ b.barred = {} /\ b.asset = 0
        /\ b.stories = {} /\ b.viewed = {} /\ b.left = {} /\ b.kept = {}
    BY BegunFields DEF Ops
  <2>2. rs' = [rs EXCEPT ![r] = b]
    BY <1>3
  <2> HIDE DEF b
  <2> QED
    BY <1>2, <2>1, <2>2
<1>4. CASE rs' = [rs EXCEPT ![r] = [Begun(r, "mine", u, "list") EXCEPT !.users = {u}]]
  <2> DEFINE b == Begun(r, "mine", u, "list")
             x == [b EXCEPT !.users = {u}]
  <2>1. /\ b \in RequestStates /\ b.op = "mine" /\ b.pc = "list" /\ b.past = expired
        /\ b.after = Answered /\ b.barred = {} /\ b.asset = 0
        /\ b.stories = {} /\ b.viewed = {} /\ b.left = {} /\ b.kept = {}
    BY BegunFields DEF Ops
  <2>2. rs' = [rs EXCEPT ![r] = x]
    BY <1>4
  <2> HIDE DEF b
  <2>3. x \in RequestStates
    BY <2>1 DEF RequestStates
  <2>4. /\ x.past = b.past /\ x.after = b.after /\ x.barred = b.barred /\ x.asset = b.asset
        /\ x.stories = b.stories /\ x.viewed = b.viewed /\ x.left = b.left /\ x.kept = b.kept
        /\ x.op = b.op /\ x.pc = b.pc
    BY <2>1 DEF RequestStates
  <2> HIDE DEF x
  <2> QED
    BY <1>2, <2>1, <2>2, <2>3, <2>4
<1>5. CASE rs' = [rs EXCEPT ![r] = Begun(r, "sweep", rs[r].by, "find")]
  <2> DEFINE b == Begun(r, "sweep", rs[r].by, "find")
  <2>1. /\ b \in RequestStates /\ b.op = "sweep" /\ b.pc = "find" /\ b.past = expired
        /\ b.after = Answered /\ b.barred = {} /\ b.asset = 0
        /\ b.stories = {} /\ b.viewed = {} /\ b.left = {} /\ b.kept = {}
    BY <1>1, BegunFields DEF Ops
  <2>2. rs' = [rs EXCEPT ![r] = b]
    BY <1>5
  <2> HIDE DEF b
  <2> QED
    BY <1>2, <2>1, <2>2
<1> QED
    BY <1>3, <1>4, <1>5 DEF BeginFeed, BeginSweep

LEMMA StartOnFields ==
    ASSUME TypeOK, NEW r \in Requests, NEW u \in Users, NEW s \in Requests,
           BeginView(r, u, s) \/ BeginDelete(r, u, s)
    PROVE  TypedStep(r)
<1>1. PICK op \in {"view", "delete"} :
        rs' = [rs EXCEPT ![r] = [Begun(r, op, u, "find") EXCEPT !.story = s]]
    BY DEF BeginView, BeginDelete
<1>2. rs[r].pc = "free" /\ Known(s) /\ UNCHANGED <<data, links>>
    BY DEF BeginView, BeginDelete, CanBegin
<1> DEFINE b == Begun(r, op, u, "find")
           x == [b EXCEPT !.story = s]
<1>3. /\ b \in RequestStates /\ b.op = op /\ b.pc = "find" /\ b.past = expired
      /\ b.after = Answered /\ b.barred = {} /\ b.asset = 0
      /\ b.stories = {} /\ b.viewed = {} /\ b.left = {} /\ b.kept = {}
    BY BegunFields DEF Ops
<1>4. rs' = [rs EXCEPT ![r] = x]
    BY <1>1
<1> HIDE DEF b
<1>5. x \in RequestStates
    BY <1>3 DEF RequestStates
<1>6. /\ x.past = b.past /\ x.after = b.after /\ x.barred = b.barred /\ x.asset = b.asset
      /\ x.stories = b.stories /\ x.viewed = b.viewed /\ x.left = b.left /\ x.kept = b.kept
      /\ x.op = b.op /\ x.pc = b.pc /\ x.story = s
    BY <1>3 DEF RequestStates
<1> HIDE DEF x
<1>7. rs' \in [Requests -> RequestStates] /\ rs'[r] = x /\ Others(r)
    BY <1>4, <1>5, SlotType DEF TypeOK
<1> QED
    BY <1>2, <1>3, <1>6, <1>7 DEF TypedStep, KindOf, StartsOn, Starts, data

Points == {"insert", "chats", "contacts", "list", "check", "upsert", "count",
           "destroy", "remove", "done", "failed"}

LEMMA GotoFields ==
    ASSUME TypeOK, NEW r \in Requests, NEW pc \in Points, Goto(r, pc)
    PROVE  /\ rs' \in [Requests -> RequestStates]
           /\ Same(r) /\ SameStories(r) /\ SameUsers(r) /\ SamePast(r)
           /\ rs'[r].pc = pc
<1>1. rs \in [Requests -> RequestStates] /\ rs[r] \in RequestStates
    BY DEF TypeOK
<1> DEFINE x == [rs[r] EXCEPT !.pc = pc]
<1>2. x \in RequestStates
    BY <1>1 DEF RequestStates, Points
<1>3. rs' = [rs EXCEPT ![r] = x]
    BY <1>1 DEF Goto
<1>4. rs' \in [Requests -> RequestStates] /\ rs'[r] = x /\ Others(r)
    BY <1>1, <1>2, <1>3, SlotType
<1>5. /\ x.op = rs[r].op /\ x.by = rs[r].by /\ x.story = rs[r].story /\ x.asset = rs[r].asset
      /\ x.audience = rs[r].audience /\ x.announced = rs[r].announced /\ x.after = rs[r].after
      /\ x.stories = rs[r].stories /\ x.viewed = rs[r].viewed /\ x.left = rs[r].left
      /\ x.kept = rs[r].kept /\ x.barred = rs[r].barred /\ x.users = rs[r].users
      /\ x.past = rs[r].past /\ x.pc = pc
    BY <1>1 DEF RequestStates
<1> HIDE DEF x
<1> QED
    BY <1>4, <1>5 DEF Same, SameStories, SameUsers, SamePast

\* A request that goes on with other users before it.
LEMMA UsersFields ==
    ASSUME TypeOK, NEW r \in Requests, NEW pc \in Points,
           NEW users \in SUBSET Users, NEW barred \in SUBSET Users,
           rs' = [rs EXCEPT ![r] = [rs[r] EXCEPT !.users = users, !.barred = barred, !.pc = pc]]
    PROVE  /\ rs' \in [Requests -> RequestStates]
           /\ Same(r) /\ SameStories(r) /\ SamePast(r)
           /\ rs'[r].pc = pc /\ rs'[r].users = users /\ rs'[r].barred = barred
<1>1. rs \in [Requests -> RequestStates] /\ rs[r] \in RequestStates
    BY DEF TypeOK
<1> DEFINE x == [rs[r] EXCEPT !.users = users, !.barred = barred, !.pc = pc]
<1>2. x \in RequestStates
    BY <1>1 DEF RequestStates, Points
<1>4. rs' \in [Requests -> RequestStates] /\ rs'[r] = x /\ Others(r)
    BY <1>1, <1>2, SlotType
<1>5. /\ x.op = rs[r].op /\ x.by = rs[r].by /\ x.story = rs[r].story /\ x.asset = rs[r].asset
      /\ x.audience = rs[r].audience /\ x.announced = rs[r].announced /\ x.after = rs[r].after
      /\ x.stories = rs[r].stories /\ x.viewed = rs[r].viewed /\ x.left = rs[r].left
      /\ x.kept = rs[r].kept /\ x.barred = barred /\ x.users = users
      /\ x.past = rs[r].past /\ x.pc = pc
    BY <1>1 DEF RequestStates
<1> HIDE DEF x
<1> QED
    BY <1>4, <1>5 DEF Same, SameStories, SamePast

LEMMA CreateStepFields ==
    ASSUME TypeOK, Shape, NEW r \in Requests,
           Upload(r) \/ Insert(r) \/ TargetContacts(r) \/ TargetChats(r)
    PROVE  TypedStep(r)
<1>1. rs \in [Requests -> RequestStates] /\ rs[r] \in RequestStates
    BY DEF TypeOK
<1>2. ASSUME NEW pc \in Points, NEW users \in SUBSET Users, NEW barred \in SUBSET Users,
             rs' = [rs EXCEPT ![r] = [rs[r] EXCEPT !.users = users, !.barred = barred, !.pc = pc]]
      PROVE  /\ rs' \in [Requests -> RequestStates]
             /\ Same(r) /\ SameStories(r) /\ SamePast(r)
             /\ rs'[r].pc = pc /\ rs'[r].users = users /\ rs'[r].barred = barred
    BY <1>2, UsersFields
<1>3. CASE Upload(r)
    BY <1>3, GotoFields DEF Upload, Points, Uploads, Moves, TypedStep, KindOf
<1>4. CASE Insert(r)
    BY <1>4, GotoFields DEF Insert, Points, Inserts, Moves, TypedStep, KindOf
<1>5. CASE TargetContacts(r)
  <2> DEFINE users == ContactsOf(rs[r].by)
  <2>1. users \subseteq Users /\ rs[r].barred \subseteq Users
    BY <1>1 DEF ContactsOf, RequestStates
  <2>2. rs' = [rs EXCEPT ![r] = [rs[r] EXCEPT !.users = users, !.barred = rs[r].barred,
                                              !.pc = "chats"]]
    <3>1. rs' = [rs EXCEPT ![r].users = users, ![r].pc = "chats"]
      BY <1>5 DEF TargetContacts
    <3> QED
      BY <1>1, <3>1 DEF RequestStates
  <2> HIDE DEF users
  <2>3. /\ rs' \in [Requests -> RequestStates]
        /\ Same(r) /\ SameStories(r) /\ SamePast(r)
        /\ rs'[r].pc = "chats" /\ rs'[r].users = users
    BY <1>2, <2>1, <2>2 DEF Points
  <2> QED
    BY <1>5, <2>3 DEF users, TargetContacts, At, Tells, Moves, TypedStep, KindOf
<1>6. CASE TargetChats(r)
  <2> DEFINE users == rs[r].users \cup PartnersOf(rs[r].by)
  <2>1. users \subseteq Users /\ rs[r].barred \subseteq Users
    BY <1>1 DEF PartnersOf, RequestStates
  <2>2. rs' = [rs EXCEPT ![r] = [rs[r] EXCEPT !.users = users, !.barred = rs[r].barred,
                                              !.pc = "done"]]
    <3>1. rs' = [rs EXCEPT ![r].users = users, ![r].pc = "done"]
      BY <1>6 DEF TargetChats
    <3> QED
      BY <1>1, <3>1 DEF RequestStates
  <2> HIDE DEF users
  <2>3. /\ rs' \in [Requests -> RequestStates]
        /\ Same(r) /\ SameStories(r) /\ SamePast(r)
        /\ rs'[r].pc = "done" /\ rs'[r].users = users
    BY <1>2, <2>1, <2>2 DEF Points
  <2> QED
    BY <1>6, <2>3 DEF users, TargetChats, At, Tells, Moves, TypedStep, KindOf
<1> QED
    BY <1>3, <1>4, <1>5, <1>6

LEMMA FeedStepFields ==
    ASSUME TypeOK, NEW r \in Requests, FeedBlocks(r) \/ FeedContacts(r) \/ FeedChats(r)
    PROVE  TypedStep(r)
<1>1. rs \in [Requests -> RequestStates] /\ rs[r] \in RequestStates
    BY DEF TypeOK
<1>2. rs[r].users \subseteq Users /\ rs[r].barred \subseteq Users /\ rs[r].by \in Users
    BY <1>1 DEF RequestStates
<1>3. ASSUME NEW pc \in Points, NEW users \in SUBSET Users, NEW barred \in SUBSET Users,
             rs' = [rs EXCEPT ![r] = [rs[r] EXCEPT !.users = users, !.barred = barred, !.pc = pc]]
      PROVE  /\ rs' \in [Requests -> RequestStates]
             /\ Same(r) /\ SameStories(r) /\ SamePast(r)
             /\ rs'[r].pc = pc /\ rs'[r].users = users /\ rs'[r].barred = barred
    BY <1>3, UsersFields
<1>4. CASE FeedBlocks(r)
  <2> DEFINE barred == BlockedWith(rs[r].by)
  <2>1. barred \subseteq Users
    BY DEF BlockedWith
  <2>2. rs' = [rs EXCEPT ![r] = [rs[r] EXCEPT !.users = rs[r].users, !.barred = barred,
                                              !.pc = "contacts"]]
    <3>1. rs' = [rs EXCEPT ![r].barred = barred, ![r].pc = "contacts"]
      BY <1>4 DEF FeedBlocks
    <3> QED
      BY <1>1, <3>1 DEF RequestStates
  <2> HIDE DEF barred
  <2>3. /\ rs' \in [Requests -> RequestStates]
        /\ Same(r) /\ SameStories(r) /\ SamePast(r)
        /\ rs'[r].pc = "contacts" /\ rs'[r].barred = barred
    BY <1>2, <1>3, <2>1, <2>2 DEF Points
  <2> QED
    BY <1>4, <2>3 DEF barred, FeedBlocks, At, Looks, Moves, TypedStep, KindOf
<1>5. CASE FeedContacts(r)
  <2> DEFINE users == ContactsOf(rs[r].by) \ rs[r].barred
  <2>1. users \subseteq Users
    BY DEF ContactsOf
  <2>2. rs' = [rs EXCEPT ![r] = [rs[r] EXCEPT !.users = users, !.barred = rs[r].barred,
                                              !.pc = "chats"]]
    <3>1. rs' = [rs EXCEPT ![r].users = users, ![r].pc = "chats"]
      BY <1>5 DEF FeedContacts
    <3> QED
      BY <1>1, <3>1 DEF RequestStates
  <2> HIDE DEF users
  <2>3. /\ rs' \in [Requests -> RequestStates]
        /\ Same(r) /\ SameStories(r) /\ SamePast(r)
        /\ rs'[r].pc = "chats" /\ rs'[r].users = users /\ rs'[r].barred = rs[r].barred
    BY <1>2, <1>3, <2>1, <2>2 DEF Points
  <2> QED
    BY <1>5, <2>3 DEF users, FeedContacts, At, Looks, Moves, TypedStep, KindOf
<1>6. CASE FeedChats(r)
  <2> DEFINE users == rs[r].users \cup {rs[r].by} \cup (PartnersOf(rs[r].by) \ rs[r].barred)
  <2>1. users \subseteq Users
    BY <1>2 DEF PartnersOf
  <2>2. rs' = [rs EXCEPT ![r] = [rs[r] EXCEPT !.users = users, !.barred = rs[r].barred,
                                              !.pc = "list"]]
    <3>1. rs' = [rs EXCEPT ![r].users = users, ![r].pc = "list"]
      BY <1>6 DEF FeedChats
    <3> QED
      BY <1>1, <3>1 DEF RequestStates
  <2> HIDE DEF users
  <2>3. /\ rs' \in [Requests -> RequestStates]
        /\ Same(r) /\ SameStories(r) /\ SamePast(r)
        /\ rs'[r].pc = "list" /\ rs'[r].users = users
    BY <1>2, <1>3, <2>1, <2>2 DEF Points
  <2> QED
    BY <1>6, <2>3 DEF users, FeedChats, At, Looks, Moves, TypedStep, KindOf
<1> QED
    BY <1>4, <1>5, <1>6

LEMMA ListFields ==
    ASSUME TypeOK, NEW r \in Requests, List(r)
    PROVE  TypedStep(r)
<1>1. /\ rs \in [Requests -> RequestStates] /\ rs[r] \in RequestStates
      /\ Shown(r) \subseteq Requests
    BY DEF TypeOK, Shown
<1> DEFINE viewed == Shown(r) \cap ViewedBy(rs[r].by)
           x == [rs[r] EXCEPT !.stories = Shown(r), !.viewed = viewed,
                              !.barred = {}, !.users = {}, !.pc = "done"]
<1>2. viewed \subseteq Requests
    BY <1>1
<1>3. rs' = [rs EXCEPT ![r] = x]
  <2>1. rs' = [rs EXCEPT ![r].stories = Shown(r), ![r].viewed = viewed,
                         ![r].barred = {}, ![r].users = {}, ![r].pc = "done"]
    BY DEF List, Shown
  <2> HIDE DEF viewed
  <2> QED
    BY <1>1, <2>1 DEF RequestStates
<1> HIDE DEF viewed
<1>4. x \in RequestStates
    BY <1>1, <1>2 DEF RequestStates
<1>5. rs' \in [Requests -> RequestStates] /\ rs'[r] = x /\ Others(r)
    BY <1>1, <1>3, <1>4, SlotType
<1>6. /\ x.op = rs[r].op /\ x.by = rs[r].by /\ x.story = rs[r].story /\ x.asset = rs[r].asset
      /\ x.audience = rs[r].audience /\ x.announced = rs[r].announced /\ x.after = rs[r].after
      /\ x.stories = Shown(r) /\ x.viewed = viewed /\ x.left = rs[r].left
      /\ x.kept = rs[r].kept /\ x.past = rs[r].past /\ x.pc = "done"
    BY <1>1 DEF RequestStates
<1>7. rs[r].pc = "list" /\ UNCHANGED <<data, links>>
    BY DEF List
<1> HIDE DEF x
<1> QED
    BY <1>5, <1>6, <1>7 DEF viewed, Lists, Same, SamePast, Moves, TypedStep, KindOf

LEMMA ViewStepFields ==
    ASSUME TypeOK, Shape, NEW r \in Requests,
           FindViewed(r) \/ CheckBlocks(r) \/ UpsertView(r) \/ CountViews(r)
    PROVE  TypedStep(r)
<1>1. r \in InFlight /\ ~Known(r) /\ (CountViews(r) \/ rs[r].pc # "count")
    BY DEF Shape, ShapeOf, FindViewed, CheckBlocks, UpsertView, CountViews, At, InFlight, Known
<1>2. CASE Break(r) /\ UNCHANGED <<data, links>> /\ rs[r].pc # "count"
    BY <1>1, <1>2, BreakFields
<1>3. CASE FindViewed(r) /\ Goto(r, "check")
    BY <1>3, GotoFields DEF FindViewed, At, Points, Goes, Counts, Moves, TypedStep, KindOf
<1>4. CASE CheckBlocks(r) /\ Goto(r, "upsert")
  <2>1. rs[r].op = "view"
    BY <1>4 DEF CheckBlocks, Shape, ShapeOf
  <2> QED
    BY <1>4, <2>1, GotoFields DEF CheckBlocks, Points, Goes, Counts, Moves, TypedStep, KindOf
<1>5. CASE UpsertView(r) /\ Goto(r, "count") /\ rs[r].story \in rows
  <2>1. TypedStep(r)
    BY <1>5, GotoFields, Zenon DEF UpsertView, Points, Views, Moves, TypedStep, KindOf
  <2> QED
    BY <2>1
<1>6. CASE CountViews(r)
  <2>1. rs[r].op = "view" /\ rs[r].pc = "count"
    BY <1>6 DEF CountViews, Shape, ShapeOf
  <2> QED
    BY <1>6, <2>1, GotoFields DEF CountViews, Points, Counts, Moves, TypedStep, KindOf
<1> QED
    BY <1>1, <1>2, <1>3, <1>4, <1>5, <1>6 DEF FindViewed, CheckBlocks, UpsertView, data

LEMMA DoomFields ==
    ASSUME TypeOK, NEW r \in Requests, NEW ss \in SUBSET Requests, Doom(r, ss)
    PROVE  /\ rs' \in [Requests -> RequestStates]
           /\ Same(r) /\ SameUsers(r) /\ SamePast(r)
           /\ rs'[r].stories = ss /\ rs'[r].viewed = rs[r].viewed
           /\ rs'[r].left = {s \in ss : rs[s].asset # 0} /\ rs'[r].kept = rs[r].kept
           /\ rs'[r].pc = IF rs'[r].left # {} THEN "destroy" ELSE "remove"
<1>1. rs \in [Requests -> RequestStates] /\ rs[r] \in RequestStates
    BY DEF TypeOK
<1> DEFINE left == {s \in ss : rs[s].asset # 0}
           pc == IF left # {} THEN "destroy" ELSE "remove"
           x == [rs[r] EXCEPT !.stories = ss, !.left = left, !.pc = pc]
<1>2. rs' = [rs EXCEPT ![r].stories = ss, ![r].left = left, ![r].pc = pc]
    BY DEF Doom
<1>3. left \subseteq Requests /\ pc \in {"destroy", "remove"}
    OBVIOUS
<1> HIDE DEF left, pc
<1>4. rs' = [rs EXCEPT ![r] = x]
    BY <1>1, <1>2 DEF RequestStates
<1>5. x \in RequestStates
    BY <1>1, <1>3 DEF RequestStates
<1>6. rs' \in [Requests -> RequestStates] /\ rs'[r] = x /\ Others(r)
    BY <1>1, <1>4, <1>5, SlotType
<1>7. /\ x.op = rs[r].op /\ x.by = rs[r].by /\ x.story = rs[r].story /\ x.asset = rs[r].asset
      /\ x.audience = rs[r].audience /\ x.announced = rs[r].announced /\ x.after = rs[r].after
      /\ x.stories = ss /\ x.viewed = rs[r].viewed /\ x.left = left
      /\ x.kept = rs[r].kept /\ x.past = rs[r].past /\ x.pc = pc
      /\ x.barred = rs[r].barred /\ x.users = rs[r].users
    BY <1>1 DEF RequestStates
<1> HIDE DEF x
<1> QED
    BY <1>6, <1>7 DEF left, pc, Same, SameUsers, SamePast

LEMMA FindFields ==
    ASSUME TypeOK, NEW r \in Requests, FindDeleted(r) \/ FindExpired(r)
    PROVE  TypedStep(r)
<1>1. r \in InFlight /\ ~Known(r) /\ UNCHANGED <<data, links>> /\ rs[r].pc = "find"
    BY DEF FindDeleted, FindExpired, At, InFlight, Known
<1>2. CASE Break(r)
    BY <1>1, <1>2, BreakFields
<1>3. CASE /\ rs[r].op = "delete" /\ Doom(r, {rs[r].story})
           /\ rs[r].story \in rows /\ rs[rs[r].story].by = rs[r].by
  <2> DEFINE ss == {rs[r].story}
  <2>1. ss \in SUBSET Requests /\ ss \subseteq rows
    BY <1>3 DEF TypeOK
  <2>2. Doom(r, ss)
    BY <1>3
  <2> HIDE DEF ss
  <2>3. /\ rs' \in [Requests -> RequestStates]
        /\ Same(r) /\ SameUsers(r) /\ SamePast(r)
        /\ rs'[r].stories = ss /\ rs'[r].viewed = rs[r].viewed
        /\ rs'[r].left = {s \in ss : rs[s].asset # 0} /\ rs'[r].kept = rs[r].kept
        /\ rs'[r].pc = IF rs'[r].left # {} THEN "destroy" ELSE "remove"
    BY <2>1, <2>2, DoomFields
  <2> QED
    BY <1>1, <1>3, <2>1, <2>3 DEF ss, Dooms, TypedStep, KindOf
<1>4. CASE rs[r].op = "sweep" /\ Doom(r, rows \cap rs[r].past)
  <2> DEFINE ss == rows \cap rs[r].past
  <2>1. ss \in SUBSET Requests /\ ss \subseteq rows
    BY DEF TypeOK
  <2>2. Doom(r, ss)
    BY <1>4
  <2> HIDE DEF ss
  <2>3. /\ rs' \in [Requests -> RequestStates]
        /\ Same(r) /\ SameUsers(r) /\ SamePast(r)
        /\ rs'[r].stories = ss /\ rs'[r].viewed = rs[r].viewed
        /\ rs'[r].left = {s \in ss : rs[s].asset # 0} /\ rs'[r].kept = rs[r].kept
        /\ rs'[r].pc = IF rs'[r].left # {} THEN "destroy" ELSE "remove"
    BY <2>1, <2>2, DoomFields
  <2>4. rs'[r].stories \subseteq rows /\ rs'[r].stories \subseteq rs[r].past
    BY <2>3 DEF ss
  <2>5. rs'[r].left = {s \in rs'[r].stories : rs[s].asset # 0}
    BY <2>3
  <2> QED
    BY <1>1, <1>4, <2>3, <2>4, <2>5 DEF Dooms, TypedStep, KindOf
<1>5. CASE rs[r].op = "sweep" /\ Goto(r, "done")
    BY <1>1, <1>5, GotoFields DEF Points, Goes, Counts, Moves, TypedStep, KindOf
<1>6. FindDeleted(r) =>
        /\ rs[r].op = "delete"
        /\ \/ Break(r)
           \/ /\ Doom(r, {rs[r].story})
              /\ rs[r].story \in rows /\ rs[rs[r].story].by = rs[r].by
    BY DEF FindDeleted, At
<1>7. FindExpired(r) =>
        /\ rs[r].op = "sweep"
        /\ Doom(r, rows \cap rs[r].past) \/ Goto(r, "done")
    BY DEF FindExpired, At
<1> QED
    BY <1>2, <1>3, <1>4, <1>5, <1>6, <1>7

LEMMA ThroughFields ==
    ASSUME TypeOK, NEW r \in Requests, Destroy(r) \/ DestroyFails(r)
    PROVE  TypedStep(r)
<1>1. rs \in [Requests -> RequestStates] /\ rs[r] \in RequestStates
    BY DEF TypeOK
<1>2. PICK s \in rs[r].left :
        /\ assets' = assets \/ assets' = assets \ {rs[s].asset}
        /\ Through(r, s)
    BY DEF Destroy, DestroyFails
<1>3. UNCHANGED <<rows, videos, views, expired, links>>
    BY DEF Destroy, DestroyFails
<1>4. s \in Requests
    BY <1>1 DEF RequestStates
<1> DEFINE left == rs[r].left \ {s}
           pc == IF rs[r].left = {s} THEN "remove" ELSE "destroy"
           kept == IF rs[s].asset \in assets' THEN rs[r].kept \cup {s} ELSE rs[r].kept
           x == [rs[r] EXCEPT !.left = left, !.pc = pc, !.kept = kept]
<1>5. left \subseteq Requests /\ kept \subseteq Requests /\ pc \in {"destroy", "remove"}
  <2>1. rs[r].left \subseteq Requests /\ rs[r].kept \subseteq Requests
    BY <1>1 DEF RequestStates
  <2> QED
    BY <1>4, <2>1
<1>6. rs' = [rs EXCEPT ![r] = x]
  <2>1. rs' = [rs EXCEPT ![r].left = left, ![r].pc = pc, ![r].kept = kept]
    BY <1>1, <1>2 DEF Through, RequestStates
  <2> HIDE DEF left, pc, kept
  <2> QED
    BY <1>1, <2>1 DEF RequestStates
<1> HIDE DEF left, pc, kept
<1>7. x \in RequestStates
    BY <1>1, <1>5 DEF RequestStates
<1>8. rs' \in [Requests -> RequestStates] /\ rs'[r] = x /\ Others(r)
    BY <1>1, <1>6, <1>7, SlotType
<1>9. /\ x.op = rs[r].op /\ x.by = rs[r].by /\ x.story = rs[r].story /\ x.asset = rs[r].asset
      /\ x.audience = rs[r].audience /\ x.announced = rs[r].announced /\ x.after = rs[r].after
      /\ x.stories = rs[r].stories /\ x.viewed = rs[r].viewed /\ x.left = left
      /\ x.kept = kept /\ x.past = rs[r].past /\ x.pc = pc
      /\ x.barred = rs[r].barred /\ x.users = rs[r].users
    BY <1>1 DEF RequestStates
<1> HIDE DEF x
<1>10. Same(r) /\ SameUsers(r) /\ SamePast(r)
    BY <1>8, <1>9 DEF Same, SameUsers, SamePast
<1>11. GetsThrough(r, s)
    BY <1>2, <1>3, <1>8, <1>9, <1>10 DEF left, pc, kept, GetsThrough, Through
<1> QED
    BY <1>2, <1>3, <1>4, <1>8, <1>11 DEF TypedStep, KindOf

LEMMA RemoveFields ==
    ASSUME TypeOK, Deleting, NEW r \in Requests, Remove(r) \/ RemoveExpired(r)
    PROVE  TypedStep(r)
<1>1. rs \in [Requests -> RequestStates] /\ rs[r] \in RequestStates
    BY DEF TypeOK
<1>2. CASE Remove(r) /\ rs[r].story \in rows
  <2>1. /\ rows' = rows \ {rs[r].story}
        /\ views' = {w \in views : w[1] # rs[r].story}
    BY <1>2 DEF Remove, Delete
  <2>2. Goto(r, "done")
    BY <1>2 DEF Remove
  <2>3. At(r, "delete", "remove") /\ UNCHANGED <<assets, videos, expired, links>>
    BY <1>2 DEF Remove
  <2> QED
    BY <1>2, <2>1, <2>2, <2>3, GotoFields DEF At, Points, Removes, Moves, TypedStep, KindOf
<1>3. CASE Remove(r) /\ rs[r].story \notin rows
    BY <1>3, BreakFields DEF Remove, At, InFlight, Known, data
<1>4. CASE RemoveExpired(r)
  <2> DEFINE x == [rs[r] EXCEPT !.past = {}, !.pc = "done"]
  <2>1. rs' = [rs EXCEPT ![r] = x]
    <3>1. rs' = [rs EXCEPT ![r].pc = "done", ![r].past = {}]
      BY <1>4 DEF RemoveExpired
    <3> QED
      BY <1>1, <3>1 DEF RequestStates
  <2>2. x \in RequestStates
    BY <1>1 DEF RequestStates
  <2>3. rs' \in [Requests -> RequestStates] /\ rs'[r] = x /\ Others(r)
    BY <1>1, <2>1, <2>2, SlotType
  <2>4. /\ x.op = rs[r].op /\ x.by = rs[r].by /\ x.story = rs[r].story /\ x.asset = rs[r].asset
        /\ x.audience = rs[r].audience /\ x.announced = rs[r].announced /\ x.after = rs[r].after
        /\ x.stories = rs[r].stories /\ x.viewed = rs[r].viewed /\ x.left = rs[r].left
        /\ x.kept = rs[r].kept /\ x.past = {} /\ x.pc = "done"
        /\ x.barred = rs[r].barred /\ x.users = rs[r].users
    BY <1>1 DEF RequestStates
  <2> HIDE DEF x
  <2>5. Same(r) /\ SameStories(r) /\ SameUsers(r) /\ rs'[r].past = {} /\ rs'[r].pc = "done"
    BY <2>3, <2>4 DEF Same, SameStories, SameUsers
  <2>6. /\ rows' = rows \ rs[r].stories
        /\ views' = {w \in views : w[1] \notin rs[r].stories}
        /\ At(r, "sweep", "remove") /\ UNCHANGED <<assets, videos, expired, links>>
    BY <1>4 DEF RemoveExpired, Delete
  <2> QED
    BY <2>3, <2>5, <2>6 DEF At, Sweeps, Moves, TypedStep, KindOf
<1> QED
    BY <1>2, <1>3, <1>4

LEMMA FailFields ==
    ASSUME TypeOK, Shape, NEW r \in Requests, Fail(r)
    PROVE  TypedStep(r)
<1>1. rs \in [Requests -> RequestStates] /\ rs[r] \in RequestStates
    BY DEF TypeOK
<1>2. CASE rs[r].op = "create" /\ rs[r].pc \in {"contacts", "chats"}
  <2>1. rs' = [rs EXCEPT ![r].users = {}, ![r].pc = "done"]
    BY <1>2 DEF Fail
  <2>2. rs' = [rs EXCEPT ![r] = [rs[r] EXCEPT !.users = {}, !.barred = rs[r].barred, !.pc = "done"]]
    BY <1>1, <2>1 DEF RequestStates
  <2>3. rs[r].barred \subseteq Users
    BY <1>1 DEF RequestStates
  <2> DEFINE users == {}
             barred == rs[r].barred
  <2>4. users \in SUBSET Users /\ barred \in SUBSET Users /\ "done" \in Points
    BY <2>3 DEF Points
  <2>5. rs' = [rs EXCEPT ![r] = [rs[r] EXCEPT !.users = users, !.barred = barred, !.pc = "done"]]
    BY <2>2
  <2> HIDE DEF users, barred
  <2>6. /\ rs' \in [Requests -> RequestStates]
        /\ Same(r) /\ SameStories(r) /\ SamePast(r)
        /\ rs'[r].pc = "done" /\ rs'[r].users = users
    BY <2>4, <2>5, UsersFields
  <2> QED
    BY <1>2, <2>6 DEF users, Fail, Tells, TypedStep, KindOf
<1>3. CASE rs[r].pc = "count"
  <2>1. rs[r].op = "view" /\ Goto(r, "failed") /\ UNCHANGED <<data, links>>
    BY <1>3 DEF Fail, Shape, ShapeOf
  <2> QED
    BY <1>3, <2>1, GotoFields DEF Points, Counts, Moves, TypedStep, KindOf
<1>4. CASE ~(rs[r].op = "create" /\ rs[r].pc \in {"contacts", "chats"}) /\ rs[r].pc # "count"
    BY <1>4, BreakFields DEF Fail, Known, InFlight
<1> QED
    BY <1>2, <1>3, <1>4

LEMMA LinkFields ==
    ASSUME TypeOK, NEW p \in Pairs, Meet(p) \/ Block(p)
    PROVE  Relinks
    BY DEF Meet, Block, Relinks

LEMMA StepKinds ==
    ASSUME TypeOK, Shape, Deleting, [Next]_vars
    PROVE  Kinds /\ rs' \in [Requests -> RequestStates]
<1>1. ASSUME NEW r \in Requests, TypedStep(r)
      PROVE  Kinds /\ rs' \in [Requests -> RequestStates]
    BY <1>1 DEF TypedStep, Kinds
<1>2. ASSUME NEW r \in Requests, NEW u \in Users, BeginCreate(r, u) \/ BeginFeed(r, u)
      PROVE  Kinds /\ rs' \in [Requests -> RequestStates]
    BY <1>1, <1>2, CreateFields, FeedStartFields
<1>3. ASSUME NEW r \in Requests, NEW u \in Users, NEW s \in Requests,
             BeginView(r, u, s) \/ BeginDelete(r, u, s)
      PROVE  Kinds /\ rs' \in [Requests -> RequestStates]
    BY <1>1, <1>3, StartOnFields
<1>4. ASSUME NEW r \in Requests, BeginSweep(r)
      PROVE  Kinds /\ rs' \in [Requests -> RequestStates]
  <2>1. rs[r].by \in Users
    BY DEF TypeOK, RequestStates
  <2> QED
    BY <1>1, <1>4, <2>1, FeedStartFields
<1>5. ASSUME NEW r \in Requests, Steps(r) \/ DestroyFails(r) \/ Fail(r)
      PROVE  Kinds /\ rs' \in [Requests -> RequestStates]
    BY <1>1, <1>5, CreateStepFields, FeedStepFields, ListFields, ViewStepFields, FindFields,
       ThroughFields, RemoveFields, FailFields
    DEF Steps
<1>6. ASSUME NEW r \in Requests, Expire(r)
      PROVE  Kinds /\ rs' \in [Requests -> RequestStates]
    BY <1>6 DEF Expire, Expires, Kinds, TypeOK
<1>7. ASSUME NEW p \in Pairs, Meet(p) \/ Block(p)
      PROVE  Kinds /\ rs' \in [Requests -> RequestStates]
    BY <1>7, LinkFields DEF Relinks, Kinds, TypeOK
<1>8. CASE UNCHANGED vars
    BY <1>8 DEF vars, data, links, Relinks, Kinds, TypeOK
<1> QED
    BY <1>2, <1>3, <1>4, <1>5, <1>6, <1>7, <1>8 DEF Next

-----------------------------------------------------------------------------
(* What no step undoes.                                                    *)

\* A known story stays known and keeps what it began with; an answered
\* request stays as it is.
LEMMA Lasting ==
    ASSUME TypeOK, Kinds
    PROVE  /\ \A s \in Requests : Known(s) =>
                /\ Known(s)' /\ rs'[s].by = rs[s].by /\ rs'[s].asset = rs[s].asset
                /\ rs'[s].audience = rs[s].audience /\ rs'[s].announced = rs[s].announced
           /\ Answered \subseteq Answered'
           /\ \A s \in Answered : rs'[s] = rs[s]
           /\ expired \subseteq expired' /\ chats \subseteq chats' /\ troubled \subseteq troubled'
           /\ contacts \cup chats \cup troubled \subseteq contacts' \cup chats' \cup troubled'
<1>1. ASSUME NEW r \in Requests, KindOf(r)
      PROVE  /\ Others(r) /\ rs[r].pc # "done"
             /\ Known(r) => Known(r)' /\ Same(r)
             /\ UNCHANGED <<expired, links>>
  <2>1. CASE StartsCreate(r) \/ StartsRead(r) \/ StartsOn(r)
    BY <2>1 DEF StartsCreate, StartsRead, StartsOn, Starts, Known
  <2>2. CASE Breaks(r)
    BY <2>2 DEF Breaks, InFlight, data
  <2>3. CASE Uploads(r) \/ Inserts(r)
    BY <2>3 DEF Uploads, Inserts, Moves, Same, Known
  <2>4. CASE Tells(r) \/ Looks(r) \/ Lists(r)
    BY <2>4 DEF Tells, Looks, Lists, Moves, Same, Known, data
  <2>5. CASE Goes(r) \/ Counts(r) \/ Views(r) \/ Dooms(r)
    BY <2>5 DEF Goes, Counts, Views, Dooms, Moves, Same, Known, data
  <2>6. ASSUME NEW s \in Requests, GetsThrough(r, s)
        PROVE  /\ Others(r) /\ rs[r].pc # "done" /\ ~Known(r)
               /\ UNCHANGED <<expired, links>>
    BY <2>6 DEF GetsThrough, Same, Known
  <2>7. CASE Removes(r) \/ Sweeps(r)
    BY <2>7 DEF Removes, Sweeps, Moves, Same, Known
  <2> QED
    BY <1>1, <2>1, <2>2, <2>3, <2>4, <2>5, <2>6, <2>7 DEF KindOf
<1>2. ASSUME NEW r \in Requests, KindOf(r)
      PROVE  /\ \A s \in Requests : Known(s) =>
                  /\ Known(s)' /\ rs'[s].by = rs[s].by /\ rs'[s].asset = rs[s].asset
                  /\ rs'[s].audience = rs[s].audience /\ rs'[s].announced = rs[s].announced
             /\ \A s \in Answered : rs'[s] = rs[s]
             /\ UNCHANGED <<expired, links>>
    BY <1>1, <1>2 DEF Others, Same, Known, Answered
<1>3. CASE \E r \in Requests : KindOf(r)
    BY <1>2, <1>3 DEF Answered, links
<1>4. CASE \E s \in Requests : Expires(s)
    BY <1>4 DEF Expires, Known, Answered, links
<1>5. CASE Relinks
    BY <1>5 DEF Relinks, Known, Answered, data
<1> QED
    BY <1>3, <1>4, <1>5 DEF Kinds

LEMMA DataType ==
    ASSUME TypeOK, Shape, Kinds
    PROVE  /\ rows' \subseteq Requests /\ expired' \subseteq Requests
           /\ assets' \subseteq Requests /\ videos' \subseteq Requests
           /\ views' \subseteq rows' \X Users
<1>1. ASSUME NEW T \in SUBSET Requests, rows' = rows \ T, views' = {w \in views : w[1] \notin T}
      PROVE  views' \subseteq rows' \X Users
    BY <1>1 DEF TypeOK
<1>2. ASSUME rows \subseteq rows', UNCHANGED views
      PROVE  views' \subseteq rows' \X Users
    BY <1>2 DEF TypeOK
<1>3. ASSUME NEW r \in Requests, KindOf(r)
      PROVE  /\ rows' \subseteq Requests /\ expired' \subseteq Requests
             /\ assets' \subseteq Requests /\ videos' \subseteq Requests
             /\ views' \subseteq rows' \X Users
  <2>1. CASE \/ StartsCreate(r) \/ StartsRead(r) \/ StartsOn(r) \/ Breaks(r)
             \/ Uploads(r) \/ Inserts(r)
    BY <1>2, <2>1 DEF StartsCreate, StartsRead, StartsOn, Starts, Breaks, Uploads, Inserts, Store,
       data, TypeOK
  <2>2. CASE Tells(r) \/ Looks(r) \/ Lists(r) \/ Goes(r) \/ Counts(r) \/ Dooms(r)
    BY <1>2, <2>2 DEF Tells, Looks, Lists, Goes, Counts, Dooms, data, TypeOK
  <2>3. CASE Views(r)
    <3>1. rs[r].by \in Users
      BY DEF TypeOK, RequestStates
    <3> QED
      BY <2>3, <3>1 DEF Views, TypeOK
  <2>4. ASSUME NEW s \in Requests, GetsThrough(r, s)
        PROVE  UNCHANGED <<rows, videos, views, expired>> /\ assets' \subseteq Requests
    BY <2>4 DEF GetsThrough, TypeOK
  <2>5. CASE Removes(r)
    <3>1. rs[r].story \in Requests
      BY <2>5 DEF Removes, TypeOK
    <3>2. views' \subseteq rows' \X Users
      <4> DEFINE T == {rs[r].story}
      <4>1. T \in SUBSET Requests /\ rows' = rows \ T /\ views' = {w \in views : w[1] \notin T}
        BY <2>5, <3>1 DEF Removes
      <4> HIDE DEF T
      <4> QED
        BY <1>1, <4>1
    <3> QED
      BY <2>5, <3>2 DEF Removes, TypeOK
  <2>6. CASE Sweeps(r)
    <3>1. rs[r].stories \in SUBSET Requests
      BY DEF TypeOK, RequestStates
    <3>2. views' \subseteq rows' \X Users
      BY <1>1, <2>6, <3>1 DEF Sweeps
    <3> QED
      BY <2>6, <3>2 DEF Sweeps, TypeOK
  <2> QED
    BY <1>2, <1>3, <2>1, <2>2, <2>3, <2>4, <2>5, <2>6 DEF KindOf, TypeOK
<1>4. CASE \E s \in Requests : Expires(s)
    BY <1>2, <1>4 DEF Expires, TypeOK
<1>5. CASE Relinks
    BY <1>5 DEF Relinks, data, TypeOK
<1> QED
    BY <1>3, <1>4, <1>5 DEF Kinds

LEMMA TypeNext ==
    ASSUME TypeOK, Shape, Deleting, [Next]_vars
    PROVE  TypeOK'
<1>1. /\ rows' \subseteq Requests /\ expired' \subseteq Requests
      /\ assets' \subseteq Requests /\ videos' \subseteq Requests
      /\ views' \subseteq rows' \X Users
      /\ rs' \in [Requests -> RequestStates]
    BY StepKinds, DataType
<1>2. \/ UNCHANGED links
      \/ \E p \in Pairs : Meet(p) \/ Block(p)
  <2>1. ASSUME NEW r \in Requests, NEW u \in Users,
               \/ BeginCreate(r, u) \/ BeginFeed(r, u) \/ BeginSweep(r)
               \/ \E s \in Requests : BeginView(r, u, s) \/ BeginDelete(r, u, s)
        PROVE  UNCHANGED links
    BY <2>1 DEF BeginCreate, BeginFeed, BeginView, BeginDelete, BeginSweep
  <2>2. ASSUME NEW r \in Requests, Steps(r)
        PROVE  UNCHANGED links
    BY <2>2 DEF Steps, Upload, Insert, TargetContacts, TargetChats, FeedBlocks, FeedContacts,
       FeedChats, List, FindViewed, CheckBlocks, UpsertView, CountViews, FindDeleted, FindExpired,
       Destroy, Remove, RemoveExpired
  <2>3. ASSUME NEW r \in Requests, BeginSweep(r) \/ DestroyFails(r) \/ Fail(r) \/ Expire(r)
        PROVE  UNCHANGED links
    BY <2>3 DEF BeginSweep, DestroyFails, Fail, Expire
  <2>4. CASE UNCHANGED vars
    BY <2>4 DEF vars
  <2> QED
    BY <2>1, <2>2, <2>3, <2>4 DEF Next
<1>3. contacts' \subseteq Pairs /\ chats' \subseteq Pairs /\ blocks' \subseteq troubled'
      /\ troubled' \subseteq Pairs
  <2>1. CASE UNCHANGED links
    BY <2>1 DEF TypeOK, links
  <2>2. ASSUME NEW p \in Pairs, Meet(p) \/ Block(p)
        PROVE  contacts' \subseteq Pairs /\ chats' \subseteq Pairs /\ blocks' \subseteq troubled'
               /\ troubled' \subseteq Pairs
    BY <2>2 DEF TypeOK, Meet, Block
  <2> QED
    BY <1>2, <2>1, <2>2
<1>4. UNCHANGED events \/ Event
  <2>1. ASSUME NEW r \in Requests, NEW u \in Users,
               \/ BeginCreate(r, u) \/ BeginFeed(r, u)
               \/ \E s \in Requests : BeginView(r, u, s) \/ BeginDelete(r, u, s)
        PROVE  UNCHANGED events
    BY <2>1 DEF BeginCreate, BeginFeed, BeginView, BeginDelete
  <2>2. ASSUME NEW r \in Requests, Steps(r)
        PROVE  UNCHANGED events
    BY <2>2 DEF Steps, Upload, Insert, TargetContacts, TargetChats, FeedBlocks, FeedContacts,
       FeedChats, List, FindViewed, CheckBlocks, UpsertView, CountViews, FindDeleted, FindExpired,
       Destroy, Remove, RemoveExpired
  <2>3. ASSUME NEW r \in Requests, BeginSweep(r) \/ DestroyFails(r) \/ Fail(r) \/ Expire(r)
        PROVE  UNCHANGED events \/ Event
    BY <2>3 DEF BeginSweep, DestroyFails, Fail, Expire
  <2>4. ASSUME NEW p \in Pairs, Meet(p) \/ Block(p)
        PROVE  Event
    BY <2>4 DEF Meet, Block
  <2>5. CASE UNCHANGED vars
    BY <2>5 DEF vars
  <2> QED
    BY <2>1, <2>2, <2>3, <2>4, <2>5 DEF Next
<1>5. events' \in 0 .. MaxEvents
  <2>1. MaxEvents \in Nat
    BY BoundsAssumption
  <2> QED
    BY <1>4, <2>1 DEF Event, TypeOK
<1> QED
    BY <1>1, <1>3, <1>5 DEF TypeOK

\* A step moves one request, or none.
LEMMA OneMoves ==
    ASSUME Kinds, NEW q \in Requests
    PROVE  KindOf(q) \/ rs'[q] = rs[q]
<1>1. ASSUME NEW r \in Requests, KindOf(r)
      PROVE  Others(r)
    BY <1>1 DEF KindOf, StartsCreate, StartsRead, StartsOn, Starts, Breaks, Uploads, Inserts, Tells,
       Looks, Lists, Goes, Counts, Views, Dooms, GetsThrough, Removes, Sweeps, Same
<1> QED
    BY <1>1 DEF Kinds, Expires, Relinks, Others

LEMMA ShapeNext ==
    ASSUME TypeOK, Shape, Deleting, Kinds
    PROVE  Shape'
<1> USE DEF ShapeOf
<1>1. ASSUME NEW q \in Requests, rs'[q] = rs[q]
      PROVE  ShapeOf(q)'
  <2>1. ShapeOf(q)
    BY DEF Shape
  <2> QED
    BY <1>1, <2>1, Lasting
<1>2. ASSUME NEW r \in Requests, KindOf(r)
      PROVE  ShapeOf(r)'
  <2>1. ShapeOf(r) /\ expired \subseteq expired' /\ Answered \subseteq Answered'
        /\ \A s \in Requests : Known(s) => Known(s)'
    BY Lasting DEF Shape
  <2>2. CASE StartsCreate(r)
    BY <2>1, <2>2 DEF StartsCreate, Starts
  <2>3. CASE StartsRead(r)
    BY <2>1, <2>3 DEF StartsRead, Starts
  <2>4. CASE StartsOn(r)
    <3>1. rs'[r].story \in Requests /\ Known(rs[r].story)'
      BY <2>1, <2>4 DEF StartsOn
    <3> QED
      BY <2>1, <2>4, <3>1 DEF StartsOn, Starts
  <2>5. CASE Breaks(r)
    BY <2>1, <2>5 DEF Breaks
  <2>6. CASE Uploads(r) \/ Inserts(r)
    BY <2>1, <2>6 DEF Uploads, Inserts, Moves, Same, SameStories, SamePast
  <2>7. CASE Tells(r) \/ Looks(r)
    BY <2>1, <2>7 DEF Tells, Looks, Moves, Same, SameStories, SamePast
  <2>8. CASE Lists(r)
    BY <2>1, <2>8 DEF Lists, Moves, Same, SamePast
  <2>9. CASE Goes(r) \/ Counts(r) \/ Views(r)
    BY <2>1, <2>9 DEF Goes, Counts, Views, Moves, Same, SameStories, SamePast
  <2>10. CASE Dooms(r)
    BY <2>1, <2>10 DEF Dooms, Same, SamePast
  <2>11. ASSUME NEW s \in Requests, GetsThrough(r, s)
         PROVE  ShapeOf(r)'
    BY <2>1, <2>11 DEF GetsThrough, Same, SamePast
  <2>12. CASE Removes(r) \/ Sweeps(r)
    BY <2>1, <2>12 DEF Removes, Sweeps, Moves, Same, SameStories, SamePast
  <2> QED
    BY <1>2, <2>2, <2>3, <2>4, <2>5, <2>6, <2>7, <2>8, <2>9, <2>10, <2>11, <2>12 DEF KindOf
<1>3. ASSUME NEW q \in Requests
      PROVE  ShapeOf(q)'
    BY <1>1, <1>2, OneMoves
<1> QED
    BY <1>3 DEF Shape

\* Assets come with stories that are not yet known and go with known ones.
LEMMA AssetsStep ==
    ASSUME Deleting, NEW r \in Requests, KindOf(r)
    PROVE  \/ UNCHANGED <<assets, videos>>
           \/ ~Known(r) /\ Store(r)
           \/ /\ UNCHANGED videos
              /\ \E s \in Requests : assets' = assets \ {rs[s].asset} /\ Known(s)
<1>1. CASE StartsCreate(r) \/ StartsRead(r) \/ StartsOn(r)
    BY <1>1 DEF StartsCreate, StartsRead, StartsOn, Starts, Known
<1>2. CASE Uploads(r)
    BY <1>2 DEF Uploads, Moves, Known
<1>3. CASE Breaks(r) \/ Tells(r) \/ Looks(r) \/ Lists(r) \/ Goes(r) \/ Counts(r) \/ Dooms(r)
    BY <1>3 DEF Breaks, Tells, Looks, Lists, Goes, Counts, Dooms, data
<1>4. CASE Inserts(r) \/ Views(r) \/ Removes(r) \/ Sweeps(r)
    BY <1>4 DEF Inserts, Views, Removes, Sweeps
<1>5. ASSUME NEW s \in Requests, GetsThrough(r, s)
      PROVE  UNCHANGED videos
             /\ (UNCHANGED assets \/ (assets' = assets \ {rs[s].asset} /\ Known(s)))
  <2>1. Known(s)
    BY <1>5 DEF GetsThrough, Deleting, DeletingOf
  <2> QED
    BY <1>5, <2>1 DEF GetsThrough
<1> QED
    BY <1>1, <1>2, <1>3, <1>4, <1>5 DEF KindOf

\* An asset that a known story lost does not come back; one that only stories
\* yet unknown name does not go.
LEMMA AssetsGone ==
    ASSUME TypeOK, Deleting, Owned, Kinds
    PROVE  /\ \A s \in Requests : Known(s) /\ rs[s].asset \notin assets =>
                rs'[s].asset = rs[s].asset /\ rs[s].asset \notin assets'
           /\ \A s \in Requests : s \in assets \cup videos /\ ~Known(s) => s \in assets' \cup videos'
           /\ videos \subseteq videos'
<1>1. \/ UNCHANGED <<assets, videos>>
      \/ \E r \in Requests :
           \/ ~Known(r) /\ Store(r)
           \/ /\ UNCHANGED videos
              /\ \E s \in Requests : assets' = assets \ {rs[s].asset} /\ Known(s)
    BY AssetsStep DEF Kinds, Expires, Relinks, data
<1>2. ASSUME NEW s \in Requests, Known(s), rs[s].asset \notin assets
      PROVE  rs'[s].asset = rs[s].asset /\ rs[s].asset \notin assets'
  <2>1. rs'[s].asset = rs[s].asset
    BY <1>2, Lasting
  <2>2. CASE rs[s].asset = 0
    <3>1. assets' \subseteq Requests
      BY <1>1 DEF Store, TypeOK
    <3>2. 0 \notin Requests
      BY BoundsAssumption DEF Requests
    <3> QED
      BY <2>1, <2>2, <3>1, <3>2
  <2>3. CASE rs[s].asset # 0
    <3>1. Known(rs[s].asset)
      BY <1>2, <2>3 DEF Owned
    <3> QED
      BY <1>1, <1>2, <2>1, <3>1 DEF Store
  <2> QED
    BY <2>2, <2>3
<1>3. ASSUME NEW s \in Requests, s \in assets \cup videos, ~Known(s)
      PROVE  s \in assets' \cup videos'
  <2>1. ASSUME NEW q \in Requests, Known(q)
        PROVE  rs[q].asset # s
    <3>1. 0 \notin Requests
      BY BoundsAssumption DEF Requests
    <3> QED
      BY <1>3, <2>1, <3>1 DEF Owned
  <2> QED
    BY <1>1, <1>3, <2>1 DEF Store
<1> QED
    BY <1>1, <1>2, <1>3 DEF Store

LEMMA DeletingNext ==
    ASSUME TypeOK, Shape, Deleting, Owned, Kinds
    PROVE  Deleting'
<1> USE DEF DeletingOf
<1>1. ASSUME NEW q \in Requests, rs'[q] = rs[q]
      PROVE  DeletingOf(q)'
  <2>1. DeletingOf(q) /\ ShapeOf(q)
    BY DEF Deleting, Shape
  <2>2. rs[q].op = "delete" /\ rs[q].pc \in {"destroy", "remove"} =>
            rs'[rs[q].story].by = rs[rs[q].story].by
    BY <2>1, Lasting DEF ShapeOf
  <2> QED
    BY <1>1, <2>1, <2>2, Lasting, AssetsGone
<1>2. ASSUME NEW r \in Requests, KindOf(r)
      PROVE  DeletingOf(r)'
  <2>1. DeletingOf(r) /\ ShapeOf(r)
    BY DEF Deleting, Shape
  <2>2. /\ expired \subseteq expired'
        /\ \A s \in Requests : Known(s) => Known(s)' /\ rs'[s].by = rs[s].by
    BY Lasting
  <2>3. CASE StartsCreate(r) \/ StartsRead(r) \/ StartsOn(r)
    BY <2>3 DEF StartsCreate, StartsRead, StartsOn, Starts
  <2>4. CASE Breaks(r)
    BY <2>1, <2>2, <2>4 DEF Breaks
  <2>5. CASE Uploads(r) \/ Inserts(r)
    BY <2>1, <2>2, <2>5 DEF Uploads, Inserts, Moves, SameStories
  <2>6. CASE Tells(r) \/ Looks(r)
    BY <2>1, <2>2, <2>6 DEF Tells, Looks, Moves, SameStories
  <2>7. CASE Lists(r)
    <3>1. \A s \in Shown(r) : s \in Requests /\ Known(s)'
      BY <2>2 DEF Shown, Owned, TypeOK
    <3>2. rs[r].left = {} /\ rs[r].kept = {}
      BY <2>1, <2>7 DEF Lists, Moves, ShapeOf
    <3> QED
      BY <2>7, <3>1, <3>2 DEF Lists, Moves
  <2>8. CASE Goes(r) \/ Counts(r) \/ Views(r)
    BY <2>1, <2>2, <2>8 DEF Goes, Counts, Views, Moves, SameStories
  <2>9. CASE Dooms(r)
    <3>1. \A s \in rs'[r].stories : s \in Requests /\ Known(s)
      BY <2>9 DEF Dooms, Owned, TypeOK
    <3>2. rs[r].kept = {} /\ rs[r].past \subseteq expired
      BY <2>1, <2>9 DEF Dooms, ShapeOf
    <3>3. \A s \in rs'[r].stories \ rs'[r].left : rs'[s].asset \notin assets'
      <4>1. ASSUME NEW s \in rs'[r].stories \ rs'[r].left
            PROVE  rs'[s].asset = 0
        <5>1. rs[s].asset = 0
          BY <2>9, <4>1 DEF Dooms
        <5> QED
          BY <3>1, <4>1, <5>1, Lasting
      <4>2. 0 \notin assets'
        BY DataType, BoundsAssumption DEF Requests
      <4> QED
        BY <4>1, <4>2
    <3>4. rs'[r].op = "delete" =>
              rs'[r].stories = {rs'[r].story} /\ rs'[rs'[r].story].by = rs'[r].by
      BY <2>2, <2>9, <3>1 DEF Dooms, Same
    <3>5. rs'[r].op = "sweep" => rs'[r].stories \subseteq expired'
      BY <2>2, <2>9, <3>2 DEF Dooms, Same
    <3>6. rs'[r].left \subseteq rs'[r].stories /\ rs'[r].kept = {}
          /\ (rs'[r].pc = "remove" => rs'[r].left = {})
      BY <2>9, <3>2 DEF Dooms
    <3> QED
      BY <2>2, <3>1, <3>3, <3>4, <3>5, <3>6
  <2>10. ASSUME NEW s \in Requests, GetsThrough(r, s)
         PROVE  DeletingOf(r)'
    <3>1. rs'[r].pc \in {"destroy", "remove"} /\ (rs'[r].pc = "remove" => rs'[r].left = {})
      BY <2>10 DEF GetsThrough
    <3>2. rs'[r].left \subseteq rs'[r].stories \ rs'[r].kept /\ rs'[r].kept \subseteq rs'[r].stories
      BY <2>1, <2>10 DEF GetsThrough
    <3>3. ASSUME NEW t \in rs'[r].stories \ (rs'[r].left \cup rs'[r].kept)
          PROVE  rs'[t].asset \notin assets'
      <4>0. t \in rs[r].stories /\ t \in Requests /\ Known(t) /\ rs'[t].asset = rs[t].asset
        BY <2>1, <2>10, <3>3, Lasting DEF GetsThrough
      <4>1. CASE t = s
        BY <2>10, <3>3, <4>0, <4>1 DEF GetsThrough
      <4>2. CASE t # s
        BY <2>1, <2>10, <3>3, <4>0, <4>2 DEF GetsThrough
      <4> QED
        BY <4>1, <4>2
    <3>4. rs'[r].op = "delete" =>
              rs'[r].stories = {rs'[r].story} /\ rs'[rs'[r].story].by = rs'[r].by
      BY <2>1, <2>2, <2>10 DEF GetsThrough, Same
    <3>5. rs'[r].op = "sweep" => rs'[r].stories \subseteq expired'
      BY <2>1, <2>2, <2>10 DEF GetsThrough, Same
    <3>6. \A t \in rs'[r].stories : t \in Requests /\ Known(t)'
      BY <2>1, <2>2, <2>10 DEF GetsThrough
    <3> QED
      BY <3>1, <3>2, <3>3, <3>4, <3>5, <3>6
  <2>11. CASE Removes(r) \/ Sweeps(r)
    BY <2>1, <2>2, <2>11 DEF Removes, Sweeps, Moves, SameStories
  <2> QED
    BY <1>2, <2>3, <2>4, <2>5, <2>6, <2>7, <2>8, <2>9, <2>10, <2>11 DEF KindOf
<1>3. ASSUME NEW q \in Requests
      PROVE  DeletingOf(q)'
    BY <1>1, <1>2, OneMoves
<1> QED
    BY <1>3 DEF Deleting

LEMMA OwnedNext ==
    ASSUME TypeOK, Shape, Deleting, Owned, Kinds
    PROVE  Owned'
<1>1. \A s \in rows' : Known(s)'
  <2>1. ASSUME NEW r \in Requests, KindOf(r)
        PROVE  rows' \subseteq rows \/ (Known(r)' /\ rows' = rows \cup {r})
    <3>1. CASE Inserts(r)
      BY <3>1 DEF Inserts, Moves, Same, Shape, ShapeOf, Known
    <3>2. CASE ~Inserts(r)
      BY <2>1, <3>2 DEF KindOf, StartsCreate, StartsRead, StartsOn, Starts, Breaks, Uploads, Tells,
         Looks, Lists, Goes, Counts, Views, Dooms, GetsThrough, Removes, Sweeps, data
    <3> QED
      BY <3>1, <3>2
  <2>2. rows' \subseteq rows \/ \E r \in Requests : Known(r)' /\ rows' = rows \cup {r}
    BY <2>1 DEF Kinds, Expires, Relinks, data
  <2> QED
    BY <2>2, Lasting DEF Owned, TypeOK
<1>2. ASSUME NEW r \in Requests, KindOf(r), r \in assets'
      PROVE  \/ rs'[r].pc = "failed"
             \/ rs'[r].op = "create" /\ rs'[r].asset = r /\ rs'[r].pc \notin {"free", "upload"}
  <2>1. ShapeOf(r)
    BY DEF Shape
  <2>2. r \in assets =>
            rs[r].pc = "failed"
              \/ (rs[r].op = "create" /\ rs[r].asset = r /\ rs[r].pc \notin {"free", "upload"})
    BY DEF Owned
  <2>3. CASE StartsCreate(r)
    <3>1. r \notin assets
      BY <2>2, <2>3 DEF StartsCreate, Starts
    <3> QED
      BY <1>2, <2>3, <3>1 DEF StartsCreate
  <2>4. CASE StartsRead(r) \/ StartsOn(r)
    BY <1>2, <2>2, <2>4 DEF StartsRead, StartsOn, Starts
  <2>5. CASE Breaks(r)
    BY <2>5 DEF Breaks
  <2>6. CASE Uploads(r)
    BY <2>1, <2>6 DEF Uploads, Moves, Same, ShapeOf
  <2>7. CASE Inserts(r) \/ Tells(r) \/ Looks(r) \/ Lists(r) \/ Goes(r) \/ Counts(r) \/ Dooms(r)
    BY <1>2, <2>2, <2>7 DEF Inserts, Tells, Looks, Lists, Goes, Counts, Dooms, Moves, Same, data
  <2>8. CASE Views(r) \/ Removes(r) \/ Sweeps(r)
    BY <1>2, <2>2, <2>8 DEF Views, Removes, Sweeps, Moves, Same
  <2>9. ASSUME NEW s \in Requests, GetsThrough(r, s)
        PROVE  /\ rs[r].op = rs'[r].op /\ rs[r].asset = rs'[r].asset
               /\ rs[r].pc = "destroy" /\ rs'[r].pc \notin {"free", "upload"}
               /\ r \in assets
    BY <1>2, <2>9 DEF GetsThrough, Same
  <2> QED
    BY <1>2, <2>2, <2>3, <2>4, <2>5, <2>6, <2>7, <2>8, <2>9 DEF KindOf
<1>3. ASSUME NEW s \in Requests, rs'[s] = rs[s], ~KindOf(s)
      PROVE  s \in assets' => s \in assets
  <2>1. ASSUME NEW r \in Requests, KindOf(r), r # s
        PROVE  s \in assets' => s \in assets
    BY <2>1, AssetsStep DEF Store
  <2> QED
    BY <1>3, <2>1 DEF Kinds, Expires, Relinks, data
<1>4. \A s \in assets' :
         \/ rs'[s].pc = "failed"
         \/ rs'[s].op = "create" /\ rs'[s].asset = s /\ rs'[s].pc \notin {"free", "upload"}
  <2> SUFFICES ASSUME NEW s \in assets'
               PROVE  \/ rs'[s].pc = "failed"
                      \/ rs'[s].op = "create" /\ rs'[s].asset = s /\ rs'[s].pc \notin {"free", "upload"}
    OBVIOUS
  <2>1. s \in Requests
    BY DataType
  <2>2. CASE KindOf(s)
    BY <1>2, <2>1, <2>2
  <2>3. CASE ~KindOf(s)
    BY <1>3, <2>1, <2>3, OneMoves DEF Owned
  <2> QED
    BY <2>2, <2>3
\* A story is inserted with what was stored for it, or with the asset of
\* another.
<1>5. ASSUME NEW s \in Requests, rs'[s].pc = "insert", rs'[s].asset = s
      PROVE  s \in assets' \cup videos'
  <2>0. 0 \notin Requests
    BY BoundsAssumption DEF Requests
  <2>1. CASE KindOf(s)
    <3>1. StartsCreate(s) \/ Uploads(s)
      BY <1>5, <2>1 DEF KindOf, StartsRead, StartsOn, Breaks, Inserts, Tells,
         Looks, Lists, Goes, Counts, Views, Dooms, GetsThrough, Removes, Sweeps, Moves
    <3>2. ASSUME StartsCreate(s), ~Store(s)
          PROVE  FALSE
      <4>1. PICK q \in Requests : Known(q) /\ rs[q].asset = s
        BY <1>5, <2>0, <3>2 DEF StartsCreate
      <4>2. ~Known(s)
        BY <3>2 DEF StartsCreate, Starts, Known
      <4> QED
        BY <2>0, <4>1, <4>2 DEF Owned
    <3> QED
      BY <3>1, <3>2 DEF Uploads, Store
  <2>2. CASE rs'[s] = rs[s]
    <3>1. s \in assets \cup videos /\ ~Known(s)
      BY <1>5, <2>2 DEF Owned, Known
    <3> QED
      BY <3>1, AssetsGone
  <2> QED
    BY <2>1, <2>2, OneMoves
<1>6. ASSUME NEW s \in Requests, rs'[s].asset \notin {0, s}
      PROVE  Known(rs[s].asset)'
  <2>1. \A q \in Requests : rs[q].asset \in {0} \cup Requests
    BY DEF TypeOK, RequestStates
  <2>2. \A q \in Requests : Known(q) => Known(q)'
    BY Lasting
  <2>3. CASE rs'[s].asset = rs[s].asset
    BY <1>6, <2>1, <2>2, <2>3 DEF Owned
  <2>4. CASE StartsCreate(s)
    <3>1. PICK q \in Requests : Known(q) /\ rs'[s].asset = rs[q].asset
      BY <1>6, <2>4 DEF StartsCreate
    <3>2. rs[q].asset = q \/ Known(rs[q].asset)
      BY <1>6, <3>1 DEF Owned
    <3> QED
      BY <1>6, <2>1, <2>2, <3>1, <3>2
  <2>5. CASE KindOf(s) /\ ~StartsCreate(s)
    <3>1. rs'[s].asset = rs[s].asset
      BY <1>6, <2>5 DEF KindOf, StartsRead, StartsOn, Breaks, Uploads, Inserts, Tells,
         Looks, Lists, Goes, Counts, Views, Dooms, GetsThrough, Removes, Sweeps, Same
    <3> QED
      BY <2>3, <3>1
  <2> QED
    BY <2>3, <2>4, <2>5, OneMoves
<1> QED
    BY <1>1, <1>4, <1>5, <1>6 DEF Owned

\* A deletion that is through with an asset remains so.
LEMMA DestroyedStays ==
    ASSUME TypeOK, Shape, Deleting, Kinds, NEW a, Destroyed(a)
    PROVE  Destroyed(a)'
<1>0. PICK r \in Requests :
        /\ rs[r].op \in {"delete", "sweep"}
        /\ \E q \in rs[r].stories \ (rs[r].left \cup rs[r].kept) : rs[q].asset = a
    BY DEF Destroyed
<1>1. PICK q \in rs[r].stories \ (rs[r].left \cup rs[r].kept) :
        rs[r].op \in {"delete", "sweep"} /\ rs[q].asset = a
    BY <1>0
<1>2. ShapeOf(r) /\ q \in Requests /\ Known(q)
    BY <1>1 DEF Shape, Deleting, DeletingOf
<1>3. rs'[q].asset = a
    BY <1>1, <1>2, Lasting
<1>4. ASSUME KindOf(r)
      PROVE  /\ rs'[r].op = rs[r].op
             /\ q \in rs'[r].stories \ (rs'[r].left \cup rs'[r].kept)
  <2>1. ~StartsCreate(r) /\ ~StartsRead(r) /\ ~StartsOn(r) /\ ~Dooms(r)
    BY <1>1, <1>2 DEF StartsCreate, StartsRead, StartsOn, Starts, Dooms, ShapeOf
  <2>2. ~Uploads(r) /\ ~Inserts(r) /\ ~Tells(r) /\ ~Looks(r) /\ ~Lists(r) /\ ~Counts(r) /\ ~Views(r)
    BY <1>1, <1>2 DEF Uploads, Inserts, Tells, Looks, Lists, Counts, Views, Moves, ShapeOf
  <2>3. CASE Breaks(r)
    BY <1>1, <2>3 DEF Breaks
  <2>4. CASE Goes(r)
    BY <1>1, <2>4 DEF Goes, Same, SameStories
  <2>5. CASE Removes(r) \/ Sweeps(r)
    BY <1>1, <2>5 DEF Removes, Sweeps, Same, SameStories
  <2>6. ASSUME NEW s \in Requests, GetsThrough(r, s)
        PROVE  /\ rs'[r].op = rs[r].op
               /\ q \in rs'[r].stories \ (rs'[r].left \cup rs'[r].kept)
    BY <1>1, <2>6 DEF GetsThrough, Same
  <2> QED
    BY <1>4, <2>1, <2>2, <2>3, <2>4, <2>5, <2>6 DEF KindOf
<1>5. /\ rs'[r].op = rs[r].op
      /\ q \in rs'[r].stories \ (rs'[r].left \cup rs'[r].kept)
    BY <1>1, <1>4, OneMoves
<1> QED
    BY <1>1, <1>3, <1>5 DEF Destroyed

LEMMA GoneNext ==
    ASSUME TypeOK, Shape, Deleting, Owned, Gone, Kinds
    PROVE  Gone'
<1>1. ASSUME NEW s \in Requests, rs'[s].op = "create",
             rs'[s].pc \in {"insert", "contacts", "chats", "done"},
             rs'[s].asset \notin {0} \cup assets' \cup videos',
             NEW a, a = rs'[s].asset
      PROVE  Destroyed(a)'
  <2>0. videos \subseteq videos'
    BY AssetsGone
  <2>1. ASSUME NEW q \in Requests, rs[q].op = "create",
               rs[q].pc \in {"insert", "contacts", "chats", "done"},
               rs[q].asset = a
        PROVE  Destroyed(a)'
    <3>1. CASE rs[q].asset \notin assets
      <4>1. Destroyed(a)
        BY <1>1, <2>0, <2>1, <3>1 DEF Gone
      <4> QED
        BY <4>1, DestroyedStays
    <3>2. CASE rs[q].asset \in assets
      <4>1. ASSUME NEW r \in Requests, KindOf(r), ~\E t \in Requests : GetsThrough(r, t)
            PROVE  assets \subseteq assets'
        BY <4>1 DEF KindOf, StartsCreate, StartsRead, StartsOn, Starts, Breaks, Uploads, Store,
           Inserts, Tells, Looks, Lists, Goes, Counts, Views, Dooms, Removes, Sweeps, data
      <4>2. PICK r \in Requests, t \in Requests : GetsThrough(r, t)
        BY <1>1, <2>1, <3>2, <4>1 DEF Kinds, Expires, Relinks, data
      <4>3. rs[t].asset = a
        BY <1>1, <2>1, <3>2, <4>2 DEF GetsThrough
      <4>4. t \in rs[r].stories /\ t \notin rs[r].kept /\ Known(t)
        BY <4>2 DEF GetsThrough, Deleting, DeletingOf
      <4>5. t \in rs'[r].stories \ (rs'[r].left \cup rs'[r].kept)
        BY <1>1, <4>2, <4>3, <4>4 DEF GetsThrough
      <4>6. rs'[t].asset = a
        BY <4>3, <4>4, Lasting
      <4>7. rs'[r].op \in {"delete", "sweep"}
        BY <4>2 DEF GetsThrough, Same, Shape, ShapeOf
      <4> QED
        BY <4>5, <4>6, <4>7 DEF Destroyed
    <3> QED
      BY <3>1, <3>2
  <2>2. CASE rs'[s] = rs[s]
    BY <1>1, <2>1, <2>2
  <2>3. CASE StartsCreate(s)
    <3>1. ~(rs'[s].asset = s /\ Store(s))
      BY <1>1 DEF Store
    <3>2. ~(rs'[s].pc = "upload")
      BY <1>1
    <3>3. PICK q \in Requests : Known(q) /\ rs'[s].asset = rs[q].asset
      BY <1>1, <2>3, <3>1, <3>2 DEF StartsCreate
    <3> QED
      BY <1>1, <2>1, <3>3 DEF Known
  <2>4. CASE Uploads(s)
    <3>1. rs'[s].asset = s
      BY <2>4 DEF Uploads, Moves, Same, Shape, ShapeOf
    <3> QED
      BY <1>1, <2>4, <3>1 DEF Uploads, Store
  <2>5. CASE KindOf(s) /\ ~StartsCreate(s) /\ ~Uploads(s)
    <3>1. Inserts(s) \/ Tells(s)
      <4>1. ShapeOf(s)
        BY DEF Shape
      <4>2. ~StartsRead(s) /\ ~StartsOn(s) /\ ~Breaks(s) /\ ~Looks(s) /\ ~Lists(s)
        BY <1>1, <4>1 DEF StartsRead, StartsOn, Breaks, Looks, Lists, Moves, Same, ShapeOf
      <4>3. ~Goes(s) /\ ~Counts(s) /\ ~Views(s) /\ ~Dooms(s) /\ ~Removes(s) /\ ~Sweeps(s)
        BY <1>1, <4>1 DEF Goes, Counts, Views, Dooms, Removes, Sweeps, Moves, Same, ShapeOf
      <4>4. ~\E t \in Requests : GetsThrough(s, t)
        BY <1>1 DEF GetsThrough
      <4> QED
        BY <2>5, <4>2, <4>3, <4>4 DEF KindOf
    <3>2. /\ rs[s].op = "create" /\ rs[s].asset = rs'[s].asset
          /\ rs[s].pc \in {"insert", "contacts", "chats", "done"}
      BY <1>1, <3>1 DEF Inserts, Tells, Moves, Same
    <3> QED
      BY <1>1, <2>1, <3>2
  <2> QED
    BY <2>2, <2>3, <2>4, <2>5, OneMoves
<1> QED
    BY <1>1 DEF Gone, Destroyed

LEMMA DoneGoneNext ==
    ASSUME TypeOK, Shape, Deleting, DoneGone, Kinds
    PROVE  DoneGone'
<1>1. ASSUME NEW r \in Requests, rs'[r].op \in {"delete", "sweep"}, rs'[r].pc = "done",
             NEW s \in rs'[r].stories
      PROVE  s \notin rows'
  <2>1. ASSUME Known(s), s \in Requests, s \notin rows
        PROVE  s \notin rows'
    <3>1. ASSUME NEW q \in Requests, KindOf(q)
          PROVE  rows' \subseteq rows \/ (Inserts(q) /\ rows' = rows \cup {q})
      BY <3>1 DEF KindOf, StartsCreate, StartsRead, StartsOn, Starts, Breaks, Uploads, Inserts, Tells,
         Looks, Lists, Goes, Counts, Views, Dooms, GetsThrough, Removes, Sweeps, data
    <3>2. rows' \subseteq rows \/ \E q \in Requests : ~Known(q) /\ rows' = rows \cup {q}
      BY <3>1 DEF Kinds, Expires, Relinks, data, Inserts, Moves, Known
    <3> QED
      BY <2>1, <3>2
  <2>2. CASE rs'[r] = rs[r]
    BY <1>1, <2>1, <2>2 DEF DoneGone, Deleting, DeletingOf
  <2>3. CASE KindOf(r)
    <3>1. ShapeOf(r)
      BY DEF Shape
    <3>2. ~StartsCreate(r) /\ ~StartsRead(r) /\ ~StartsOn(r) /\ ~Breaks(r) /\ ~Dooms(r)
      BY <1>1 DEF StartsCreate, StartsRead, StartsOn, Breaks, Dooms
    <3>3. ~Uploads(r) /\ ~Inserts(r) /\ ~Tells(r) /\ ~Looks(r) /\ ~Lists(r) /\ ~Counts(r) /\ ~Views(r)
      BY <1>1, <3>1 DEF Uploads, Inserts, Tells, Looks, Lists, Counts, Views, Moves, Same, ShapeOf
    <3>4. ~\E t \in Requests : GetsThrough(r, t)
      BY <1>1 DEF GetsThrough
    <3>5. ~Goes(r)
      BY <1>1, <3>1 DEF Goes, Moves, Same, SameStories, ShapeOf
    <3>6. CASE Removes(r)
      BY <1>1, <3>6 DEF Removes, Moves, SameStories, Deleting, DeletingOf
    <3>7. CASE Sweeps(r)
      BY <1>1, <3>7 DEF Sweeps, SameStories
    <3> QED
      BY <2>3, <3>2, <3>3, <3>4, <3>5, <3>6, <3>7 DEF KindOf
  <2> QED
    BY <2>2, <2>3, OneMoves
<1> QED
    BY <1>1 DEF DoneGone

\* An asset keeps its row until its story's deletion leaves it behind.
LEMMA MediaNext ==
    ASSUME TypeOK, Shape, Deleting, Owned, Gone, DoneGone, MediaMatchesRow, Kinds
    PROVE  MediaMatchesRow'
\* What could not be destroyed stays on record.
<1>1. ASSUME NEW q \in Requests
      PROVE  rs[q].kept \subseteq rs'[q].kept
  <2>1. CASE KindOf(q)
    <3>1. CASE StartsCreate(q) \/ StartsRead(q) \/ StartsOn(q)
      BY <3>1 DEF StartsCreate, StartsRead, StartsOn, Starts, Shape, ShapeOf
    <3>2. CASE Breaks(q) \/ Uploads(q) \/ Inserts(q) \/ Tells(q) \/ Looks(q) \/ Lists(q)
      BY <3>2 DEF Breaks, Uploads, Inserts, Tells, Looks, Lists, SameStories
    <3>3. CASE Goes(q) \/ Counts(q) \/ Views(q) \/ Dooms(q) \/ Removes(q) \/ Sweeps(q)
      BY <3>3 DEF Goes, Counts, Views, Dooms, Removes, Sweeps, SameStories
    <3>4. ASSUME NEW s \in Requests, GetsThrough(q, s)
          PROVE  rs[q].kept \subseteq rs'[q].kept
      BY <3>4 DEF GetsThrough
    <3> QED
      BY <2>1, <3>1, <3>2, <3>3, <3>4 DEF KindOf
  <2> QED
    BY <2>1, OneMoves
<1>2. \A q \in Requests : Known(q) => rs'[q].asset = rs[q].asset
    BY Lasting
<1>3. ASSUME NEW r \in Requests, NEW s \in rs[r].kept
      PROVE  s \in Requests /\ Known(s)
    BY <1>3 DEF Deleting, DeletingOf
<1>4. ASSUME NEW a \in assets', a \in assets
      PROVE  \/ \E s \in rows' : rs'[s].asset = a
             \/ rs'[a].pc \in {"insert", "failed"}
             \/ \E r \in Requests : \E s \in rs'[r].kept : rs'[s].asset = a
  <2>0. a \in Requests
    BY DataType
  <2>1. CASE \E r \in Requests : \E s \in rs[r].kept : rs[s].asset = a
    BY <1>1, <1>2, <1>3, <2>1
  <2>2. ASSUME NEW s \in rows, rs[s].asset = a, s \notin rows'
        PROVE  \E r \in Requests : \E q \in rs'[r].kept : rs'[q].asset = a
    <3>1. Known(s) /\ s \in Requests
      BY <2>2 DEF Owned, TypeOK
    <3>2. PICK r \in Requests : s \in rs[r].stories /\ rs[r].pc = "remove"
      <4>1. ASSUME NEW r \in Requests, KindOf(r), ~Removes(r), ~Sweeps(r)
            PROVE  rows \subseteq rows'
        BY <4>1 DEF KindOf, StartsCreate, StartsRead, StartsOn, Starts, Breaks, Uploads, Inserts,
           Tells, Looks, Lists, Goes, Counts, Views, Dooms, GetsThrough, data
      <4>2. PICK r \in Requests : Removes(r) \/ Sweeps(r)
        BY <2>2, <4>1 DEF Kinds, Expires, Relinks, data
      <4>3. CASE Removes(r)
        <5>1. s = rs[r].story
          BY <2>2, <4>3 DEF Removes
        <5> QED
          BY <4>3, <5>1 DEF Removes, Moves, Deleting, DeletingOf
      <4>4. CASE Sweeps(r)
        BY <2>2, <4>4 DEF Sweeps, Moves
      <4> QED
        BY <4>2, <4>3, <4>4
    <3>3. s \in rs[r].kept
      BY <1>4, <2>2, <3>2 DEF Deleting, DeletingOf
    <3> QED
      BY <1>1, <1>2, <2>2, <3>1, <3>3
  <2>3. ASSUME NEW s \in rows, rs[s].asset = a, s \in rows'
        PROVE  \E q \in rows' : rs'[q].asset = a
    BY <1>2, <2>3 DEF Owned, TypeOK
  <2>4. CASE rs[a].pc \in {"insert", "failed"}
    <3>1. CASE rs'[a] = rs[a]
      BY <2>4, <3>1
    <3>2. CASE KindOf(a)
      <4>1. Inserts(a) \/ Breaks(a)
        BY <2>4, <3>2 DEF KindOf, StartsCreate, StartsRead, StartsOn, Starts, Breaks, InFlight, Uploads,
           Tells, Looks, Lists, Goes, Counts, Views, Dooms, GetsThrough, Removes, Sweeps, Moves
      <4>2. CASE Breaks(a)
        BY <4>2 DEF Breaks
      <4>3. CASE Inserts(a)
        <5>1. rs[a].asset = a
          BY <1>4, <4>3 DEF Inserts, Moves, Owned
        <5> QED
          BY <4>3, <5>1 DEF Inserts, Same
      <4> QED
        BY <4>1, <4>2, <4>3
    <3> QED
      BY <2>0, <3>1, <3>2, OneMoves
  <2> QED
    BY <1>4, <2>1, <2>2, <2>3, <2>4 DEF MediaMatchesRow
<1>5. ASSUME NEW a \in assets', a \notin assets
      PROVE  rs'[a].pc \in {"insert", "failed"}
  <2>1. PICK r \in Requests : KindOf(r) /\ r = a /\ ~Known(r)
    BY <1>5, AssetsStep DEF Kinds, Expires, Relinks, data, Store
  <2>2. StartsCreate(r) \/ Uploads(r)
    BY <1>5, <2>1 DEF KindOf, StartsRead, StartsOn, Breaks, Inserts, Tells, Looks, Lists, Goes,
       Counts, Views, Dooms, GetsThrough, Removes, Sweeps, data
  <2> QED
    BY <1>5, <2>1, <2>2 DEF StartsCreate, Uploads, Moves
\* The deletion that is through with an asset leaves no row of its own.
<1>6. ASSUME NEW s \in rows', rs'[s].asset \notin {0} \cup assets' \cup videos'
      PROVE  \E r \in Requests :
                 /\ rs'[r].op \in {"delete", "sweep"}
                 /\ \E q \in rs'[r].stories \ (rs'[r].left \cup rs'[r].kept) :
                      /\ rs'[q].asset = rs'[s].asset
                      /\ q = s => rs'[r].pc \in {"destroy", "remove", "failed"}
  <2>1. s \in Requests /\ Known(s)'
    BY OwnedNext, DataType DEF Owned
  <2>3. PICK r \in Requests :
          /\ rs'[r].op \in {"delete", "sweep"}
          /\ \E q \in rs'[r].stories \ (rs'[r].left \cup rs'[r].kept) : rs'[q].asset = rs'[s].asset
    BY <1>6, <2>1, GoneNext DEF Gone, Known, Destroyed
  <2>4. ShapeOf(r)'
    BY ShapeNext DEF Shape
  <2>5. ASSUME s \in rs'[r].stories
        PROVE  rs'[r].pc \in {"destroy", "remove", "failed"}
    <3>1. rs'[r].pc # "done"
      BY <1>6, <2>3, <2>5, DoneGoneNext DEF DoneGone
    <3> QED
      BY <2>3, <2>4, <2>5, <3>1 DEF ShapeOf
  <2> QED
    BY <2>3, <2>5
<1> QED
    BY <1>4, <1>5, <1>6 DEF MediaMatchesRow

-----------------------------------------------------------------------------
(* What an answer, a row and a view come from.                             *)

\* Which step answers a request is a matter of what it is about.
LEMMA Answers ==
    ASSUME Shape, NEW r \in Requests, KindOf(r), rs'[r].pc = "done"
    PROVE  /\ Same(r)
           /\ rs[r].op = "create" => Known(r)
           /\ rs[r].op \in {"feed", "mine"} => Lists(r)
           /\ rs[r].op = "view" => Counts(r)
           /\ rs[r].op = "delete" => Removes(r)
           /\ Lists(r) \/ rs'[r].viewed = {}
<1>1. ShapeOf(r)
    BY DEF Shape
<1>2. ~StartsCreate(r) /\ ~StartsRead(r) /\ ~StartsOn(r) /\ ~Breaks(r)
    BY DEF StartsCreate, StartsRead, StartsOn, Breaks
<1>3. ~Uploads(r) /\ ~Inserts(r) /\ ~Looks(r) /\ ~Dooms(r) /\ ~Views(r)
      /\ ~\E s \in Requests : GetsThrough(r, s)
    BY DEF Uploads, Inserts, Looks, Dooms, Views, GetsThrough, Moves
<1>4. CASE Tells(r)
    BY <1>1, <1>4 DEF Tells, Moves, Known, ShapeOf, SameStories
<1>5. CASE Lists(r)
    BY <1>1, <1>5 DEF Lists, Moves, ShapeOf
<1>6. CASE Goes(r) \/ Counts(r)
    BY <1>1, <1>6 DEF Goes, Counts, Moves, ShapeOf, SameStories
<1>7. CASE Removes(r) \/ Sweeps(r)
    BY <1>1, <1>7 DEF Removes, Sweeps, Moves, ShapeOf, SameStories
<1> QED
    BY <1>2, <1>3, <1>4, <1>5, <1>6, <1>7 DEF KindOf

\* A row is written once, when its story becomes known, and goes when the
\* story has expired or its author deletes it.
LEMMA RowsStep ==
    ASSUME TypeOK, Shape, Deleting, Kinds, NEW s \in Requests
    PROVE  /\ Known(s) /\ s \notin rows => s \notin rows'
           /\ ~Known(s) /\ Known(s)' => s \in rows'
           /\ s \in rows \ rows' =>
                s \in expired \/ \E r \in Requests : Removes(r) /\ rs[r].story = s
<1>1. ASSUME NEW r \in Requests, KindOf(r), ~Inserts(r), ~Removes(r), ~Sweeps(r)
      PROVE  UNCHANGED rows
    BY <1>1 DEF KindOf, StartsCreate, StartsRead, StartsOn, Starts, Breaks, Uploads,
       Tells, Looks, Lists, Goes, Counts, Views, Dooms, GetsThrough, data
<1>2. \/ UNCHANGED rows
      \/ \E r \in Requests : Inserts(r) \/ Removes(r) \/ Sweeps(r)
    BY <1>1 DEF Kinds, Expires, Relinks, data
<1>3. Known(s) /\ s \notin rows => s \notin rows'
    BY <1>2 DEF Inserts, Removes, Sweeps, Moves, Known
<1>4. ASSUME ~Known(s), Known(s)'
      PROVE  s \in rows'
  <2>1. KindOf(s) /\ ShapeOf(s)
    BY <1>4, OneMoves DEF Known, Shape
  <2>2. rs'[s].op = "create" /\ rs'[s].pc \in {"contacts", "chats", "done"}
    BY <1>4 DEF Known
  <2>3. rs'[s].pc # "done"
    BY <1>4, <2>1, <2>2, Answers DEF Same
  <2>4. Inserts(s)
    <3>1. ~StartsCreate(s) /\ ~StartsRead(s) /\ ~StartsOn(s) /\ ~Breaks(s)
      BY <2>2 DEF StartsCreate, StartsRead, StartsOn, Breaks
    <3>2. ~Uploads(s) /\ ~Looks(s) /\ ~Tells(s) /\ ~Lists(s)
      BY <1>4, <2>2, <2>3 DEF Uploads, Looks, Tells, Lists, Moves, Same, Known
    <3>3. ~Goes(s) /\ ~Counts(s) /\ ~Views(s) /\ ~Dooms(s) /\ ~Removes(s) /\ ~Sweeps(s)
      BY <2>2, <2>3 DEF Goes, Counts, Views, Dooms, Removes, Sweeps, Moves
    <3>4. ~\E t \in Requests : GetsThrough(s, t)
      BY <2>2 DEF GetsThrough
    <3> QED
      BY <2>1, <3>1, <3>2, <3>3, <3>4 DEF KindOf
  <2> QED
    BY <2>4 DEF Inserts
<1>5. ASSUME s \in rows \ rows'
      PROVE  s \in expired \/ \E r \in Requests : Removes(r) /\ rs[r].story = s
  <2>1. PICK r \in Requests : Removes(r) \/ Sweeps(r)
    BY <1>2, <1>5 DEF Inserts
  <2>2. CASE Removes(r)
    BY <1>5, <2>2 DEF Removes
  <2>3. CASE Sweeps(r)
    <3>1. s \in rs[r].stories
      BY <1>5, <2>3 DEF Sweeps
    <3> QED
      BY <2>3, <3>1 DEF Sweeps, Moves, Deleting, DeletingOf
  <2> QED
    BY <2>1, <2>2, <2>3
<1> QED
    BY <1>3, <1>4, <1>5

\* A view is written by one who asked for it and goes with its row.
LEMMA ViewsStep ==
    ASSUME TypeOK, Kinds
    PROVE  /\ \A w \in views' \ views :
                \E r \in Requests : Views(r) /\ w = <<rs[r].story, rs[r].by>>
           /\ \A w \in views \ views' : w[1] \notin rows'
<1>1. ASSUME NEW r \in Requests, KindOf(r), ~Views(r), ~Removes(r), ~Sweeps(r)
      PROVE  UNCHANGED views
    BY <1>1 DEF KindOf, StartsCreate, StartsRead, StartsOn, Starts, Breaks, Uploads,
       Inserts, Tells, Looks, Lists, Goes, Counts, Dooms, GetsThrough, data
<1>2. \/ UNCHANGED views
      \/ \E r \in Requests : Views(r) \/ Removes(r) \/ Sweeps(r)
    BY <1>1 DEF Kinds, Expires, Relinks, data
<1>3. ASSUME NEW w \in views' \ views
      PROVE  \E r \in Requests : Views(r) /\ w = <<rs[r].story, rs[r].by>>
  <2>1. PICK r \in Requests : Views(r) \/ Removes(r) \/ Sweeps(r)
    BY <1>2, <1>3
  <2> QED
    BY <1>3, <2>1 DEF Views, Removes, Sweeps
<1>4. ASSUME NEW w \in views \ views'
      PROVE  w[1] \notin rows'
  <2>1. PICK r \in Requests : Views(r) \/ Removes(r) \/ Sweeps(r)
    BY <1>2, <1>4
  <2> QED
    BY <1>4, <2>1 DEF Views, Removes, Sweeps
<1> QED
    BY <1>3, <1>4

-----------------------------------------------------------------------------
(* A story is kept for its day and deleted once.                           *)

LEMMA AtMostOne ==
    ASSUME NEW S, \A x, y \in S : x = y
    PROVE  Cardinality(S) <= 1
<1>1. CASE S = {}
    BY <1>1, FS_EmptySet
<1>2. CASE S # {}
  <2>1. PICK x \in S : TRUE
    BY <1>2
  <2>2. S = {x}
    BY <2>1
  <2> QED
    BY <2>2, FS_Singleton
<1> QED
    BY <1>1, <1>2

LEMMA KeptNext ==
    ASSUME TypeOK, Shape, Deleting, KeptForItsDay, DeletedGone, Kinds
    PROVE  KeptForItsDay' /\ DeletedGone'
<1>1. ASSUME NEW r \in Requests, rs'[r].op = "delete", rs'[r].pc = "done"
      PROVE  \/ rs'[r] = rs[r]
             \/ Removes(r)
    BY <1>1, OneMoves, Answers DEF Same
<1>2. ASSUME NEW r \in Requests, NEW s \in Requests, Deletes(r, s)
      PROVE  Known(s) /\ s \notin rows /\ s \notin rows' /\ Deletes(r, s)'
  <2>1. Known(s) /\ s \notin rows
    BY <1>2 DEF Deletes, At, Shape, ShapeOf, DeletedGone
  <2>2. r \in Answered
    BY <1>2 DEF Deletes, At, Answered
  <2> QED
    BY <1>2, <2>1, <2>2, Lasting, RowsStep DEF Deletes, At
<1>3. ASSUME NEW r \in Requests, NEW s \in Requests, Deletes(r, s)', ~Deletes(r, s)
      PROVE  Removes(r) /\ rs[r].story = s
    BY <1>1, <1>3 DEF Deletes, At, Removes, Same
<1>4. \A r, s \in Requests : Deletes(r, s)' => s \notin rows'
  <2> SUFFICES ASSUME NEW r \in Requests, NEW s \in Requests, Deletes(r, s)'
               PROVE  s \notin rows'
    OBVIOUS
  <2>1. CASE Deletes(r, s)
    BY <1>2, <2>1
  <2>2. CASE ~Deletes(r, s)
    BY <1>3, <2>2 DEF Removes
  <2> QED
    BY <2>1, <2>2
<1>5. ASSUME NEW r \in Requests, NEW q \in Requests, NEW s \in Requests,
             Deletes(r, s)', Deletes(q, s)'
      PROVE  r = q
  <2>1. ASSUME NEW x \in Requests, NEW y \in Requests, ~Deletes(x, s), Deletes(x, s)', Deletes(y, s)'
        PROVE  x = y
    <3>1. Removes(x) /\ rs[x].story = s /\ s \in rows /\ Others(x)
      BY <1>3, <2>1 DEF Removes, Same
    <3>2. ~Deletes(y, s)
      BY <1>2, <3>1
    <3> QED
      BY <2>1, <3>1, <3>2 DEF Others, Deletes, At
  <2>2. Deletes(r, s) /\ Deletes(q, s) => r = q
    BY DEF DeletedGone
  <2> QED
    BY <1>5, <2>1, <2>2
<1>6. ASSUME NEW s \in Requests, Known(s)', s \notin rows' \cup expired'
      PROVE  \E r \in Requests : Deletes(r, s)' /\ rs'[r].by = rs'[s].by
  <2>1. Known(s) /\ s \notin expired /\ rs'[s].by = rs[s].by
    BY <1>6, Lasting, RowsStep
  <2>2. CASE s \notin rows
    <3>1. PICK r \in Requests : Deletes(r, s) /\ rs[r].by = rs[s].by
      BY <2>1, <2>2 DEF KeptForItsDay
    <3>2. r \in Answered
      BY <3>1 DEF Deletes, At, Answered
    <3>3. rs'[r] = rs[r]
      BY <3>2, Lasting
    <3> QED
      BY <1>2, <2>1, <3>1, <3>3
  <2>3. CASE s \in rows
    <3>1. PICK r \in Requests : Removes(r) /\ rs[r].story = s
      BY <1>6, <2>1, <2>3, RowsStep
    <3>2. rs[s].by = rs[r].by
      BY <3>1 DEF Removes, Moves, Deleting, DeletingOf
    <3>3. Deletes(r, s)' /\ rs'[r].by = rs[r].by
      BY <3>1 DEF Removes, Moves, Same, Deletes, At
    <3> QED
      BY <2>1, <3>2, <3>3
  <2> QED
    BY <2>2, <2>3
<1>7. ASSUME NEW s \in Requests
      PROVE  Cardinality({r \in Requests : Deletes(r, s)'}) <= 1
  <2> DEFINE S == {r \in Requests : Deletes(r, s)'}
  <2>1. \A x, y \in S : x = y
    BY <1>5
  <2> HIDE DEF S
  <2>2. Cardinality(S) <= 1
    BY <2>1, AtMostOne
  <2> QED
    BY <2>2 DEF S
<1> QED
    BY <1>4, <1>5, <1>6, <1>7 DEF KeptForItsDay, DeletedGone

-----------------------------------------------------------------------------
(* Views and feeds.                                                        *)

\* Who wrote a view did so for good, whether or not it gets an answer.
LEMMA ViewedStays ==
    ASSUME Kinds, NEW v \in Requests, NEW s, NEW u, Viewed(v, s, u)
    PROVE  Viewed(v, s, u)'
<1>1. ASSUME KindOf(v)
      PROVE  Counts(v)
  <2>1. ~StartsCreate(v) /\ ~StartsRead(v) /\ ~StartsOn(v) /\ ~Breaks(v) /\ ~Dooms(v)
    BY DEF Viewed, StartsCreate, StartsRead, StartsOn, Starts, Breaks, InFlight, Dooms
  <2>2. ~Uploads(v) /\ ~Inserts(v) /\ ~Tells(v) /\ ~Looks(v) /\ ~Lists(v) /\ ~Goes(v) /\ ~Views(v)
    BY DEF Viewed, Uploads, Inserts, Tells, Looks, Lists, Goes, Views, Moves
  <2>3. ~Removes(v) /\ ~Sweeps(v) /\ ~\E t \in Requests : GetsThrough(v, t)
    BY DEF Viewed, Removes, Sweeps, GetsThrough, Moves
  <2> QED
    BY <1>1, <2>1, <2>2, <2>3 DEF KindOf
<1>2. CASE Counts(v)
    BY <1>2 DEF Viewed, Counts, Moves, Same
<1>3. CASE rs'[v] = rs[v]
    BY <1>3 DEF Viewed
<1> QED
    BY <1>1, <1>2, <1>3, OneMoves

LEMMA ViewsNext ==
    ASSUME TypeOK, Shape, Deleting, ViewsAnswered, Kinds
    PROVE  ViewsAnswered'
<1>1. ASSUME NEW r \in Requests, rs'[r].op = "view", rs'[r].pc \in {"count", "done"}
      PROVE  rs'[r].story \notin rows' \/ <<rs'[r].story, rs'[r].by>> \in views'
  <2>1. ASSUME rs[r].op = "view", rs[r].pc \in {"count", "done"},
               rs'[r].story = rs[r].story, rs'[r].by = rs[r].by
        PROVE  rs'[r].story \notin rows' \/ <<rs'[r].story, rs'[r].by>> \in views'
    <3>2. rs[r].story \in Requests /\ Known(rs[r].story)
      BY <2>1 DEF Shape, ShapeOf
    <3>3. CASE rs[r].story \notin rows
      BY <2>1, <3>2, <3>3, RowsStep
    <3>4. CASE <<rs[r].story, rs[r].by>> \in views
      <4> DEFINE w == <<rs[r].story, rs[r].by>>
      <4>1. w[1] = rs[r].story /\ w \in views
        BY <3>4
      <4> HIDE DEF w
      <4>2. w \in views' \/ w[1] \notin rows'
        BY <4>1, ViewsStep
      <4> QED
        BY <2>1, <4>1, <4>2 DEF w
    <3> QED
      BY <2>1, <3>3, <3>4 DEF ViewsAnswered
  <2>2. CASE rs'[r] = rs[r]
    BY <1>1, <2>1, <2>2
  <2>3. CASE KindOf(r) /\ rs'[r].pc = "done"
    <3>1. Counts(r)
      BY <1>1, <2>3, Answers DEF Same
    <3> QED
      BY <2>1, <2>3, <3>1 DEF Counts, Moves, Same
  <2>4. CASE KindOf(r) /\ rs'[r].pc = "count"
    <3>1. Views(r)
      <4>1. ~StartsCreate(r) /\ ~StartsRead(r) /\ ~StartsOn(r) /\ ~Breaks(r) /\ ~Dooms(r)
        BY <2>4 DEF StartsCreate, StartsRead, StartsOn, Breaks, Dooms
      <4>2. /\ ~Uploads(r) /\ ~Inserts(r) /\ ~Tells(r) /\ ~Looks(r) /\ ~Lists(r) /\ ~Goes(r)
            /\ ~Counts(r)
        BY <2>4 DEF Uploads, Inserts, Tells, Looks, Lists, Goes, Counts, Moves
      <4>3. ~Removes(r) /\ ~Sweeps(r) /\ ~\E t \in Requests : GetsThrough(r, t)
        BY <2>4 DEF Removes, Sweeps, GetsThrough, Moves
      <4> QED
        BY <2>4, <4>1, <4>2, <4>3 DEF KindOf
    <3> QED
      BY <3>1 DEF Views, Same
  <2> QED
    BY <1>1, <2>2, <2>3, <2>4, OneMoves
<1>2. ASSUME NEW w \in views'
      PROVE  \E v \in Requests : Viewed(v, w[1], w[2])'
  <2>1. CASE w \in views
    <3>1. PICK v \in Requests : Viewed(v, w[1], w[2])
      BY <2>1 DEF ViewsAnswered
    <3>2. Viewed(v, w[1], w[2])'
      BY <3>1, ViewedStays
    <3> QED
      BY <3>2
  <2>2. CASE w \notin views
    <3>1. PICK r \in Requests : Views(r) /\ w = <<rs[r].story, rs[r].by>>
      BY <1>2, <2>2, ViewsStep
    <3>2. rs[r].op = "view"
      BY <3>1 DEF Views, Moves, Shape, ShapeOf
    <3>3. Viewed(r, w[1], w[2])'
      BY <3>1, <3>2 DEF Views, Moves, Same, Viewed
    <3> QED
      BY <3>3
  <2> QED
    BY <2>1, <2>2
<1> QED
    BY <1>1, <1>2 DEF ViewsAnswered

LEMMA StoodNext ==
    ASSUME TypeOK, Shape, DeletedGone, ViewsStood, Kinds
    PROVE  ViewsStood'
<1>1. ASSUME NEW r \in Requests, rs'[r].pc = "count", NEW d \in rs'[r].after,
             At(d, "delete", "done")'
      PROVE  rs'[d].story # rs'[r].story
  <2>1. ASSUME d \in rs[r].after
        PROVE  d \in Requests /\ rs'[d] = rs[d] /\ At(d, "delete", "done")
    <3>1. d \in Answered
      BY <2>1 DEF Shape, ShapeOf
    <3>2. rs'[d] = rs[d]
      BY <3>1, Lasting
    <3> QED
      BY <1>1, <3>1, <3>2 DEF Answered, At
  <2>2. CASE rs'[r] = rs[r]
    BY <1>1, <2>1, <2>2 DEF ViewsStood
  <2>3. CASE KindOf(r)
    <3>1. ~StartsCreate(r) /\ ~StartsRead(r) /\ ~StartsOn(r) /\ ~Breaks(r) /\ ~Dooms(r)
      BY <1>1 DEF StartsCreate, StartsRead, StartsOn, Breaks, Dooms
    <3>2. /\ ~Uploads(r) /\ ~Inserts(r) /\ ~Tells(r) /\ ~Looks(r) /\ ~Lists(r) /\ ~Goes(r)
          /\ ~Counts(r)
      BY <1>1 DEF Uploads, Inserts, Tells, Looks, Lists, Goes, Counts, Moves
    <3>3. ~Removes(r) /\ ~Sweeps(r) /\ ~\E t \in Requests : GetsThrough(r, t)
      BY <1>1 DEF Removes, Sweeps, GetsThrough, Moves
    <3>4. Views(r)
      BY <2>3, <3>1, <3>2, <3>3 DEF KindOf
    <3>5. d \in Requests /\ rs'[d] = rs[d] /\ At(d, "delete", "done")
      BY <1>1, <2>1, <3>4 DEF Views, Same
    <3>6. rs[d].story \in Requests
      BY <3>5 DEF At, Shape, ShapeOf
    <3>7. rs[d].story \notin rows
      BY <3>5, <3>6 DEF DeletedGone, Deletes
    <3> QED
      BY <3>4, <3>5, <3>7 DEF Views, Same
  <2> QED
    BY <2>2, <2>3, OneMoves
<1> QED
    BY <1>1 DEF ViewsStood

\* What FeedInStep says of the answer r.
InStep(r) ==
    /\ \A d \in rs[r].after :
         /\ At(d, "delete", "done") =>
              /\ rs[r].op \in {"feed", "mine"} => rs[d].story \notin rs[r].stories
              /\ rs[r].op = "view" => rs[d].story # rs[r].story
         /\ rs[r].op = "feed" /\ At(d, "view", "done") /\ rs[d].by = rs[r].by =>
              rs[d].story \notin rs[r].stories \ rs[r].viewed
    /\ \A s \in rs[r].viewed : \E v \in Requests : Viewed(v, s, rs[r].by)

LEMMA FeedNext ==
    ASSUME TypeOK, Shape, Deleting, DeletedGone, ViewsAnswered, ViewsStood, FeedInStep, Kinds
    PROVE  FeedInStep'
<1>1. \A d \in Answered : rs'[d] = rs[d]
    BY Lasting
<1>2. ASSUME NEW r \in Answered
      PROVE  InStep(r)'
  <2>1. rs'[r] = rs[r] /\ r \in Requests
    BY <1>1 DEF Answered
  <2>2. rs[r].after \subseteq Answered /\ InStep(r)
    BY <2>1 DEF Shape, ShapeOf, FeedInStep, InStep, Viewed
  <2>3. \A d \in rs[r].after : rs'[d] = rs[d]
    BY <1>1, <2>2
  <2>5. ASSUME NEW s \in rs'[r].viewed
        PROVE  \E v \in Requests : Viewed(v, s, rs[r].by)'
    <3> DEFINE u == rs[r].by
    <3>1. PICK v \in Requests : Viewed(v, s, u)
      BY <2>1, <2>2, <2>5 DEF InStep
    <3>2. u' = u
      BY <2>1
    <3> HIDE DEF u
    <3>3. Viewed(v, s, u)'
      BY <3>1, <3>2, ViewedStays DEF Viewed
    <3> QED
      BY <3>3 DEF u
  <2>6. ASSUME NEW d \in rs'[r].after
        PROVE  /\ At(d, "delete", "done")' =>
                    /\ rs'[r].op \in {"feed", "mine"} => rs'[d].story \notin rs'[r].stories
                    /\ rs'[r].op = "view" => rs'[d].story # rs'[r].story
               /\ rs'[r].op = "feed" /\ At(d, "view", "done")' /\ rs'[d].by = rs'[r].by =>
                    rs'[d].story \notin rs'[r].stories \ rs'[r].viewed
    <3>1. d \in rs[r].after /\ rs'[d] = rs[d]
      BY <2>1, <2>3, <2>6
    <3> QED
      BY <2>1, <2>2, <3>1 DEF InStep, At
  <2> QED
    BY <2>5, <2>6 DEF InStep
<1>3. ASSUME NEW r \in Requests, KindOf(r), rs'[r].pc = "done"
      PROVE  InStep(r)'
  <2>1. /\ Same(r)
        /\ Lists(r) \/ rs'[r].viewed = {}
        /\ rs[r].op \in {"feed", "mine"} => Lists(r)
        /\ rs[r].op = "view" => Counts(r)
    BY <1>3, Answers
  <2>2. rs[r].after \subseteq Answered
    BY DEF Shape, ShapeOf
  <2>3. ASSUME NEW s \in rs'[r].viewed
        PROVE  \E v \in Requests : Viewed(v, s, rs[r].by)'
    <3>1. Lists(r)
      BY <2>1, <2>3
    <3> DEFINE u == rs[r].by
    <3>2. <<s, u>> \in views
      BY <2>3, <3>1 DEF Lists, ViewedBy
    <3>3. PICK v \in Requests : Viewed(v, s, u)
      BY <3>2 DEF ViewsAnswered
    <3>4. u' = u
      BY <2>1 DEF Same
    <3> HIDE DEF u
    <3>5. Viewed(v, s, u)'
      BY <3>3, <3>4, ViewedStays DEF Viewed
    <3> QED
      BY <3>5 DEF u
  <2>4. ASSUME NEW d \in rs'[r].after
        PROVE  /\ At(d, "delete", "done")' =>
                    /\ rs'[r].op \in {"feed", "mine"} => rs'[d].story \notin rs'[r].stories
                    /\ rs'[r].op = "view" => rs'[d].story # rs'[r].story
               /\ rs'[r].op = "feed" /\ At(d, "view", "done")' /\ rs'[d].by = rs'[r].by =>
                    rs'[d].story \notin rs'[r].stories \ rs'[r].viewed
    <3>1. d \in Answered /\ d \in Requests /\ rs'[d] = rs[d]
      BY <1>1, <2>1, <2>2, <2>4 DEF Same, Answered
    <3>2. ASSUME At(d, "delete", "done")
          PROVE  rs[d].story \notin rows
      <4>1. rs[d].story \in Requests
        BY <3>1, <3>2 DEF At, Shape, ShapeOf
      <4> QED
        BY <3>1, <3>2, <4>1 DEF DeletedGone, Deletes
    <3>3. ASSUME At(d, "delete", "done")'
          PROVE  /\ rs'[r].op \in {"feed", "mine"} => rs'[d].story \notin rs'[r].stories
                 /\ rs'[r].op = "view" => rs'[d].story # rs'[r].story
      <4>1. rs[d].story \notin rows /\ At(d, "delete", "done")
        BY <3>1, <3>2, <3>3 DEF At
      <4>2. rs[r].op = "view" => rs[d].story # rs[r].story
        BY <2>1, <2>4, <4>1 DEF Counts, Moves, Same, ViewsStood
      <4> QED
        BY <2>1, <3>1, <4>1, <4>2 DEF Lists, Shown, Same
    <3>4. ASSUME rs'[r].op = "feed", At(d, "view", "done")', rs'[d].by = rs'[r].by,
                 rs'[d].story \in rs'[r].stories
          PROVE  rs'[d].story \in rs'[r].viewed
      <4>1. Lists(r)
        BY <2>1, <3>4 DEF Same
      <4>2. rs[d].story \in Shown(r) /\ rs[d].by = rs[r].by /\ At(d, "view", "done")
        BY <2>1, <3>1, <3>4, <4>1 DEF Lists, Same, At
      <4>3. rs[d].story \in rows
        BY <4>2 DEF Shown
      <4>4. <<rs[d].story, rs[r].by>> \in views
        BY <3>1, <4>2, <4>3 DEF ViewsAnswered, At
      <4> QED
        BY <3>1, <4>1, <4>2, <4>3, <4>4 DEF Lists, ViewedBy
    <3> QED
      BY <3>3, <3>4
  <2> QED
    BY <2>3, <2>4 DEF InStep
<1>4. ASSUME NEW r \in Requests, rs'[r].pc = "done"
      PROVE  InStep(r)'
  <2>1. CASE KindOf(r)
    BY <1>3, <1>4, <2>1
  <2>2. CASE rs'[r] = rs[r]
    BY <1>2, <1>4, <2>2 DEF Answered
  <2> QED
    BY <2>1, <2>2, OneMoves
<1> QED
    BY <1>4 DEF FeedInStep, InStep, Answered, Viewed

-----------------------------------------------------------------------------
(* Who was told finds the story.                                           *)

LEMMA PairEitherWay ==
    ASSUME NEW u, NEW v
    PROVE  {u, v} = {v, u}
    OBVIOUS

LEMMA ToldLinkedNext ==
    ASSUME TypeOK, Shape, ToldLinked, Kinds
    PROVE  ToldLinked'
<1>1. Linked \subseteq Linked'
    BY Lasting DEF Linked
<1> SUFFICES ASSUME NEW s \in Requests, rs'[s].op = "create", rs'[s].pc \in {"chats", "done"},
                    NEW u \in rs'[s].users
             PROVE  {rs'[s].by, u} \in Linked'
    BY DEF ToldLinked
<1>2. CASE rs'[s] = rs[s]
    BY <1>1, <1>2 DEF ToldLinked
<1>3. CASE KindOf(s)
  <2>1. ShapeOf(s)
    BY DEF Shape
  <2>2. ~StartsCreate(s) /\ ~StartsRead(s) /\ ~StartsOn(s) /\ ~Breaks(s)
    BY DEF StartsCreate, StartsRead, StartsOn, Breaks
  <2>3. ~Uploads(s) /\ ~Inserts(s) /\ ~Looks(s) /\ ~Lists(s)
    BY <2>1 DEF Uploads, Inserts, Looks, Lists, Moves, Same, ShapeOf
  <2>4. ~Goes(s) /\ ~Counts(s) /\ ~Views(s) /\ ~Dooms(s) /\ ~Removes(s) /\ ~Sweeps(s)
    BY <2>1 DEF Goes, Counts, Views, Dooms, Removes, Sweeps, Moves, Same, ShapeOf
  <2>5. ~\E t \in Requests : GetsThrough(s, t)
    BY DEF GetsThrough
  <2>6. Tells(s)
    BY <1>3, <2>2, <2>3, <2>4, <2>5 DEF KindOf
  <2>7. u \in ContactsOf(rs[s].by) \/ u \in PartnersOf(rs[s].by) \/ {rs[s].by, u} \in Linked
    BY <2>6 DEF Tells, Moves, ToldLinked
  <2>8. {rs[s].by, u} \in Linked
    BY <2>7 DEF ContactsOf, PartnersOf, Linked
  <2> QED
    BY <1>1, <2>6, <2>8 DEF Tells, Same
<1> QED
    BY <1>2, <1>3, OneMoves

\* What a feed owes is settled before it begins, and blocks only take from it.
LEMMA OwedStep ==
    ASSUME TypeOK, Shape, Kinds, NEW f \in Requests,
           rs'[f].after = rs[f].after, rs'[f].by = rs[f].by
    PROVE  \A s \in Owed(f)' :
              /\ s \in Owed(f) /\ s \in Requests /\ rs'[s] = rs[s]
              /\ rs[s].op = "create" /\ rs[s].pc = "done"
<1> SUFFICES ASSUME NEW s \in Owed(f)'
             PROVE  /\ s \in Owed(f) /\ s \in Requests /\ rs'[s] = rs[s]
                    /\ rs[s].op = "create" /\ rs[s].pc = "done"
    OBVIOUS
<1>1. s \in rs[f].after /\ rs'[s].op = "create" /\ rs'[f].by \in Told(s)'
      /\ {rs'[f].by, rs'[s].by} \notin troubled'
    BY DEF Owed
<1>2. s \in Answered /\ s \in Requests
    BY <1>1 DEF Shape, ShapeOf, Answered
<1>3. rs'[s] = rs[s]
    BY <1>2, Lasting
<1>4. {rs[f].by, rs[s].by} \notin troubled
    BY <1>1, <1>3, Lasting
<1> QED
    BY <1>1, <1>2, <1>3, <1>4 DEF Owed, Told, Answered

\* A story owed is by someone linked with the reader.
LEMMA OwedLinked ==
    ASSUME TypeOK, ToldLinked, NEW f \in Requests, NEW s \in Owed(f), s \in Requests, rs[s].pc = "done"
    PROVE  /\ {rs[f].by, rs[s].by} \in contacts \cup chats
           /\ {rs[f].by, rs[s].by} \notin troubled
           /\ rs[s].by \in Users
<1>1. rs[s].op = "create" /\ rs[f].by \in rs[s].users /\ {rs[f].by, rs[s].by} \notin troubled
    BY DEF Owed, Told
<1>2. {rs[s].by, rs[f].by} \in Linked
    BY <1>1 DEF ToldLinked
<1>3. {rs[f].by, rs[s].by} \in Linked
    BY <1>2, PairEitherWay
<1>4. rs[s].by \in Users
    BY DEF TypeOK, RequestStates
<1> QED
    BY <1>1, <1>3, <1>4 DEF Linked

\* What FeedFinds says of the request f.
Finds(f) ==
    /\ rs[f].pc \in {"contacts", "chats"} =>
         \A v \in rs[f].barred : {rs[f].by, v} \in troubled
    /\ rs[f].pc = "chats" => \A s \in Owed(f) :
         rs[s].by \in rs[f].users \/ {rs[f].by, rs[s].by} \in chats
    /\ rs[f].pc = "list" => \A s \in Owed(f) : rs[s].by \in rs[f].users

LEMMA FindsNext ==
    ASSUME TypeOK, Shape, ToldLinked, FeedFinds, Kinds
    PROVE  FeedFinds'
<1>1. chats \subseteq chats' /\ troubled \subseteq troubled'
    BY Lasting
<1>2. ASSUME NEW f \in Requests, rs'[f].op = "feed", rs'[f] = rs[f]
      PROVE  Finds(f)'
  <2>1. Finds(f)
    BY <1>2 DEF FeedFinds, Finds
  <2>2. \A s \in Owed(f)' : s \in Owed(f) /\ rs'[s] = rs[s]
    BY <1>2, OwedStep
  <2> DEFINE owes == Owed(f)'
             owed == Owed(f)
  <2>3. owes \subseteq owed /\ \A s \in owes : rs'[s] = rs[s]
    BY <2>2
  <2>4. /\ rs'[f].pc = "chats" => \A s \in owes :
             rs'[s].by \in rs'[f].users \/ {rs'[f].by, rs'[s].by} \in chats'
        /\ rs'[f].pc = "list" => \A s \in owes : rs'[s].by \in rs'[f].users
    BY <1>1, <1>2, <2>1, <2>3 DEF Finds
  <2>5. rs'[f].pc \in {"contacts", "chats"} =>
             \A v \in rs'[f].barred : {rs'[f].by, v} \in troubled'
    BY <1>1, <1>2, <2>1 DEF Finds
  <2> QED
    BY <2>4, <2>5 DEF Finds
<1>3. ASSUME NEW f \in Requests, rs'[f].op = "feed", KindOf(f)
      PROVE  Finds(f)'
  <2>1. ShapeOf(f)
    BY DEF Shape
  <2>2. CASE rs'[f].pc \notin {"contacts", "chats", "list"}
    BY <2>2 DEF Finds
  <2>3. CASE rs'[f].pc \in {"contacts", "chats", "list"}
    <3>1. ~StartsCreate(f) /\ ~StartsRead(f) /\ ~StartsOn(f) /\ ~Breaks(f)
      BY <1>3, <2>3 DEF StartsCreate, StartsRead, StartsOn, Breaks
    <3>2. ~Uploads(f) /\ ~Inserts(f) /\ ~Tells(f) /\ ~Lists(f)
      BY <1>3, <2>1, <2>3 DEF Uploads, Inserts, Tells, Lists, Moves, Same, ShapeOf
    <3>3. ~Goes(f) /\ ~Counts(f) /\ ~Views(f) /\ ~Dooms(f) /\ ~Removes(f) /\ ~Sweeps(f)
      BY <2>3 DEF Goes, Counts, Views, Dooms, Removes, Sweeps, Moves
    <3>4. ~\E t \in Requests : GetsThrough(f, t)
      BY <2>3 DEF GetsThrough
    <3>5. Looks(f)
      BY <1>3, <3>1, <3>2, <3>3, <3>4 DEF KindOf
    <3>6. rs'[f].after = rs[f].after /\ rs'[f].by = rs[f].by /\ UNCHANGED links /\ Finds(f)
      BY <3>5 DEF Looks, Same, FeedFinds, Finds
    <3>7. \A s \in Owed(f)' : /\ s \in Owed(f) /\ rs'[s] = rs[s] /\ rs[s].by \in Users
                              /\ {rs[f].by, rs[s].by} \in contacts \cup chats
                              /\ {rs[f].by, rs[s].by} \notin troubled
      BY <3>6, OwedStep, OwedLinked
    <3>8. CASE Moves(f, "blocks", "contacts")
      <4>1. rs'[f].barred = BlockedWith(rs[f].by) /\ rs'[f].pc = "contacts"
        BY <3>5, <3>8 DEF Looks, Moves
      <4>2. \A v \in rs'[f].barred : {rs'[f].by, v} \in troubled'
        BY <3>6, <4>1 DEF BlockedWith, TypeOK, links
      <4> QED
        BY <4>1, <4>2 DEF Finds
    <3>9. CASE Moves(f, "contacts", "chats")
      <4>1. /\ rs'[f].barred = rs[f].barred /\ rs'[f].pc = "chats"
            /\ rs'[f].users = ContactsOf(rs[f].by) \ rs[f].barred
        BY <3>5, <3>9 DEF Looks, Moves
      <4>2. \A v \in rs[f].barred : {rs[f].by, v} \in troubled
        BY <3>6, <3>9 DEF Finds, Moves
      <4>3. ASSUME NEW s \in Owed(f)'
            PROVE  rs'[s].by \in rs'[f].users \/ {rs'[f].by, rs'[s].by} \in chats'
        <5>1. /\ rs'[s] = rs[s] /\ rs[s].by \in Users /\ {rs[f].by, rs[s].by} \in contacts \cup chats
              /\ {rs[f].by, rs[s].by} \notin troubled
          BY <3>7
        <5>2. rs[s].by \notin rs[f].barred
          BY <4>2, <5>1
        <5> QED
          BY <3>6, <4>1, <5>1, <5>2 DEF ContactsOf, links
      <4>4. \A v \in rs'[f].barred : {rs'[f].by, v} \in troubled'
        BY <3>6, <4>1, <4>2 DEF links
      <4> QED
        BY <4>1, <4>3, <4>4 DEF Finds
    <3>10. CASE Moves(f, "chats", "list")
      <4>1. /\ rs'[f].pc = "list"
            /\ rs'[f].users = rs[f].users \cup {rs[f].by} \cup (PartnersOf(rs[f].by) \ rs[f].barred)
        BY <3>5, <3>10 DEF Looks, Moves
      <4>2. /\ \A v \in rs[f].barred : {rs[f].by, v} \in troubled
            /\ \A s \in Owed(f) : rs[s].by \in rs[f].users \/ {rs[f].by, rs[s].by} \in chats
        BY <3>6, <3>10 DEF Finds, Moves
      <4>3. ASSUME NEW s \in Owed(f)'
            PROVE  rs'[s].by \in rs'[f].users
        <5>1. /\ s \in Owed(f) /\ rs'[s] = rs[s] /\ rs[s].by \in Users
              /\ {rs[f].by, rs[s].by} \notin troubled
          BY <3>7
        <5>2. rs[s].by \notin rs[f].barred
          BY <4>2, <5>1
        <5>3. rs[s].by \in rs[f].users \/ {rs[f].by, rs[s].by} \in chats
          BY <4>2, <5>1
        <5> QED
          BY <4>1, <5>1, <5>2, <5>3 DEF PartnersOf
      <4> QED
        BY <4>1, <4>3 DEF Finds
    <3> QED
      BY <3>5, <3>8, <3>9, <3>10 DEF Looks
  <2> QED
    BY <2>2, <2>3
<1>4. ASSUME NEW f \in Requests, rs'[f].op = "feed"
      PROVE  Finds(f)'
    BY <1>2, <1>3, <1>4, OneMoves
<1> QED
    BY <1>4 DEF FeedFinds, Finds

LEMMA ToldNext ==
    ASSUME TypeOK, Shape, Deleting, FeedFinds, ToldIsShown, Kinds
    PROVE  ToldIsShown'
<1> SUFFICES ASSUME NEW f \in Answered', NEW s \in Requests,
                    rs'[f].op = "feed", rs'[s].op = "create",
                    s \in rs'[f].after, rs'[f].by \in Told(s)',
                    {rs'[f].by, rs'[s].by} \notin troubled'
             PROVE  s \in rs'[f].stories \cup rs'[f].past \/ s \notin rows'
    BY DEF ToldIsShown
<1>1. f \in Requests /\ rs'[f].pc = "done" /\ s \in Owed(f)'
    BY DEF Answered, Owed
<1>2. ASSUME rs'[f].after = rs[f].after, rs'[f].by = rs[f].by
      PROVE  s \in Owed(f) /\ rs'[s] = rs[s] /\ rs[s].op = "create" /\ rs[s].pc = "done"
             /\ (s \in rows' => s \in rows)
  <2>1. s \in Owed(f) /\ rs'[s] = rs[s] /\ rs[s].op = "create" /\ rs[s].pc = "done"
    BY <1>1, <1>2, OwedStep
  <2> QED
    BY <2>1, RowsStep DEF Known
<1>3. CASE rs'[f] = rs[f]
  <2>1. s \in Owed(f) /\ rs'[s] = rs[s] /\ (s \in rows' => s \in rows)
    BY <1>2, <1>3
  <2>2. s \in rs[f].stories \cup rs[f].past \/ s \notin rows
    BY <1>1, <1>3, <2>1 DEF ToldIsShown, Owed, Answered
  <2> QED
    BY <1>3, <2>1, <2>2
<1>4. CASE KindOf(f)
  <2>1. Same(f)
    BY <1>1, <1>4, Answers
  <2>2. Lists(f)
    BY <1>1, <1>4, <2>1, Answers DEF Same
  <2>3. s \in Owed(f) /\ (s \in rows' => s \in rows)
    BY <1>2, <2>1 DEF Same
  <2>4. rs[s].by \in rs[f].users
    BY <1>1, <2>1, <2>2, <2>3 DEF Lists, Moves, Same, FeedFinds
  <2>5. Visible(s, rs[f].by)
    BY <2>3 DEF Owed, Told, Visible
  <2>6. s \in rows /\ s \notin rs[f].past => s \in Shown(f)
    BY <2>4, <2>5 DEF Shown
  <2> QED
    BY <2>2, <2>3, <2>6 DEF Lists, SamePast
<1> QED
    BY <1>1, <1>3, <1>4, OneMoves

-----------------------------------------------------------------------------
(* The invariant.                                                          *)

LEMMA InvInit ==
    Init => IInv
<1> SUFFICES ASSUME Init
             PROVE  IInv
    OBVIOUS
<1>1. PICK u \in Users : rs = [r \in Requests |-> Unused(u)]
    BY DEF Init
<1>2. \A r \in Requests : /\ rs[r].pc = "free" /\ rs[r].op = "create" /\ rs[r].past = {}
                          /\ rs[r].stories = {} /\ rs[r].viewed = {} /\ rs[r].after = {}
                          /\ rs[r].left = {} /\ rs[r].kept = {} /\ rs[r].asset = 0
    BY <1>1 DEF Unused
<1>3. rows = {} /\ assets = {} /\ videos = {} /\ views = {} /\ expired = {}
    BY DEF Init
<1>4. TypeOK
  <2>1. rs \in [Requests -> RequestStates]
    BY <1>1, UnusedType
  <2>2. contacts \subseteq Pairs /\ chats \subseteq Pairs /\ blocks \subseteq troubled
        /\ troubled \subseteq Pairs
    BY DEF Init
  <2>3. events \in 0 .. MaxEvents
    BY BoundsAssumption DEF Init
  <2> QED
    BY <1>3, <2>1, <2>2, <2>3 DEF TypeOK
<1>5. Shape
    BY <1>2 DEF Shape, ShapeOf
<1>6. Deleting
    BY <1>2 DEF Deleting, DeletingOf
<1>7. Owned /\ Gone /\ DoneGone /\ MediaMatchesRow
    BY <1>2, <1>3 DEF Owned, Gone, DoneGone, MediaMatchesRow
<1>8. \A r, s \in Requests : ~Deletes(r, s) /\ ~Known(s)
    BY <1>2 DEF Deletes, At, Known
<1>9. DeletedGone
    BY <1>8 DEF DeletedGone
<1>10. KeptForItsDay
  <2>1. \A s \in Requests : {r \in Requests : Deletes(r, s)} = {}
    BY <1>8
  <2> QED
    BY <1>8, <2>1, FS_EmptySet DEF KeptForItsDay
<1>11. ViewsAnswered /\ ViewsStood
    BY <1>2, <1>3 DEF ViewsAnswered, ViewsStood
<1>12. Answered = {}
    BY <1>2 DEF Answered
<1>13. FeedInStep /\ ToldIsShown
    BY <1>12 DEF FeedInStep, ToldIsShown
<1>14. ToldLinked /\ FeedFinds
    BY <1>2 DEF ToldLinked, FeedFinds
<1> QED
    BY <1>4, <1>5, <1>6, <1>7, <1>9, <1>10, <1>11, <1>13, <1>14 DEF IInv

LEMMA InvNext ==
    IInv /\ [Next]_vars => IInv'
<1> SUFFICES ASSUME IInv, [Next]_vars
             PROVE  IInv'
    OBVIOUS
<1>1. /\ TypeOK /\ Shape /\ Deleting /\ Owned /\ Gone /\ DoneGone /\ MediaMatchesRow
      /\ KeptForItsDay /\ DeletedGone /\ ViewsAnswered /\ ViewsStood /\ FeedInStep
      /\ ToldLinked /\ FeedFinds /\ ToldIsShown
    BY DEF IInv
<1>2. Kinds
    BY <1>1, StepKinds
<1>3. TypeOK' /\ Shape'
    BY <1>1, <1>2, TypeNext, ShapeNext
<1>4. Deleting' /\ Owned' /\ Gone' /\ DoneGone' /\ MediaMatchesRow'
    BY <1>1, <1>2, DeletingNext, OwnedNext, GoneNext, DoneGoneNext, MediaNext
<1>5. KeptForItsDay' /\ DeletedGone'
    BY <1>1, <1>2, KeptNext
<1>6. ViewsAnswered' /\ ViewsStood' /\ FeedInStep'
    BY <1>1, <1>2, ViewsNext, StoodNext, FeedNext
<1>7. ToldLinked' /\ FeedFinds' /\ ToldIsShown'
    BY <1>1, <1>2, ToldLinkedNext, FindsNext, ToldNext
<1> QED
    BY <1>3, <1>4, <1>5, <1>6, <1>7 DEF IInv

\* The conjuncts of IInv hold in every state of Spec.
THEOREM Invariant == Spec => []IInv
    BY InvInit, InvNext, PTL DEF Spec

-----------------------------------------------------------------------------
(* What follows from it.                                                   *)

\* The stores, the links and the requests have the types the code gives them,
\* whatever breaks off (story.service.ts, ephemeral.worker.ts:19-49).
THEOREM TypeCorrect == Spec => []TypeOK
<1>1. IInv => TypeOK
    BY DEF IInv
<1> QED
    BY <1>1, Invariant, PTL

\* However requests, sweeps and failures interleave, an image that no row
\* names is one whose creation is not through or that could not be destroyed,
\* and a row without its image is one that a deletion still has to take, or
\* shared it with one (story.service.ts:50-81, 499-510, ephemeral.worker.ts:33-49).
THEOREM MediaMatches == Spec => []MediaMatchesRow
<1>1. IInv => MediaMatchesRow
    BY DEF IInv
<1> QED
    BY <1>1, Invariant, PTL

\* Only its author takes a story away before it has expired, and one of any
\* number of deletions at the same time is answered with success
\* (story.service.ts:487-516, ephemeral.worker.ts:19-49).
THEOREM StoriesKept == Spec => []KeptForItsDay
<1>1. IInv => KeptForItsDay
    BY DEF IInv
<1> QED
    BY <1>1, Invariant, PTL

\* Whom createStory told of a story finds it in every feed asked for later,
\* blocks, expiry and deletion apart, although the two read contacts and
\* conversations one after the other (story.service.ts:82-138, 163-243).
THEOREM ToldShown == Spec => []ToldIsShown
<1>1. IInv => ToldIsShown
    BY DEF IInv
<1> QED
    BY <1>1, Invariant, PTL

\* What was answered before a feed was asked for, a deletion or a view, shows
\* in it; no view is another user's, and one that is not counted is shown all
\* the same (story.service.ts:224-243, 331-407).
THEOREM FeedsInStep == Spec => []FeedInStep
<1>1. IInv => FeedInStep
    BY DEF IInv
<1> QED
    BY <1>1, Invariant, PTL
=============================================================================
