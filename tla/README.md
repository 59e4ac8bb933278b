# TLA+ models of the TalkChat server

TalkChat is a chat backend: Express and Socket.io in front, PostgreSQL through
Prisma (transactions at the default READ COMMITTED level) and Redis behind,
BullMQ for background jobs, several server processes side by side through the
Socket.io Redis adapter. Each request or socket event is handled by an async
function; its `await`s are the only places where other handlers of the process
run, and queries of other processes come in between any two of its queries.
Nearly every hard behaviour of this code is of one kind: a handler reads a row,
decides, and writes by id without looking again. The modules here make every
`await` a step and let the handlers interleave.

Paths below are relative to the repository.

## Parts of the system

| Part (source) | State | Operations | Hard behaviour | Correct when |
|---|---|---|---|---|
| Call signalling (`src/socket/handlers/call.handler.ts`) | `call_logs` rows; per process a map of armed ringing timers; CALL_LOG messages | initiate, ringing, accept, reject, end, timeout | timer against answer; the timer is in one process, the answer in another; a stale row written back; failures between clearing the timer and updating; a crash loses timers | columns agree, no call rings unattended, one timeout, the conversation never shows what nobody was told, every call settles |
| Group membership (`src/modules/chat/chat.service.ts`) | `conversation_members` rows: role, leftAt, joinedAt | create, add, remove, set role, leave | check and update in separate queries; the election of a new administrator in a READ COMMITTED transaction; row locks that wait for each other | nobody is readmitted by accident, the creator is protected, a group keeps an administrator |
| Pre-keys (`src/modules/e2ee/e2ee.service.ts`) | `user_key_bundles`, `one_time_pre_keys` | upload, refill, fetch | two fetches find the same key; rows that become visible after younger ones; rollback; crash after the commit | a key is burned exactly when given, oldest first, once |
| Sessions (`src/modules/auth/auth.service.ts`) | `refresh_tokens` rows, `session:*` and `blacklist:*` keys in Redis | register, login, refresh, logout | two stores written one after the other; rotation against rotation and logout; tokens of the same second are equal | stores agree, a spent token stays spent, rotation replaces, a logout lasts |
| Presence (`src/socket/socket.presence.ts`, `socket.server.ts`) | Redis sets `online_users`, `user:sockets:*`; `users.isOnline` | connect, heartbeat, disconnect, logout, start-up sync | connect against disconnect; late heartbeats; two stores | a connected user is shown online, a gone one offline |
| Messages (`src/modules/message/message.service.ts`) | `messages`, `message_receipts`, `message_reactions`, last message and unread counters | send, edit, delete, react, receipts, history | last message out of order; counter reset against increment; receipts that go back; edit against delete and purge | last message is the newest, counters are not negative and not lost, a deleted message stays deleted |
| Disappearing messages (`src/queues/producer/ephemeral.queue.ts`, `workers/ephemeral.worker.ts`) | BullMQ jobs, three attempts each | schedule, purge, sweep | a schedule that fails; retries after a partial purge; a worker that stalls; a clock that is behind | a message with an expiry goes, once |
| Direct conversations (`chat.service.ts`) | `conversations` | get or create | two requests create two | one per pair |
| Contacts and blocks (`src/modules/user/user.service.ts`) | `contacts` (either user's row), `blocked_users` | request, respond, block, unblock | crossing requests; a block half done | a block ends the contact, lasts, and stops what comes after it |
| Stories (`src/modules/story/story.service.ts`, `purgeExpiredStories` of `ephemeral.worker.ts`) | `stories`, `story_views`, assets at Cloudinary | create, feed, mine, view, delete, sweep | two stores written one after the other; several deletions of one story; an asset that two rows name; a view written after checks; whom creation tells and whom the feed shows is decided by different queries | an image and its row go together, a story stays for its day and is deleted once, who was told finds it, feeds agree with what was answered before |
| Lists (`message.service.ts`, `call.service.ts`, `story.service.ts`, `chat.service.ts`) | none | pages of history, calls, feed, viewers, conversations | equal times; a cursor whose row is gone or has moved; offsets that shift; conversations without a message, which sort first | nothing that stays is skipped, nothing comes twice |
| Start and shutdown (`src/server.ts`, `queues/workers/index.ts`, `config/`) | the process, its two stores, workers, running jobs, connections | start, signal, close in order, time out | stores closed under clients or jobs; a second signal; a store that does not open or close, or is gone when it is to be closed | jobs finish, clients have the stores |

Parts interact through the database (calls write messages; contacts and blocks
gate conversations, messages and calls; membership gates messages), through
Redis (sessions, presence, queues) and through the rooms of Socket.io. Logout
reaches into presence and closes sockets.

## Modules

Each component is one module without values; `MC…` gives the values for TLC,
`…Proofs` holds the theorems. In all of them a variable per table or key, a
record per request or handler with a program counter `pc` (the `await` it stands
at) and the values it read before; an action named after the query that is
made. What a handler checks before its first `await` that changes something is
the guard of its `Begin…` action when nothing it reads there can be
invalidated in a way that matters, and a step of its own otherwise.

| Module | Code | State | Actions |
|---|---|---|---|
| `CallSignaling` | `call.handler.ts` | `call_logs` columns, timers per node, conversation log, what the caller heard, handlers and timer callbacks | each handler from its read to its last emission, the timer, failed queries, node crashes |
| `CallLifecycle` | what the above promises | which calls are placed, answered, over; what the caller heard and the conversation shows | place, answer, finish, hear, log |
| `GroupMembership` | `addMembers`, `removeMember`, `updateMemberRole`, `leaveGroup` of `chat.service.ts` | members' rows, row locks and uncommitted writes | check, update; the transactions of an addition of several users and of a departure, query by query, which wait for locked rows and may be rolled back |
| `Group` | what the above promises when requests do not overlap | everybody's role and time of joining | admit, remove, set a role, leave, each with its checks and writes at one stroke |
| `PreKeys` | `e2ee.service.ts` | bundle, key rows with the time that stamps them, inserts not yet committed, consumption | upload and refill, each from its insert to its commit or rollback; the fetch's transaction, rollback, crash after the commit |
| `KeyPool` | what the above promises | which keys were put in and given | put, begin, take, refuse |
| `RefreshTokens` | login, `refreshToken`, `logout` of `auth.service.ts` | rows, session keys, blacklist, the clock in seconds | each query, failure at any of them; a logout presents a refresh token or none |
| `Presence` | `socket.presence.ts`, the connection handler of `socket.server.ts`, the end of `logout` | the user's sockets, the three Redis and database copies, the last broadcast | each query of connect, heartbeat, disconnect, logout, start-up sync; `fetchSockets` node by node; crash and restart |
| `Messages` | `sendMessage`, `updateReceipts`, `markAsRead`, `updateDisappearingTimer` | messages, last message, unread counters, the lock of the conversation's row and the counters written under it | insert, lock, count, commit, rollback; receipts and resets, which wait for locked rows; members who leave and join |
| `Inbox` | what the above promises | who is in the conversation, which messages are there, the newest, the counters, whom a message under way is addressed to | address, post or cancel, notice, see, leave, join, each at one stroke |
| `MessageContent` | `editMessage`, `deleteMessage`, `toggleReaction`, `ephemeral.queue.ts`, `purgeSingleMessage` | one message's row, its reactions, its purge job, events sent | check and update of each; the job's three attempts, each of which may throw or stall |
| `Stories` | `createStory`, `getStoryFeed`, `getMyStories`, `viewStory`, `deleteStory` of `story.service.ts`, `purgeExpiredStories` | rows, images and videos at Cloudinary and which a row names, views, expiry; contacts, direct conversations and blocks between users, which change as they please | each call of PostgreSQL or Cloudinary; a failed call; expiry |
| `Paging` | `getMessageHistory`, `getCallHistory`, `getStoryFeed`, `getStoryViewers`, `getUserConversations` | a list: the time of each row and whether the query selects it; the client's cursor and what it got | the pages of each list; rows that come, drop out, come back or get a new time |
| `ServerShutdown` | `startServer`, `gracefulShutdown` of `server.ts`, `initWorkers`, `stopWorkers` of `workers/index.ts`, connecting and disconnecting of both stores | what the start and the shutdown of each signal are at, stores, connections and their disconnect handlers, workers, jobs | each step between two awaits; connections and jobs that begin and end; a connection to Redis that breaks and returns; the time limit |
| `Contacts` | `sendContactRequest`, `blockUser`, `unblockUser` of `user.service.ts`, `getOrCreateDirectChat` of `chat.service.ts`, and the block checks of calls, story views and the feed | contact rows, direct conversations, blocks | each query of a request |

`Messages` lets members leave and join at any time (`Leave`, `Join`), as `GroupMembership`
does; `Presence` contains the part of logout that
`RefreshTokens` ends before. Otherwise the modules share no state, and their
properties do not depend on each other. `Stories` takes the links between
users as input, since `Contacts` is about them, and `Paging` takes the rows of a
list as input; both let them change in any way the writing modules can change them.

What a query of the database returns is decided in one step. `Paging` leaves
open what the code leaves open: the order of rows of the same time, and what
PostgreSQL returns for a cursor whose row the query does not select.

Some variables and fields are not in the code. They record history for a
property to speak of and guard nothing:

* `alone` (GroupMembership): nothing else was in flight while the request ran;
* `after` (PreKeys, RefreshTokens, Messages, Contacts, Stories): the requests that were over when
  this one began;
* `ahead` and `seen` (PreKeys): the rows that were visible when a row became so, and when a
  fetch read the bundle;
* `mixed` and `steady` (Presence): handlers of opposite effect overlapped or one
  failed; sockets that stayed connected during a handler;
* `fresh` (Messages): the messages a member's counter should count;
* `racing` (MessageContent): edits past their check when the message was deleted;
* `troubled` (Stories): pairs one of whom ever blocked the other;
* `start`, `left`, `came`, `moved`, `back`, `cuts`, `lost` (Paging): what was there at the
  first page, what changed since (`back`: what got an earlier time), and the rows at which pages began.

Definitions whose name starts with `Bad` belong to no specification: each is
the definition after it with a plausible mistake, and a property that is worth
checking fails when it takes that definition's place.

## Runs

Every run finishes in less than three minutes with two workers.
`CHECK_DEADLOCK FALSE` stands in all of them: requests are used up, and then the
system rests.

| Run | Instance | Properties | Shows |
|---|---|---|---|
| `CallOne` | 2 users, 2 nodes, 1 call, 2 client requests, 1 fault, fair | RecordConsistent, Attended, LoggedAfterTold, ImplementsLifecycle, CallerLearns | columns agree, no call rings unattended unless a fault took its attendant, the conversation's entry follows the event, the handlers implement the lifecycle, and the caller hears an outcome unless a fault prevents it |
| `GroupRaces` | 3 users, 3 requests, all in flight | OnlyAdditionsAdmit, CreatorProtected, AtomicWhenAlone | no readmission by a stale write; the creator goes only by leaving; a request nothing overlaps does at one stroke what `Group` says |
| `PreKeyRaces` | 3 fetches, 2 keys, 2 times, uploads and refills that commit in any order | OldestFirst, EarlierKeysSpent, ImplementsPool | keys go in the order they were created, but for one that becomes visible after a younger one; of the keys that were there when the bundle was read those older than the one that goes out with it, or all when none does, went to others; a key goes twice only to fetches that overlap |
| `TokenRaces` | 4 requests, 3 seconds | StoresAgree, KeptUntilPresented, SpentIsSpent, LogoutLasts | the two stores agree on each token nobody is half way through, nobody loses a token that was not presented, a spent one stays spent, and what an answered logout was given stays out in all three places |
| `PresenceRaces` | 2 sockets on 2 nodes, 1 logout, 2 handlers in flight, 1 fault, fair | AgreeWhenCalm, SteadyKept, BeatsRepair | the copies agree when only handlers of one direction overlapped, a disconnect never overlooks a socket that stayed, heartbeats repair the roster |
| `MessageCounts` | 3 users, 3 requests, 1 fault | CountersExact, LastNotOvertaken, ImplementsInbox | counters are exact in spite of resets, rollbacks, departures and returns; the last message is overtaken only by an overlapping one; a message is addressed to who is there at one moment, of whom nobody leaves before it appears, and appears, is the last and is counted for each of them at one stroke |
| `MessageEnds` | 2 users, author and staff, 3 requests, 1 failed request, 3 attempts and 2 stalls of the job, fair | TogglesCount, ClearedUnlessRacing, Announced, Disappears | reactions count, deleted rows are cleared unless an edit was half way, deletions are announced, the job deletes the message in the end unless three attempts threw, two stalled or a clock was behind |
| `BlockRaces` | 2 users, 4 requests, 2 in flight, 1 fault | BlockLasts, BlockStops, BlockEndsContact, DoublesOverlap | a block lasts until its blocker lifts it and stops what begins after it; a blocked contact, a second conversation or contact row come only from requests that overlapped |
| `StoryRaces` | 2 users, 3 requests, 2 in flight, 2 stories of 4 kinds, 1 failed call or change of a link | MediaMatchesRow, KeptForItsDay, ToldIsShown, FeedInStep | an image and the rows that name it part only through what failed, is under way or was shared; a story stays for its day and is deleted once; who was told of it finds it; feeds agree with the views and deletions answered before |
| `PagesRead` | 5 kinds of lists, 4 rows, 4 times, 2 changes while a client reads pages of 2 | PagingTypeOK, NothingSkipped, NothingTwice | a client that reads to the end gets every row that was there all the time, and none twice, but for the cases the properties name |
| `ShutdownOrder` | 2 workers, 3 jobs, 2 connections, 3 signals | JobsFinish, ServedWithStores | with one signal jobs finish before a store closes or the process ends; clients have the database to the end |
| `PreKeyTwice` | 3 fetches | HandedOnce (violated) | see below |

Every module's type invariant is proved (below); `PagesRead` checks its own, too, which says in what
state a client's reading of a list can be.

### Why the bounds are enough

The races of this code are between a read and a write of two handlers over one
row. Two overlapping handlers show each of them; a third is there where a lock
or an election involves one (`GroupRaces`, `MessageCounts`, `PreKeyRaces`) or to
come after the race and find what it left (`MessageEnds`: a reaction toggled
twice and once more; `TokenRaces`: a rotation after two that raced). Two nodes tell the
node that armed a timer, or holds a socket, from another one. One fault is one
of each kind at each query; the job of `MessageEnds` bounds its own: three attempts
throw and two stall, and then BullMQ gives up. Three seconds let two tokens share
one and a third differ. Two times of two keys let the younger become visible first. Three requests
on stories let two overlap after, or before, a third; the four kinds of stories have
every source and every privacy, and the other user allowed or not. Four rows in pages of two make a second page
that is full and one beyond it, and every tie across a boundary; two changes
drop the row of the cursor and bring it back, or move two rows past it. Three
signals are one more than the two that the code's callbacks tell apart. `PresenceRaces` with three sockets or three handlers in
flight did not finish in reasonable time, nor did `MessageCounts` with four requests;
`BlockRaces` was also run with three requests all in flight, and held. `MaxInFlight` bounds
what runs when one more begins; `MaxRequests`, `MaxCalls`, `MaxTime` and
`MaxFaults` are bounds on counters in the guards. The theorems below hold for
every value of them.

### Fairness

* `CallSignaling`: a handler or timer callback that can go on goes on (the event
  loop runs its queue and queries return), and an armed timer fires. Clients need not do
  anything. `CallerLearns` allows for a fault: after a crash nothing in the code re-arms a
  timer, which `Attended` says and an unconditional `CallerLearns` would refuse.
* `Presence`: handlers go on, and a client whose socket stays open goes on
  sending heartbeats.
* `MessageContent`: the BullMQ worker takes the job once it is due, and its retries.
  Requests need not go on.

That a shutdown ends, or that of requests that wait for each other's rows one goes on, is not
stated: the ten second timer and PostgreSQL's deadlock detection see to it whatever else
happens, so neither says anything of this code. Both kinds of waiting are in the models,
and so is what ends them (`TimeOut`, `RollBack`).

## Where the code and its comments disagree

One run ends in a counterexample to something a comment says:

* `PreKeyTwice`: a pre-key is found and consumed atomically
  (`e2ee.service.ts:165`). Two transactions find one key and both give it away.

Others were met while modelling and are visible in the modules; the properties
there are stated so as to say what does hold:

* a departure elects a successor "to prevent orphaned groups"
  (`chat.service.ts:743-744`); at READ COMMITTED, a member added after the search
  for one is left in a group without an administrator, which is why
  `AtomicWhenAlone` speaks of requests that nothing overlaps;
* `stopWorkers` lets running jobs complete "before closing Redis connections"
  (`queues/workers/index.ts:42-43`); the callback of a second signal
  finds the workers null, awaits nothing and closes the stores under the jobs the first
  is waiting for, which is why `JobsFinish` speaks of one signal;
* `pagination.total` of `getUserConversations` counts the conversations of the
  page (`chat.service.ts:367`), so a client cannot tell the last page but by asking
  for an empty one; the pages are offsets, and skip or repeat rows when others move;
  conversations without a message come first
  (`orderBy` of 284-287 sorts NULL first), so a first message moves one back, and others are skipped;
* a logout "invalidates tokens and terminates the user session"
  (`auth.service.ts:216-217`); the refresh token is optional in its body
  (`auth.controller.ts:86-90`), and without it (224) the session is left usable: `LogoutLasts` speaks of
  what the logout was given;
* deleting a story cleans up its asset (`story.service.ts:476`,
  `ephemeral.worker.ts:12`); `destroy` is called without a resource type, which leaves videos where
  they are, and the name comes from the client (`story.service.ts:41`), so that an asset two
  stories name goes with the first of them: `MediaMatchesRow` speaks of images and of sharing;
* a member added while a message is being sent is in the conversation when it appears
  and is not counted for (`message.service.ts:246-255`);
* the purge job checks the time of expiry by its own clock (`ephemeral.worker.ts:132`) and is done without
  deleting where that is behind the clock that set the delay;
* history pages by creation time (`message.service.ts:405`) skip messages of
  the very millisecond a page ends at;
* close friends are in the feed of a CLOSE_FRIENDS story and are not told of it
  (`story.service.ts:123-139`); `viewStory` does not look at the privacy of the story;
* `addMembers` of a group that contains the creator resets the creator's role
  (the update of 580), though `chat.service.ts:674` says it cannot be altered;
* a member promoted between the check and the removal is removed by a
  moderator, against `chat.service.ts:602`;
* the bundle is read before the transaction that consumes a key
  (`e2ee.service.ts:143-144`), and may belong to an older upload than the key, as an upload keeps
  the keys of the ones before it, which go out first with the new bundle; `EarlierKeysSpent` says
  when a later key goes out;
* two overlapping rotations of a token both pass the check, against the
  comment at `auth.service.ts:185`; a logout that overlaps a rotation leaves
  the new session (217); two logins in one second collide on the unique index,
  since the token has nothing unique in it but the second (`token.util.ts:11-12`);
* a ringing window of 45 seconds (`call.handler.ts:129`): `CALL_RINGING` reads
  INITIATED, an answer or hang-up clears the timer and writes its status, and
  then RINGING is written over it (327) and stays;
* two overlapping requests for the same direct conversation create two
  (`chat.service.ts:40-41`), and a request that checked for blocks before a
  block was written makes a contact after it;
* `respondToContactRequest` looks for PENDING rows, which no code writes;
* answers, rejections and hang-ups of a call that overlap both take effect
  (`call.handler.ts:128`);
* a disconnect that overlaps a new connection leaves a connected user offline
  (`socket.presence.ts:15-16`), a late heartbeat leaves a gone user listed (11);
* an edit past its check writes content into a deleted row
  (`message.service.ts:538`); the last message may be older than another when
  two are sent at once (236); a DELIVERED receipt that comes late overwrites
  READ.

## Proofs

TLAPS proves, from the named assumptions on the constants alone, that every
variable of each of the eleven modules keeps its type (`TypeCorrect`;
`PresenceTypeCorrect`, `PagingTypeCorrect` and `ServerTypeCorrect` where a module holds
the proofs of two components), and every safety invariant and action property
that the runs check. The arguments:

* `CallSignalingProofs`: `RecordsAgree`, `CallsAttended`,
  `TimeoutOnce`, `ToldFirst` (each an invariant of `Spec`), and `Refinement`: every step
  is one of `CallLifecycle` or a stutter. `IInv` adds to the properties what
  handlers know at each `pc`: a handler or callback at work has a call that was
  placed (`Begun`, `HandlersKnow`, `CallbacksKnow`), and an armed timer is on the
  node that placed the call (`TimerOwned`), without which `OneTimeout` is not
  inductive: a second node could have a timer of its own.
* `GroupMembershipProofs`: the action properties `StaffAdmits`, `CreatorStays` and
  `OneStrokeAlone`; from the last, `AdminStays` (a departure nothing overlaps leaves an
  administrator) and `SerialRefinement` (with one request in flight at a time
  `GroupMembership` implements `Group`). `IInv` adds `Checked`: what a request past its
  checks relies on is in its own fields (an addition was begun by staff, a write aimed at the creator
  is a role change to ADMIN), so it survives whatever others write meanwhile.
  `AloneSees` says what more a request knows that nothing overlapped: what it
  read is still so, so that the checks `Group` makes at the commit hold. A departure
  writes two rows, the leaver's and the elected one's, which the commit shows at once;
  that is the step mapped to `Leave`, and all others before it are stutters.
* `PreKeysProofs`, first part: `BurnedExactly`, `UsedInOrder`, `NoKeyPassedOver`,
  `SharedOnlyOverlapping` (what remains of handing a key out once), and `Refinement` to `KeyPool`.
  `IInv` adds `FoundOldest` (all keys older than the one a fetch has found, of those it saw and
  of those the key became visible after, were consumed when it was found, and stay so), `Spent` (what
  a fetch saw and passed over was consumed), `Fresh` (a fetch never finds
  a key that a fetch before it took away) and `Bookkeeping` (an open insert's rows are not
  yet stored, and each key is in one insert only), which keeps the stamps of
  rows apart from the order in which they become visible.
* `PreKeysProofs`, second part, about `Presence`: `StayersKept`, `CopiesAgree`. `PresenceInv`
  adds what a handler that asks the nodes one by one has heard of the sockets that stayed
  (`Heard`: each is on a node yet to answer, or was seen), and, as long as
  nothing is mixed, that handlers of one kind alone are at work (`OneKind`), that
  who is in the room has been there since they began (`Stays`), and which handler is about
  to correct each copy that does not show a user who has sockets (`Shown`) or shows
  one who has none (`Hidden`).
* `RefreshTokensProofs`: `StoresStayTogether`, `NobodyLosesAToken`, `SpentForGood`, `LogoutsLast`.
  `IInv` adds that a presented token was answered before (`Shape`), that a
  row is created by one request only (`Created`: the unique index), and that
  what a request did to the token it presents is not undone (`Undone`). A token
  is answered only after its key is set, so a key that a rotation deletes
  cannot be set again by the request that created the row: this is why no
  order of two stores and two requests leaves a key for a revoked row.
* `ContactsProofs`: `BlocksLast`, `BlocksStop`, `BlocksEndContacts`,
  `DoublesOnlyOverlapping`. `BlockEndsContact` is not inductive: `IInv` states it of every
  request past the check that may still write a contact (`BlockedLater`), and
  adds that a block between its two writes has deleted the contacts that were
  there when it began (`Deleted`) and that a request that found no row has
  none from before it began (`NotFound`).
* `StoriesProofs`: `MediaMatches`, `StoriesKept`, `ToldShown`, `FeedsInStep`. `IInv`
  adds what each request holds at each of its steps (`Shape`), which story an asset was uploaded for
  (`Owned`), that an image that is gone was destroyed by a deletion of some row that names it
  (`Gone`), and that every view was written by a request, answered or not (`ViewsAnswered`).
* `MessagesProofs`, first part: `UnreadExact`, `LastIsRecent`, and `InboxRefinement`, by which
  `Messages` implements `Inbox`. A counter is the cardinality of
  the messages that count. `IInv` adds that the increments of a
  transaction are written under the lock it holds, and which messages a request
  at work has posted. The query that finds whom to count for is mapped to `Address`, the commit
  to `Post`: that none of those addressed is gone by then is what the locks on their rows
  are for, and who joins in between is not among them.
* `MessagesProofs`, second part, about `Paging`: `PagesComplete`, `PagesDisjoint`, for any rows, ties,
  page size and changes, any private stories and any conversations with the same user.
  `PagingInv` adds that what stays and was not seen is not later than the
  cursor (`Ahead`) and what was seen not earlier (`Behind`); of offsets, that what
  stays and was not seen has at least as many rows before it as were
  skipped (`AheadOfOffset`, as long as no conversation was left or went back), and what was seen
  at most so many (`BehindOffset`), which is where cardinalities come in.
* `MessageContentProofs`, first part: `DeletedIsCleared`, `DeletionsTold`, `AnswersCount`. `IInv` adds
  that an edit at its update is one the deletion races (`EditsRace`), that only a
  toggle looks for a reaction (`FindsReact`), and that a job that may run has
  attempts and a stall left (`TriesLeft`). `AnswersCount` is about the cardinalities of the
  toggles answered added and removed.
* `MessageContentProofs`, second part, about `ServerShutdown`: `JobsFinishFirst`, `ClientsHaveStores`.
  `ServerInv` says how far each shutdown has come and what is closed by then: connections
  are gone before a worker closes, the one shutdown's workers are idle before a
  store does.

In each, initial states satisfy the inductive invariant, every step preserves it (one lemma per
part or per action), and it implies the properties. The invariants were
checked by TLC on the runs' instances before they were proved.

Model-checked only: the liveness properties (`CallerLearns`, `BeatsRepair`,
`Disappears`), since the prover has no rule for fairness.
What a recursive definition computes for all inputs would be out of the prover's
reach, since induction theorems take operators as parameters; no module here
declares a RECURSIVE operator.

## Not modelled

Left out for good: controllers, routes and
validators (stateless: one service call each); rooms and typing events (kept by
Socket.io, relayed without state); notification, e-mail and media workers (they
log or call outside services, and nothing reads a result); clients of outside
services, error formatting and translations. `dispatchEphemeralSweep` has no
caller, so the two sweeps run only if something outside the repository adds
their jobs: the sweep of stories is in `Stories`, that of messages, which does to
each what the purge job does to one, is left out. Within modelled parts: ICE relaying and
SDP, uploads and formatting of messages, password hashing, e-mail of
registration, the hash of safety numbers. Sending a message does not look at blocks.

## Plan

Next, in order of what it would add:

1. Abstract specifications of presence, one Boolean that lags behind the truth, and of
   sessions, a chain of tokens that `RefreshTokens` implements for requests that do not overlap;
   each with the proof that its module implements it.
2. `updateGroupChat` and `toggleMute`, whose columns nothing decides by, and
   the sweep of messages, should anything come to start it.
