------------------------------ MODULE PreKeys ------------------------------
(***************************************************************************)
(* The end-to-end-encryption keys of one device: uploadKeyBundle,          *)
(* refillOneTimePreKeys and getPreKeyBundle of                             *)
(* src/modules/e2ee/e2ee.service.ts.                                       *)
(*                                                                         *)
(* getPreKeyBundle reads the bundle, and then, in a transaction at READ    *)
(* COMMITTED, finds the oldest unconsumed one-time pre-key and marks it    *)
(* consumed by its id.  The find takes no lock, so two transactions may    *)
(* find the same key; the second update waits for the first commit and     *)
(* then sets the same columns again.                                       *)
(*                                                                         *)
(* The rows that createMany inserts carry the time of that call, and are   *)
(* seen by others when its transaction commits: an upload still counts     *)
(* before it does.  So rows may become visible after younger ones.         *)
(***************************************************************************)
EXTENDS Integers

CONSTANTS
    Requests,       \* getPreKeyBundle calls, each slot used once
    Keys,           \* one-time pre-keys of the device, each inserted at most once
    NoKey,
    MaxUploads,     \* bound on the uploadKeyBundle calls that commit
    MaxTime         \* bound on the clock

ASSUME BoundsAssumption == MaxUploads \in Nat /\ MaxTime \in Nat
ASSUME NoKeyAssumption == NoKey \notin Keys

VARIABLES
    version,    \* counts the uploads of the bundle row; 0 for no row
    stored,     \* the one-time pre-key rows that are committed
    batch,      \* createdAt of each one-time pre-key row
    now,        \* the clock that stamps them
    open,       \* createMany calls whose transaction is open
    consumed,   \* the rows with isConsumed
    ahead,      \* not in the code: for each row, those stored when it was committed
    rs          \* the fetches

vars == <<version, stored, batch, now, open, consumed, ahead, rs>>
keyVars == <<version, stored, batch, now, open, ahead>>

\* pc: "find" and "burn" are the queries of the transaction, "reply" has
\* committed, "lost" has committed and failed before the response.  The code
\* has neither field after, the fetches committed before this one began, nor
\* field seen, the rows there were when it read the bundle.
RequestStates ==
    [pc : {"free", "find", "burn", "reply", "done", "lost", "failed"},
     key : Keys \cup {NoKey}, after : SUBSET Requests, seen : SUBSET Keys]

\* The inserts that are not committed.
Inserts == [kind : {"upload", "refill"}, keys : SUBSET Keys, at : Nat]

TypeOK ==
    /\ version \in 0 .. MaxUploads
    /\ stored \in SUBSET Keys
    /\ batch \in [Keys -> Nat]
    /\ now \in Nat
    /\ open \in SUBSET Inserts
    /\ consumed \in SUBSET Keys
    /\ ahead \in [Keys -> SUBSET Keys]
    /\ rs \in [Requests -> RequestStates]

Init ==
    /\ version = 0
    /\ stored = {}
    /\ batch = [k \in Keys |-> 0]
    /\ now = 0
    /\ open = {}
    /\ consumed = {}
    /\ ahead = [k \in Keys |-> {}]
    /\ rs = [r \in Requests |-> [pc |-> "free", key |-> NoKey, after |-> {}, seen |-> {}]]

\* Bad: rows are found whether consumed or not.
BadUnconsumed == stored

Unconsumed == stored \ consumed

\* The fetches whose transaction committed.
Committed == {r \in Requests : rs[r].pc \in {"reply", "done", "lost"}}

-----------------------------------------------------------------------------
(* The owner of the device.                                                *)

\* createMany: the rows of one call have one createdAt, which may be that of
\* another call.
Insert(kind, S) ==
    /\ S \cap (stored \cup UNION {t.keys : t \in open}) = {}
    /\ \E time \in now .. MaxTime :
         /\ now' = time
         /\ open' = open \cup {[kind |-> kind, keys |-> S, at |-> time]}
    /\ UNCHANGED <<version, stored, batch, consumed, ahead, rs>>

\* uploadKeyBundle, up to its count.  The upsert holds the bundle row, or its
\* place in the unique index, until the end of the transaction: one upload at a time.
Upload(S) ==
    /\ version < MaxUploads
    /\ \A t \in open : t.kind # "upload"
    /\ Insert("upload", S)

\* refillOneTimePreKeys: the bundle row is only looked up, and never deleted.
Refill(S) ==
    /\ version # 0
    /\ S # {}
    /\ Insert("refill", S)

\* The transaction commits: the new rows are seen, those of earlier uploads stay.
Commit(t) ==
    /\ open' = open \ {t}
    /\ version' = IF t.kind = "upload" THEN version + 1 ELSE version
    /\ stored' = stored \cup t.keys
    /\ batch' = [k \in Keys |-> IF k \in t.keys THEN t.at ELSE batch[k]]
    /\ ahead' = [k \in Keys |-> IF k \in t.keys THEN stored ELSE ahead[k]]
    /\ UNCHANGED <<now, consumed, rs>>

Rollback(t) ==
    /\ open' = open \ {t}
    /\ UNCHANGED <<version, stored, batch, now, consumed, ahead, rs>>

-----------------------------------------------------------------------------
(* getPreKeyBundle.                                                        *)

ReadBundle(r) ==
    /\ rs[r].pc = "free"
    /\ version # 0
    /\ rs' = [rs EXCEPT ![r].pc = "find", ![r].after = Committed, ![r].seen = stored]
    /\ UNCHANGED <<keyVars, consumed>>

\* Bad: the newest row first.
BadFirst(S) == {k \in S : \A j \in S : batch[j] <= batch[k]}

\* findFirst ordered by createdAt: any row of the oldest batch.
First(S) == {k \in S : \A j \in S : batch[k] <= batch[j]}

FindKey(r) ==
    /\ rs[r].pc = "find"
    /\ \E k \in First(Unconsumed) :
         rs' = [rs EXCEPT ![r].pc = "burn", ![r].key = k]
    /\ UNCHANGED <<keyVars, consumed>>

\* No key left: the bundle goes out without one.
FindNone(r) ==
    /\ rs[r].pc = "find"
    /\ Unconsumed = {}
    /\ rs' = [rs EXCEPT ![r].pc = "reply"]
    /\ UNCHANGED <<keyVars, consumed>>

\* The update and the commit after it.
Burn(r) ==
    /\ rs[r].pc = "burn"
    /\ consumed' = consumed \cup {rs[r].key}
    /\ rs' = [rs EXCEPT ![r].pc = "reply"]
    /\ UNCHANGED keyVars

\* Bad: the queries in no transaction, so a failure after the update undoes nothing.
BadFail(r) ==
    /\ rs[r].pc \in {"find", "burn"}
    /\ consumed' = consumed \cup ({rs[r].key} \ {NoKey})
    /\ rs' = [rs EXCEPT ![r].pc = "failed", ![r].key = NoKey]
    /\ UNCHANGED keyVars

\* The transaction is rolled back: nothing is burned, nothing handed out.
Fail(r) ==
    /\ rs[r].pc \in {"find", "burn"}
    /\ rs' = [rs EXCEPT ![r].pc = "failed", ![r].key = NoKey]
    /\ UNCHANGED <<keyVars, consumed>>

\* The response, or a crash after the commit.
Reply(r) ==
    /\ rs[r].pc = "reply"
    /\ \E pc \in {"done", "lost"} : rs' = [rs EXCEPT ![r].pc = pc]
    /\ UNCHANGED <<keyVars, consumed>>

Fetch(r) == FindKey(r) \/ FindNone(r) \/ Burn(r) \/ Fail(r) \/ Reply(r)

Next ==
    \/ \E S \in SUBSET Keys : Upload(S) \/ Refill(S)
    \/ \E t \in open : Commit(t) \/ Rollback(t)
    \/ \E r \in Requests : ReadBundle(r) \/ Fetch(r)

Spec == Init /\ [][Next]_vars

-----------------------------------------------------------------------------
(* Properties.                                                             *)

\* The consumed rows are exactly the keys that committed fetches hold: no
\* key goes out unburned, and none is burned for a fetch that was rolled
\* back (e2ee.service.ts:166-186).
BurnedWhenGiven ==
    consumed = {rs[r].key : r \in Committed} \ {NoKey}

\* Keys are used up in the order they were created, also by fetches that
\* overlap: no key is consumed while one is not that was created before it and
\* committed no later (e2ee.service.ts:167-173).
OldestFirst ==
    \A k \in consumed : \A j \in ahead[k] : batch[j] < batch[k] => j \in consumed

\* The bundle goes out as it was read, though an upload may have replaced it by the
\* time the key is found.  Of the keys there were when it was read, those created
\* before the key that goes out with it, or all when none does, went to other
\* fetches, whatever was uploaded, refilled or committed late in between
\* (e2ee.service.ts:152-176).
EarlierKeysSpent ==
    \A r \in Committed : \A k \in rs[r].seen :
        rs[r].key = NoKey \/ batch[k] < batch[rs[r].key] =>
            \E q \in Committed \ {r} : rs[q].key = k

\* The committed fetches with a key, and who got which.
Keyed == {r \in Committed : rs[r].key # NoKey}
Given == {<<r, rs[r].key>> : r \in Keyed}

\* The service implements a pool of one-time keys: a key goes to two fetches
\* only if neither had committed when the other began, and a fetch goes
\* without one only when every key is spent (e2ee.service.ts:149-209).
Pool ==
    INSTANCE KeyPool WITH
        begun <- {r \in Requests : rs[r].pc # "free"},
        after <- [r \in Requests |-> rs[r].after],
        given <- Given,
        refused <- Committed \ Keyed

ImplementsPool == Pool!Spec

\* "Atomically fetches the Identity Key, Signed PreKey, and consumes (burns) 1
\* One-Time PreKey from the recipient's pool", e2ee.service.ts:143-144, and
\* "Atomically find and consume one available OPK", 165: no key is handed out
\* twice.
HandedOnce ==
    \A r, q \in Requests : r # q /\ rs[r].pc = "done" /\ rs[q].pc = "done" =>
        rs[r].key = NoKey \/ rs[r].key # rs[q].key
=============================================================================
