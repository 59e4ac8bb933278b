---------------------------- MODULE PreKeysProofs ----------------------------
(***************************************************************************)
(* Proofs about two parts that share nothing: the pre-keys of a device,    *)
(* for any number of fetches, keys and uploads and any overlap of the      *)
(* fetches and of the transactions that create keys, with the inductive    *)
(* invariant IInv; and then the presence of a user, with PresenceInv.      *)
(***************************************************************************)
EXTENDS PreKeys, Presence, TLAPS

\* Rows are created before they are committed, each in one transaction; what a
\* fetch saw and what a row was committed behind stays stored.
Bookkeeping ==
    /\ consumed \subseteq stored
    /\ \A k \in stored : ahead[k] \subseteq stored
    /\ \A t \in open : t.keys \cap stored = {}
    /\ \A t, u \in open : t # u =>
         /\ t.keys \cap u.keys = {}
         /\ t.kind = "refill" \/ u.kind = "refill"
    /\ \A t \in open : t.kind = "upload" => version < MaxUploads
    /\ \A r \in Requests :
         /\ rs[r].pc \in {"free", "find"} => rs[r].key = NoKey
         /\ rs[r].seen \subseteq stored

\* A fetch that found a key found the oldest: the older ones of those it saw, and
\* of those the key was committed behind, were consumed then, and stay so.
FoundOldest ==
    \A r \in Requests : rs[r].pc = "burn" =>
        /\ rs[r].key \in stored
        /\ \A j \in ahead[rs[r].key] \cup rs[r].seen :
               batch[j] < batch[rs[r].key] => j \in consumed

\* What a committed fetch saw and passed over was consumed.
Spent ==
    \A r \in Committed : \A k \in rs[r].seen :
        rs[r].key = NoKey \/ batch[k] < batch[rs[r].key] => k \in consumed

\* A fetch found a key that none of the fetches before it took away.
Fresh ==
    \A r \in Requests :
        /\ rs[r].after \subseteq Committed
        /\ rs[r].pc = "burn" => \A q \in rs[r].after : rs[q].key # rs[r].key

IInv ==
    /\ TypeOK /\ Bookkeeping /\ FoundOldest /\ OldestFirst
    /\ BurnedWhenGiven /\ Spent /\ Fresh

LEMMA InvInit == Init => IInv
    BY BoundsAssumption
    DEF Init, IInv, TypeOK, RequestStates, Inserts, Bookkeeping, FoundOldest, OldestFirst,
        BurnedWhenGiven, Spent, Fresh, Committed

\* An open transaction is seen by nobody.
LEMMA InsertFields ==
    ASSUME TypeOK, NEW kind \in {"upload", "refill"}, NEW S \in SUBSET Keys, Insert(kind, S)
    PROVE  /\ UNCHANGED <<version, stored, batch, consumed, ahead, rs>>
           /\ now' \in Nat
           /\ \E t \in Inserts :
                 /\ open' = open \cup {t} /\ t.keys = S /\ t.kind = kind
                 /\ S \cap stored = {}
                 /\ \A u \in open : u.keys \cap S = {}
<1>1. PICK time \in now .. MaxTime :
        now' = time /\ open' = open \cup {[kind |-> kind, keys |-> S, at |-> time]}
    BY DEF Insert
<1>2. time \in Nat
    BY BoundsAssumption DEF TypeOK
<1> DEFINE t == [kind |-> kind, keys |-> S, at |-> time]
<1>3. t \in Inserts /\ t.keys = S /\ t.kind = kind
    BY <1>2 DEF Inserts
<1>4. S \cap stored = {} /\ \A u \in open : u.keys \cap S = {}
    BY DEF Insert
<1> QED
    BY <1>1, <1>2, <1>3, <1>4 DEF Insert

LEMMA InsertKeeps ==
    ASSUME IInv, NEW S \in SUBSET Keys, Upload(S) \/ Refill(S)
    PROVE  IInv'
<1> USE DEF IInv
<1>1. PICK kind \in {"upload", "refill"} :
        /\ Insert(kind, S)
        /\ kind = "upload" => version < MaxUploads /\ \A u \in open : u.kind # "upload"
    BY DEF Upload, Refill
<1>2. UNCHANGED <<version, stored, batch, consumed, ahead, rs>> /\ now' \in Nat
    BY <1>1, InsertFields
<1>3. PICK t \in Inserts : /\ open' = open \cup {t} /\ t.keys = S /\ t.kind = kind
                           /\ S \cap stored = {}
                           /\ \A u \in open : u.keys \cap S = {}
    BY <1>1, InsertFields
<1>4. TypeOK'
    BY <1>2, <1>3 DEF TypeOK
<1>5. \A u \in open : u.kind = "upload" \/ u.kind = "refill"
    BY DEF TypeOK, Inserts
<1>6. Bookkeeping'
    BY <1>1, <1>2, <1>3, <1>5 DEF Bookkeeping
<1> QED
    BY <1>2, <1>4, <1>6
    DEF FoundOldest, OldestFirst, BurnedWhenGiven, Spent, Fresh, Committed

\* The rows that were there stay as they were.
LEMMA CommitFields ==
    ASSUME TypeOK, Bookkeeping, NEW t \in open, Commit(t)
    PROVE  /\ t \in Inserts
           /\ stored' = stored \cup t.keys
           /\ \A k \in stored : batch'[k] = batch[k] /\ ahead'[k] = ahead[k]
           /\ \A k \in t.keys : ahead'[k] = stored
           /\ UNCHANGED <<now, consumed, rs>>
           /\ open' = open \ {t}
<1>1. t \in Inserts /\ t.keys \cap stored = {} /\ t.keys \subseteq Keys
    BY DEF TypeOK, Inserts, Bookkeeping
<1>2. \A k \in stored : k \in Keys /\ k \notin t.keys
    BY <1>1 DEF TypeOK
<1> QED
    BY <1>1, <1>2 DEF Commit

LEMMA CommitKeeps ==
    ASSUME IInv, NEW t \in open, Commit(t)
    PROVE  IInv'
<1> USE DEF IInv
<1>1. /\ t \in Inserts
      /\ stored' = stored \cup t.keys
      /\ \A k \in stored : batch'[k] = batch[k] /\ ahead'[k] = ahead[k]
      /\ \A k \in t.keys : ahead'[k] = stored
      /\ UNCHANGED <<now, consumed, rs>>
      /\ open' = open \ {t}
    BY CommitFields
<1>2. t.keys \in SUBSET Keys /\ t.at \in Nat /\ t.kind \in {"upload", "refill"}
    BY <1>1 DEF Inserts
<1>3. /\ version' = IF t.kind = "upload" THEN version + 1 ELSE version
      /\ version' \in 0 .. MaxUploads
    BY <1>2, BoundsAssumption DEF Commit, TypeOK, Bookkeeping
<1>4. TypeOK'
  <2>1. batch' \in [Keys -> Nat] /\ ahead' \in [Keys -> SUBSET Keys]
    BY <1>2 DEF Commit, TypeOK
  <2> QED
    BY <1>1, <1>2, <1>3, <2>1 DEF TypeOK
<1>5. Bookkeeping'
  <2>1. /\ consumed' \subseteq stored'
        /\ \A k \in stored' : ahead'[k] \subseteq stored'
    BY <1>1 DEF Bookkeeping
  <2>2. \A u \in open' : u.keys \cap stored' = {}
    BY <1>1 DEF Bookkeeping
  <2>3. \A u \in open' : u.kind = "upload" => version' < MaxUploads
    BY <1>1, <1>2, <1>3 DEF Bookkeeping
  <2>4. \A u, v \in open' : u # v =>
            u.keys \cap v.keys = {} /\ (u.kind = "refill" \/ v.kind = "refill")
    BY <1>1 DEF Bookkeeping
  <2>5. \A r \in Requests :
            /\ rs'[r].pc \in {"free", "find"} => rs'[r].key = NoKey
            /\ rs'[r].seen \subseteq stored'
    BY <1>1 DEF Bookkeeping
  <2> QED
    BY <2>1, <2>2, <2>3, <2>4, <2>5 DEF Bookkeeping
<1>6. FoundOldest'
    BY <1>1 DEF FoundOldest, Bookkeeping
<1>7. OldestFirst'
    BY <1>1 DEF OldestFirst, Bookkeeping
<1>8. BurnedWhenGiven' /\ Fresh' /\ Committed' = Committed
    BY <1>1 DEF BurnedWhenGiven, Fresh, Committed
<1>9. Spent'
  <2>1. ASSUME NEW r \in Committed, NEW k \in rs[r].seen,
               rs[r].key = NoKey \/ batch'[k] < batch'[rs[r].key]
        PROVE  k \in consumed
    <3>1. k \in stored /\ (rs[r].key = NoKey \/ rs[r].key \in stored)
      BY DEF Bookkeeping, BurnedWhenGiven, Committed
    <3> QED
      BY <1>1, <2>1, <3>1 DEF Spent
  <2> QED
    BY <1>1, <1>8, <2>1 DEF Spent
<1> QED
    BY <1>4, <1>5, <1>6, <1>7, <1>8, <1>9

LEMMA RollbackKeeps ==
    ASSUME IInv, NEW t \in open, Rollback(t)
    PROVE  IInv'
    BY DEF Rollback, IInv, TypeOK, Bookkeeping, FoundOldest, OldestFirst, BurnedWhenGiven, Spent,
           Fresh, Committed

-----------------------------------------------------------------------------
(* The fetches.                                                            *)

\* A committed fetch keeps its key and stays committed.
LEMMA CommittedStays ==
    ASSUME TypeOK, [Next]_vars
    PROVE  /\ Committed \subseteq Committed'
           /\ \A q \in Committed : rs'[q].key = rs[q].key
<1> SUFFICES ASSUME NEW q \in Committed
             PROVE  q \in Committed' /\ rs'[q].key = rs[q].key
    OBVIOUS
<1> USE DEF Committed
<1>1. CASE rs' = rs
    BY <1>1
<1>2. ASSUME NEW r \in Requests, Reply(r)
      PROVE  q \in Committed' /\ rs'[q].key = rs[q].key
    BY <1>2 DEF Reply, TypeOK, RequestStates
<1>3. ASSUME NEW r \in Requests,
             ReadBundle(r) \/ FindKey(r) \/ FindNone(r) \/ Burn(r) \/ Fail(r)
      PROVE  rs'[q] = rs[q]
    BY <1>3 DEF ReadBundle, FindKey, FindNone, Burn, Fail, TypeOK
<1>4. rs' = rs \/ \E r \in Requests : ReadBundle(r) \/ Fetch(r)
    BY DEF Next, vars, Upload, Refill, Insert, Commit, Rollback
<1> QED
    BY <1>1, <1>2, <1>3, <1>4 DEF Fetch

\* Which action a fetch took, if it moved.
LEMMA Moved ==
    ASSUME TypeOK, [Next]_vars, NEW r \in Requests
    PROVE  \/ rs'[r] = rs[r]
           \/ ReadBundle(r) \/ FindKey(r)
           \/ FindNone(r) \/ Burn(r) \/ Fail(r) \/ Reply(r)
<1>1. rs' = rs \/ \E q \in Requests : ReadBundle(q) \/ Fetch(q)
    BY DEF Next, vars, Upload, Refill, Insert, Commit, Rollback
<1>2. ASSUME NEW q \in Requests, q # r, ReadBundle(q) \/ Fetch(q)
      PROVE  rs'[r] = rs[r]
    BY <1>2 DEF ReadBundle, Fetch, FindKey, FindNone, Burn, Fail, Reply, TypeOK
<1> QED
    BY <1>1, <1>2 DEF Fetch

LEMMA FreshNext ==
    ASSUME TypeOK, NoKey \notin Keys, BurnedWhenGiven, Bookkeeping, Fresh, [Next]_vars
    PROVE  Fresh'
<1> USE DEF Fresh
<1> SUFFICES ASSUME NEW r \in Requests
             PROVE  /\ rs'[r].after \subseteq Committed'
                    /\ rs'[r].pc = "burn" =>
                          \A q \in rs'[r].after : rs'[q].key # rs'[r].key
    OBVIOUS
<1>1. CASE rs'[r] = rs[r]
    BY <1>1, CommittedStays
<1>2. CASE ReadBundle(r)
    BY <1>2, CommittedStays DEF ReadBundle, TypeOK, RequestStates
<1>3. CASE FindKey(r)
  <2>1. PICK k \in First(Unconsumed) :
            rs' = [rs EXCEPT ![r].pc = "burn", ![r].key = k]
    BY <1>3 DEF FindKey
  <2>2. k \in Keys /\ k \notin consumed
    BY <2>1 DEF First, Unconsumed, TypeOK
  <2>3. \A q \in rs[r].after : rs[q].key # k
    BY <2>2 DEF BurnedWhenGiven
  <2>4. rs'[r].key = k /\ rs'[r].after = rs[r].after
    BY <2>1 DEF TypeOK, RequestStates
  <2> QED
    BY <2>3, <2>4, CommittedStays
<1>4. CASE FindNone(r) \/ Burn(r) \/ Fail(r) \/ Reply(r)
  <2>1. rs'[r].after = rs[r].after /\ rs'[r].pc # "burn"
    BY <1>4 DEF FindNone, Burn, Fail, Reply, TypeOK, RequestStates
  <2> QED
    BY <2>1, CommittedStays
<1> QED
    BY <1>1, <1>2, <1>3, <1>4, Moved

LEMMA FindKeeps ==
    ASSUME IInv, Fresh', NEW r \in Requests, FindKey(r)
    PROVE  IInv'
<1> USE DEF IInv
<1>1. PICK k \in First(Unconsumed) :
            rs' = [rs EXCEPT ![r].pc = "burn", ![r].key = k]
    BY DEF FindKey
<1>2. /\ k \in stored /\ k \in Keys
      /\ \A j \in stored : batch[j] < batch[k] => j \in consumed
    BY <1>1 DEF First, Unconsumed, TypeOK
<1>3. /\ rs'[r].pc = "burn" /\ rs'[r].key = k /\ rs'[r].seen = rs[r].seen
      /\ rs'[r].after = rs[r].after
      /\ \A q \in Requests : q # r => rs'[q] = rs[q]
    BY <1>1 DEF TypeOK, RequestStates
<1>4. UNCHANGED <<keyVars, consumed>> /\ rs[r].pc = "find"
    BY DEF FindKey
<1>5. Committed' = Committed /\ \A q \in Committed : rs'[q] = rs[q]
    BY <1>3, <1>4 DEF Committed
<1>6. TypeOK'
  <2>3. rs[r] \in RequestStates
    BY DEF TypeOK
  <2>1. [rs[r] EXCEPT !.pc = "burn", !.key = k] \in RequestStates
    BY <1>2, <2>3 DEF RequestStates
  <2>2. rs' \in [Requests -> RequestStates]
    BY <1>1, <2>1 DEF TypeOK
  <2> QED
    BY <1>4, <2>2 DEF TypeOK, keyVars
<1>7. Bookkeeping'
    BY <1>3, <1>4 DEF Bookkeeping, keyVars
<1>8. FoundOldest'
    BY <1>2, <1>3, <1>4 DEF FoundOldest, Bookkeeping, keyVars
<1>9. OldestFirst' /\ BurnedWhenGiven'
    BY <1>4, <1>5 DEF OldestFirst, BurnedWhenGiven, keyVars
<1>10. Spent'
    BY <1>4, <1>5 DEF Spent, keyVars
<1> QED
    BY <1>6, <1>7, <1>8, <1>9, <1>10

LEMMA NoneKeeps ==
    ASSUME IInv, Fresh', NEW r \in Requests, FindNone(r)
    PROVE  IInv'
<1> USE DEF IInv
<1>1. /\ rs'[r].pc = "reply" /\ rs'[r].key = NoKey /\ rs'[r].seen = rs[r].seen
      /\ \A q \in Requests : q # r => rs'[q] = rs[q]
      /\ UNCHANGED <<keyVars, consumed>>
      /\ rs[r].pc = "find"
    BY DEF FindNone, TypeOK, RequestStates, Bookkeeping
<1>2. Committed' = Committed \cup {r} /\ \A q \in Committed : rs'[q] = rs[q]
    BY <1>1 DEF Committed
<1>3. {rs'[q].key : q \in Committed'} \ {NoKey} = {rs[q].key : q \in Committed} \ {NoKey}
    BY <1>1, <1>2
<1>4. BurnedWhenGiven'
    BY <1>1, <1>3 DEF BurnedWhenGiven
<1>5. TypeOK'
  <2>1. rs' \in [Requests -> RequestStates]
    BY DEF FindNone, TypeOK, RequestStates
  <2> QED
    BY <1>1, <2>1 DEF TypeOK, keyVars
<1>6. Bookkeeping' /\ FoundOldest' /\ OldestFirst'
    BY <1>1 DEF Bookkeeping, FoundOldest, OldestFirst, keyVars
\* Everything there is was consumed, what the fetch saw included.
<1>7. \A k \in rs[r].seen : k \in consumed
    BY DEF FindNone, Unconsumed, Bookkeeping
<1>8. Spent'
    BY <1>1, <1>2, <1>7 DEF Spent, keyVars
<1> QED
    BY <1>4, <1>5, <1>6, <1>8

LEMMA BurnKeeps ==
    ASSUME IInv, Fresh', NEW r \in Requests, Burn(r)
    PROVE  IInv'
<1> USE DEF IInv
<1> DEFINE k == rs[r].key
<1>1. /\ rs'[r].pc = "reply" /\ rs'[r].key = k /\ rs'[r].seen = rs[r].seen
      /\ \A q \in Requests : q # r => rs'[q] = rs[q]
      /\ UNCHANGED keyVars
      /\ consumed' = consumed \cup {k}
      /\ rs[r].pc = "burn"
    BY DEF Burn, TypeOK, RequestStates
<1>2. /\ k \in stored /\ k \in Keys /\ k # NoKey
      /\ \A j \in ahead[k] \cup rs[r].seen : batch[j] < batch[k] => j \in consumed
    BY <1>1, NoKeyAssumption DEF FoundOldest, TypeOK
<1>3. Committed' = Committed \cup {r} /\ \A q \in Committed : rs'[q] = rs[q]
    BY <1>1 DEF Committed
<1>4. {rs'[q].key : q \in Committed'} = {rs[q].key : q \in Committed} \cup {k}
    BY <1>1, <1>3
<1>5. BurnedWhenGiven'
    BY <1>1, <1>2, <1>4 DEF BurnedWhenGiven
<1>6. TypeOK'
  <2>1. rs' \in [Requests -> RequestStates]
    BY DEF Burn, TypeOK, RequestStates
  <2> QED
    BY <1>1, <1>2, <2>1 DEF TypeOK, keyVars
<1>7. Bookkeeping'
    BY <1>1, <1>2 DEF Bookkeeping, keyVars
<1>8. FoundOldest'
    BY <1>1 DEF FoundOldest, keyVars
<1>9. OldestFirst'
    BY <1>1, <1>2 DEF OldestFirst, keyVars
<1>10. Spent'
    BY <1>1, <1>2, <1>3 DEF Spent, keyVars
<1> QED
    BY <1>5, <1>6, <1>7, <1>8, <1>9, <1>10

LEMMA OthersKeep ==
    ASSUME IInv, Fresh', NEW r \in Requests, ReadBundle(r) \/ Fail(r) \/ Reply(r)
    PROVE  IInv'
<1> USE DEF IInv
<1>1. /\ rs'[r].pc \notin {"find", "burn"} \/ ReadBundle(r)
      /\ rs'[r].pc # "burn" /\ (rs'[r].pc \in {"free", "find"} => rs'[r].key = NoKey)
      /\ rs'[r].seen = rs[r].seen \/ rs'[r].seen = stored
      /\ \A q \in Requests : q # r => rs'[q] = rs[q]
      /\ UNCHANGED <<keyVars, consumed>>
    BY DEF ReadBundle, Fail, Reply, TypeOK, RequestStates, Bookkeeping
<1>2. /\ Committed' = Committed
      /\ \A q \in Committed : rs'[q].key = rs[q].key /\ rs'[q].seen = rs[q].seen
  <2>1. CASE ReadBundle(r) \/ Fail(r)
    <3>1. rs[r].pc \in {"free", "find", "burn"} /\ rs'[r].pc \in {"find", "failed"}
      BY <2>1 DEF ReadBundle, Fail, TypeOK, RequestStates
    <3> QED
      BY <1>1, <3>1 DEF Committed
  <2>2. CASE Reply(r)
    <3>1. /\ rs[r].pc = "reply" /\ rs'[r].pc \in {"done", "lost"}
          /\ rs'[r].key = rs[r].key /\ rs'[r].seen = rs[r].seen
      BY <2>2 DEF Reply, TypeOK, RequestStates
    <3> QED
      BY <1>1, <3>1 DEF Committed
  <2> QED
    BY <2>1, <2>2
<1>3. BurnedWhenGiven' /\ OldestFirst' /\ Spent'
  <2>1. {rs'[q].key : q \in Committed'} = {rs[q].key : q \in Committed}
    BY <1>2
  <2> QED
    BY <1>1, <1>2, <2>1 DEF BurnedWhenGiven, OldestFirst, Spent, keyVars
<1>4. Bookkeeping' /\ FoundOldest'
    BY <1>1 DEF Bookkeeping, FoundOldest, keyVars
<1>5. rs' \in [Requests -> RequestStates]
  <2>1. CASE Fail(r) \/ Reply(r)
    BY <2>1 DEF Fail, Reply, TypeOK, RequestStates
  <2>2. CASE ReadBundle(r)
    <3> DEFINE x == [rs[r] EXCEPT !.pc = "find", !.after = Committed, !.seen = stored]
    <3>1. rs[r] \in RequestStates /\ Committed \subseteq Requests
      BY DEF Committed, TypeOK
    <3>2. x \in RequestStates
      BY <3>1 DEF RequestStates, TypeOK
    <3>3. rs' = [rs EXCEPT ![r] = x]
      BY <2>2, <3>1 DEF ReadBundle, RequestStates, TypeOK
    <3> QED
      BY <3>2, <3>3 DEF TypeOK
  <2> QED
    BY <2>1, <2>2
<1>6. TypeOK'
    BY <1>1, <1>5 DEF TypeOK, keyVars
<1> QED
    BY <1>3, <1>4, <1>6

LEMMA InvNext ==
    ASSUME IInv, [Next]_vars
    PROVE  IInv'
<1>1. Fresh'
    BY FreshNext, NoKeyAssumption DEF IInv
<1>2. CASE UNCHANGED vars
    BY <1>2 DEF vars, IInv, TypeOK, Bookkeeping, FoundOldest, OldestFirst, BurnedWhenGiven,
                Spent, Fresh, Committed
<1> QED
    BY <1>1, <1>2, InsertKeeps, CommitKeeps, RollbackKeeps, FindKeeps, NoneKeeps, BurnKeeps,
       OthersKeep DEF Next, Fetch

THEOREM Invariant == Spec => []IInv
    BY InvInit, InvNext, PTL DEF Spec

\* Key bundles, pre-keys, open transactions and fetches keep their types
\* (prisma/schema/e2ee.prisma).
THEOREM TypeCorrect == Spec => []TypeOK
<1>1. IInv => TypeOK
    BY DEF IInv
<1> QED
    BY <1>1, Invariant, PTL

\* The consumed rows are exactly the keys of the committed fetches.
THEOREM BurnedExactly == Spec => []BurnedWhenGiven
<1>1. IInv => BurnedWhenGiven
    BY DEF IInv
<1> QED
    BY <1>1, Invariant, PTL

\* Keys are used up in the order of their creation, however fetches overlap, but for
\* one whose transaction commits after that of a younger one.
THEOREM UsedInOrder == Spec => []OldestFirst
<1>1. IInv => OldestFirst
    BY DEF IInv
<1> QED
    BY <1>1, Invariant, PTL

\* What a fetch saw and passed over is consumed, and so some committed fetch's:
\* not its own.
LEMMA SpentByOthers == IInv => EarlierKeysSpent
<1> SUFFICES ASSUME IInv, NEW r \in Committed, NEW k \in rs[r].seen,
                    rs[r].key = NoKey \/ batch[k] < batch[rs[r].key]
             PROVE  \E q \in Committed \ {r} : rs[q].key = k
    BY DEF EarlierKeysSpent
<1> USE DEF IInv
<1>1. k \in consumed /\ k \in Keys /\ k # NoKey
    BY NoKeyAssumption DEF Spent, TypeOK
<1>2. k # rs[r].key
  <2>1. batch[k] \in Nat
    BY <1>1 DEF TypeOK
  <2> QED
    BY <1>1, <2>1
<1>3. PICK q \in Committed : rs[q].key = k
    BY <1>1 DEF BurnedWhenGiven
<1> QED
    BY <1>2, <1>3

\* Of the keys there were when a bundle was read, those created before the key that
\* goes out with it, or all when none does, went to other fetches, for any uploads,
\* refills and fetches at a time and however late they commit
\* (e2ee.service.ts:152-176).
THEOREM NoKeyPassedOver == Spec => []EarlierKeysSpent
    BY Invariant, SpentByOthers, PTL

-----------------------------------------------------------------------------
(* Who shares a key.                                                       *)

\* A fetch keeps the key it was given, which none before it has.
Apart ==
    \A r \in Keyed : \A q \in rs[r].after : rs[q].key # rs[r].key

LEMMA ApartNext ==
    ASSUME IInv, Apart, [Next]_vars
    PROVE  Apart'
<1> USE DEF IInv
<1> SUFFICES ASSUME NEW r \in Keyed'
             PROVE  \A q \in rs'[r].after : rs'[q].key # rs'[r].key
    BY DEF Apart
<1>1. r \in Requests /\ r \in Committed' /\ rs'[r].key # NoKey
    BY DEF Keyed, Committed
<1>2. CASE r \in Committed
  <2>1. rs'[r].key = rs[r].key /\ r \in Keyed
    BY <1>1, <1>2, CommittedStays DEF Keyed
  <2>2. rs'[r].after = rs[r].after
    <3>1. \/ rs'[r] = rs[r]
          \/ ReadBundle(r) \/ FindKey(r) \/ FindNone(r) \/ Burn(r) \/ Fail(r) \/ Reply(r)
      BY <1>1, Moved
    <3>2. rs'[r] = rs[r] \/ Reply(r)
      BY <1>2, <3>1 DEF Committed, ReadBundle, FindKey, FindNone, Burn, Fail
    <3> QED
      BY <1>1, <3>2 DEF Reply, TypeOK, RequestStates
  <2>3. rs[r].after \subseteq Committed
    BY <1>1 DEF Fresh
  <2> QED
    BY <2>1, <2>2, <2>3, CommittedStays DEF Apart
<1>3. CASE r \notin Committed
  <2>1. Burn(r) \/ FindNone(r)
    <3>1. rs'[r] # rs[r]
      BY <1>1, <1>3 DEF Committed
    <3>2. \/ ReadBundle(r) \/ FindKey(r) \/ FindNone(r) \/ Burn(r) \/ Fail(r) \/ Reply(r)
      BY <1>1, <3>1, Moved
    <3>3. ASSUME ReadBundle(r) \/ FindKey(r) \/ Fail(r) PROVE r \notin Committed'
      BY <1>1, <3>3 DEF ReadBundle, FindKey, Fail, Committed, TypeOK, RequestStates
    <3>4. ~Reply(r)
      BY <1>1, <1>3 DEF Reply, Committed
    <3> QED
      BY <1>1, <3>2, <3>3, <3>4
  <2>2. rs'[r].key = rs[r].key /\ rs'[r].after = rs[r].after
    BY <1>1, <2>1 DEF Burn, FindNone, TypeOK, RequestStates
  <2>3. ~FindNone(r)
    BY <1>1, <2>2 DEF FindNone, Bookkeeping
  <2>4. rs[r].pc = "burn"
    BY <2>1, <2>3 DEF Burn
  <2> QED
    BY <1>1, <2>2, <2>4, CommittedStays DEF Fresh
<1> QED
    BY <1>2, <1>3

\* What is true of handing a key out once: two fetches are given the same key only if
\* neither had committed when the other began (e2ee.service.ts:165-186).
THEOREM SharedOnlyOverlapping ==
    Spec => [](\A r, q \in Keyed : rs[r].key = rs[q].key =>
                 q \notin rs[r].after /\ r \notin rs[q].after)
<1>1. Init => Apart
    BY DEF Init, Apart, Keyed, Committed
<1>2. IInv /\ Apart /\ [Next]_vars => Apart'
    BY ApartNext
<1>3. Apart => \A r, q \in Keyed : rs[r].key = rs[q].key =>
                   q \notin rs[r].after /\ r \notin rs[q].after
    BY DEF Apart
<1> QED
    BY <1>1, <1>2, <1>3, Invariant, PTL DEF Spec

-----------------------------------------------------------------------------
(* The refinement of the pool.                                             *)

LEMMA PoolInit == Init => Pool!Init
    BY DEF Init, Pool!Init, Committed, Keyed, Given

LEMMA GivenStays ==
    ASSUME Committed' = Committed, \A q \in Committed : rs'[q].key = rs[q].key
    PROVE  Keyed' = Keyed /\ Given' = Given
<1>1. Keyed' = Keyed
    BY DEF Keyed
<1>2. \A q \in Keyed : rs'[q].key = rs[q].key
    BY DEF Keyed
<1> QED
    BY <1>1, <1>2 DEF Given

\* A commit puts the keys of its transaction into the pool.
LEMMA PoolPut ==
    ASSUME TypeOK, Bookkeeping, NEW t \in open, Commit(t)
    PROVE  \E S \in SUBSET Keys : Pool!Put(S)
<1>1. t.keys \in SUBSET Keys
    BY DEF TypeOK, Inserts
<1>2. stored' = stored \cup t.keys /\ rs' = rs
    BY DEF Commit
<1>3. Pool!Put(t.keys)
    BY <1>2 DEF Pool!Put, Committed, Keyed, Given
<1> QED
    BY <1>1, <1>3

LEMMA PoolBegin ==
    ASSUME TypeOK, NEW r \in Requests, ReadBundle(r)
    PROVE  Pool!Begin(r)
<1>1. /\ rs' = [rs EXCEPT ![r].pc = "find", ![r].after = Committed, ![r].seen = stored]
      /\ rs[r].pc = "free"
      /\ stored' = stored
    BY DEF ReadBundle, keyVars
<1>2. Committed' = Committed /\ \A q \in Committed : rs'[q].key = rs[q].key
    BY <1>1 DEF Committed, TypeOK, RequestStates
<1>3. {q \in Requests : rs'[q].pc # "free"} = {q \in Requests : rs[q].pc # "free"} \cup {r}
    BY <1>1 DEF TypeOK, RequestStates
<1>4. [q \in Requests |-> rs'[q].after]
        = [[q \in Requests |-> rs[q].after] EXCEPT ![r] = Committed]
    BY <1>1 DEF TypeOK, RequestStates
<1>5. Pool!Answered = Committed
  <2>1. \A g \in Given : g[1] \in Keyed
    BY DEF Given
  <2>2. \A q \in Keyed : <<q, rs[q].key>> \in Given /\ <<q, rs[q].key>>[1] = q
    BY DEF Given
  <2>3. {g[1] : g \in Given} = Keyed
    BY <2>1, <2>2
  <2> QED
    BY <2>3 DEF Pool!Answered, Keyed
<1> QED
    BY <1>1, <1>2, <1>3, <1>4, <1>5, GivenStays DEF Pool!Begin

LEMMA PoolTake ==
    ASSUME IInv, NEW r \in Requests, Burn(r)
    PROVE  Pool!Take(r, rs[r].key)
<1> DEFINE k == rs[r].key
<1>1. /\ rs' = [rs EXCEPT ![r].pc = "reply"]
      /\ rs[r].pc = "burn"
      /\ stored' = stored
    BY DEF Burn, keyVars
<1>2. /\ rs'[r].key = k /\ rs'[r].pc = "reply"
      /\ \A q \in Requests : q # r => rs'[q] = rs[q]
      /\ \A q \in Requests : rs'[q].after = rs[q].after
      /\ \A q \in Requests : rs'[q].pc = "free" <=> rs[q].pc = "free"
    BY <1>1 DEF IInv, TypeOK, RequestStates
<1>3. k \in stored /\ k # NoKey
    BY <1>1, NoKeyAssumption DEF IInv, FoundOldest, TypeOK
<1>4. Committed' = Committed \cup {r} /\ r \notin Committed
    BY <1>1, <1>2 DEF Committed
<1>5. \A q \in rs[r].after : rs[q].key # k
    BY <1>1 DEF IInv, Fresh
<1>6. Keyed' = Keyed \cup {r} /\ r \notin Keyed
  <2>1. \A q \in Committed : rs'[q].key = rs[q].key
    BY <1>2, <1>4 DEF Committed
  <2>2. Keyed' = {q \in Committed \cup {r} : rs'[q].key # NoKey}
    BY <1>4 DEF Keyed
  <2>3. \A q : q \in Keyed' <=> q \in Keyed \cup {r}
    BY <1>2, <1>3, <2>1, <2>2 DEF Keyed
  <2> QED
    BY <1>4, <2>3 DEF Keyed
<1>7. \A q \in Keyed : rs'[q] = rs[q]
    BY <1>2, <1>6 DEF Keyed, Committed
<1>8. Given' = Given \cup {<<r, k>>}
    BY <1>2, <1>6, <1>7 DEF Given
<1>9. Committed' \ Keyed' = Committed \ Keyed
    BY <1>4, <1>6
<1>10. Pool!Waiting(r)
  <2>1. r \notin {g[1] : g \in Given}
    BY <1>6 DEF Given
  <2> QED
    BY <1>1, <1>4, <2>1 DEF Pool!Waiting, Pool!Answered
<1>11. \A q \in rs[r].after : <<q, k>> \notin Given
    BY <1>5 DEF Given
<1> QED
    BY <1>1, <1>2, <1>3, <1>8, <1>9, <1>10, <1>11 DEF Pool!Take

LEMMA PoolRefuse ==
    ASSUME IInv, NEW r \in Requests, FindNone(r)
    PROVE  Pool!Refuse(r)
<1>1. /\ rs' = [rs EXCEPT ![r].pc = "reply"]
      /\ rs[r].pc = "find"
      /\ stored' = stored
      /\ Unconsumed = {}
    BY DEF FindNone, keyVars
<1>2. /\ rs'[r].key = NoKey /\ rs'[r].pc = "reply"
      /\ \A q \in Requests : q # r => rs'[q] = rs[q]
      /\ \A q \in Requests : rs'[q].after = rs[q].after
      /\ \A q \in Requests : rs'[q].pc = "free" <=> rs[q].pc = "free"
    BY <1>1 DEF IInv, TypeOK, RequestStates, Bookkeeping
<1>3. Committed' = Committed \cup {r} /\ r \notin Committed
    BY <1>1, <1>2 DEF Committed
<1>4. Keyed' = Keyed /\ r \notin Keyed
  <2>1. \A q \in Committed : rs'[q].key = rs[q].key
    BY <1>2, <1>3 DEF Committed
  <2>2. Keyed' = {q \in Committed \cup {r} : rs'[q].key # NoKey}
    BY <1>3 DEF Keyed
  <2>3. \A q : q \in Keyed' <=> q \in Keyed
    BY <1>2, <2>1, <2>2 DEF Keyed
  <2> QED
    BY <1>3, <2>3 DEF Keyed
<1>5. Given' = Given
  <2>1. \A q \in Keyed : rs'[q] = rs[q]
    BY <1>2, <1>4 DEF Keyed, Committed
  <2> QED
    BY <1>4, <2>1 DEF Given
<1>6. ASSUME NEW k \in stored PROVE \E q \in Requests : <<q, k>> \in Given
  <2>1. k \in consumed
    BY <1>1 DEF Unconsumed
  <2>2. PICK q \in Committed : rs[q].key = k /\ k # NoKey
    BY <2>1 DEF IInv, BurnedWhenGiven
  <2> QED
    BY <2>2 DEF Given, Keyed, Committed
<1>7. Pool!Waiting(r)
  <2>1. r \notin {g[1] : g \in Given}
    BY <1>4 DEF Given
  <2> QED
    BY <1>1, <1>3, <2>1 DEF Pool!Waiting, Pool!Answered
<1>8. Committed' \ Keyed' = (Committed \ Keyed) \cup {r}
    BY <1>3, <1>4
<1> QED
    BY <1>1, <1>2, <1>5, <1>6, <1>7, <1>8 DEF Pool!Refuse

\* Finding a key, rolling back and answering are no steps of the pool.
LEMMA PoolStutter ==
    ASSUME TypeOK, NEW r \in Requests, FindKey(r) \/ Fail(r) \/ Reply(r)
    PROVE  UNCHANGED Pool!vars
<1>1. /\ \A q \in Requests : q # r => rs'[q] = rs[q]
      /\ rs'[r].after = rs[r].after
      /\ rs[r].pc # "free" /\ rs'[r].pc # "free"
      /\ r \in Committed <=> rs'[r].pc \in {"reply", "done", "lost"}
      /\ r \in Committed => rs'[r].key = rs[r].key
      /\ stored' = stored
    BY DEF FindKey, Fail, Reply, TypeOK, RequestStates, Committed, keyVars
<1>2. Committed' = Committed /\ \A q \in Committed : rs'[q].key = rs[q].key
    BY <1>1 DEF Committed
<1>3. {q \in Requests : rs'[q].pc # "free"} = {q \in Requests : rs[q].pc # "free"}
    BY <1>1
<1>4. [q \in Requests |-> rs'[q].after] = [q \in Requests |-> rs[q].after]
    BY <1>1
<1> QED
    BY <1>1, <1>2, <1>3, <1>4, GivenStays DEF Pool!vars

\* Every step is one of the pool, or none.
LEMMA PoolNext ==
    ASSUME IInv, [Next]_vars
    PROVE  [Pool!Next]_Pool!vars
<1> USE DEF IInv
<1>1. ASSUME NEW t \in open, Commit(t) PROVE Pool!Next
    BY <1>1, PoolPut DEF Pool!Next
<1>2. ASSUME NEW r \in Requests, ReadBundle(r) PROVE Pool!Next
    BY <1>2, PoolBegin DEF Pool!Next
<1>3. ASSUME NEW r \in Requests, Burn(r) PROVE Pool!Next
  <2>1. rs[r].key \in Keys
    BY <1>3 DEF Burn, FoundOldest, TypeOK
  <2>2. Pool!Take(r, rs[r].key)
    BY <1>3, PoolTake
  <2> QED
    BY <2>1, <2>2 DEF Pool!Next
<1>4. ASSUME NEW r \in Requests, FindNone(r) PROVE Pool!Next
    BY <1>4, PoolRefuse DEF Pool!Next
<1>5. ASSUME NEW r \in Requests, FindKey(r) \/ Fail(r) \/ Reply(r) PROVE UNCHANGED Pool!vars
    BY <1>5, PoolStutter
<1>6. CASE UNCHANGED vars
    BY <1>6 DEF vars, Pool!vars, Committed, Keyed, Given
\* What a transaction holds is not yet in the pool.
<1>7. CASE \/ \E S \in SUBSET Keys : Upload(S) \/ Refill(S)
          \/ \E t \in open : Rollback(t)
  <2>1. UNCHANGED <<stored, rs>>
    BY <1>7 DEF Upload, Refill, Insert, Rollback
  <2> QED
    BY <2>1 DEF Pool!vars, Committed, Keyed, Given
<1> QED
    BY <1>1, <1>2, <1>3, <1>4, <1>5, <1>6, <1>7 DEF Next, Fetch

\* The service implements the pool: a key goes twice only to fetches neither
\* of which had committed when the other began.
THEOREM Refinement == Spec => ImplementsPool
<1>1. Init => Pool!Init
    BY PoolInit
<1>2. IInv /\ [Next]_vars => [Pool!Next]_Pool!vars
    BY PoolNext
<1> QED
    BY <1>1, <1>2, Invariant, PTL DEF Spec, ImplementsPool, Pool!Spec

-----------------------------------------------------------------------------
(***************************************************************************)
(* The presence of a user, for any number of nodes, sockets and logouts.   *)
(***************************************************************************)

\* A socket is used once: who is in the room has connected and not left.
Once ==
    \A s \in Sockets :
        /\ conn[s] = "new" => s \notin live
        /\ disc[s].pc # "none" => s \notin live /\ conn[s] # "new"

\* What a handler has heard of the sockets that stayed: each is on a node that
\* is yet to answer, or was seen.
HeardOf(h) == \A t \in h.steady : NodeOf[t] \in h.ask \/ t \in h.seen

Heard ==
    /\ \A s \in Sockets :
         /\ disc[s].steady \subseteq live
         /\ disc[s].pc = "ask" => HeardOf(disc[s])
         /\ disc[s].pc \in {"prune", "readd"} => disc[s].steady \subseteq disc[s].seen
    /\ \A n \in Nodes :
         /\ sync[n].steady \subseteq live
         /\ sync[n].pc = "ask" => HeardOf(sync[n])
         /\ sync[n].pc \in {"del", "add", "db"} => sync[n].steady \subseteq sync[n].seen
         /\ sync[n].pc = "add" => sync[n].seen # {}

\* Unless something was mixed, handlers of one kind alone are at work, ...
OneKind ==
    /\ ~(SomeArriving /\ SomeLeaving) /\ ~(SomeArriving /\ SomeSyncing)
    /\ ~(SomeLeaving /\ SomeSyncing)
    /\ \A n, m \in Nodes : Syncing(n) /\ Syncing(m) => n = m

\* ... whoever arrives has not left, and who is in the room has been there since
\* each departure and start at work began.
Stays ==
    /\ \A s \in Sockets : Arriving(s) => s \in live
    /\ \A s \in Sockets : Leaving(s) => disc[s].steady = live
    /\ \A n \in Nodes : Syncing(n) => sync[n].steady = live /\ sync[n].seen \subseteq live

\* A logout will close all sockets, or has asked the nodes of all to.
Doomed == (\E o \in Logouts : LoggingOut(o)) \/ \A t \in live : NodeOf[t] \in kicks

\* The copies show a user who has sockets, or a handler is about to.
Shown ==
    live # {} /\ ~Doomed =>
        /\ \/ \A t \in live : t \in keys \/ conn[t] = "sadd"
           \/ \E s \in Sockets : disc[s].pc = "readd"
        /\ \/ listed
           \/ \E s \in Sockets : conn[s] \in {"sadd", "list"}
           \/ \E n \in Nodes : sync[n].pc = "add"
        /\ \/ isOnline
           \/ \E s \in Sockets : conn[s] \in {"sadd", "list", "db"}
        /\ \/ told
           \/ \E s \in Sockets : conn[s] \in {"sadd", "list", "db", "emit"}

\* The last departure goes on to take the user offline.
Finds(s) ==
    \/ disc[s].pc \in {"srem", "ask"} /\ disc[s].seen = {}
    \/ disc[s].pc \in {"del", "unlist"}

\* The copies show no user without sockets, or a handler will see to that; while a
\* node is down its start will.
Hidden ==
    live = {} /\ up = Nodes =>
        /\ listed => \/ \E s \in Sockets : Finds(s)
                     \/ \E n \in Nodes : sync[n].pc \in {"ask", "del"}
        /\ isOnline => \/ \E s \in Sockets : Finds(s) \/ disc[s].pc = "db"
                       \/ \E n \in Nodes : Syncing(n)

Calm == ~mixed => OneKind /\ Stays /\ Shown /\ Hidden

PresenceInv == PresenceTypeOK /\ Once /\ Heard /\ Calm /\ SteadyKept

-----------------------------------------------------------------------------
(* Operators.                                                              *)

DiscPcs == {"none", "srem", "ask", "del", "unlist", "db", "emit", "prune", "readd", "done"}
SyncPcs == {"none", "ask", "del", "add", "db"}

LEMMA Handlers ==
    /\ \A pcs : \A h \in Fetching(pcs) :
         h.pc \in pcs /\ h.ask \subseteq Nodes /\ h.seen \subseteq Sockets /\ h.steady \subseteq Sockets
    /\ NoHandler.pc = "none" /\ NoHandler.ask = {} /\ NoHandler.seen = {} /\ NoHandler.steady = {}
    /\ NoHandler \in Fetching(DiscPcs) /\ NoHandler \in Fetching(SyncPcs)
    BY DEF Fetching, NoHandler, DiscPcs, SyncPcs

\* A departure's handler after a step of its own.
LEMMA DiscNextFields ==
    ASSUME PresenceTypeOK, NEW s \in Sockets, NEW pc \in DiscPcs, DiscNext(s, pc)
    PROVE  /\ disc' \in [Sockets -> Fetching(DiscPcs)]
           /\ \A q \in Sockets \ {s} : disc'[q] = disc[q]
           /\ disc'[s].pc = pc
           /\ pc = "done" => disc'[s].steady = {} /\ disc'[s].seen = {}
           /\ pc # "done" => disc'[s].steady = disc[s].steady /\ disc'[s].seen = disc[s].seen
           /\ UNCHANGED <<conn, beat, sync, out>>
<1> DEFINE x == IF pc = "done" THEN [NoHandler EXCEPT !.pc = "done"] ELSE [disc[s] EXCEPT !.pc = pc]
<1>1. disc \in [Sockets -> Fetching(DiscPcs)] /\ disc[s] \in Fetching(DiscPcs)
    BY DEF PresenceTypeOK, DiscPcs
<1>2. disc' = [disc EXCEPT ![s] = x] /\ UNCHANGED <<conn, beat, sync, out>>
    BY DEF DiscNext, DiscGoto
<1>3. /\ x \in Fetching(DiscPcs) /\ x.pc = pc
      /\ pc = "done" => x.steady = {} /\ x.seen = {}
      /\ pc # "done" => x.steady = disc[s].steady /\ x.seen = disc[s].seen
  <2>1. CASE pc = "done"
    <3>1. x = [pc |-> "done", ask |-> {}, seen |-> {}, steady |-> {}]
        BY <2>1 DEF NoHandler
    <3> QED
        BY <2>1, <3>1 DEF Fetching, DiscPcs
  <2>2. CASE pc # "done"
    <3>1. x = [disc[s] EXCEPT !.pc = pc]
        BY <2>2
    <3> QED
        BY <1>1, <2>2, <3>1 DEF Fetching
  <2> QED
      BY <2>1, <2>2
<1> HIDE DEF x
<1> QED
    BY <1>1, <1>2, <1>3

\* Sockets leave the room.
LEMMA DepartFields ==
    ASSUME PresenceTypeOK, NEW S \in SUBSET live, Depart(S)
    PROVE  /\ live' = live \ S
           /\ disc' \in [Sockets -> Fetching(DiscPcs)] /\ sync' \in [Nodes -> Fetching(SyncPcs)]
           /\ \A s \in S : /\ disc'[s].pc = "srem" /\ disc'[s].seen = {}
                           /\ disc'[s].steady = live \ S
           /\ \A s \in Sockets \ S :
                /\ disc'[s].pc = disc[s].pc /\ disc'[s].ask = disc[s].ask
                /\ disc'[s].seen = disc[s].seen /\ disc'[s].steady = disc[s].steady \ S
           /\ \A n \in Nodes :
                /\ sync'[n].pc = sync[n].pc /\ sync'[n].ask = sync[n].ask
                /\ sync'[n].seen = sync[n].seen /\ sync'[n].steady = sync[n].steady \ S
<1>1. /\ disc \in [Sockets -> Fetching(DiscPcs)] /\ sync \in [Nodes -> Fetching(SyncPcs)]
      /\ live \subseteq Sockets
    BY DEF PresenceTypeOK, DiscPcs, SyncPcs
<1> DEFINE new == [NoHandler EXCEPT !.pc = "srem", !.steady = live \ S]
<1>2. /\ live' = live \ S
      /\ disc' = [s \in Sockets |-> IF s \in S THEN new ELSE Forget(disc[s], S)]
      /\ sync' = [n \in Nodes |-> Forget(sync[n], S)]
    BY DEF Depart
<1>3. NoHandler \in Fetching(DiscPcs) /\ NoHandler.seen = {}
    BY Handlers
<1>4. /\ new \in Fetching(DiscPcs) /\ new.pc = "srem" /\ new.seen = {}
      /\ new.steady = live \ S
    BY <1>1, <1>3 DEF Fetching, DiscPcs
<1>5. ASSUME NEW pcs, NEW h \in Fetching(pcs)
      PROVE  /\ Forget(h, S) \in Fetching(pcs)
             /\ Forget(h, S).pc = h.pc /\ Forget(h, S).ask = h.ask
             /\ Forget(h, S).seen = h.seen /\ Forget(h, S).steady = h.steady \ S
    BY <1>5 DEF Forget, Fetching
<1> HIDE DEF new
<1>6. /\ disc' \in [Sockets -> Fetching(DiscPcs)]
      /\ \A s \in S : disc'[s] = new
      /\ \A s \in Sockets \ S : disc'[s] = Forget(disc[s], S) /\ disc[s] \in Fetching(DiscPcs)
    BY <1>1, <1>2, <1>4, <1>5
<1>7. /\ sync' \in [Nodes -> Fetching(SyncPcs)]
      /\ \A n \in Nodes : sync'[n] = Forget(sync[n], S) /\ sync[n] \in Fetching(SyncPcs)
    BY <1>1, <1>2, <1>5
<1> QED
    BY <1>2, <1>4, <1>5, <1>6, <1>7

-----------------------------------------------------------------------------
(* Arrivals and heartbeats.                                                *)

LEMMA InvStart == PresenceInit => PresenceInv
<1> SUFFICES ASSUME PresenceInit PROVE PresenceInv
    OBVIOUS
<1>1. /\ disc = [s \in Sockets |-> NoHandler] /\ sync = [n \in Nodes |-> NoHandler]
      /\ live = {} /\ kicks = {} /\ mixed = FALSE /\ up \subseteq Nodes /\ keys = {}
      /\ listed = FALSE /\ isOnline = FALSE /\ told = FALSE /\ faults = 0
      /\ conn = [s \in Sockets |-> "new"] /\ beat = [s \in Sockets |-> "none"]
      /\ out = [o \in Logouts |-> "new"]
    BY DEF PresenceInit
<1>2. /\ \A s \in Sockets : disc[s].pc = "none" /\ disc[s].steady = {}
      /\ \A n \in Nodes : sync[n].pc = "none" /\ sync[n].steady = {}
    BY <1>1, Handlers
<1>3. PresenceTypeOK
  <2>1. disc \in [Sockets -> Fetching(DiscPcs)] /\ sync \in [Nodes -> Fetching(SyncPcs)]
      BY <1>1, Handlers
  <2>2. faults \in 0 .. MaxFaults
      BY <1>1, FaultsAssumption
  <2> QED
      BY <1>1, <2>1, <2>2 DEF PresenceTypeOK, DiscPcs, SyncPcs
<1>4. Once /\ Heard /\ SteadyKept
    BY <1>1, <1>2 DEF Once, Heard, SteadyKept
<1>5. Calm
    BY <1>1, <1>2 DEF Calm, OneKind, Stays, Shown, Hidden, SomeArriving, SomeLeaving, SomeSyncing,
                      Arriving, Leaving, LoggingOut, Syncing
<1> QED
    BY <1>3, <1>4, <1>5 DEF PresenceInv

LEMMA FaultKeeps ==
    ASSUME PresenceTypeOK, NoFault \/ Fault
    PROVE  faults' \in 0 .. MaxFaults /\ mixed' \in BOOLEAN /\ (mixed' \/ mixed' = mixed)
<1>1. faults \in 0 .. MaxFaults /\ mixed \in BOOLEAN
    BY DEF PresenceTypeOK
<1>2. CASE NoFault
    BY <1>1, <1>2 DEF NoFault
<1>3. CASE Fault
  <2>1. faults' \in 0 .. MaxFaults
      BY <1>1, <1>3, FaultsAssumption DEF Fault
  <2>2. mixed' = TRUE
      BY <1>3 DEF Fault
  <2> QED
      BY <2>1, <2>2
<1> QED
    BY <1>2, <1>3

Arrives(s) ==
    \/ ConnSadd(s) \/ ConnList(s) \/ ConnDb(s) \/ ConnEmit(s) \/ ConnFails(s)
    \/ BeatSadd(s) \/ BeatList(s) \/ BeatEmit(s) \/ BeatFails(s)

LEMMA ArrivesFields ==
    ASSUME PresenceTypeOK, NEW s \in Sockets, Arrives(s)
    PROVE  /\ Arriving(s)
           /\ UNCHANGED <<up, live, disc, sync, out, kicks>>
           /\ conn' \in [Sockets -> {"new", "sadd", "list", "db", "emit", "done"}]
           /\ beat' \in [Sockets -> {"none", "sadd", "list", "emit"}]
           /\ \A q \in Sockets \ {s} : conn'[q] = conn[q] /\ beat'[q] = beat[q]
           /\ (conn'[s] = "new") = (conn[s] = "new")
           /\ keys' \subseteq Sockets /\ keys \subseteq keys'
           /\ {listed', isOnline', told'} \subseteq BOOLEAN
           /\ (listed => listed') /\ (isOnline => isOnline') /\ (told => told')
<1> USE DEF PresenceTypeOK, Arriving, ConnGoto, BeatGoto, NoFault, Fault
<1>1. CASE ConnSadd(s)
    BY <1>1 DEF ConnSadd
<1>2. CASE ConnList(s)
    BY <1>2 DEF ConnList
<1>3. CASE ConnDb(s)
  <2>1. isOnline' = TRUE \/ isOnline' = isOnline
      BY <1>3, Zenon DEF ConnDb
  <2>2. /\ conn[s] = "db" /\ ConnGoto(s, "emit")
        /\ UNCHANGED <<up, live, keys, listed, told, kicks>>
      BY <1>3 DEF ConnDb
  <2>3. isOnline \in BOOLEAN
      OBVIOUS
  <2>4. isOnline' \in BOOLEAN /\ (isOnline => isOnline')
    <3>1. CASE isOnline' = TRUE
        BY <3>1
    <3>2. CASE isOnline' = isOnline
        BY <2>3, <3>2
    <3> QED
        BY <2>1, <3>1, <3>2
  <2>5. told \in BOOLEAN /\ listed \in BOOLEAN
      OBVIOUS
  <2> QED
      BY <2>2, <2>4, <2>5
<1>4. CASE ConnEmit(s)
    BY <1>4 DEF ConnEmit
<1>5. CASE ConnFails(s)
    BY <1>5 DEF ConnFails, stores
<1>6. CASE BeatSadd(s)
    BY <1>6 DEF BeatSadd
<1>7. CASE BeatList(s)
    BY <1>7 DEF BeatList
<1>8. CASE BeatEmit(s)
    BY <1>8 DEF BeatEmit
<1>9. CASE BeatFails(s)
    BY <1>9 DEF BeatFails, stores
<1> QED
    BY <1>1, <1>2, <1>3, <1>4, <1>5, <1>6, <1>7, <1>8, <1>9 DEF Arrives

LEMMA ArrivesFaults ==
    ASSUME PresenceTypeOK, NEW s \in Sockets, Arrives(s)
    PROVE  faults' \in 0 .. MaxFaults /\ mixed' \in BOOLEAN /\ (mixed' \/ mixed' = mixed)
<1>1. NoFault \/ Fault
    BY DEF Arrives, ConnSadd, ConnList, ConnDb, ConnEmit, ConnFails, BeatSadd, BeatList, BeatEmit,
           BeatFails
<1> QED
    BY <1>1, FaultKeeps, Zenon


\* A handler that does not fail sets each copy before it goes on.
LEMMA ArrivesGoes ==
    ASSUME PresenceTypeOK, NEW s \in Sockets, Arrives(s), ~mixed'
    PROVE  /\ conn[s] = "sadd" => conn'[s] = "sadd" \/ (s \in keys' /\ conn'[s] = "list")
           /\ conn[s] = "list" => conn'[s] = "list" \/ (listed' /\ conn'[s] = "db")
           /\ conn[s] = "db" => conn'[s] = "db" \/ (isOnline' /\ conn'[s] = "emit")
           /\ conn[s] = "emit" => conn'[s] = "emit" \/ told'
<1> USE DEF PresenceTypeOK, ConnGoto, BeatGoto, NoFault, Fault
<1>1. CASE ConnSadd(s)
    BY <1>1 DEF ConnSadd
<1>2. CASE ConnList(s)
    BY <1>2 DEF ConnList
<1>3. CASE ConnDb(s)
    BY <1>3, Zenon DEF ConnDb
<1>4. CASE ConnEmit(s)
    BY <1>4 DEF ConnEmit
<1>5. CASE BeatSadd(s) \/ BeatList(s) \/ BeatEmit(s)
    BY <1>5 DEF BeatSadd, BeatList, BeatEmit
<1> QED
    BY <1>1, <1>2, <1>3, <1>4, <1>5 DEF Arrives, ConnFails, BeatFails

LEMMA ArrivesKeeps ==
    ASSUME PresenceInv, NEW s \in Sockets, Arrives(s)
    PROVE  PresenceInv'
<1>1. /\ Arriving(s)
      /\ UNCHANGED <<up, live, disc, sync, out, kicks>>
      /\ \A q \in Sockets \ {s} : conn'[q] = conn[q] /\ beat'[q] = beat[q]
      /\ (conn'[s] = "new") = (conn[s] = "new")
      /\ keys \subseteq keys'
      /\ (listed => listed') /\ (isOnline => isOnline') /\ (told => told')
    BY ArrivesFields DEF PresenceInv
<1>2. PresenceTypeOK'
  <2>1. faults' \in 0 .. MaxFaults
      BY ArrivesFaults DEF PresenceInv
  <2>2. mixed' \in BOOLEAN
      BY ArrivesFaults, Zenon DEF PresenceInv
  <2>3. {listed', isOnline', told', mixed'} \subseteq BOOLEAN
      BY <2>2, ArrivesFields DEF PresenceInv
  <2> QED
      BY <1>1, <2>1, <2>3, ArrivesFields DEF PresenceInv, PresenceTypeOK
<1>3. Once' /\ Heard' /\ SteadyKept'
    BY <1>1 DEF PresenceInv, Once, Heard, HeardOf, SteadyKept
<1>4. ASSUME ~mixed' PROVE OneKind' /\ Stays' /\ Shown' /\ Hidden'
  <2>1. ~mixed
      BY <1>4, ArrivesFaults DEF PresenceInv
  <2>2. OneKind /\ Stays /\ Shown
      BY <2>1 DEF PresenceInv, Calm
  <2>3. OneKind'
      BY <1>1, <2>2 DEF OneKind, SomeArriving, SomeLeaving, SomeSyncing, Arriving, Leaving, LoggingOut,
                        Syncing
  <2>4. Stays'
      BY <1>1, <2>2 DEF Stays, Arriving, Leaving, Syncing
  <2>5. live # {} /\ Hidden'
      BY <1>1, <2>2 DEF Stays, Hidden
  <2>6. SUFFICES ASSUME ~Doomed PROVE Shown'
      BY <1>1, <2>3, <2>4, <2>5 DEF Shown, Doomed, LoggingOut
  <2>8. ~(\E q \in Sockets : disc[q].pc = "readd") /\ ~(\E n \in Nodes : sync[n].pc = "add")
      BY <1>1, <2>2 DEF OneKind, SomeArriving, SomeLeaving, SomeSyncing, Leaving, Syncing
  <2>9. /\ \A t \in live : t \in keys' \/ conn'[t] = "sadd"
        /\ listed' \/ \E q \in Sockets : conn'[q] \in {"sadd", "list"}
        /\ isOnline' \/ \E q \in Sockets : conn'[q] \in {"sadd", "list", "db"}
        /\ told' \/ \E q \in Sockets : conn'[q] \in {"sadd", "list", "db", "emit"}
    <3>1. \A t \in live : t \in keys \/ conn[t] = "sadd"
        BY <2>2, <2>5, <2>6, <2>8 DEF Shown
    <3>2. /\ listed \/ \E q \in Sockets : conn[q] \in {"sadd", "list"}
          /\ isOnline \/ \E q \in Sockets : conn[q] \in {"sadd", "list", "db"}
          /\ told \/ \E q \in Sockets : conn[q] \in {"sadd", "list", "db", "emit"}
        BY <2>2, <2>5, <2>6, <2>8 DEF Shown
    <3> QED
        BY <1>1, <3>1, <3>2, <1>4, ArrivesGoes DEF PresenceInv, PresenceTypeOK
  <2> QED
      BY <1>1, <2>9 DEF Shown
<1> QED
    BY <1>2, <1>3, <1>4 DEF PresenceInv, Calm

\* No departure is at work, nor a start.
LEMMA OnlyArrivals ==
    ASSUME ~SomeLeaving, ~SomeSyncing
    PROVE  /\ \A q \in Sockets : disc[q].pc \in {"none", "done"}
           /\ \A n \in Nodes : sync[n].pc = "none"
           /\ \A o \in Logouts : ~LoggingOut(o)
           /\ kicks = {}
    BY DEF SomeLeaving, SomeSyncing, Leaving, Syncing

LEMMA MixedBoolean ==
    ASSUME PresenceTypeOK, NEW opposite \in BOOLEAN, Remember(opposite)
    PROVE  mixed' \in BOOLEAN /\ (~mixed' => ~mixed /\ ~opposite)
<1>1. mixed \in BOOLEAN
    BY DEF PresenceTypeOK
<1> QED
    BY <1>1, Zenon DEF Remember

LEMMA ConnectKeeps ==
    ASSUME PresenceInv, NEW s \in Sockets, Connect(s)
    PROVE  PresenceInv'
<1>1. /\ conn[s] = "new" /\ conn' = [conn EXCEPT ![s] = "sadd"] /\ live' = live \cup {s}
      /\ NodeOf[s] \in up
      /\ UNCHANGED <<up, keys, listed, isOnline, told, beat, disc, sync, out, kicks, faults>>
    BY DEF Connect, ConnGoto, stores
<1>2. mixed' \in BOOLEAN /\ (~mixed' => ~mixed /\ ~SomeLeaving /\ ~SomeSyncing)
  <2>1. (SomeLeaving \/ SomeSyncing) \in BOOLEAN
      OBVIOUS
  <2> QED
      BY <2>1, MixedBoolean DEF Connect, PresenceInv
<1>3. PresenceTypeOK'
    BY <1>1, <1>2 DEF PresenceInv, PresenceTypeOK
<1>4. Once' /\ Heard' /\ SteadyKept'
    BY <1>1 DEF PresenceInv, PresenceTypeOK, Once, Heard, HeardOf, SteadyKept
<1>5. ASSUME ~mixed' PROVE OneKind' /\ Stays' /\ Shown' /\ Hidden'
  <2>1. ~mixed /\ ~SomeLeaving /\ ~SomeSyncing
      BY <1>2, <1>5
  <2>2. /\ \A q \in Sockets : disc[q].pc \in {"none", "done"}
        /\ \A n \in Nodes : sync[n].pc = "none"
        /\ \A o \in Logouts : ~LoggingOut(o)
        /\ kicks = {}
      BY <2>1, OnlyArrivals
  <2>3. Stays /\ Shown
      BY <2>1 DEF PresenceInv, Calm
  <2>4. OneKind' /\ Stays'
      BY <1>1, <2>2, <2>3
      DEF OneKind, Stays, SomeArriving, SomeLeaving, SomeSyncing, Arriving, Leaving, LoggingOut, Syncing,
          PresenceInv, PresenceTypeOK
  <2>5. Hidden'
      BY <1>1 DEF Hidden
  <2>6. live # {} => ~Doomed
      BY <2>2 DEF Doomed
  <2>7. \A t \in live : t \in keys \/ conn[t] = "sadd"
      BY <2>2, <2>3, <2>6 DEF Shown
  <2>8. conn'[s] = "sadd" /\ \A t \in live' : t \in keys' \/ conn'[t] = "sadd"
      BY <1>1, <2>7 DEF PresenceInv, PresenceTypeOK
  <2> QED
      BY <2>4, <2>5, <2>8 DEF Shown
<1> QED
    BY <1>3, <1>4, <1>5 DEF PresenceInv, Calm

LEMMA BeatKeeps ==
    ASSUME PresenceInv, NEW s \in Sockets, Beat(s)
    PROVE  PresenceInv'
<1>1. /\ s \in live /\ beat' = [beat EXCEPT ![s] = "sadd"]
      /\ UNCHANGED <<up, live, keys, listed, isOnline, told, conn, disc, sync, out, kicks, faults>>
    BY DEF Beat, BeatGoto, stores
<1>2. mixed' \in BOOLEAN /\ (~mixed' => ~mixed /\ ~SomeLeaving /\ ~SomeSyncing)
  <2>1. (SomeLeaving \/ SomeSyncing) \in BOOLEAN
      OBVIOUS
  <2> QED
      BY <2>1, MixedBoolean DEF Beat, PresenceInv
<1>3. PresenceTypeOK'
    BY <1>1, <1>2 DEF PresenceInv, PresenceTypeOK
<1>4. Once' /\ Heard' /\ SteadyKept'
    BY <1>1 DEF PresenceInv, PresenceTypeOK, Once, Heard, HeardOf, SteadyKept
<1>5. ASSUME ~mixed' PROVE OneKind' /\ Stays' /\ Shown' /\ Hidden'
  <2>1. ~mixed /\ ~SomeLeaving /\ ~SomeSyncing
      BY <1>2, <1>5
  <2>2. /\ \A q \in Sockets : disc[q].pc \in {"none", "done"}
        /\ \A n \in Nodes : sync[n].pc = "none"
        /\ \A o \in Logouts : ~LoggingOut(o)
        /\ kicks = {}
      BY <2>1, OnlyArrivals
  <2>3. Stays /\ Shown
      BY <2>1 DEF PresenceInv, Calm
  <2>4. OneKind' /\ Stays'
      BY <1>1, <2>2, <2>3
      DEF OneKind, Stays, SomeArriving, SomeLeaving, SomeSyncing, Arriving, Leaving, LoggingOut, Syncing,
          PresenceInv, PresenceTypeOK
  <2> QED
      BY <1>1, <2>3, <2>4 DEF Shown, Hidden, Doomed, LoggingOut
<1> QED
    BY <1>3, <1>4, <1>5 DEF PresenceInv, Calm

-----------------------------------------------------------------------------
(* Departures.                                                             *)

LEMMA SremFields ==
    ASSUME PresenceTypeOK, NEW s \in Sockets, DiscSrem(s)
    PROVE  /\ disc' \in [Sockets -> Fetching(DiscPcs)]
           /\ \A q \in Sockets \ {s} : disc'[q] = disc[q]
           /\ disc'[s].pc = "ask" /\ disc'[s].ask = up
           /\ disc'[s].steady = disc[s].steady /\ disc'[s].seen = disc[s].seen
           /\ UNCHANGED <<conn, beat, sync, out>>
<1> DEFINE x == [disc[s] EXCEPT !.pc = "ask", !.ask = up]
<1>1. disc \in [Sockets -> Fetching(DiscPcs)] /\ disc[s] \in Fetching(DiscPcs) /\ up \subseteq Nodes
    BY DEF PresenceTypeOK, DiscPcs
<1>2. disc' = [disc EXCEPT ![s] = x] /\ UNCHANGED <<conn, beat, sync, out>>
    BY DEF DiscSrem, DiscGoto
<1>3. /\ x \in Fetching(DiscPcs) /\ x.pc = "ask" /\ x.ask = up
      /\ x.steady = disc[s].steady /\ x.seen = disc[s].seen
    BY <1>1 DEF Fetching, DiscPcs
<1> HIDE DEF x
<1> QED
    BY <1>1, <1>2, <1>3

LEMMA HearFields ==
    ASSUME NEW pcs, NEW h \in Fetching(pcs), NEW n \in Nodes, live \subseteq Sockets
    PROVE  /\ Hear(h, n) \in Fetching(pcs) /\ Hear(h, n).pc = h.pc
           /\ Hear(h, n).ask = h.ask \ {n} /\ Hear(h, n).seen = h.seen \cup OnNode(n)
           /\ Hear(h, n).steady = h.steady
    BY DEF Hear, Fetching, OnNode

LEMMA PcFields ==
    ASSUME NEW pcs, NEW h \in Fetching(pcs), NEW pc \in pcs
    PROVE  /\ [h EXCEPT !.pc = pc] \in Fetching(pcs) /\ [h EXCEPT !.pc = pc].pc = pc
           /\ [h EXCEPT !.pc = pc].ask = h.ask /\ [h EXCEPT !.pc = pc].seen = h.seen
           /\ [h EXCEPT !.pc = pc].steady = h.steady
    BY DEF Fetching

\* Who has answered has told of all its sockets that stay.
LEMMA HearStays ==
    ASSUME NEW h, NEW g, NEW n \in Nodes, HeardOf(h), h.steady \subseteq live,
           g.ask = h.ask \ {n}, g.seen = h.seen \cup OnNode(n), g.steady = h.steady
    PROVE  HeardOf(g)
    BY DEF HeardOf, OnNode

LEMMA DiscAskFields ==
    ASSUME PresenceTypeOK, NEW s \in Sockets, NEW n \in Nodes, DiscAsk(s, n)
    PROVE  /\ disc' \in [Sockets -> Fetching(DiscPcs)]
           /\ \A q \in Sockets \ {s} : disc'[q] = disc[q]
           /\ disc'[s].pc \in {"ask", "del", "prune"}
           /\ disc'[s].steady = disc[s].steady /\ disc'[s].seen = disc[s].seen \cup OnNode(n)
           /\ disc'[s].ask = disc[s].ask \ {n}
           /\ disc'[s].pc # "ask" => disc'[s].ask = {}
           /\ disc'[s].pc = "del" => disc'[s].seen \subseteq {s}
           /\ disc'[s].pc = "prune" => ~(disc'[s].seen \subseteq {s})
           /\ UNCHANGED <<conn, beat, sync, out>>
<1> DEFINE h == Hear(disc[s], n)
           x == CASE h.ask # {} -> h
                  [] h.ask = {} /\ h.seen \ {s} = {} -> [h EXCEPT !.pc = "del"]
                  [] OTHER -> [h EXCEPT !.pc = "prune"]
<1>1. /\ disc \in [Sockets -> Fetching(DiscPcs)] /\ disc[s] \in Fetching(DiscPcs)
      /\ live \subseteq Sockets
    BY DEF PresenceTypeOK, DiscPcs
<1>2. /\ disc' = [disc EXCEPT ![s] = x] /\ UNCHANGED <<conn, beat, sync, out>>
      /\ disc[s].pc = "ask"
    BY DEF DiscAsk, DiscGoto
<1>3. /\ h \in Fetching(DiscPcs) /\ h.pc = "ask"
      /\ h.ask = disc[s].ask \ {n} /\ h.seen = disc[s].seen \cup OnNode(n)
      /\ h.steady = disc[s].steady
    BY <1>1, <1>2, HearFields
<1> DEFINE d == [h EXCEPT !.pc = "del"]
           p == [h EXCEPT !.pc = "prune"]
<1>4. /\ d \in Fetching(DiscPcs) /\ d.pc = "del" /\ d.ask = h.ask /\ d.seen = h.seen
      /\ d.steady = h.steady
    BY <1>3, PcFields DEF DiscPcs
<1>5. /\ p \in Fetching(DiscPcs) /\ p.pc = "prune" /\ p.ask = h.ask /\ p.seen = h.seen
      /\ p.steady = h.steady
    BY <1>3, PcFields DEF DiscPcs
<1>6. /\ h.ask # {} => x = h
      /\ h.ask = {} /\ h.seen \ {s} = {} => x = d
      /\ h.ask = {} /\ h.seen \ {s} # {} => x = p
    OBVIOUS
<1> HIDE DEF h, d, p, x
<1>7. /\ x \in Fetching(DiscPcs) /\ x.pc \in {"ask", "del", "prune"}
      /\ x.ask = h.ask /\ x.seen = h.seen /\ x.steady = h.steady
      /\ x.pc # "ask" => x.ask = {}
      /\ x.pc = "del" => x.seen \subseteq {s}
      /\ x.pc = "prune" => ~(x.seen \subseteq {s})
    BY <1>3, <1>4, <1>5, <1>6
<1>8. /\ disc' \in [Sockets -> Fetching(DiscPcs)] /\ disc'[s] = x
      /\ \A q \in Sockets \ {s} : disc'[q] = disc[q]
    BY <1>1, <1>2, <1>7
<1> QED
    BY <1>2, <1>3, <1>7, <1>8

Departs(s) ==
    \/ DiscSrem(s) \/ \E n \in Nodes : DiscAsk(s, n)
    \/ DiscDel(s) \/ DiscUnlist(s) \/ DiscDb(s) \/ DiscEmit(s)
    \/ DiscPrune(s) \/ DiscReadd(s) \/ DiscFails(s)

\* What a departure knows when it goes on.
Knows(s) ==
    /\ disc[s].pc = "ask" => HeardOf(disc[s])
    /\ disc[s].pc \in {"prune", "readd"} => disc[s].steady \subseteq disc[s].seen
    /\ disc[s].pc \in {"del", "unlist", "db", "emit"} => disc[s].steady = {}

LEMMA DepartsFields ==
    ASSUME PresenceTypeOK, Once, Heard, SteadyKept, NEW s \in Sockets, Departs(s)
    PROVE  /\ Leaving(s)
           /\ UNCHANGED <<up, live, conn, beat, sync, out, kicks>>
           /\ disc' \in [Sockets -> Fetching(DiscPcs)]
           /\ \A q \in Sockets \ {s} : disc'[q] = disc[q]
           /\ disc'[s].pc # "none"
           /\ disc'[s].steady \subseteq disc[s].steady
           /\ disc'[s].pc # "done" => disc'[s].steady = disc[s].steady
           /\ Knows(s)'
<1> USE DEF Leaving
<1>1. CASE DiscSrem(s)
  <2>1. live \subseteq {t \in Sockets : NodeOf[t] \in up}
      BY DEF PresenceTypeOK
  <2>2. disc'[s].pc = "ask" /\ disc'[s].ask = up /\ disc'[s].steady \subseteq live
      BY <1>1, SremFields DEF Heard
  <2>3. HeardOf(disc'[s])
      BY <2>1, <2>2 DEF HeardOf
  <2> QED
      BY <1>1, <2>2, <2>3, SremFields DEF DiscSrem, Knows, HeardOf
<1>2. CASE \E n \in Nodes : DiscAsk(s, n)
  <2>1. PICK n \in Nodes : DiscAsk(s, n)
      BY <1>2
  <2>2. disc[s].pc = "ask" /\ UNCHANGED <<up, live, kicks>>
      BY <2>1 DEF DiscAsk
  <2>3. HeardOf(disc'[s])
    <3>1. HeardOf(disc[s]) /\ disc[s].steady \subseteq live
        BY <2>2 DEF Heard
    <3>2. /\ disc'[s].ask = disc[s].ask \ {n} /\ disc'[s].seen = disc[s].seen \cup OnNode(n)
          /\ disc'[s].steady = disc[s].steady
        BY <2>1, DiscAskFields
    <3> QED
        BY <3>1, <3>2, HearStays
  <2>4. disc'[s].pc # "ask" => disc'[s].steady \subseteq disc'[s].seen
      BY <2>1, <2>3, DiscAskFields DEF HeardOf
  <2>5. s \notin disc'[s].steady
      BY <2>1, <2>2, DiscAskFields DEF Once, Heard
  <2>6. disc'[s].pc = "del" => disc'[s].steady = {}
      BY <2>1, <2>4, <2>5, DiscAskFields
  <2> QED
      BY <2>1, <2>2, <2>3, <2>4, <2>6, DiscAskFields DEF Knows, HeardOf
<1>3. CASE DiscDel(s)
  <2>1. disc[s].pc = "del" /\ DiscNext(s, "unlist") /\ UNCHANGED <<up, live, kicks>>
      BY <1>3 DEF DiscDel
  <2> QED
      BY <2>1, DiscNextFields DEF DiscPcs, SteadyKept, Knows, HeardOf
<1>4. CASE DiscUnlist(s)
  <2>1. disc[s].pc = "unlist" /\ DiscNext(s, "db") /\ UNCHANGED <<up, live, kicks>>
      BY <1>4 DEF DiscUnlist
  <2> QED
      BY <2>1, DiscNextFields DEF DiscPcs, SteadyKept, Knows, HeardOf
<1>5. CASE DiscDb(s)
  <2>1. disc[s].pc = "db" /\ DiscNext(s, "emit") /\ UNCHANGED <<up, live, kicks>>
      BY <1>5 DEF DiscDb
  <2> QED
      BY <2>1, DiscNextFields DEF DiscPcs, SteadyKept, Knows, HeardOf
<1>6. CASE DiscPrune(s)
  <2>1. disc[s].pc = "prune" /\ DiscNext(s, "readd") /\ UNCHANGED <<up, live, kicks>>
      BY <1>6 DEF DiscPrune
  <2> QED
      BY <2>1, DiscNextFields DEF DiscPcs, Heard, Knows, HeardOf
<1>7. CASE DiscEmit(s) \/ DiscReadd(s) \/ DiscFails(s)
  <2>1. /\ disc[s].pc \notin {"none", "done"} /\ DiscNext(s, "done")
        /\ UNCHANGED <<up, live, kicks>>
      BY <1>7 DEF DiscEmit, DiscReadd, DiscFails
  <2> QED
      BY <2>1, DiscNextFields DEF DiscPcs, Knows, HeardOf
<1> QED
    BY <1>1, <1>2, <1>3, <1>4, <1>5, <1>6, <1>7 DEF Departs

LEMMA DepartsStores ==
    ASSUME PresenceTypeOK, NEW s \in Sockets, Departs(s)
    PROVE  /\ keys' \subseteq Sockets /\ {listed', isOnline', told'} \subseteq BOOLEAN
           /\ faults' \in 0 .. MaxFaults /\ mixed' \in BOOLEAN /\ (mixed' \/ mixed' = mixed)
<1>1. NoFault \/ Fault
    BY DEF Departs, DiscSrem, DiscAsk, DiscDel, DiscUnlist, DiscDb, DiscEmit, DiscPrune, DiscReadd,
           DiscFails
<1>2. /\ keys \subseteq Sockets /\ listed \in BOOLEAN /\ isOnline \in BOOLEAN /\ told \in BOOLEAN
      /\ \A h \in Fetching(DiscPcs) : h.seen \subseteq Sockets
      /\ disc[s] \in Fetching(DiscPcs)
    BY DEF PresenceTypeOK, Fetching, DiscPcs
<1>3. keys' \subseteq Sockets
    BY <1>2 DEF Departs, DiscSrem, DiscAsk, DiscDel, DiscUnlist, DiscDb, DiscEmit, DiscPrune, DiscReadd,
                DiscFails, stores
<1>4. listed' = FALSE \/ UNCHANGED listed
    BY DEF Departs, DiscSrem, DiscAsk, DiscDel, DiscUnlist, DiscDb, DiscEmit, DiscPrune, DiscReadd,
           DiscFails, stores
<1>5. isOnline' = FALSE \/ UNCHANGED isOnline
    BY DEF Departs, DiscSrem, DiscAsk, DiscDel, DiscUnlist, DiscDb, DiscEmit, DiscPrune, DiscReadd,
           DiscFails, stores
<1>6. told' = FALSE \/ UNCHANGED told
    BY DEF Departs, DiscSrem, DiscAsk, DiscDel, DiscUnlist, DiscDb, DiscEmit, DiscPrune, DiscReadd,
           DiscFails, stores
<1>7. listed' \in BOOLEAN /\ isOnline' \in BOOLEAN /\ told' \in BOOLEAN
    BY <1>2, <1>4, <1>5, <1>6
<1>8. faults' \in 0 .. MaxFaults
    BY <1>1, FaultKeeps
<1>9. mixed' \in BOOLEAN /\ (mixed' \/ mixed' = mixed)
    BY <1>1, FaultKeeps, Zenon
<1> QED
    BY <1>3, <1>7, <1>8, <1>9

\* When nobody arrives or starts and the user has sockets that no logout
\* closes, all copies show the user, or a departure is about to add the ids.
LEMMA ShownDeparting ==
    ASSUME PresenceTypeOK, ~SomeArriving, ~SomeSyncing, Shown, live # {}, ~Doomed
    PROVE  /\ live \subseteq keys \/ \E q \in Sockets : disc[q].pc = "readd"
           /\ listed /\ isOnline /\ told
<1>1. \A q \in Sockets : conn[q] \in {"new", "done"}
    BY DEF SomeArriving, Arriving
<1>2. \A n \in Nodes : sync[n].pc = "none"
    BY DEF SomeSyncing, Syncing
<1>3. live \subseteq Sockets
    BY DEF PresenceTypeOK
<1> QED
    BY <1>1, <1>2, <1>3 DEF Shown

\* No departure takes a copy from a user with sockets that no logout closes.
LEMMA DepartsShown ==
    ASSUME PresenceTypeOK, Once, Heard, SteadyKept, OneKind, Shown, live # {}, ~Doomed,
           NEW s \in Sockets, Departs(s), ~mixed', disc[s].steady = live
    PROVE  /\ live \subseteq keys' \/ \E q \in Sockets : disc'[q].pc = "readd"
           /\ listed' /\ isOnline' /\ told'
<1>1. /\ Leaving(s) /\ \A q \in Sockets \ {s} : disc'[q] = disc[q]
    BY DepartsFields
<1>2. /\ live \subseteq keys \/ \E q \in Sockets : disc[q].pc = "readd"
      /\ listed /\ isOnline /\ told
    BY <1>1, ShownDeparting DEF SomeLeaving, OneKind
<1>3. disc[s].pc \notin {"del", "unlist", "db", "emit"}
    BY DEF SteadyKept
<1>4. s \notin live
    BY <1>1 DEF Once, Leaving
<1>5. CASE DiscSrem(s)
    BY <1>1, <1>2, <1>4, <1>5 DEF DiscSrem
<1>6. CASE \E n \in Nodes : DiscAsk(s, n)
  <2>1. disc[s].pc = "ask" /\ UNCHANGED <<keys, listed, isOnline, told>>
      BY <1>6 DEF DiscAsk, stores
  <2> QED
      BY <1>1, <1>2, <2>1
<1>7. CASE DiscPrune(s)
  <2>1. DiscNext(s, "readd") /\ UNCHANGED <<listed, isOnline, told>>
      BY <1>7 DEF DiscPrune
  <2>2. disc'[s].pc = "readd"
      BY <2>1, DiscNextFields DEF DiscPcs
  <2> QED
      BY <1>2, <2>1, <2>2
<1>8. CASE DiscReadd(s)
  <2>1. live \subseteq disc[s].seen \ {s}
      BY <1>4, <1>8 DEF DiscReadd, Heard
  <2> QED
      BY <1>2, <1>8, <2>1 DEF DiscReadd
<1> QED
    BY <1>3, <1>5, <1>6, <1>7, <1>8
    DEF Departs, DiscDel, DiscUnlist, DiscDb, DiscEmit, DiscFails, Fault

\* The departure that finds no socket goes on until no copy shows the user.
LEMMA DepartsHidden ==
    ASSUME PresenceTypeOK, Once, Heard, SteadyKept, OneKind, Hidden, live = {}, up = Nodes,
           NEW s \in Sockets, Departs(s), ~mixed'
    PROVE  /\ listed' => \E q \in Sockets : Finds(q)'
           /\ isOnline' => \E q \in Sockets : Finds(q)' \/ disc'[q].pc = "db"
<1>1. /\ Leaving(s) /\ \A q \in Sockets \ {s} : disc'[q] = disc[q]
    BY DepartsFields
<1>2. \A n \in Nodes : sync[n].pc = "none"
    BY <1>1 DEF OneKind, SomeLeaving, SomeSyncing, Syncing
<1>3. /\ listed => \E q \in Sockets : Finds(q)
      /\ isOnline => \E q \in Sockets : Finds(q) \/ disc[q].pc = "db"
    BY <1>2 DEF Hidden, Syncing
<1>4. \A q \in Sockets \ {s} : Finds(q)' = Finds(q)
    BY <1>1 DEF Finds
<1>5. CASE DiscSrem(s)
  <2>1. Finds(s) => Finds(s)'
      BY <1>5, SremFields DEF Finds, DiscSrem
  <2> QED
      BY <1>1, <1>3, <1>4, <1>5, <2>1 DEF DiscSrem
<1>6. CASE \E n \in Nodes : DiscAsk(s, n)
  <2>1. PICK n \in Nodes : DiscAsk(s, n)
      BY <1>6
  <2>2. disc[s].pc = "ask" /\ UNCHANGED <<listed, isOnline>>
      BY <2>1 DEF DiscAsk, stores
  <2>3. OnNode(n) = {}
      BY DEF OnNode
  <2>4. Finds(s) => Finds(s)'
      BY <2>1, <2>2, <2>3, DiscAskFields DEF Finds
  <2> QED
      BY <1>1, <1>3, <1>4, <2>2, <2>4
<1>7. CASE DiscDel(s)
  <2>1. disc[s].pc = "del" /\ DiscNext(s, "unlist")
      BY <1>7 DEF DiscDel
  <2>2. Finds(s)'
      BY <2>1, DiscNextFields DEF DiscPcs, Finds
  <2> QED
      BY <2>2
<1>8. CASE DiscUnlist(s)
  <2>1. disc[s].pc = "unlist" /\ DiscNext(s, "db") /\ listed' = FALSE
      BY <1>8 DEF DiscUnlist
  <2>2. disc'[s].pc = "db"
      BY <2>1, DiscNextFields DEF DiscPcs
  <2> QED
      BY <2>1, <2>2
<1>9. CASE DiscDb(s)
  <2>1. disc[s].pc = "db" /\ UNCHANGED listed
      BY <1>9 DEF DiscDb
  <2>2. isOnline' = FALSE
      BY <1>9 DEF DiscDb, Fault
  <2>3. ~Finds(s)
      BY <2>1 DEF Finds
  <2> QED
      BY <1>3, <1>4, <2>1, <2>2, <2>3
<1>10. CASE DiscEmit(s) \/ DiscPrune(s) \/ DiscReadd(s)
  <2>1. disc[s].pc \in {"emit", "prune", "readd"} /\ UNCHANGED <<listed, isOnline>>
      BY <1>10 DEF DiscEmit, DiscPrune, DiscReadd
  <2>2. ~Finds(s)
      BY <2>1 DEF Finds
  <2> QED
      BY <1>1, <1>3, <1>4, <2>1, <2>2
<1> QED
    BY <1>5, <1>6, <1>7, <1>8, <1>9, <1>10 DEF Departs, DiscFails, Fault

LEMMA DepartsKeeps ==
    ASSUME PresenceInv, NEW s \in Sockets, Departs(s)
    PROVE  PresenceInv'
<1>1. /\ Leaving(s)
      /\ UNCHANGED <<up, live, conn, beat, sync, out, kicks>>
      /\ disc' \in [Sockets -> Fetching(DiscPcs)]
      /\ \A q \in Sockets \ {s} : disc'[q] = disc[q]
      /\ disc'[s].pc # "none"
      /\ disc'[s].steady \subseteq disc[s].steady
      /\ disc'[s].pc # "done" => disc'[s].steady = disc[s].steady
      /\ Knows(s)'
    BY DepartsFields DEF PresenceInv
<1>2. PresenceTypeOK'
    BY <1>1, DepartsStores DEF PresenceInv, PresenceTypeOK, DiscPcs
<1>3. Once' /\ Heard' /\ SteadyKept'
    BY <1>1 DEF PresenceInv, Once, Heard, HeardOf, SteadyKept, Knows, Leaving
<1>4. ASSUME ~mixed' PROVE OneKind' /\ Stays' /\ Shown' /\ Hidden'
  <2>1. ~mixed
      BY <1>4, DepartsStores DEF PresenceInv
  <2>2. OneKind /\ Stays /\ Shown /\ Hidden /\ SomeLeaving
      BY <1>1, <2>1 DEF PresenceInv, Calm, SomeLeaving
  <2>3. OneKind' /\ Stays'
      BY <1>1, <2>2
      DEF OneKind, Stays, SomeArriving, SomeLeaving, SomeSyncing, Arriving, Leaving, LoggingOut, Syncing
  <2>4. disc[s].steady = live
      BY <1>1, <2>2 DEF Stays
  <2>5. Shown'
    <3>1. Doomed' = Doomed
        BY <1>1 DEF Doomed, LoggingOut
    <3>2. CASE live = {} \/ Doomed
        BY <1>1, <3>1, <3>2 DEF Shown
    <3>3. CASE live # {} /\ ~Doomed
      <4>1. /\ live \subseteq keys' \/ \E q \in Sockets : disc'[q].pc = "readd"
            /\ listed' /\ isOnline' /\ told'
          BY <1>4, <2>2, <2>4, <3>3, DepartsShown DEF PresenceInv
      <4> QED
          BY <1>1, <4>1 DEF Shown
    <3> QED
        BY <3>2, <3>3
  <2>6. Hidden'
      BY <1>1, <1>4, <2>2, <2>4, DepartsHidden DEF PresenceInv, Hidden, Syncing
  <2> QED
      BY <2>3, <2>5, <2>6
<1> QED
    BY <1>2, <1>3, <1>4 DEF PresenceInv, Calm

-----------------------------------------------------------------------------
(* Sockets that leave the room, and logouts.                               *)

\* Leaving keeps what does not speak of the copies.
LEMMA LeavingKeeps ==
    ASSUME PresenceInv, NEW S \in SUBSET live, Depart(S), UNCHANGED <<conn, beat>>
    PROVE  /\ Once' /\ Heard' /\ SteadyKept'
           /\ live' = live \ S
           /\ disc' \in [Sockets -> Fetching(DiscPcs)] /\ sync' \in [Nodes -> Fetching(SyncPcs)]
<1>1. /\ live' = live \ S /\ live \subseteq Sockets
      /\ \A s \in S : /\ disc'[s].pc = "srem" /\ disc'[s].seen = {}
                      /\ disc'[s].steady = live \ S
      /\ \A s \in Sockets \ S :
           /\ disc'[s].pc = disc[s].pc /\ disc'[s].ask = disc[s].ask
           /\ disc'[s].seen = disc[s].seen /\ disc'[s].steady = disc[s].steady \ S
      /\ \A n \in Nodes :
           /\ sync'[n].pc = sync[n].pc /\ sync'[n].ask = sync[n].ask
           /\ sync'[n].seen = sync[n].seen /\ sync'[n].steady = sync[n].steady \ S
    BY DepartFields DEF PresenceInv, PresenceTypeOK
<1>2. Once'
    BY <1>1 DEF PresenceInv, Once
<1>3. Heard'
    BY <1>1 DEF PresenceInv, Heard, HeardOf
<1>4. SteadyKept'
    BY <1>1 DEF PresenceInv, SteadyKept
<1> QED
    BY <1>2, <1>3, <1>4, DepartFields DEF PresenceInv

\* And what the copies show, if no logout is to close the other sockets.
LEMMA LeavingCalm ==
    ASSUME PresenceInv, NEW S \in SUBSET live, Depart(S), UNCHANGED <<conn, beat, up>>,
           ~mixed, ~SomeArriving, ~SomeSyncing, UNCHANGED <<keys, listed, isOnline>>,
           Doomed' \/ (~Doomed /\ UNCHANGED told)
    PROVE  OneKind' /\ Stays' /\ Shown' /\ Hidden'
<1>1. /\ live' = live \ S /\ live \subseteq Sockets
      /\ \A s \in S : /\ disc'[s].pc = "srem" /\ disc'[s].seen = {}
                      /\ disc'[s].steady = live \ S
      /\ \A s \in Sockets \ S :
           /\ disc'[s].pc = disc[s].pc
           /\ disc'[s].seen = disc[s].seen /\ disc'[s].steady = disc[s].steady \ S
      /\ \A n \in Nodes : sync'[n].pc = sync[n].pc
    BY DepartFields DEF PresenceInv, PresenceTypeOK
<1>2. Stays /\ Shown /\ Hidden
    BY DEF PresenceInv, Calm
<1>3. /\ \A n \in Nodes : sync[n].pc = "none" /\ sync'[n].pc = "none"
      /\ \A s \in Sockets : ~Arriving(s) /\ ~Arriving(s)'
    BY <1>1 DEF SomeArriving, SomeSyncing, Syncing, Arriving
<1>4. OneKind'
    BY <1>3 DEF OneKind, SomeArriving, SomeSyncing, Syncing
<1>5. Stays'
    BY <1>1, <1>2, <1>3 DEF Stays, Leaving, Syncing
<1>6. Shown'
  <2>1. SUFFICES ASSUME live' # {}, ~Doomed' PROVE Shown'
      BY DEF Shown
  <2>2. /\ live \subseteq keys \/ \E q \in Sockets : disc[q].pc = "readd"
        /\ listed /\ isOnline /\ told
      BY <1>1, <1>2, <2>1, ShownDeparting DEF PresenceInv
  <2>3. \A q \in Sockets : disc[q].pc = "readd" => q \notin S
      BY DEF PresenceInv, Once
  <2>4. live' \subseteq keys' \/ \E q \in Sockets : disc'[q].pc = "readd"
      BY <1>1, <2>2, <2>3
  <2>5. listed' /\ isOnline' /\ told'
      BY <2>1, <2>2
  <2> QED
      BY <1>1, <2>4, <2>5 DEF Shown
<1>7. Hidden'
  <2>1. SUFFICES ASSUME live' = {}, up' = Nodes PROVE Hidden'
      BY DEF Hidden
  <2>2. CASE S # {}
    <3>1. PICK s \in S : TRUE
        BY <2>2
    <3>2. s \in Sockets /\ Finds(s)'
        BY <1>1, <3>1 DEF Finds
    <3> QED
        BY <3>2 DEF Hidden
  <2>3. CASE S = {}
    <3>1. live = {} /\ up = Nodes
        BY <1>1, <2>1, <2>3
    <3>2. /\ \A s \in Sockets : Finds(s)' = Finds(s) /\ disc'[s].pc = disc[s].pc
          /\ \A n \in Nodes : ~Syncing(n)
        BY <1>1, <1>3, <2>3 DEF Finds, Syncing
    <3>3. /\ listed => \E s \in Sockets : Finds(s)
          /\ isOnline => \E s \in Sockets : Finds(s) \/ disc[s].pc = "db"
        BY <1>2, <1>3, <3>1, <3>2 DEF Hidden
    <3> QED
        BY <3>2, <3>3 DEF Hidden
  <2> QED
      BY <2>2, <2>3
<1> QED
    BY <1>4, <1>5, <1>6, <1>7

LEMMA DisconnectKeeps ==
    ASSUME PresenceInv, NEW s \in Sockets, Disconnect(s)
    PROVE  PresenceInv'
<1>1. /\ s \in live /\ Depart({s})
      /\ UNCHANGED <<up, keys, listed, isOnline, told, conn, beat, out, kicks, faults>>
    BY DEF Disconnect, stores
<1>2. mixed' \in BOOLEAN /\ (~mixed' => ~mixed /\ ~SomeArriving /\ ~SomeSyncing)
  <2>1. (SomeArriving \/ SomeSyncing) \in BOOLEAN
      OBVIOUS
  <2> QED
      BY <2>1, MixedBoolean DEF Disconnect, PresenceInv
<1>3. /\ Once' /\ Heard' /\ SteadyKept' /\ live' = live \ {s}
      /\ disc' \in [Sockets -> Fetching(DiscPcs)] /\ sync' \in [Nodes -> Fetching(SyncPcs)]
    BY <1>1, LeavingKeeps
<1>4. PresenceTypeOK'
    BY <1>1, <1>2, <1>3 DEF PresenceInv, PresenceTypeOK, DiscPcs, SyncPcs
<1>5. Doomed => Doomed'
    BY <1>1, <1>3 DEF Doomed, LoggingOut
<1>6. ~mixed' => OneKind' /\ Stays' /\ Shown' /\ Hidden'
    BY <1>1, <1>2, <1>5, LeavingCalm
<1> QED
    BY <1>3, <1>4, <1>6 DEF PresenceInv, Calm

LEMMA KickedKeeps ==
    ASSUME PresenceInv, NEW n \in Nodes, Kicked(n)
    PROVE  PresenceInv'
<1>1. /\ OnNode(n) \subseteq live /\ Depart(OnNode(n)) /\ kicks' = kicks \ {n}
      /\ UNCHANGED <<up, keys, listed, isOnline, told, conn, beat, out, faults>>
    BY DEF Kicked, OnNode, stores
<1>2. mixed' \in BOOLEAN /\ (~mixed' => ~mixed /\ ~SomeArriving /\ ~SomeSyncing)
  <2>1. (SomeArriving \/ SomeSyncing) \in BOOLEAN
      OBVIOUS
  <2> QED
      BY <2>1, MixedBoolean DEF Kicked, PresenceInv
<1>3. /\ Once' /\ Heard' /\ SteadyKept' /\ live' = live \ OnNode(n)
      /\ disc' \in [Sockets -> Fetching(DiscPcs)] /\ sync' \in [Nodes -> Fetching(SyncPcs)]
    BY <1>1, LeavingKeeps
<1>4. PresenceTypeOK'
    BY <1>1, <1>2, <1>3 DEF PresenceInv, PresenceTypeOK, DiscPcs, SyncPcs
<1>5. Doomed => Doomed'
    BY <1>1, <1>3 DEF Doomed, LoggingOut, OnNode, PresenceInv, PresenceTypeOK
<1>6. ~mixed' => OneKind' /\ Stays' /\ Shown' /\ Hidden'
    BY <1>1, <1>2, <1>5, LeavingCalm
<1> QED
    BY <1>3, <1>4, <1>6 DEF PresenceInv, Calm

LEMMA OutKickKeeps ==
    ASSUME PresenceInv, NEW o \in Logouts, OutKick(o)
    PROVE  PresenceInv'
<1> DEFINE n == NodeOf[o]
<1>1. /\ OnNode(n) \subseteq live /\ Depart(OnNode(n)) /\ kicks' = kicks \cup (up \ {n})
      /\ told' = FALSE /\ out' = [out EXCEPT ![o] = "done"]
      /\ UNCHANGED <<up, keys, listed, isOnline, conn, beat, faults>>
    BY DEF OutKick, OutGoto, OnNode
<1>2. mixed' \in BOOLEAN /\ (~mixed' => ~mixed /\ ~SomeArriving /\ ~SomeSyncing)
  <2>1. (SomeArriving \/ SomeSyncing) \in BOOLEAN
      OBVIOUS
  <2> QED
      BY <2>1, MixedBoolean DEF OutKick, PresenceInv
<1>3. /\ Once' /\ Heard' /\ SteadyKept' /\ live' = live \ OnNode(n)
      /\ disc' \in [Sockets -> Fetching(DiscPcs)] /\ sync' \in [Nodes -> Fetching(SyncPcs)]
    BY <1>1, LeavingKeeps
<1>4. PresenceTypeOK'
    BY <1>1, <1>2, <1>3 DEF PresenceInv, PresenceTypeOK, DiscPcs, SyncPcs
<1>5. Doomed'
    BY <1>1, <1>3 DEF Doomed, OnNode, PresenceInv, PresenceTypeOK
<1>6. ~mixed' => OneKind' /\ Stays' /\ Shown' /\ Hidden'
    BY <1>1, <1>2, <1>5, LeavingCalm
<1> QED
    BY <1>3, <1>4, <1>6 DEF PresenceInv, Calm

LEMMA LogoutKeeps ==
    ASSUME PresenceInv, NEW o \in Logouts, Logout(o)
    PROVE  PresenceInv'
<1>1. /\ out' = [out EXCEPT ![o] = "db"]
      /\ UNCHANGED <<up, live, keys, listed, isOnline, told, conn, beat, disc, sync, kicks, faults>>
    BY DEF Logout, OutGoto, stores
<1>2. mixed' \in BOOLEAN /\ (~mixed' => ~mixed /\ ~SomeArriving /\ ~SomeSyncing)
  <2>1. (SomeArriving \/ SomeSyncing) \in BOOLEAN
      OBVIOUS
  <2> QED
      BY <2>1, MixedBoolean DEF Logout, PresenceInv
<1>3. PresenceTypeOK'
    BY <1>1, <1>2 DEF PresenceInv, PresenceTypeOK
<1>4. Once' /\ Heard' /\ SteadyKept'
    BY <1>1 DEF PresenceInv, Once, Heard, HeardOf, SteadyKept
<1>5. ASSUME ~mixed' PROVE OneKind' /\ Stays' /\ Shown' /\ Hidden'
  <2>1. ~mixed /\ ~SomeArriving /\ ~SomeSyncing /\ Stays /\ Hidden
      BY <1>2, <1>5 DEF PresenceInv, Calm
  <2>2. OneKind' /\ Stays'
      BY <1>1, <2>1
      DEF OneKind, Stays, SomeArriving, SomeLeaving, SomeSyncing, Arriving, Leaving, Syncing
  <2>3. Doomed'
    <3>1. LoggingOut(o)'
        BY <1>1 DEF LoggingOut, PresenceInv, PresenceTypeOK
    <3> QED
        BY <3>1 DEF Doomed
  <2>4. Shown' /\ Hidden'
      BY <1>1, <2>1, <2>3 DEF Shown, Hidden, Finds, Syncing
  <2> QED
      BY <2>2, <2>4
<1> QED
    BY <1>3, <1>4, <1>5 DEF PresenceInv, Calm

LEMMA OutKeeps ==
    ASSUME PresenceInv, NEW o \in Logouts, OutDb(o) \/ OutDel(o) \/ OutUnlist(o) \/ OutFails(o)
    PROVE  PresenceInv'
<1>1. PICK pc \in {"del", "unlist", "kick", "done"} : out' = [out EXCEPT ![o] = pc]
    BY DEF OutDb, OutDel, OutUnlist, OutFails, OutGoto
<1>2. LoggingOut(o) /\ UNCHANGED <<up, live, told, conn, beat, disc, sync, kicks>>
    BY DEF OutDb, OutDel, OutUnlist, OutFails, OutGoto, LoggingOut, stores
<1>3. /\ keys' = {} \/ UNCHANGED keys
      /\ listed' = FALSE \/ UNCHANGED listed
      /\ isOnline' = FALSE \/ UNCHANGED isOnline
    BY DEF OutDb, OutDel, OutUnlist, OutFails, stores
<1>4. NoFault \/ Fault
    BY DEF OutDb, OutDel, OutUnlist, OutFails
<1>5. mixed' \in BOOLEAN /\ (mixed' \/ mixed' = mixed)
    BY <1>4, FaultKeeps, Zenon DEF PresenceInv
<1>6. PresenceTypeOK'
  <2>1. /\ keys \subseteq Sockets /\ listed \in BOOLEAN /\ isOnline \in BOOLEAN /\ told \in BOOLEAN
      BY DEF PresenceInv, PresenceTypeOK
  <2>2. listed' \in BOOLEAN /\ isOnline' \in BOOLEAN /\ keys' \subseteq Sockets
      BY <1>3, <2>1
  <2>3. faults' \in 0 .. MaxFaults
      BY <1>4, FaultKeeps DEF PresenceInv
  <2> QED
      BY <1>1, <1>2, <1>5, <2>1, <2>2, <2>3 DEF PresenceInv, PresenceTypeOK
<1>7. Once' /\ Heard' /\ SteadyKept'
    BY <1>2 DEF PresenceInv, Once, Heard, HeardOf, SteadyKept
<1>8. ASSUME ~mixed' PROVE OneKind' /\ Stays' /\ Shown' /\ Hidden'
  <2>1. ~mixed
      BY <1>5, <1>8
  <2>2. OneKind /\ Stays /\ Hidden /\ SomeLeaving
      BY <1>2, <2>1 DEF PresenceInv, Calm, SomeLeaving
  <2>3. out'[o] # "done"
      BY <1>8 DEF OutDb, OutDel, OutUnlist, OutFails, OutGoto, Fault, PresenceInv, PresenceTypeOK
  <2>4. LoggingOut(o)'
      BY <1>1, <2>3 DEF LoggingOut, PresenceInv, PresenceTypeOK
  <2>5. OneKind' /\ Stays'
      BY <1>2, <2>2
      DEF OneKind, Stays, SomeArriving, SomeLeaving, SomeSyncing, Arriving, Leaving, Syncing
  <2>6. Shown'
      BY <2>4 DEF Shown, Doomed
  <2>7. (listed' => listed) /\ (isOnline' => isOnline)
      BY <1>3
  <2>8. Hidden'
      BY <1>2, <2>2, <2>7 DEF Hidden, Finds, Syncing
  <2> QED
      BY <2>5, <2>6, <2>8
<1> QED
    BY <1>6, <1>7, <1>8 DEF PresenceInv, Calm

-----------------------------------------------------------------------------
(* The start of a node.                                                    *)

LEMMA SyncNextFields ==
    ASSUME PresenceTypeOK, NEW n \in Nodes, NEW pc \in SyncPcs, SyncNext(n, pc)
    PROVE  /\ sync' \in [Nodes -> Fetching(SyncPcs)]
           /\ \A m \in Nodes \ {n} : sync'[m] = sync[m]
           /\ sync'[n].pc = pc
           /\ pc = "none" => sync'[n].steady = {} /\ sync'[n].seen = {}
           /\ pc # "none" => sync'[n].steady = sync[n].steady /\ sync'[n].seen = sync[n].seen
           /\ UNCHANGED <<conn, beat, disc, out>>
<1> DEFINE x == IF pc = "none" THEN NoHandler ELSE [sync[n] EXCEPT !.pc = pc]
<1>1. sync \in [Nodes -> Fetching(SyncPcs)] /\ sync[n] \in Fetching(SyncPcs)
    BY DEF PresenceTypeOK, SyncPcs
<1>2. sync' = [sync EXCEPT ![n] = x] /\ UNCHANGED <<conn, beat, disc, out>>
    BY DEF SyncNext, SyncGoto
<1>3. /\ x \in Fetching(SyncPcs) /\ x.pc = pc
      /\ pc = "none" => x.steady = {} /\ x.seen = {}
      /\ pc # "none" => x.steady = sync[n].steady /\ x.seen = sync[n].seen
  <2>1. CASE pc = "none"
      BY <2>1, Handlers
  <2>2. CASE pc # "none"
    <3>1. x = [sync[n] EXCEPT !.pc = pc]
        BY <2>2
    <3> QED
        BY <1>1, <2>2, <3>1, PcFields
  <2> QED
      BY <2>1, <2>2
<1> HIDE DEF x
<1> QED
    BY <1>1, <1>2, <1>3

LEMMA SyncAskFields ==
    ASSUME PresenceTypeOK, NEW n \in Nodes, NEW m \in Nodes, SyncAsk(n, m)
    PROVE  /\ sync' \in [Nodes -> Fetching(SyncPcs)]
           /\ \A k \in Nodes \ {n} : sync'[k] = sync[k]
           /\ sync[n].pc = "ask" /\ sync'[n].pc \in {"ask", "del"}
           /\ sync'[n].steady = sync[n].steady /\ sync'[n].seen = sync[n].seen \cup OnNode(m)
           /\ sync'[n].ask = sync[n].ask \ {m}
           /\ sync'[n].pc = "del" => sync'[n].ask = {}
           /\ UNCHANGED <<conn, beat, disc, out>>
<1> DEFINE h == Hear(sync[n], m)
           d == [h EXCEPT !.pc = "del"]
           x == IF h.ask = {} THEN d ELSE h
<1>1. /\ sync \in [Nodes -> Fetching(SyncPcs)] /\ sync[n] \in Fetching(SyncPcs)
      /\ live \subseteq Sockets
    BY DEF PresenceTypeOK, SyncPcs
<1>2. /\ sync' = [sync EXCEPT ![n] = x] /\ UNCHANGED <<conn, beat, disc, out>>
      /\ sync[n].pc = "ask"
    BY DEF SyncAsk, SyncGoto
<1>3. /\ h \in Fetching(SyncPcs) /\ h.pc = "ask"
      /\ h.ask = sync[n].ask \ {m} /\ h.seen = sync[n].seen \cup OnNode(m)
      /\ h.steady = sync[n].steady
    BY <1>1, <1>2, HearFields
<1>4. /\ d \in Fetching(SyncPcs) /\ d.pc = "del" /\ d.ask = h.ask /\ d.seen = h.seen
      /\ d.steady = h.steady
    BY <1>3, PcFields DEF SyncPcs
<1> HIDE DEF h, d
<1>5. /\ x \in Fetching(SyncPcs) /\ x.pc \in {"ask", "del"}
      /\ x.ask = h.ask /\ x.seen = h.seen /\ x.steady = h.steady
      /\ x.pc = "del" => x.ask = {}
    BY <1>3, <1>4
<1> HIDE DEF x
<1> QED
    BY <1>1, <1>2, <1>3, <1>5

Syncs(n) == (\E m \in Nodes : SyncAsk(n, m)) \/ SyncDel(n) \/ SyncAdd(n) \/ SyncDb(n) \/ SyncFails(n)

LEMMA SyncsFields ==
    ASSUME PresenceTypeOK, Heard, NEW n \in Nodes, Syncs(n)
    PROVE  /\ Syncing(n)
           /\ UNCHANGED <<up, live, conn, beat, disc, out, kicks, keys, told>>
           /\ sync' \in [Nodes -> Fetching(SyncPcs)]
           /\ \A k \in Nodes \ {n} : sync'[k] = sync[k]
           /\ sync'[n].steady \subseteq sync[n].steady
           /\ Syncing(n)' => sync'[n].steady = sync[n].steady
           /\ sync'[n].pc = "ask" => HeardOf(sync'[n])
           /\ sync'[n].pc \in {"del", "add", "db"} => sync'[n].steady \subseteq sync'[n].seen
           /\ sync'[n].pc = "add" => sync'[n].seen # {}
           /\ sync'[n].seen \subseteq sync[n].seen \cup live
<1> USE DEF Syncing
<1>1. CASE \E m \in Nodes : SyncAsk(n, m)
  <2>1. PICK m \in Nodes : SyncAsk(n, m)
      BY <1>1
  <2>2. UNCHANGED <<up, live, kicks, keys, told>>
      BY <2>1 DEF SyncAsk, stores
  <2>3. HeardOf(sync'[n])
    <3>1. HeardOf(sync[n]) /\ sync[n].steady \subseteq live
        BY <2>1, SyncAskFields DEF Heard
    <3>2. /\ sync'[n].ask = sync[n].ask \ {m} /\ sync'[n].seen = sync[n].seen \cup OnNode(m)
          /\ sync'[n].steady = sync[n].steady
        BY <2>1, SyncAskFields
    <3> QED
        BY <3>1, <3>2, HearStays
  <2>4. sync'[n].pc = "del" => sync'[n].steady \subseteq sync'[n].seen
      BY <2>1, <2>3, SyncAskFields DEF HeardOf
  <2> QED
      BY <2>1, <2>2, <2>3, <2>4, SyncAskFields DEF OnNode
<1>2. CASE SyncDel(n)
  <2>1. /\ sync[n].pc = "del" /\ UNCHANGED <<up, live, kicks, keys, told>>
        /\ SyncNext(n, IF sync[n].seen = {} THEN "db" ELSE "add")
      BY <1>2 DEF SyncDel
  <2>2. CASE sync[n].seen = {}
      BY <2>1, <2>2, SyncNextFields DEF SyncPcs, Heard
  <2>3. CASE sync[n].seen # {}
      BY <2>1, <2>3, SyncNextFields DEF SyncPcs, Heard
  <2> QED
      BY <2>2, <2>3
<1>3. CASE SyncAdd(n)
  <2>1. /\ sync[n].pc = "add" /\ UNCHANGED <<up, live, kicks, keys, told>> /\ SyncNext(n, "db")
      BY <1>3 DEF SyncAdd
  <2> QED
      BY <2>1, SyncNextFields DEF SyncPcs, Heard
<1>4. CASE SyncDb(n) \/ SyncFails(n)
  <2>1. /\ sync[n].pc # "none" /\ UNCHANGED <<up, live, kicks, keys, told>> /\ SyncNext(n, "none")
      BY <1>4 DEF SyncDb, SyncFails, stores
  <2> QED
      BY <2>1, SyncNextFields DEF SyncPcs
<1> QED
    BY <1>1, <1>2, <1>3, <1>4 DEF Syncs

LEMMA SyncsStores ==
    ASSUME PresenceTypeOK, NEW n \in Nodes, Syncs(n)
    PROVE  /\ {listed', isOnline'} \subseteq BOOLEAN
           /\ faults' \in 0 .. MaxFaults /\ mixed' \in BOOLEAN /\ (mixed' \/ mixed' = mixed)
<1>1. NoFault \/ Fault
    BY DEF Syncs, SyncAsk, SyncDel, SyncAdd, SyncDb, SyncFails
<1>2. listed \in BOOLEAN /\ isOnline \in BOOLEAN
    BY DEF PresenceTypeOK
<1>3. listed' = FALSE \/ listed' = TRUE \/ UNCHANGED listed
    BY DEF Syncs, SyncAsk, SyncDel, SyncAdd, SyncDb, SyncFails, stores
<1>4. isOnline' = (isOnline /\ sync[n].seen # {}) \/ UNCHANGED isOnline
    BY DEF Syncs, SyncAsk, SyncDel, SyncAdd, SyncDb, SyncFails, stores
<1>5. listed' \in BOOLEAN /\ isOnline' \in BOOLEAN
    BY <1>2, <1>3, <1>4
<1>6. faults' \in 0 .. MaxFaults
    BY <1>1, FaultKeeps
<1>7. mixed' \in BOOLEAN /\ (mixed' \/ mixed' = mixed)
    BY <1>1, FaultKeeps, Zenon
<1> QED
    BY <1>5, <1>6, <1>7

\* A start that does not fail leaves a user with sockets shown ...
LEMMA SyncsShown ==
    ASSUME PresenceTypeOK, Heard, OneKind, Stays, Shown, live # {}, ~Doomed,
           NEW n \in Nodes, Syncs(n), ~mixed'
    PROVE  /\ live \subseteq keys' /\ told' /\ isOnline'
           /\ listed' \/ sync'[n].pc = "add"
<1>1. /\ Syncing(n) /\ UNCHANGED <<keys, told>>
      /\ sync[n].steady = live
    BY SyncsFields DEF Stays
<1>2. /\ \A q \in Sockets : conn[q] \in {"new", "done"} /\ disc[q].pc # "readd"
      /\ \A m \in Nodes \ {n} : sync[m].pc = "none"
      /\ live \subseteq Sockets
    BY <1>1 DEF OneKind, SomeArriving, SomeLeaving, SomeSyncing, Arriving, Leaving, Syncing, PresenceTypeOK
<1>3. live \subseteq keys /\ told /\ isOnline /\ (listed \/ sync[n].pc = "add")
    BY <1>2 DEF Shown
<1>4. CASE \E m \in Nodes : SyncAsk(n, m)
    BY <1>1, <1>3, <1>4 DEF SyncAsk, stores
<1>5. CASE SyncDel(n)
  <2>1. /\ sync[n].pc = "del" /\ UNCHANGED isOnline
        /\ SyncNext(n, IF sync[n].seen = {} THEN "db" ELSE "add")
      BY <1>5 DEF SyncDel
  <2>2. sync[n].seen # {}
      BY <1>1, <2>1 DEF Heard
  <2>3. SyncNext(n, "add")
      BY <2>1, <2>2
  <2>4. sync'[n].pc = "add"
      BY <2>3, SyncNextFields DEF SyncPcs
  <2> QED
      BY <1>1, <1>3, <2>1, <2>4
<1>6. CASE SyncAdd(n)
    BY <1>1, <1>3, <1>6 DEF SyncAdd
<1>7. CASE SyncDb(n)
  <2>1. sync[n].pc = "db" /\ isOnline' = (isOnline /\ sync[n].seen # {}) /\ UNCHANGED listed
      BY <1>7 DEF SyncDb
  <2>2. sync[n].seen # {}
      BY <1>1, <2>1 DEF Heard
  <2> QED
      BY <1>1, <1>3, <2>1, <2>2
<1> QED
    BY <1>4, <1>5, <1>6, <1>7 DEF Syncs, SyncFails, Fault

\* ... and one without sockets hidden in the end.
LEMMA SyncsHidden ==
    ASSUME PresenceTypeOK, Heard, OneKind, Stays, Hidden, live = {}, up = Nodes,
           NEW n \in Nodes, Syncs(n), ~mixed'
    PROVE  /\ listed' => sync'[n].pc \in {"ask", "del"}
           /\ isOnline' => Syncing(n)'
<1>1. /\ Syncing(n) /\ sync[n].seen = {}
    BY SyncsFields DEF Stays
<1>2. /\ \A q \in Sockets : disc[q].pc \in {"none", "done"}
      /\ \A m \in Nodes \ {n} : sync[m].pc = "none"
    BY <1>1 DEF OneKind, SomeLeaving, SomeSyncing, Leaving, Syncing
<1>3. listed => sync[n].pc \in {"ask", "del"}
    BY <1>2 DEF Hidden, Finds
<1>4. CASE \E m \in Nodes : SyncAsk(n, m)
    BY <1>4, SyncAskFields DEF Syncing
<1>5. CASE SyncDel(n)
  <2>1. SyncNext(n, "db") /\ listed' = FALSE
      BY <1>1, <1>5 DEF SyncDel
  <2>2. sync'[n].pc = "db"
      BY <2>1, SyncNextFields DEF SyncPcs
  <2> QED
      BY <2>1, <2>2 DEF Syncing
<1>6. ~SyncAdd(n)
    BY <1>1 DEF SyncAdd, Heard
<1>7. CASE SyncDb(n)
  <2>1. sync[n].pc = "db" /\ isOnline' = (isOnline /\ sync[n].seen # {}) /\ UNCHANGED listed
      BY <1>7 DEF SyncDb
  <2> QED
      BY <1>1, <1>3, <2>1
<1> QED
    BY <1>4, <1>5, <1>6, <1>7 DEF Syncs, SyncFails, Fault

LEMMA SyncsKeeps ==
    ASSUME PresenceInv, NEW n \in Nodes, Syncs(n)
    PROVE  PresenceInv'
<1>1. /\ Syncing(n)
      /\ UNCHANGED <<up, live, conn, beat, disc, out, kicks, keys, told>>
      /\ sync' \in [Nodes -> Fetching(SyncPcs)]
      /\ \A k \in Nodes \ {n} : sync'[k] = sync[k]
      /\ sync'[n].steady \subseteq sync[n].steady
      /\ Syncing(n)' => sync'[n].steady = sync[n].steady
      /\ sync'[n].pc = "ask" => HeardOf(sync'[n])
      /\ sync'[n].pc \in {"del", "add", "db"} => sync'[n].steady \subseteq sync'[n].seen
      /\ sync'[n].pc = "add" => sync'[n].seen # {}
      /\ sync'[n].seen \subseteq sync[n].seen \cup live
    BY SyncsFields DEF PresenceInv
<1>2. PresenceTypeOK'
    BY <1>1, SyncsStores DEF PresenceInv, PresenceTypeOK, SyncPcs
<1>3. Once' /\ Heard'
    BY <1>1 DEF PresenceInv, Once, Heard, HeardOf
<1>4. SteadyKept'
    BY <1>1, <1>3 DEF PresenceInv, SteadyKept, Heard
<1>5. ASSUME ~mixed' PROVE OneKind' /\ Stays' /\ Shown' /\ Hidden'
  <2>1. ~mixed
      BY <1>5, SyncsStores DEF PresenceInv
  <2>2. OneKind /\ Stays /\ Shown /\ Hidden /\ SomeSyncing
      BY <1>1, <2>1 DEF PresenceInv, Calm, SomeSyncing
  <2>3. OneKind'
      BY <1>1, <2>2
      DEF OneKind, SomeArriving, SomeLeaving, SomeSyncing, Arriving, Leaving, LoggingOut, Syncing
  <2>4. Stays'
      BY <1>1, <2>2 DEF Stays, Arriving, Leaving, Syncing
  <2>5. Shown'
    <3>1. Doomed' = Doomed
        BY <1>1 DEF Doomed, LoggingOut
    <3>2. CASE live = {} \/ Doomed
        BY <1>1, <3>1, <3>2 DEF Shown
    <3>3. CASE live # {} /\ ~Doomed
      <4>1. live \subseteq keys' /\ told' /\ isOnline' /\ (listed' \/ sync'[n].pc = "add")
          BY <1>5, <2>2, <3>3, SyncsShown DEF PresenceInv
      <4> QED
          BY <1>1, <4>1 DEF Shown
    <3> QED
        BY <3>2, <3>3
  <2>6. Hidden'
    <3>1. CASE live # {} \/ up # Nodes
        BY <1>1, <3>1 DEF Hidden
    <3>2. CASE live = {} /\ up = Nodes
      <4>1. (listed' => sync'[n].pc \in {"ask", "del"}) /\ (isOnline' => Syncing(n)')
          BY <1>5, <2>2, <3>2, SyncsHidden DEF PresenceInv
      <4> QED
          BY <4>1 DEF Hidden
    <3> QED
        BY <3>1, <3>2
  <2> QED
      BY <2>3, <2>4, <2>5, <2>6
<1> QED
    BY <1>2, <1>3, <1>4, <1>5 DEF PresenceInv, Calm

LEMMA StartKeeps ==
    ASSUME PresenceInv, NEW n \in Nodes, Start(n)
    PROVE  PresenceInv'
<1> DEFINE x == [pc |-> "ask", ask |-> up', seen |-> {}, steady |-> live]
<1>1. /\ up' = up \cup {n} /\ sync' = [sync EXCEPT ![n] = x]
      /\ UNCHANGED <<live, keys, listed, isOnline, told, conn, beat, disc, out, kicks, faults>>
    BY DEF Start, SyncGoto, stores
<1>2. /\ up \subseteq Nodes /\ live \subseteq {t \in Sockets : NodeOf[t] \in up}
      /\ sync \in [Nodes -> Fetching(SyncPcs)]
    BY DEF PresenceInv, PresenceTypeOK, SyncPcs
<1>3. /\ x \in Fetching(SyncPcs) /\ x.pc = "ask" /\ x.ask = up' /\ x.seen = {}
      /\ x.steady = live
    BY <1>1, <1>2 DEF Fetching, SyncPcs
<1> HIDE DEF x
<1>4. /\ sync' \in [Nodes -> Fetching(SyncPcs)] /\ sync'[n] = x
      /\ \A k \in Nodes \ {n} : sync'[k] = sync[k]
    BY <1>1, <1>2, <1>3
<1>5. mixed' \in BOOLEAN /\ (~mixed' => ~mixed /\ ~SomeArriving /\ ~SomeLeaving /\ ~SomeSyncing)
  <2>1. (SomeArriving \/ SomeLeaving \/ SomeSyncing) \in BOOLEAN
      OBVIOUS
  <2> QED
      BY <2>1, MixedBoolean DEF Start, PresenceInv
<1>6. PresenceTypeOK'
    BY <1>1, <1>2, <1>4, <1>5 DEF PresenceInv, PresenceTypeOK, SyncPcs
<1>7. HeardOf(x)
    BY <1>1, <1>2, <1>3 DEF HeardOf
<1>8. Once' /\ Heard' /\ SteadyKept'
    BY <1>1, <1>3, <1>4, <1>7 DEF PresenceInv, Once, Heard, HeardOf, SteadyKept
<1>9. ASSUME ~mixed' PROVE OneKind' /\ Stays' /\ Shown' /\ Hidden'
  <2>1. ~mixed /\ ~SomeArriving /\ ~SomeLeaving /\ ~SomeSyncing /\ Stays /\ Shown
      BY <1>5, <1>9 DEF PresenceInv, Calm
  <2>2. OneKind'
      BY <1>1, <1>3, <1>4, <2>1
      DEF OneKind, SomeArriving, SomeLeaving, SomeSyncing, Arriving, Leaving, LoggingOut, Syncing
  <2>3. Stays'
      BY <1>1, <1>3, <1>4, <2>1
      DEF Stays, SomeArriving, SomeLeaving, SomeSyncing, Arriving, Leaving, Syncing
  <2>4. Shown'
    <3>1. Doomed' = Doomed
        BY <1>1 DEF Doomed, LoggingOut
    <3>2. \A k \in Nodes : sync[k].pc = "none"
        BY <2>1 DEF SomeSyncing, Syncing
    <3> QED
        BY <1>1, <2>1, <3>1, <3>2 DEF Shown
  <2>5. Hidden'
    <3>1. sync'[n].pc = "ask" /\ Syncing(n)'
        BY <1>3, <1>4 DEF Syncing
    <3> QED
        BY <3>1 DEF Hidden
  <2> QED
      BY <2>2, <2>3, <2>4, <2>5
<1> QED
    BY <1>6, <1>8, <1>9 DEF PresenceInv, Calm

-----------------------------------------------------------------------------
(* The crash of a node.                                                    *)

LEMMA CrashFields ==
    ASSUME PresenceTypeOK, NEW n \in Nodes, Crash(n)
    PROVE  /\ disc' \in [Sockets -> Fetching(DiscPcs)] /\ sync' \in [Nodes -> Fetching(SyncPcs)]
           /\ \A s \in Sockets :
                IF Leaving(s) /\ Lost(disc[s], NodeOf[s], n)
                THEN disc'[s].pc = "done" /\ disc'[s].steady = {} /\ disc'[s].seen = {}
                ELSE /\ disc'[s].pc = disc[s].pc /\ disc'[s].ask = disc[s].ask
                     /\ disc'[s].seen = disc[s].seen
                     /\ disc'[s].steady = disc[s].steady \ OnNode(n)
           /\ \A m \in Nodes :
                \/ sync'[m].pc = "none" /\ sync'[m].steady = {} /\ sync'[m].seen = {}
                \/ /\ sync'[m].pc = sync[m].pc /\ sync'[m].ask = sync[m].ask
                   /\ sync'[m].seen = sync[m].seen
                   /\ sync'[m].steady = sync[m].steady \ OnNode(n)
<1> DEFINE over == [NoHandler EXCEPT !.pc = "done"]
           S == OnNode(n)
<1>1. /\ disc \in [Sockets -> Fetching(DiscPcs)] /\ sync \in [Nodes -> Fetching(SyncPcs)]
    BY DEF PresenceTypeOK, DiscPcs, SyncPcs
<1>2. /\ disc' = [s \in Sockets |-> IF Leaving(s) /\ Lost(disc[s], NodeOf[s], n) THEN over
                                    ELSE Forget(disc[s], S)]
      /\ sync' = [m \in Nodes |-> IF Lost(sync[m], m, n) THEN NoHandler ELSE Forget(sync[m], S)]
    BY DEF Crash
<1>3. over \in Fetching(DiscPcs) /\ over.pc = "done" /\ over.steady = {} /\ over.seen = {}
    BY Handlers, PcFields DEF DiscPcs
<1>4. ASSUME NEW pcs, NEW h \in Fetching(pcs)
      PROVE  /\ Forget(h, S) \in Fetching(pcs)
             /\ Forget(h, S).pc = h.pc /\ Forget(h, S).ask = h.ask
             /\ Forget(h, S).seen = h.seen /\ Forget(h, S).steady = h.steady \ S
    BY <1>4 DEF Forget, Fetching
<1> HIDE DEF over, S
<1>5. ASSUME NEW s \in Sockets
      PROVE  IF Leaving(s) /\ Lost(disc[s], NodeOf[s], n) THEN disc'[s] = over
             ELSE disc'[s] = Forget(disc[s], S) /\ disc[s] \in Fetching(DiscPcs)
    BY <1>1, <1>2
<1>6. ASSUME NEW m \in Nodes
      PROVE  IF Lost(sync[m], m, n) THEN sync'[m] = NoHandler
             ELSE sync'[m] = Forget(sync[m], S) /\ sync[m] \in Fetching(SyncPcs)
    BY <1>1, <1>2
<1>7. disc' \in [Sockets -> Fetching(DiscPcs)]
    BY <1>1, <1>2, <1>3, <1>4
<1>8. sync' \in [Nodes -> Fetching(SyncPcs)]
    BY <1>1, <1>2, <1>4, Handlers
<1>9. S = OnNode(n)
    BY DEF S
<1> QED
    BY <1>3, <1>4, <1>5, <1>6, <1>7, <1>8, <1>9, Handlers

LEMMA CrashKeeps ==
    ASSUME PresenceInv, NEW n \in Nodes, Crash(n)
    PROVE  PresenceInv'
<1>1. /\ n \in up /\ up' = up \ {n} /\ live' = live \ OnNode(n) /\ kicks' = kicks \ {n}
      /\ UNCHANGED <<keys, listed, isOnline, told>>
    BY DEF Crash, stores
<1>2. /\ conn' = [s \in Sockets |-> IF NodeOf[s] = n /\ conn[s] # "new" THEN "done" ELSE conn[s]]
      /\ beat' = [s \in Sockets |-> IF NodeOf[s] = n THEN "none" ELSE beat[s]]
      /\ out' = [o \in Logouts |-> IF NodeOf[o] = n /\ LoggingOut(o) THEN "done" ELSE out[o]]
    BY DEF Crash
<1>3. \A s \in Sockets :
        IF Leaving(s) /\ Lost(disc[s], NodeOf[s], n)
        THEN disc'[s].pc = "done" /\ disc'[s].steady = {} /\ disc'[s].seen = {}
        ELSE /\ disc'[s].pc = disc[s].pc /\ disc'[s].ask = disc[s].ask
             /\ disc'[s].seen = disc[s].seen
             /\ disc'[s].steady = disc[s].steady \ OnNode(n)
    BY CrashFields DEF PresenceInv
<1>4. \A m \in Nodes :
        \/ sync'[m].pc = "none" /\ sync'[m].steady = {} /\ sync'[m].seen = {}
        \/ /\ sync'[m].pc = sync[m].pc /\ sync'[m].ask = sync[m].ask
           /\ sync'[m].seen = sync[m].seen
           /\ sync'[m].steady = sync[m].steady \ OnNode(n)
    BY CrashFields DEF PresenceInv
<1>5. mixed' \in BOOLEAN /\ (~mixed' => ~mixed /\ ~Busy(n))
  <2>1. Busy(n) \in BOOLEAN /\ mixed \in BOOLEAN /\ mixed' = (mixed \/ Busy(n))
      BY DEF Busy, Crash, PresenceInv, PresenceTypeOK
  <2> QED
      BY <2>1, Zenon
<1>6. PresenceTypeOK'
  <2>1. faults' \in 0 .. MaxFaults
      BY FaultsAssumption DEF Crash, PresenceInv, PresenceTypeOK
  <2>2. disc' \in [Sockets -> Fetching(DiscPcs)] /\ sync' \in [Nodes -> Fetching(SyncPcs)]
      BY CrashFields DEF PresenceInv
  <2>3. listed' \in BOOLEAN /\ isOnline' \in BOOLEAN /\ told' \in BOOLEAN /\ keys' \subseteq Sockets
      BY <1>1 DEF PresenceInv, PresenceTypeOK
  <2>4. live' \subseteq {s \in Sockets : NodeOf[s] \in up'} /\ up' \subseteq Nodes /\ kicks' \subseteq up'
      BY <1>1 DEF PresenceInv, PresenceTypeOK, OnNode
  <2>5. /\ conn' \in [Sockets -> {"new", "sadd", "list", "db", "emit", "done"}]
        /\ beat' \in [Sockets -> {"none", "sadd", "list", "emit"}]
        /\ out' \in [Logouts -> {"new", "db", "del", "unlist", "kick", "done"}]
      BY <1>2 DEF PresenceInv, PresenceTypeOK
  <2> QED
      BY <1>5, <2>1, <2>2, <2>3, <2>4, <2>5 DEF PresenceTypeOK, DiscPcs, SyncPcs
<1>7. Once'
    BY <1>1, <1>2, <1>3 DEF PresenceInv, PresenceTypeOK, Once, Leaving
<1>8. Heard'
  <2>1. \A s \in Sockets :
          /\ disc'[s].steady \subseteq live'
          /\ disc'[s].pc = "ask" => HeardOf(disc'[s])
          /\ disc'[s].pc \in {"prune", "readd"} => disc'[s].steady \subseteq disc'[s].seen
      BY <1>1, <1>3 DEF PresenceInv, Heard, HeardOf
  <2>2. \A m \in Nodes :
          /\ sync'[m].steady \subseteq live'
          /\ sync'[m].pc = "ask" => HeardOf(sync'[m])
          /\ sync'[m].pc \in {"del", "add", "db"} => sync'[m].steady \subseteq sync'[m].seen
          /\ sync'[m].pc = "add" => sync'[m].seen # {}
      BY <1>1, <1>4 DEF PresenceInv, Heard, HeardOf
  <2> QED
      BY <2>1, <2>2 DEF Heard, HeardOf
<1>9. SteadyKept'
    BY <1>3, <1>8 DEF PresenceInv, SteadyKept, Heard
<1>10. ASSUME ~mixed' PROVE OneKind' /\ Stays' /\ Shown' /\ Hidden'
  <2>1. OneKind /\ Stays /\ Shown /\ ~Busy(n)
      BY <1>5, <1>10 DEF PresenceInv, Calm
  <2>2. /\ \A s \in Sockets : NodeOf[s] = n => ~Arriving(s) /\ ~Leaving(s)
        /\ \A o \in Logouts : NodeOf[o] = n => ~LoggingOut(o)
        /\ \A s \in Sockets : Leaving(s) => n \notin disc[s].ask
        /\ \A m \in Nodes : sync[m].pc = "none"
        /\ kicks = {}
      BY <2>1 DEF Busy, SomeSyncing, Syncing
  <2>3. \A s \in Sockets : conn'[s] = conn[s] /\ beat'[s] = beat[s]
      BY <1>2, <2>2 DEF Arriving, PresenceInv, PresenceTypeOK
  <2>4. \A o \in Logouts : out'[o] = out[o]
      BY <1>2, <2>2 DEF PresenceInv, PresenceTypeOK
  <2>5. \A s \in Sockets : /\ disc'[s].pc = disc[s].pc
                           /\ disc'[s].steady = disc[s].steady \ OnNode(n)
      BY <1>3, <2>2 DEF Lost
  <2>6. \A m \in Nodes : sync'[m].pc = "none"
      BY <1>4, <2>2
  <2>7. OneKind'
      BY <1>1, <2>1, <2>2, <2>3, <2>4, <2>5, <2>6
      DEF OneKind, SomeArriving, SomeLeaving, SomeSyncing, Arriving, Leaving, LoggingOut, Syncing
  <2>8. Stays'
    <3>1. \A s \in Sockets : Arriving(s)' => s \in live'
        BY <1>1, <2>1, <2>2, <2>3 DEF Stays, Arriving, OnNode
    <3>2. \A s \in Sockets : Leaving(s)' => disc'[s].steady = live'
        BY <1>1, <2>1, <2>5 DEF Stays, Leaving
    <3> QED
        BY <2>6, <3>1, <3>2 DEF Stays, Syncing
  <2>9. Shown'
    <3>1. SUFFICES ASSUME live' # {}, ~Doomed' PROVE Shown'
        BY DEF Shown
    <3>2. live # {} /\ ~Doomed
        BY <1>1, <2>2, <2>4, <3>1 DEF Doomed, LoggingOut
    <3> QED
        BY <1>1, <2>1, <2>2, <2>3, <2>5, <3>2 DEF Shown, PresenceInv, PresenceTypeOK
  <2>10. Hidden'
      BY <1>1 DEF Hidden
  <2> QED
      BY <2>7, <2>8, <2>9, <2>10
<1> QED
    BY <1>6, <1>7, <1>8, <1>9, <1>10 DEF PresenceInv, Calm

-----------------------------------------------------------------------------
(* Theorems.                                                               *)

LEMMA PresenceStutter ==
    ASSUME PresenceInv, UNCHANGED presenceVars
    PROVE  PresenceInv'
<1>1. UNCHANGED <<up, live, keys, listed, isOnline, told, conn, beat, disc, sync, out, kicks, faults, mixed>>
    BY DEF presenceVars, stores, handlers
<1>2. PresenceTypeOK' /\ Once' /\ Heard' /\ SteadyKept'
    BY <1>1 DEF PresenceInv, PresenceTypeOK, Once, Heard, HeardOf, SteadyKept
<1>3. Calm'
    BY <1>1 DEF PresenceInv, Calm, OneKind, Stays, Shown, Hidden, Doomed, Finds, SomeArriving, SomeLeaving,
                SomeSyncing, Arriving, Leaving, LoggingOut, Syncing
<1> QED
    BY <1>2, <1>3 DEF PresenceInv

LEMMA PresenceStep == PresenceInv /\ [PresenceNext]_presenceVars => PresenceInv'
<1> SUFFICES ASSUME PresenceInv, [PresenceNext]_presenceVars
             PROVE  PresenceInv'
    OBVIOUS
<1>1. CASE \E s \in Sockets :
             \/ Connect(s) \/ Beat(s) \/ Disconnect(s)
             \/ SocketSteps(s)
             \/ ConnFails(s) \/ BeatFails(s) \/ DiscFails(s)
  <2>1. PICK s \in Sockets :
             \/ Connect(s) \/ Beat(s) \/ Disconnect(s)
             \/ SocketSteps(s)
             \/ ConnFails(s) \/ BeatFails(s) \/ DiscFails(s)
      BY <1>1
  <2>2. Connect(s) \/ Beat(s) \/ Disconnect(s) \/ Arrives(s) \/ Departs(s)
      BY <2>1 DEF SocketSteps, Arrives, Departs
  <2> QED
      BY <2>2, ConnectKeeps, BeatKeeps, DisconnectKeeps, ArrivesKeeps, DepartsKeeps
<1>2. CASE \E o \in Logouts : Logout(o) \/ OutSteps(o) \/ OutFails(o)
    BY <1>2, LogoutKeeps, OutKeeps, OutKickKeeps DEF OutSteps
<1>3. CASE \E n \in Nodes : Start(n) \/ NodeSteps(n) \/ SyncFails(n) \/ Crash(n)
  <2>1. PICK n \in Nodes : Start(n) \/ NodeSteps(n) \/ SyncFails(n) \/ Crash(n)
      BY <1>3
  <2>2. Start(n) \/ Kicked(n) \/ Syncs(n) \/ Crash(n)
      BY <2>1 DEF NodeSteps, Syncs
  <2> QED
      BY <2>2, StartKeeps, KickedKeeps, SyncsKeeps, CrashKeeps
<1>4. CASE UNCHANGED presenceVars
    BY <1>4, PresenceStutter
<1> QED
    BY <1>1, <1>2, <1>3, <1>4 DEF PresenceNext

\* The strengthening is an invariant.
THEOREM PresenceInvariant == PresenceSpec => []PresenceInv
    BY InvStart, PresenceStep, PTL DEF PresenceSpec

\* Every variable keeps its type (socket.presence.ts, auth.service.ts:238-254).
THEOREM PresenceTypeCorrect == PresenceSpec => []PresenceTypeOK
<1>1. PresenceInv => PresenceTypeOK
    BY DEF PresenceInv
<1> QED
    BY PresenceInvariant, <1>1, PTL

\* No departure or start takes a user offline who has a socket that stayed
\* connected all the while (socket.presence.ts:92-103, 141-163).
THEOREM StayersKept == PresenceSpec => []SteadyKept
<1>1. PresenceInv => SteadyKept
    BY DEF PresenceInv
<1> QED
    BY PresenceInvariant, <1>1, PTL

\* Unless opposite handlers overlapped or one failed, the copies agree with the
\* room whenever no handler is at work (socket.presence.ts:33-57, 89-129,
\* 141-163, auth.service.ts:238-254).
THEOREM CopiesAgree == PresenceSpec => []AgreeWhenCalm
<1>1. ASSUME PresenceInv PROVE AgreeWhenCalm
  <2>1. SUFFICES ASSUME Quiet, ~mixed, up = Nodes
                 PROVE  /\ isOnline = (live # {}) /\ listed = (live # {})
                        /\ live \subseteq keys /\ (live # {} => told)
      BY DEF AgreeWhenCalm
  <2>2. Shown /\ Hidden /\ PresenceTypeOK
      BY <1>1, <2>1 DEF PresenceInv, Calm
  <2>3. /\ \A s \in Sockets : disc[s].pc \in {"none", "done"}
        /\ \A n \in Nodes : sync[n].pc = "none"
        /\ \A o \in Logouts : ~LoggingOut(o)
        /\ kicks = {}
      BY <2>1, OnlyArrivals DEF Quiet
  <2>4. CASE live # {}
    <3>1. ~Doomed
        BY <2>3, <2>4 DEF Doomed
    <3>2. listed /\ isOnline /\ told /\ live \subseteq keys
        BY <2>1, <2>2, <2>3, <2>4, <3>1, ShownDeparting DEF Quiet
    <3>3. listed \in BOOLEAN /\ isOnline \in BOOLEAN
        BY <2>2 DEF PresenceTypeOK
    <3> QED
        BY <2>4, <3>2, <3>3
  <2>5. CASE live = {}
    <3>1. ~listed /\ ~isOnline
        BY <2>1, <2>2, <2>3, <2>5 DEF Hidden, Finds, Syncing
    <3>2. listed \in BOOLEAN /\ isOnline \in BOOLEAN
        BY <2>2 DEF PresenceTypeOK
    <3> QED
        BY <2>5, <3>1, <3>2
  <2> QED
      BY <2>4, <2>5
<1> QED
    BY PresenceInvariant, <1>1, PTL
=============================================================================
