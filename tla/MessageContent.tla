--------------------------- MODULE MessageContent ---------------------------
(***************************************************************************)
(* What happens to one message after it was sent: editMessage,             *)
(* deleteMessage and toggleReaction of                                     *)
(* src/modules/message/message.service.ts, and its purge job, from         *)
(* src/queues/producer/ephemeral.queue.ts to purgeSingleMessage and the    *)
(* worker in src/queues/workers/ephemeral.worker.ts.                       *)
(*                                                                         *)
(* Requests and the job interleave between any two queries.  The content   *)
(* is abstracted to who wrote it last.  The job's delay counts from its    *)
(* adding, so it runs after expiresAt by the clock that promotes it; the   *)
(* worker that runs it may have a clock that is behind, which is a fault.  *)
(* A worker that stops is not heard of again: its job has stalled and a    *)
(* worker takes it up once more.  Reactions are of one emoji.              *)
(***************************************************************************)
EXTENDS FiniteSets, Integers

CONSTANTS
    Users,          \* the members; one who leaves begins no more requests
    Author,
    Staff,          \* administrators and moderators, who never change here
    MaxRequests,    \* bound on the requests, each used once
    MaxFaults       \* bound on failed requests; the job bounds its own failures

ASSUME UsersAssumption == Author \in Users /\ Staff \subseteq Users
ASSUME BoundsAssumption == MaxRequests \in Nat /\ MaxFaults \in Nat

\* Requests are numbered in the order in which they begin.
Requests == 1 .. MaxRequests
NoRequest == 0
Attempts == 3       \* defaultJobOptions
MaxStalled == 1     \* maxStalledCount, which the worker leaves at its default

VARIABLES
    msg,            \* the row of messages
    reactions,      \* message_reactions: the user and the request that made it
    job,            \* the purge job, its attempts that threw and those that stalled
    told,           \* events about its deletion that went out
    rs,             \* requests
    racing,         \* history: the edits at work when the message was deleted
    faults

vars == <<msg, reactions, job, told, rs, racing, faults>>

Ops == {"edit", "hide", "erase", "react"}

Events == {"deleted", "disappeared"}

RequestStates ==
    [pc : {"free", "find", "drop", "write", "emit", "done", "failed"}, op : Ops,
     user : Users, old : Requests \cup {NoRequest}]

\* "skipped" is completed without a purge.
JobStates ==
    [pc : {"none", "adding", "waiting", "read", "write", "emit", "done", "skipped", "failed"},
     tries : 0 .. Attempts, stalls : 0 .. MaxStalled + 1]

TypeOK ==
    /\ msg \in [text : {"sent", "edited", "null", "gone"}, deleted : BOOLEAN,
                hidden : SUBSET Users]
    /\ reactions \subseteq Users \X Requests
    /\ job \in JobStates
    /\ told \subseteq Events
    /\ rs \in [Requests -> RequestStates]
    /\ racing \subseteq Requests
    /\ faults \in 0 .. MaxFaults

\* The message was just committed, with an expiry or without.
Init ==
    /\ msg = [text |-> "sent", deleted |-> FALSE, hidden |-> {}]
    /\ reactions = {}
    /\ job \in [pc : {"none", "adding"}, tries : {0}, stalls : {0}]
    /\ told = {}
    /\ rs = [r \in Requests |->
               [pc |-> "free", op |-> "edit", user |-> Author, old |-> NoRequest]]
    /\ racing = {}
    /\ faults = 0

InFlight == {r \in Requests : rs[r].pc \notin {"free", "done", "failed"}}
Answered == {r \in Requests : rs[r].pc = "done"}

Goto(r, pc) == rs' = [rs EXCEPT ![r].pc = pc]

-----------------------------------------------------------------------------
(* The beginnings: what a request checks before its first write.           *)

Begin(r, op, u, pc) ==
    /\ rs[r].pc = "free"
    /\ \A q \in Requests : q < r => rs[q].pc # "free"
    /\ rs' = [rs EXCEPT ![r] = [pc |-> pc, op |-> op, user |-> u, old |-> NoRequest]]
    /\ UNCHANGED <<msg, reactions, job, told, racing, faults>>

\* Bad: a deleted message may be edited.
BadBeginEdit(r) == Begin(r, "edit", Author, "write")

\* Only the author, still a member or not, and only what is not deleted.
BeginEdit(r) == ~msg.deleted /\ Begin(r, "edit", Author, "write")

\* FOR_ME.
BeginHide(r, u) == Begin(r, "hide", u, "write")

\* FOR_EVERYONE.
BeginErase(r, u) == u \in Staff \cup {Author} /\ Begin(r, "erase", u, "write")

BeginReact(r, u) == Begin(r, "react", u, "find")

-----------------------------------------------------------------------------
(* editMessage and deleteMessage: the update names the id alone.           *)

AtWrite(r, op) == rs[r].op = op /\ rs[r].pc = "write"

Edit(r) ==
    /\ AtWrite(r, "edit")
    /\ msg' = [msg EXCEPT !.text = "edited"]
    /\ Goto(r, "emit")
    /\ UNCHANGED <<reactions, job, told, racing, faults>>

Hide(r) ==
    /\ AtWrite(r, "hide")
    /\ msg' = [msg EXCEPT !.hidden = @ \cup {rs[r].user}]
    /\ Goto(r, "done")
    /\ UNCHANGED <<reactions, job, told, racing, faults>>

Delete(text) ==
    /\ msg' = [msg EXCEPT !.deleted = TRUE, !.text = text]
    /\ racing' = racing \cup {q \in Requests : AtWrite(q, "edit")}

Erase(r) ==
    /\ AtWrite(r, "erase")
    /\ Delete("null")
    /\ Goto(r, "emit")
    /\ UNCHANGED <<reactions, job, told, faults>>

\* message:edited or message:deleted goes out with the answer.
Emit(r) ==
    /\ rs[r].pc = "emit"
    /\ told' = IF rs[r].op = "erase" THEN told \cup {"deleted"} ELSE told
    /\ Goto(r, "done")
    /\ UNCHANGED <<msg, reactions, job, racing, faults>>

-----------------------------------------------------------------------------
(* toggleReaction.                                                         *)

Mine(r) == {x \in reactions : x[1] = rs[r].user}

FindReaction(r) ==
    /\ rs[r].pc = "find"
    /\ IF Mine(r) = {} THEN Goto(r, "write")
       ELSE \E x \in Mine(r) : rs' = [rs EXCEPT ![r].pc = "drop", ![r].old = x[2]]
    /\ UNCHANGED <<msg, reactions, job, told, racing, faults>>

\* Bad: no unique index.
BadAddReaction(r) ==
    /\ rs[r].op = "react" /\ rs[r].pc = "write"
    /\ reactions' = reactions \cup {<<rs[r].user, r>>}
    /\ Goto(r, "done")
    /\ UNCHANGED <<msg, job, told, racing, faults>>

\* The unique index refuses a second row of the same message, user and emoji.
AddReaction(r) ==
    /\ rs[r].op = "react" /\ rs[r].pc = "write"
    /\ IF Mine(r) = {}
       THEN reactions' = reactions \cup {<<rs[r].user, r>>} /\ Goto(r, "done")
       ELSE reactions' = reactions /\ Goto(r, "failed")
    /\ UNCHANGED <<msg, job, told, racing, faults>>

\* By the id of the row that was found, which may be gone.
DropReaction(r) ==
    /\ rs[r].pc = "drop"
    /\ LET x == <<rs[r].user, rs[r].old>> IN
         IF x \in reactions
         THEN reactions' = reactions \ {x} /\ Goto(r, "done")
         ELSE reactions' = reactions /\ Goto(r, "failed")
    /\ UNCHANGED <<msg, job, told, racing, faults>>

-----------------------------------------------------------------------------
(* The purge job.                                                          *)

JobGoto(pc) ==
    /\ job' = [job EXCEPT !.pc = pc]
    /\ UNCHANGED <<reactions, rs>>

AddJob ==
    /\ job.pc = "adding"
    /\ JobGoto("waiting")
    /\ UNCHANGED <<msg, told, racing, faults>>

\* The delay is over, the one before a new attempt included.
StartJob ==
    /\ job.pc = "waiting"
    /\ JobGoto("read")
    /\ UNCHANGED <<msg, told, racing, faults>>

PurgeRead ==
    /\ job.pc = "read"
    /\ JobGoto(IF msg.deleted THEN "done" ELSE "write")
    /\ UNCHANGED <<msg, told, racing, faults>>

PurgeWrite ==
    /\ job.pc = "write"
    /\ Delete("gone")
    /\ JobGoto("emit")
    /\ UNCHANGED <<told, faults>>

\* Bad: the job is completed and nobody is told.
BadPurgeEmit ==
    /\ job.pc = "emit"
    /\ JobGoto("done")
    /\ UNCHANGED <<msg, told, racing, faults>>

\* message:disappeared goes out and the job is completed.
PurgeEmit ==
    /\ job.pc = "emit"
    /\ told' = told \cup {"disappeared"}
    /\ JobGoto("done")
    /\ UNCHANGED <<msg, racing, faults>>

JobSteps == AddJob \/ StartJob \/ PurgeRead \/ PurgeWrite \/ PurgeEmit

-----------------------------------------------------------------------------
(* Failures, and the rest of the system.                                   *)

\* A query fails or the process stops: the request ends where it is.
Fail(r) ==
    /\ r \in InFlight
    /\ faults < MaxFaults
    /\ faults' = faults + 1
    /\ Goto(r, "failed")
    /\ UNCHANGED <<msg, reactions, job, told, racing>>

\* The job could not be added; nothing else will purge the message.
LoseJob ==
    /\ job.pc = "adding"
    /\ JobGoto("none")
    /\ UNCHANGED <<msg, told, racing, faults>>

\* A clock that is behind finds the message not yet expired: the job is completed.
PurgeEarly ==
    /\ job.pc = "read" /\ ~msg.deleted
    /\ JobGoto("skipped")
    /\ UNCHANGED <<msg, told, racing, faults>>

Attempting == job.pc \in {"read", "write", "emit"}

\* Bad: the job is not tried again.
BadAgain(tries, stalls) ==
    /\ Attempting
    /\ job' = [pc |-> "failed", tries |-> tries, stalls |-> stalls]
    /\ UNCHANGED <<msg, reactions, told, rs, racing, faults>>

\* The running attempt is over without having completed the job.
Again(tries, stalls) ==
    /\ Attempting
    /\ job' = [pc |-> IF tries < Attempts /\ stalls <= MaxStalled THEN "waiting" ELSE "failed",
               tries |-> tries, stalls |-> stalls]
    /\ UNCHANGED <<msg, reactions, told, rs, racing, faults>>

\* A query of the attempt fails, its update may have been done.  There are three
\* attempts.
JobThrows == Again(job.tries + 1, job.stalls)

\* The worker stops.  The job that stalls a second time fails, whatever attempts it
\* has left.
JobStalls == Again(job.tries, job.stalls + 1)

Steps(r) ==
    \/ Edit(r) \/ Hide(r) \/ Erase(r) \/ Emit(r)
    \/ FindReaction(r) \/ AddReaction(r) \/ DropReaction(r)

Next ==
    \/ \E r \in Requests :
         \/ BeginEdit(r)
         \/ \E u \in Users : BeginHide(r, u) \/ BeginErase(r, u) \/ BeginReact(r, u)
         \/ Steps(r)
         \/ Fail(r)
    \/ JobSteps \/ LoseJob \/ PurgeEarly \/ JobThrows \/ JobStalls

Spec == Init /\ [][Next]_vars

\* Time passes and the workers go on with their jobs; requests need not.
FairSpec == Spec /\ WF_vars(JobSteps)

-----------------------------------------------------------------------------
(* Properties.                                                             *)

Toggles(u) == {r \in Answered : rs[r].op = "react" /\ rs[r].user = u}
Added(u) == {r \in Toggles(u) : rs[r].old = NoRequest}

\* Every toggle that is answered flipped the reaction: what was answered
\* "added" outnumbers what was answered "removed" by one if the member's
\* reaction is there and by none if not, also when two devices toggle at once
\* (message.service.ts:647-705).
TogglesCount ==
    \A u \in Users :
        Cardinality(Added(u)) - Cardinality(Toggles(u) \ Added(u))
            = IF \E x \in reactions : x[1] = u THEN 1 ELSE 0

\* The row of a deleted or disappeared message keeps no content, unless an
\* edit was between its check and its update when the message was deleted
\* (message.service.ts:505-514, 596-602, ephemeral.worker.ts:127-139).
ClearedUnlessRacing == msg.deleted => msg.text \in {"null", "gone"} \/ racing # {}

\* Whoever deletes the message for everyone announces it, request or job; only
\* a failure between the update and the event keeps it from the clients, and
\* a retry of the job does not make up for it (message.service.ts:596-608,
\* ephemeral.worker.ts:127-148).
Announced ==
    msg.deleted /\ faults = 0 /\ job.tries = 0 /\ job.stalls = 0 =>
        \/ {"deleted", "disappeared"} \cap told # {}
        \/ job.pc = "emit"
        \/ \E r \in Requests : rs[r].op = "erase" /\ rs[r].pc = "emit"

\* A message whose job was added is deleted in the end, whatever edits and
\* deletions overlap, unless three attempts threw, two stalled, or a clock was behind:
\* then the job is over and the message stays (ephemeral.worker.ts:122-157, 193-196,
\* queue.config.ts:29-34).
Disappears ==
    job.pc = "waiting" ~>
        \/ msg.deleted
        \/ job.tries = Attempts \/ job.stalls > MaxStalled \/ job.pc = "skipped"
=============================================================================
