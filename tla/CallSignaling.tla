--------------------------- MODULE CallSignaling ---------------------------
(***************************************************************************)
(* The call signalling of src/socket/handlers/call.handler.ts.             *)
(*                                                                         *)
(* Every socket event is handled by an async function on one of several    *)
(* server nodes.  Its awaits are where other handlers, the other nodes and *)
(* the ringing timer run, so a handler is a process with a step between    *)
(* any two awaits: the CallLog row it read is a snapshot that may be stale *)
(* when it writes.  The row lives in the database, shared by all nodes;    *)
(* activeCallTimeouts, the map of armed ringing timers, is in the memory   *)
(* of the node that handled CALL_INITIATE, and an accept handled elsewhere *)
(* does not find it.                                                       *)
(*                                                                         *)
(* SDP, ICE relaying, device push notifications and wording carry no state *)
(* and are left out.  Clients address a call by an id they were given, or  *)
(* by none ("pending"), and a read by id that fails is caught and falls    *)
(* back to the second case.                                                *)
(*                                                                         *)
(* Definitions whose name starts with Bad are not part of the model: each  *)
(* is the definition after it with a plausible mistake in it, and shows    *)
(* that a property would notice the mistake in the code.                   *)
(***************************************************************************)
EXTENDS Integers

CONSTANTS
    Users,
    Callers,    \* the users who place calls: a bound
    Nodes,      \* server processes behind the Redis adapter
    NoNode,
    Handlers,   \* request slots, each used once: bounds the client requests
    MaxCalls,   \* bound on the calls placed
    MaxFaults   \* bound on failures of a database or Redis call, and crashes

ASSUME CountsAssumption == MaxCalls \in Nat /\ MaxFaults \in Nat
ASSUME NodeAssumption == NoNode \notin Nodes
ASSUME HandlersAssumption == "timer" \notin Handlers

Calls == 1 .. MaxCalls      \* numbered in the order of createdAt
NoCall == 0
NoUser == "nobody"
ASSUME UserAssumption == NoUser \notin Users

VARIABLES
    row,        \* the CallLog table; status "NONE" is an absent row
    init,       \* progress of the CALL_INITIATE handler of each call
    owner,      \* the node that handles it, where the timer will live
    timers,     \* activeCallTimeouts of each node
    tmo,        \* progress of the timeout callback of each call
    hs,         \* the handlers of the other events
    messages,   \* CALL_LOG messages written to conversations
    told,       \* <<call, event>> pairs emitted to the caller's channel
    faults

vars == <<row, init, owner, timers, tmo, hs, messages, told, faults>>

-----------------------------------------------------------------------------
(* Types and the tables of the code.                                       *)

Unanswered == {"INITIATED", "RINGING"}
Terminal == {"REJECTED", "BUSY", "MISSED", "ENDED"}
CallStatus == Unanswered \cup {"ACCEPTED"} \cup Terminal

FinalEvents == {"rejected", "ended", "missed"}
Events == {"ringing", "accepted"} \cup FinalEvents
LogStatuses == {"REJECTED", "BUSY", "MISSED", "ENDED", "CANCELLED"}

Ops == {"ring", "accept", "reject", "busy", "end"}

\* The statuses a request that names no call looks for.
FallbackStatuses(op) ==
    CASE op = "ring" -> {}
      [] op \in {"reject", "busy"} -> Unanswered
      [] OTHER -> Unanswered \cup {"ACCEPTED"}

\* The event a handler emits to the caller's channel.
EventOf(op) ==
    CASE op = "ring" -> "ringing"
      [] op = "accept" -> "accepted"
      [] op \in {"reject", "busy"} -> "rejected"
      [] op = "end" -> "ended"

\* Bad: every hang-up is logged as an ended conversation.
BadLogStatusOf(op, saw) ==
    CASE op = "reject" -> "REJECTED"
      [] op = "busy" -> "BUSY"
      [] OTHER -> "ENDED"

\* The status of the CALL_LOG message: for a hang-up it is decided by the
\* answer time the handler read before its awaits.
LogStatusOf(op, saw) ==
    CASE op = "reject" -> "REJECTED"
      [] op = "busy" -> "BUSY"
      [] OTHER -> IF saw THEN "ENDED" ELSE "CANCELLED"

Rows ==
    [caller : Users \cup {NoUser}, receiver : Users \cup {NoUser},
     status : CallStatus \cup {"NONE"},
     answered : BOOLEAN, ended : BOOLEAN, timed : BOOLEAN]

NoRow ==
    [caller |-> NoUser, receiver |-> NoUser, status |-> "NONE",
     answered |-> FALSE, ended |-> FALSE, timed |-> FALSE]

Slot(pc) ==
    [pc |-> pc, op |-> "ring", call |-> NoCall, user |-> NoUser,
     node |-> NoNode, saw |-> FALSE]

BusyStates ==
    [pc : {"clear", "write", "tell", "record", "failed"},
     op : Ops, call : Calls, user : Users, node : Nodes, saw : BOOLEAN]

HandlerStates == {Slot("free"), Slot("done")} \cup BusyStates

Sources == Handlers \cup {"timer"}
Messages == [call : Calls, from : Sources, status : LogStatuses]

TypeOK ==
    /\ row \in [Calls -> Rows]
    /\ init \in [Calls -> {"none", "announce", "arm", "done", "silent", "unarmed"}]
    /\ owner \in [Calls -> Nodes \cup {NoNode}]
    /\ timers \in [Nodes -> SUBSET Calls]
    /\ tmo \in [Calls -> {"idle", "read", "write", "tell", "record", "done", "lost"}]
    /\ hs \in [Handlers -> HandlerStates]
    /\ messages \subseteq Messages
    /\ told \subseteq Calls \X Events
    /\ faults \in 0 .. MaxFaults

Init ==
    /\ row = [c \in Calls |-> NoRow]
    /\ init = [c \in Calls |-> "none"]
    /\ owner = [c \in Calls |-> NoNode]
    /\ timers = [n \in Nodes |-> {}]
    /\ tmo = [c \in Calls |-> "idle"]
    /\ hs = [h \in Handlers |-> Slot("free")]
    /\ messages = {}
    /\ told = {}
    /\ faults = 0

Placed(c) == row[c].status # "NONE"
Parties(c) == {row[c].caller, row[c].receiver}

-----------------------------------------------------------------------------
(* CALL_INITIATE: create the row; announce it; look for the recipient's    *)
(* sockets on all nodes; only then arm the ringing timer.                  *)

\* The row is committed: the handler holds its id, nobody else does.
Initiate(c, n, u, v) ==
    /\ ~Placed(c)
    /\ \A d \in Calls : d < c => Placed(d)
    /\ u \in Callers /\ u # v
    /\ row' = [row EXCEPT ![c] =
                 [NoRow EXCEPT !.caller = u, !.receiver = v, !.status = "INITIATED"]]
    /\ init' = [init EXCEPT ![c] = "announce"]
    /\ owner' = [owner EXCEPT ![c] = n]
    /\ UNCHANGED <<timers, tmo, hs, messages, told, faults>>

\* CALL_INCOMING to the recipient, the id back to the caller.
Announce(c) ==
    /\ init[c] = "announce"
    /\ init' = [init EXCEPT ![c] = "arm"]
    /\ UNCHANGED <<row, owner, timers, tmo, hs, messages, told, faults>>

\* Bad: the timer is created but not entered in the map.
BadArm(c, offline) ==
    /\ init[c] = "arm"
    /\ init' = [init EXCEPT ![c] = "done"]
    /\ told' = IF offline THEN told \cup {<<c, "ringing">>} ELSE told
    /\ UNCHANGED <<row, owner, timers, tmo, hs, messages, faults>>

\* fetchSockets answered: an offline recipient is reported as ringing.
Arm(c, offline) ==
    /\ init[c] = "arm"
    /\ init' = [init EXCEPT ![c] = "done"]
    /\ timers' = [timers EXCEPT ![owner[c]] = @ \cup {c}]
    /\ told' = IF offline THEN told \cup {<<c, "ringing">>} ELSE told
    /\ UNCHANGED <<row, owner, tmo, hs, messages, faults>>

\* fetchSockets rejected (a node of the adapter did not answer in time): the
\* handler's catch ends it with the row placed and no timer.
ArmFails(c) ==
    /\ init[c] = "arm"
    /\ faults < MaxFaults
    /\ init' = [init EXCEPT ![c] = "unarmed"]
    /\ faults' = faults + 1
    /\ UNCHANGED <<row, owner, timers, tmo, hs, messages, told>>

-----------------------------------------------------------------------------
(* CALL_RINGING, CALL_ACCEPT, CALL_REJECT and CALL_END: read the row; drop *)
(* the timer if it is on this node; write the row; emit; and, for a reject *)
(* or a hang-up, write the CALL_LOG message.                               *)

\* A client knows the ids it was given: its own outgoing and incoming calls.
Knows(u, c) ==
    /\ u \in Parties(c)
    /\ init[c] \in {"arm", "done", "unarmed"}

\* The call a request that names none is taken to be about.
IsLatestActive(u, op, c) ==
    LET active == {d \in Calls : u \in Parties(d) /\ row[d].status \in FallbackStatuses(op)}
    IN  c \in active /\ \A d \in active : d <= c

Found(u, op, c) == Knows(u, c) \/ IsLatestActive(u, op, c)

\* Where the handler goes with the row it read.
AfterRead(op, status) ==
    CASE op = "ring" -> IF status = "INITIATED" THEN "write" ELSE "tell"
      [] op = "end" -> IF status = "ENDED" THEN "done" ELSE "clear"
      [] OTHER -> "clear"

Read(h, op, n, u, c) ==
    /\ hs[h].pc = "free"
    /\ Found(u, op, c)
    /\ LET pc == AfterRead(op, row[c].status)
       IN  hs' = [hs EXCEPT ![h] =
                    IF pc = "done" THEN Slot("done")
                    ELSE [pc |-> pc, op |-> op, call |-> c, user |-> u,
                          node |-> n, saw |-> row[c].answered]]
    /\ UNCHANGED <<row, init, owner, timers, tmo, messages, told, faults>>

Clear(h) ==
    /\ hs[h].pc = "clear"
    /\ timers' = [timers EXCEPT ![hs[h].node] = @ \ {hs[h].call}]
    /\ hs' = [hs EXCEPT ![h].pc = "write"]
    /\ UNCHANGED <<row, init, owner, tmo, messages, told, faults>>

\* Bad: a hang-up always writes a duration.
BadDurationWritten(r, op, saw) ==
    CASE op = "ring" -> [r EXCEPT !.status = "RINGING"]
      [] op = "accept" -> [r EXCEPT !.status = "ACCEPTED", !.answered = TRUE]
      [] op = "reject" -> [r EXCEPT !.status = "REJECTED", !.ended = TRUE]
      [] op = "busy" -> [r EXCEPT !.status = "BUSY", !.ended = TRUE]
      [] op = "end" -> [r EXCEPT !.status = "ENDED", !.ended = TRUE, !.timed = TRUE]

\* The columns each handler sets, whatever the row says by now.
Written(r, op, saw) ==
    CASE op = "ring" -> [r EXCEPT !.status = "RINGING"]
      [] op = "accept" -> [r EXCEPT !.status = "ACCEPTED", !.answered = TRUE]
      [] op = "reject" -> [r EXCEPT !.status = "REJECTED", !.ended = TRUE]
      [] op = "busy" -> [r EXCEPT !.status = "BUSY", !.ended = TRUE]
      [] op = "end" -> [r EXCEPT !.status = "ENDED", !.ended = TRUE, !.timed = saw]

\* Bad: goes on to the CALL_LOG message without the emit.
BadWrite(h) ==
    /\ hs[h].pc = "write"
    /\ row' = [row EXCEPT ![hs[h].call] = Written(@, hs[h].op, hs[h].saw)]
    /\ hs' = [hs EXCEPT ![h].pc = IF hs[h].op = "end" THEN "record" ELSE "tell"]
    /\ UNCHANGED <<init, owner, timers, tmo, messages, told, faults>>

Write(h) ==
    /\ hs[h].pc = "write"
    /\ row' = [row EXCEPT ![hs[h].call] = Written(@, hs[h].op, hs[h].saw)]
    /\ hs' = [hs EXCEPT ![h].pc = "tell"]
    /\ UNCHANGED <<init, owner, timers, tmo, messages, told, faults>>

Tell(h) ==
    /\ hs[h].pc = "tell"
    /\ told' = told \cup {<<hs[h].call, EventOf(hs[h].op)>>}
    /\ hs' = [hs EXCEPT ![h] =
                IF hs[h].op \in {"ring", "accept"} THEN Slot("done")
                ELSE [@ EXCEPT !.pc = "record"]]
    /\ UNCHANGED <<row, init, owner, timers, tmo, messages, faults>>

\* The message may stay unwritten: no direct conversation, or its
\* transaction failed, and the helper logs the error and returns.
Record(h, written) ==
    /\ hs[h].pc = "record"
    /\ messages' =
         IF written
         THEN messages \cup
                {[call |-> hs[h].call, from |-> h,
                  status |-> LogStatusOf(hs[h].op, hs[h].saw)]}
         ELSE messages
    /\ hs' = [hs EXCEPT ![h] = Slot("done")]
    /\ UNCHANGED <<row, init, owner, timers, tmo, told, faults>>

\* The update rejects: the handler logs the error; the timer stays cleared.
WriteFails(h) ==
    /\ hs[h].pc = "write"
    /\ faults < MaxFaults
    /\ hs' = [hs EXCEPT ![h].pc = "failed"]
    /\ faults' = faults + 1
    /\ UNCHANGED <<row, init, owner, timers, tmo, messages, told>>

-----------------------------------------------------------------------------
(* The callback of the 45 second timer.                                    *)

Fire(n, c) ==
    /\ c \in timers[n]
    /\ timers' = [timers EXCEPT ![n] = @ \ {c}]
    /\ tmo' = [tmo EXCEPT ![c] = "read"]
    /\ UNCHANGED <<row, init, owner, hs, messages, told, faults>>

\* Bad: only a call nobody reported as ringing times out.
BadTimeoutRead(c) ==
    /\ tmo[c] = "read"
    /\ tmo' = [tmo EXCEPT ![c] = IF row[c].status = "INITIATED" THEN "write" ELSE "done"]
    /\ UNCHANGED <<row, init, owner, timers, hs, messages, told, faults>>

TimeoutRead(c) ==
    /\ tmo[c] = "read"
    /\ tmo' = [tmo EXCEPT ![c] = IF row[c].status \in Unanswered THEN "write" ELSE "done"]
    /\ UNCHANGED <<row, init, owner, timers, hs, messages, told, faults>>

TimeoutWrite(c) ==
    /\ tmo[c] = "write"
    /\ row' = [row EXCEPT ![c] = [@ EXCEPT !.status = "MISSED", !.ended = TRUE]]
    /\ tmo' = [tmo EXCEPT ![c] = "tell"]
    /\ UNCHANGED <<init, owner, timers, hs, messages, told, faults>>

TimeoutTell(c) ==
    /\ tmo[c] = "tell"
    /\ told' = told \cup {<<c, "missed">>}
    /\ tmo' = [tmo EXCEPT ![c] = "record"]
    /\ UNCHANGED <<row, init, owner, timers, hs, messages, faults>>

TimeoutRecord(c, written) ==
    /\ tmo[c] = "record"
    /\ messages' =
         IF written
         THEN messages \cup {[call |-> c, from |-> "timer", status |-> "MISSED"]}
         ELSE messages
    /\ tmo' = [tmo EXCEPT ![c] = "done"]
    /\ UNCHANGED <<row, init, owner, timers, hs, told, faults>>

-----------------------------------------------------------------------------
(* A node stops: by itself, or because a database error rejects the promise*)
(* of a timer callback, which nothing catches.  Its timers, its callbacks  *)
(* and its handlers are gone; nothing re-arms a timer at the next start.   *)

Crash(n) ==
    /\ faults < MaxFaults
    /\ faults' = faults + 1
    /\ timers' = [timers EXCEPT ![n] = {}]
    /\ init' = [c \in Calls |->
         IF owner[c] # n THEN init[c]
         ELSE CASE init[c] = "announce" -> "silent"
                [] init[c] = "arm" -> "unarmed"
                [] OTHER -> init[c]]
    /\ tmo' = [c \in Calls |->
         IF owner[c] = n /\ (c \in timers[n] \/ tmo[c] \in {"read", "write", "tell", "record"})
         THEN "lost" ELSE tmo[c]]
    /\ hs' = [h \in Handlers |->
         IF hs[h].node = n THEN [hs[h] EXCEPT !.pc = "failed"] ELSE hs[h]]
    /\ UNCHANGED <<row, owner, messages, told>>

-----------------------------------------------------------------------------
InitiateSteps(c) ==
    \/ Announce(c)
    \/ \E offline \in BOOLEAN : Arm(c, offline)

TimeoutSteps(c) ==
    \/ \E n \in Nodes : Fire(n, c)
    \/ TimeoutRead(c)
    \/ TimeoutWrite(c)
    \/ TimeoutTell(c)
    \/ \E written \in BOOLEAN : TimeoutRecord(c, written)

HandlerSteps(h) ==
    \/ Clear(h)
    \/ Write(h)
    \/ Tell(h)
    \/ \E written \in BOOLEAN : Record(h, written)

Next ==
    \/ \E c \in Calls, n \in Nodes, u, v \in Users : Initiate(c, n, u, v)
    \/ \E c \in Calls : InitiateSteps(c) \/ ArmFails(c) \/ TimeoutSteps(c)
    \/ \E h \in Handlers, op \in Ops, n \in Nodes, u \in Users, c \in Calls :
            Read(h, op, n, u, c)
    \/ \E h \in Handlers : HandlerSteps(h) \/ WriteFails(h)
    \/ \E n \in Nodes : Crash(n)

Spec == Init /\ [][Next]_vars

\* The event loop of a live node, its timers and its database keep working on
\* what was started; when and whether clients ask for anything is up to them.
Fairness ==
    /\ \A c \in Calls : WF_vars(InitiateSteps(c)) /\ WF_vars(TimeoutSteps(c))
    /\ \A h \in Handlers : WF_vars(HandlerSteps(h))

FairSpec == Spec /\ Fairness
-----------------------------------------------------------------------------
(* Properties.                                                             *)

\* The CallLog columns agree with each other whatever handlers overlap: a
\* final status has an end time, ACCEPTED an answer time, a duration belongs
\* to an answered call, and a call that left INITIATED never shows it again
\* (call.handler.ts:376-382, 440-447, 536-548, 270-277).
RecordConsistent ==
    \A c \in Calls :
        /\ row[c].status \in Terminal => row[c].ended
        /\ row[c].status = "ACCEPTED" => row[c].answered
        /\ row[c].timed => row[c].answered
        /\ row[c].answered \/ row[c].ended => row[c].status \notin {"NONE", "INITIATED"}

\* A handler of the three answers has taken the timer away and is about to
\* settle the call, or failed to.
Settling(c) ==
    \E h \in Handlers :
        hs[h].call = c /\ hs[h].op # "ring" /\ hs[h].pc \in {"write", "failed"}

\* No call rings unattended: one that is neither answered nor ended still
\* has its CALL_INITIATE handler before the arming, its timer armed, its
\* timeout callback before the update, or an answer on its way; unless the
\* fault that took the last of these away was counted
\* (call.handler.ts:259-307, 369-373, 432-436, 527-531).
Attended ==
    \A c \in Calls :
        Placed(c) /\ ~row[c].answered /\ ~row[c].ended =>
            \/ init[c] \in {"announce", "arm", "silent", "unarmed"}
            \/ c \in timers[owner[c]]
            \/ tmo[c] \in {"read", "write", "lost"}
            \/ Settling(c)

\* A timer is only ever in the map of the node that placed the call, and
\* only while its callback has not run: a call times out at most once, and a
\* CALL_LOG message of the timeout has a callback behind it
\* (call.handler.ts:259-260, 307).
OneTimeout ==
    /\ \A n \in Nodes : \A c \in timers[n] : n = owner[c] /\ tmo[c] = "idle" /\ init[c] = "done"
    /\ \A m \in messages : m.from = "timer" => tmo[m.call] \in {"done", "lost"}

\* The conversation shows a call entry only after the caller was told how
\* the call came out (call.handler.ts:280-292, 450-464, 551-573).
LoggedAfterTold ==
    \A m \in messages :
        CASE m.status = "MISSED" -> <<m.call, "missed">> \in told
          [] m.status \in {"REJECTED", "BUSY"} -> <<m.call, "rejected">> \in told
          [] OTHER -> <<m.call, "ended">> \in told

\* The handlers, nodes and timers together implement the abstract lifecycle:
\* answers and ends are never taken back, and the caller's channel and the
\* conversation never claim an outcome the row does not hold.
Lifecycle ==
    INSTANCE CallLifecycle WITH
        placed <- {c \in Calls : Placed(c)},
        answered <- {c \in Calls : row[c].answered},
        over <- {c \in Calls : row[c].ended},
        heard <- told,
        logged <- {<<m.call, m.status>> : m \in messages}

ImplementsLifecycle == Lifecycle!Spec

\* The caller of every call that is placed eventually hears an outcome,
\* whichever of timer, callee and caller come first and on whichever nodes,
\* unless a database or Redis call failed or a node stopped
\* (call.handler.ts:280, 385, 450, 551-562).
CallerLearns ==
    \A c \in Calls :
        Placed(c) ~> \/ \E e \in FinalEvents \cup {"accepted"} : <<c, e>> \in told
                     \/ faults > 0
=============================================================================
