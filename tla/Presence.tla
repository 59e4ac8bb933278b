------------------------------ MODULE Presence ------------------------------
(***************************************************************************)
(* The presence of one user: PresenceTracker of                            *)
(* src/socket/socket.presence.ts, the connection handler of                *)
(* src/socket/socket.server.ts that calls it and the end of logout in      *)
(* src/modules/auth/auth.service.ts.                                       *)
(*                                                                         *)
(* The truth is the set of the user's sockets in the room user:ID, on any  *)
(* node.  The handlers copy it to the Redis sets user:sockets:ID and       *)
(* online_users, to users.isOnline in PostgreSQL and to the clients, one   *)
(* query after the other, and the handlers of all sockets and nodes        *)
(* interleave between any two queries.  fetchSockets asks one node after   *)
(* the other.  The keys' 24 hours are longer than any history considered.  *)
(***************************************************************************)
EXTENDS FiniteSets, Naturals

CONSTANTS
    Nodes,          \* server processes behind the Redis adapter
    Sockets,        \* socket ids, each used once
    Logouts,        \* logout requests, each used once
    NodeOf,         \* the node a socket or a logout request is connected to
    MaxInFlight,    \* bound on the handlers at work when one more begins
    MaxFaults       \* bound on failed queries and node crashes

ASSUME NodeAssumption == NodeOf \in [Sockets \cup Logouts -> Nodes]
ASSUME FaultsAssumption == MaxFaults \in Nat

VARIABLES
    up,             \* nodes that run
    live,           \* sockets in the user's room
    keys,           \* user:sockets:ID in Redis
    listed,         \* the user is in online_users in Redis
    isOnline,       \* users.isOnline in PostgreSQL
    told,           \* the last broadcast was USER_ONLINE
    conn,           \* handleUserConnect, per socket
    beat,           \* handleHeartbeat, per socket
    disc,           \* handleUserDisconnect, per socket
    sync,           \* syncStartupPresence, per node
    out,            \* logout requests
    kicks,          \* nodes that have yet to close the user's sockets
    faults,
    mixed           \* history: opposite handlers overlapped, or one failed

stores == <<keys, listed, isOnline, told>>
handlers == <<conn, beat, disc, sync, out>>
presenceVars == <<up, live, stores, handlers, kicks, faults, mixed>>

NoHandler == [pc |-> "none", ask |-> {}, seen |-> {}, steady |-> {}]

\* ask: nodes fetchSockets has not heard from; seen: what it was told.  The
\* code has no field steady: the user's other sockets that have been in the
\* room ever since the handler began.
Fetching(pcs) ==
    [pc : pcs, ask : SUBSET Nodes, seen : SUBSET Sockets, steady : SUBSET Sockets]

PresenceTypeOK ==
    /\ up \subseteq Nodes
    /\ live \subseteq {s \in Sockets : NodeOf[s] \in up}
    /\ keys \subseteq Sockets
    /\ {listed, isOnline, told, mixed} \subseteq BOOLEAN
    /\ conn \in [Sockets -> {"new", "sadd", "list", "db", "emit", "done"}]
    /\ beat \in [Sockets -> {"none", "sadd", "list", "emit"}]
    /\ disc \in [Sockets -> Fetching(
            {"none", "srem", "ask", "del", "unlist", "db", "emit", "prune", "readd", "done"})]
    /\ sync \in [Nodes -> Fetching({"none", "ask", "del", "add", "db"})]
    /\ out \in [Logouts -> {"new", "db", "del", "unlist", "kick", "done"}]
    /\ kicks \subseteq up
    /\ faults \in 0 .. MaxFaults

\* Some nodes run, their start is over and nobody is connected; the others are
\* yet to start.
PresenceInit ==
    /\ up \in SUBSET Nodes
    /\ live = {} /\ keys = {}
    /\ listed = FALSE /\ isOnline = FALSE /\ told = FALSE
    /\ conn = [s \in Sockets |-> "new"]
    /\ beat = [s \in Sockets |-> "none"]
    /\ disc = [s \in Sockets |-> NoHandler]
    /\ sync = [n \in Nodes |-> NoHandler]
    /\ out = [o \in Logouts |-> "new"]
    /\ kicks = {}
    /\ faults = 0
    /\ mixed = FALSE

-----------------------------------------------------------------------------
(* Which handlers are at work.                                             *)

Arriving(s) == conn[s] \notin {"new", "done"} \/ beat[s] # "none"
Leaving(s) == disc[s].pc \notin {"none", "done"}
LoggingOut(o) == out[o] \notin {"new", "done"}
Syncing(n) == sync[n].pc # "none"

SomeArriving == \E s \in Sockets : Arriving(s)
SomeLeaving == kicks # {} \/ (\E s \in Sockets : Leaving(s)) \/ (\E o \in Logouts : LoggingOut(o))
SomeSyncing == \E n \in Nodes : Syncing(n)

InFlight ==
    Cardinality({s \in Sockets : Arriving(s)}) + Cardinality({s \in Sockets : Leaving(s)})
      + Cardinality({o \in Logouts : LoggingOut(o)}) + Cardinality({n \in Nodes : Syncing(n)})

Room == InFlight < MaxInFlight

Remember(opposite) == mixed' = (mixed \/ opposite)

Fault ==
    /\ faults < MaxFaults
    /\ faults' = faults + 1
    /\ mixed' = TRUE

NoFault == UNCHANGED <<faults, mixed>>

-----------------------------------------------------------------------------
(* handleUserConnect.                                                      *)

ConnGoto(s, pc) ==
    /\ conn' = [conn EXCEPT ![s] = pc]
    /\ UNCHANGED <<beat, disc, sync, out>>

\* The socket joins the room; the handler is not awaited.
Connect(s) ==
    /\ conn[s] = "new"
    /\ Room
    /\ NodeOf[s] \in up
    /\ live' = live \cup {s}
    /\ ConnGoto(s, "sadd")
    /\ Remember(SomeLeaving \/ SomeSyncing)
    /\ UNCHANGED <<up, stores, kicks, faults>>

ConnSadd(s) ==
    /\ conn[s] = "sadd"
    /\ keys' = keys \cup {s}
    /\ ConnGoto(s, "list")
    /\ NoFault
    /\ UNCHANGED <<up, live, listed, isOnline, told, kicks>>

ConnList(s) ==
    /\ conn[s] = "list"
    /\ listed' = TRUE
    /\ ConnGoto(s, "db")
    /\ NoFault
    /\ UNCHANGED <<up, live, keys, isOnline, told, kicks>>

\* A failed update of the row is logged and the handler goes on.
ConnDb(s) ==
    /\ conn[s] = "db"
    /\ ConnGoto(s, "emit")
    /\ \/ isOnline' = TRUE /\ NoFault
       \/ isOnline' = isOnline /\ Fault
    /\ UNCHANGED <<up, live, keys, listed, told, kicks>>

ConnEmit(s) ==
    /\ conn[s] = "emit"
    /\ told' = TRUE
    /\ ConnGoto(s, "done")
    /\ NoFault
    /\ UNCHANGED <<up, live, keys, listed, isOnline, kicks>>

ConnFails(s) ==
    /\ conn[s] \in {"sadd", "list", "emit"}
    /\ ConnGoto(s, "done")
    /\ Fault
    /\ UNCHANGED <<up, live, stores, kicks>>

-----------------------------------------------------------------------------
(* handleHeartbeat, from presence:heartbeat and presence:status.           *)

BeatGoto(s, pc) ==
    /\ beat' = [beat EXCEPT ![s] = pc]
    /\ UNCHANGED <<conn, disc, sync, out>>

Beat(s) ==
    /\ s \in live
    /\ Room
    /\ beat[s] = "none"
    /\ BeatGoto(s, "sadd")
    /\ Remember(SomeLeaving \/ SomeSyncing)
    /\ UNCHANGED <<up, live, stores, kicks, faults>>

BeatSadd(s) ==
    /\ beat[s] = "sadd"
    /\ keys' = keys \cup {s}
    /\ BeatGoto(s, "list")
    /\ NoFault
    /\ UNCHANGED <<up, live, listed, isOnline, told, kicks>>

\* Bad: the heartbeat leaves the roster alone.
BadBeatList(s) ==
    /\ beat[s] = "list"
    /\ \E pc \in {"none", "emit"} : BeatGoto(s, pc)
    /\ NoFault
    /\ UNCHANGED <<up, live, stores, kicks>>

\* Only presence:status goes on to tell the clients.
BeatList(s) ==
    /\ beat[s] = "list"
    /\ listed' = TRUE
    /\ \E pc \in {"none", "emit"} : BeatGoto(s, pc)
    /\ NoFault
    /\ UNCHANGED <<up, live, keys, isOnline, told, kicks>>

BeatEmit(s) ==
    /\ beat[s] = "emit"
    /\ told' = TRUE
    /\ BeatGoto(s, "none")
    /\ NoFault
    /\ UNCHANGED <<up, live, keys, listed, isOnline, kicks>>

\* The error is caught inside handleHeartbeat: presence:status still tells.
BeatFails(s) ==
    /\ beat[s] \in {"sadd", "list"}
    /\ \E pc \in {"none", "emit"} : BeatGoto(s, pc)
    /\ Fault
    /\ UNCHANGED <<up, live, stores, kicks>>

-----------------------------------------------------------------------------
(* handleUserDisconnect.                                                   *)

\* The sockets in S leave the room and their handlers begin; the other
\* handlers forget them as steady.
Forget(h, S) == [h EXCEPT !.steady = @ \ S]

Depart(S) ==
    /\ live' = live \ S
    /\ disc' = [s \in Sockets |->
                  IF s \in S THEN [NoHandler EXCEPT !.pc = "srem", !.steady = live \ S]
                  ELSE Forget(disc[s], S)]
    /\ sync' = [n \in Nodes |-> Forget(sync[n], S)]

Disconnect(s) ==
    /\ s \in live
    /\ Room
    /\ Depart({s})
    /\ Remember(SomeArriving \/ SomeSyncing)
    /\ UNCHANGED <<up, stores, conn, beat, out, kicks, faults>>

DiscGoto(s, h) ==
    /\ disc' = [disc EXCEPT ![s] = h]
    /\ UNCHANGED <<conn, beat, sync, out>>

DiscNext(s, pc) ==
    DiscGoto(s, IF pc = "done" THEN [NoHandler EXCEPT !.pc = "done"]
                ELSE [disc[s] EXCEPT !.pc = pc])

\* Bad: only the sockets of this node are asked for.
BadDiscSrem(s) ==
    /\ disc[s].pc = "srem"
    /\ keys' = keys \ {s}
    /\ DiscGoto(s, [disc[s] EXCEPT !.pc = "ask", !.ask = {NodeOf[s]}])
    /\ NoFault
    /\ UNCHANGED <<up, live, listed, isOnline, told, kicks>>

DiscSrem(s) ==
    /\ disc[s].pc = "srem"
    /\ keys' = keys \ {s}
    /\ DiscGoto(s, [disc[s] EXCEPT !.pc = "ask", !.ask = up])
    /\ NoFault
    /\ UNCHANGED <<up, live, listed, isOnline, told, kicks>>

OnNode(n) == {s \in live : NodeOf[s] = n}

\* fetchSockets hears from node n; the node it runs on answers first.
MayHear(h, own, n) == n \in h.ask /\ (own \in h.ask => n = own)

Hear(h, n) == [h EXCEPT !.ask = @ \ {n}, !.seen = @ \cup OnNode(n)]

DiscAsk(s, n) ==
    /\ disc[s].pc = "ask"
    /\ MayHear(disc[s], NodeOf[s], n)
    /\ LET h == Hear(disc[s], n) IN
         DiscGoto(s, CASE h.ask # {} -> h
                       [] h.ask = {} /\ h.seen \ {s} = {} -> [h EXCEPT !.pc = "del"]
                       [] OTHER -> [h EXCEPT !.pc = "prune"])
    /\ NoFault
    /\ UNCHANGED <<up, live, stores, kicks>>

\* No other socket was found: the user goes offline.
DiscDel(s) ==
    /\ disc[s].pc = "del"
    /\ keys' = {}
    /\ DiscNext(s, "unlist")
    /\ NoFault
    /\ UNCHANGED <<up, live, listed, isOnline, told, kicks>>

DiscUnlist(s) ==
    /\ disc[s].pc = "unlist"
    /\ listed' = FALSE
    /\ DiscNext(s, "db")
    /\ NoFault
    /\ UNCHANGED <<up, live, keys, isOnline, told, kicks>>

DiscDb(s) ==
    /\ disc[s].pc = "db"
    /\ DiscNext(s, "emit")
    /\ \/ isOnline' = FALSE /\ NoFault
       \/ isOnline' = isOnline /\ Fault
    /\ UNCHANGED <<up, live, keys, listed, told, kicks>>

DiscEmit(s) ==
    /\ disc[s].pc = "emit"
    /\ told' = FALSE
    /\ DiscNext(s, "done")
    /\ NoFault
    /\ UNCHANGED <<up, live, keys, listed, isOnline, kicks>>

\* Others were found: their ids replace the set.
DiscPrune(s) ==
    /\ disc[s].pc = "prune"
    /\ keys' = {}
    /\ DiscNext(s, "readd")
    /\ NoFault
    /\ UNCHANGED <<up, live, listed, isOnline, told, kicks>>

DiscReadd(s) ==
    /\ disc[s].pc = "readd"
    /\ keys' = keys \cup (disc[s].seen \ {s})
    /\ DiscNext(s, "done")
    /\ NoFault
    /\ UNCHANGED <<up, live, listed, isOnline, told, kicks>>

DiscFails(s) ==
    /\ disc[s].pc \in {"srem", "ask", "del", "unlist", "prune", "readd"}
    /\ DiscNext(s, "done")
    /\ Fault
    /\ UNCHANGED <<up, live, stores, kicks>>

-----------------------------------------------------------------------------
(* The end of logout.                                                      *)

OutGoto(o, pc) ==
    /\ out' = [out EXCEPT ![o] = pc]
    /\ UNCHANGED <<conn, beat>>

Logout(o) ==
    /\ out[o] = "new"
    /\ Room
    /\ NodeOf[o] \in up
    /\ OutGoto(o, "db")
    /\ Remember(SomeArriving \/ SomeSyncing)
    /\ UNCHANGED <<up, live, stores, disc, sync, kicks, faults>>

OutDb(o) ==
    /\ out[o] = "db"
    /\ OutGoto(o, "del")
    /\ \/ isOnline' = FALSE /\ NoFault
       \/ isOnline' = isOnline /\ Fault
    /\ UNCHANGED <<up, live, keys, listed, told, disc, sync, kicks>>

OutDel(o) ==
    /\ out[o] = "del"
    /\ keys' = {}
    /\ OutGoto(o, "unlist")
    /\ NoFault
    /\ UNCHANGED <<up, live, listed, isOnline, told, disc, sync, kicks>>

OutUnlist(o) ==
    /\ out[o] = "unlist"
    /\ listed' = FALSE
    /\ OutGoto(o, "kick")
    /\ NoFault
    /\ UNCHANGED <<up, live, keys, isOnline, told, disc, sync, kicks>>

\* disconnectSockets(true): the other nodes are sent the order, the sockets
\* of this one close at once; then the clients are told.
OutKick(o) ==
    /\ out[o] = "kick"
    /\ kicks' = kicks \cup (up \ {NodeOf[o]})
    /\ Depart(OnNode(NodeOf[o]))
    /\ told' = FALSE
    /\ OutGoto(o, "done")
    /\ Remember(SomeArriving \/ SomeSyncing)
    /\ UNCHANGED <<up, keys, listed, isOnline, faults>>

Kicked(n) ==
    /\ n \in kicks
    /\ kicks' = kicks \ {n}
    /\ Depart(OnNode(n))
    /\ Remember(SomeArriving \/ SomeSyncing)
    /\ UNCHANGED <<up, stores, conn, beat, out, faults>>

OutFails(o) ==
    /\ out[o] \in {"del", "unlist"}
    /\ OutGoto(o, "done")
    /\ Fault
    /\ UNCHANGED <<up, live, stores, disc, sync, kicks>>

-----------------------------------------------------------------------------
(* The start of a node: syncStartupPresence.                               *)

SyncGoto(n, h) ==
    /\ sync' = [sync EXCEPT ![n] = h]
    /\ UNCHANGED <<conn, beat, disc, out>>

SyncNext(n, pc) == SyncGoto(n, IF pc = "none" THEN NoHandler ELSE [sync[n] EXCEPT !.pc = pc])

Start(n) ==
    /\ n \notin up
    /\ Room
    /\ up' = up \cup {n}
    /\ SyncGoto(n, [pc |-> "ask", ask |-> up', seen |-> {}, steady |-> live])
    /\ Remember(SomeArriving \/ SomeLeaving \/ SomeSyncing)
    /\ UNCHANGED <<live, stores, kicks, faults>>

SyncAsk(n, m) ==
    /\ sync[n].pc = "ask"
    /\ MayHear(sync[n], n, m)
    /\ LET h == Hear(sync[n], m) IN
         SyncGoto(n, IF h.ask = {} THEN [h EXCEPT !.pc = "del"] ELSE h)
    /\ NoFault
    /\ UNCHANGED <<up, live, stores, kicks>>

\* Bad: nobody is put back on the roster.
BadSyncDel(n) ==
    /\ sync[n].pc = "del"
    /\ listed' = FALSE
    /\ SyncNext(n, "db")
    /\ NoFault
    /\ UNCHANGED <<up, live, keys, isOnline, told, kicks>>

\* The whole roster is deleted; only a user with sockets is added again.
SyncDel(n) ==
    /\ sync[n].pc = "del"
    /\ listed' = FALSE
    /\ SyncNext(n, IF sync[n].seen = {} THEN "db" ELSE "add")
    /\ NoFault
    /\ UNCHANGED <<up, live, keys, isOnline, told, kicks>>

SyncAdd(n) ==
    /\ sync[n].pc = "add"
    /\ listed' = TRUE
    /\ SyncNext(n, "db")
    /\ NoFault
    /\ UNCHANGED <<up, live, keys, isOnline, told, kicks>>

\* Everybody who was not seen is marked offline, nobody online.
SyncDb(n) ==
    /\ sync[n].pc = "db"
    /\ isOnline' = (isOnline /\ sync[n].seen # {})
    /\ SyncNext(n, "none")
    /\ NoFault
    /\ UNCHANGED <<up, live, keys, listed, told, kicks>>

SyncFails(n) ==
    /\ sync[n].pc # "none"
    /\ SyncNext(n, "none")
    /\ Fault
    /\ UNCHANGED <<up, live, stores, kicks>>

-----------------------------------------------------------------------------
\* A node crashes: its sockets and handlers are gone without a trace, and who
\* waits for its answer gives up.
Lost(h, own, n) == own = n \/ n \in h.ask

Busy(n) ==
    \/ \E s \in Sockets : NodeOf[s] = n /\ (Arriving(s) \/ Leaving(s))
    \/ \E o \in Logouts : NodeOf[o] = n /\ LoggingOut(o)
    \/ \E s \in Sockets : Leaving(s) /\ n \in disc[s].ask
    \/ SomeSyncing \/ kicks # {}

Crash(n) ==
    /\ n \in up
    /\ faults < MaxFaults
    /\ faults' = faults + 1
    /\ mixed' = (mixed \/ Busy(n))
    /\ up' = up \ {n}
    /\ live' = live \ OnNode(n)
    /\ kicks' = kicks \ {n}
    /\ conn' = [s \in Sockets |-> IF NodeOf[s] = n /\ conn[s] # "new" THEN "done" ELSE conn[s]]
    /\ beat' = [s \in Sockets |-> IF NodeOf[s] = n THEN "none" ELSE beat[s]]
    /\ disc' = [s \in Sockets |->
                  IF Leaving(s) /\ Lost(disc[s], NodeOf[s], n)
                  THEN [NoHandler EXCEPT !.pc = "done"] ELSE Forget(disc[s], OnNode(n))]
    /\ sync' = [m \in Nodes |->
                  IF Lost(sync[m], m, n) THEN NoHandler ELSE Forget(sync[m], OnNode(n))]
    /\ out' = [o \in Logouts |-> IF NodeOf[o] = n /\ LoggingOut(o) THEN "done" ELSE out[o]]
    /\ UNCHANGED stores

SocketSteps(s) ==
    \/ ConnSadd(s) \/ ConnList(s) \/ ConnDb(s) \/ ConnEmit(s)
    \/ BeatSadd(s) \/ BeatList(s) \/ BeatEmit(s)
    \/ DiscSrem(s) \/ (\E n \in Nodes : DiscAsk(s, n))
    \/ DiscDel(s) \/ DiscUnlist(s) \/ DiscDb(s) \/ DiscEmit(s)
    \/ DiscPrune(s) \/ DiscReadd(s)

OutSteps(o) == OutDb(o) \/ OutDel(o) \/ OutUnlist(o) \/ OutKick(o)

NodeSteps(n) ==
    \/ Kicked(n)
    \/ \E m \in Nodes : SyncAsk(n, m)
    \/ SyncDel(n) \/ SyncAdd(n) \/ SyncDb(n)

PresenceNext ==
    \/ \E s \in Sockets :
         \/ Connect(s) \/ Beat(s) \/ Disconnect(s)
         \/ SocketSteps(s)
         \/ ConnFails(s) \/ BeatFails(s) \/ DiscFails(s)
    \/ \E o \in Logouts : Logout(o) \/ OutSteps(o) \/ OutFails(o)
    \/ \E n \in Nodes : Start(n) \/ NodeSteps(n) \/ SyncFails(n) \/ Crash(n)

PresenceSpec == PresenceInit /\ [][PresenceNext]_presenceVars

\* The event loops, Redis and the database go on with what was begun, and the
\* client of an open socket keeps sending its heartbeat.
Fairness ==
    /\ \A s \in Sockets : WF_presenceVars(SocketSteps(s)) /\ WF_presenceVars(Beat(s))
    /\ \A o \in Logouts : WF_presenceVars(OutSteps(o))
    /\ \A n \in Nodes : WF_presenceVars(NodeSteps(n))

FairSpec == PresenceSpec /\ Fairness

-----------------------------------------------------------------------------
(* Properties.                                                             *)

Quiet == ~SomeArriving /\ ~SomeLeaving /\ ~SomeSyncing

\* As long as handlers that bring the user online never overlap with handlers
\* that take the user offline, and all of them succeed, the copies agree with
\* the room whenever no handler is at work: also after connections that
\* overlap each other, departures and logouts that overlap each other, and the
\* crash and restart of a node (socket.presence.ts:33-57, 89-129, 141-163,
\* auth.service.ts:238-254).  A crash leaves the clients unaware.
AgreeWhenCalm ==
    Quiet /\ ~mixed /\ up = Nodes =>
        /\ isOnline = (live # {})
        /\ listed = (live # {})
        /\ live \subseteq keys
        /\ live # {} => told

\* A departure or a start takes the user offline only if no other socket of
\* the user stayed connected all the while, on whichever node and in whichever
\* order the nodes answer (socket.presence.ts:92-103, 141-163).
SteadyKept ==
    /\ \A s \in Sockets :
         disc[s].pc \in {"del", "unlist", "db", "emit"} => disc[s].steady = {}
    /\ \A n \in Nodes :
         sync[n].pc \in {"del", "add", "db"} /\ sync[n].seen = {} => sync[n].steady = {}

\* The heartbeats repair online_users: a user one of whose sockets stays
\* connected is on the roster from some time on, whatever raced before
\* (socket.presence.ts:68-77).
BeatsRepair ==
    \A s \in Sockets : <>[](s \in live) => <>[]listed
=============================================================================
