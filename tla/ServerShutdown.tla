--------------------------- MODULE ServerShutdown ---------------------------
(***************************************************************************)
(* One process of the server from its start to its end: startServer and    *)
(* gracefulShutdown of src/server.ts, initWorkers and stopWorkers of       *)
(* src/queues/workers/index.ts, and the opening and closing of the two     *)
(* stores.                                                                 *)
(*                                                                         *)
(* Node's HTTP server emits close once it was told to close and its last   *)
(* connection, WebSockets included, is gone; told again, it emits close    *)
(* again, to those who asked since.  A worker of BullMQ closes when its    *)
(* running jobs have ended, and takes no job from then on.                 *)
(***************************************************************************)
EXTENDS FiniteSets, Integers

CONSTANTS
    Workers,        \* the queues' workers
    Jobs,           \* jobs that the queues may bring
    QueueOf,        \* the worker whose queue holds the job
    Concurrency,    \* jobs a worker runs at a time
    Connections,    \* HTTP and WebSocket connections
    MaxSignals      \* bound on the SIGTERM and SIGINT received

ASSUME QueueAssumption == QueueOf \in [Jobs -> Workers]
ASSUME LimitsAssumption == {MaxSignals, Concurrency} \subseteq Nat

Signals == 1 .. MaxSignals

VARIABLES
    boot,           \* what startServer is at
    exit,           \* how the process ended
    db, redis,      \* the connections to the stores
    open,           \* connections of the HTTP server
    handlers,       \* connections that are gone, their disconnect handler at work
    workers,        \* those in the variables of workers/index.ts
    jobs,           \* state of each job
    shutdown,       \* what the gracefulShutdown of each signal is at
    awaited         \* workers whose closing it awaits

stores == <<db, redis>>
served == <<open, handlers>>
serverVars == <<boot, exit, stores, served, workers, jobs, shutdown, awaited>>

ServerTypeOK ==
    /\ boot \in {"database", "redis", "listening"}
    /\ exit \in {"running", "clean", "forced", "fatal", "killed"}
    /\ db \in {"down", "up", "closed"}
    /\ redis \in {"down", "up", "closed"}
    /\ open \subseteq Connections /\ handlers \subseteq Connections
    /\ workers \subseteq Workers
    /\ jobs \in [Jobs -> {"queued", "running", "done", "failed"}]
    /\ shutdown \in [Signals -> {"none", "server", "workers", "database", "redis", "quit"}]
    /\ awaited \in [Signals -> SUBSET Workers]

ServerInit ==
    /\ boot = "database"
    /\ exit = "running"
    /\ db = "down" /\ redis = "down"
    /\ open = {} /\ handlers = {}
    /\ workers = {}
    /\ jobs = [j \in Jobs |-> "queued"]
    /\ shutdown = [s \in Signals |-> "none"]
    /\ awaited = [s \in Signals |-> {}]

Running == exit = "running"
Signalled == {s \in Signals : shutdown[s] # "none"}
RunningJobs(ws) == {j \in Jobs : jobs[j] = "running" /\ QueueOf[j] \in ws}

\* Workers that were told to close, by any of the signals.
Closing == UNION {awaited[s] : s \in Signals}

-----------------------------------------------------------------------------
(* startServer.                                                            *)

\* Without a database there is no server.
ConnectDatabase ==
    /\ Running /\ boot = "database"
    /\ \/ db' = "up" /\ boot' = "redis" /\ UNCHANGED exit
       \/ exit' = "fatal" /\ UNCHANGED <<db, boot>>
    /\ UNCHANGED <<redis, served, workers, jobs, shutdown, awaited>>

\* Without Redis there is one.  The same step creates the workers, of which
\* some stay null when one cannot be created, and the HTTP server.
ConnectRedis ==
    /\ Running /\ boot = "redis"
    /\ redis' \in {"up", "down"}
    /\ workers' \in SUBSET Workers
    /\ boot' = "listening"
    /\ UNCHANGED <<exit, db, served, jobs, shutdown, awaited>>

\* The connection breaks.
LoseRedis ==
    /\ Running /\ boot = "listening"
    /\ redis = "up"
    /\ redis' = "down"
    /\ UNCHANGED <<boot, exit, db, served, workers, jobs, shutdown, awaited>>

\* The client of Redis goes on trying to connect.
RetryRedis ==
    /\ Running /\ boot = "listening"
    /\ redis = "down"
    /\ redis' = "up"
    /\ UNCHANGED <<boot, exit, db, served, workers, jobs, shutdown, awaited>>

-----------------------------------------------------------------------------
(* What a running server does.                                             *)

Listening == Running /\ boot = "listening" /\ Signalled = {}

Connect(c) ==
    /\ Listening
    /\ c \notin open \cup handlers
    /\ open' = open \cup {c}
    /\ UNCHANGED <<boot, exit, stores, handlers, workers, jobs, shutdown, awaited>>

Disconnect(c) ==
    /\ Running
    /\ c \in open
    /\ open' = open \ {c} /\ handlers' = handlers \cup {c}
    /\ UNCHANGED <<boot, exit, stores, workers, jobs, shutdown, awaited>>

Handled(c) ==
    /\ Running
    /\ c \in handlers
    /\ handlers' = handlers \ {c}
    /\ UNCHANGED <<boot, exit, stores, open, workers, jobs, shutdown, awaited>>

TakeJob(j) ==
    /\ Running
    /\ jobs[j] = "queued"
    /\ QueueOf[j] \in workers \ Closing
    /\ Cardinality(RunningJobs({QueueOf[j]})) < Concurrency
    /\ jobs' = [jobs EXCEPT ![j] = "running"]
    /\ UNCHANGED <<boot, exit, stores, served, workers, shutdown, awaited>>

\* A job may need the database, and fails without it.
EndJob(j) ==
    /\ Running
    /\ jobs[j] = "running"
    /\ jobs' \in {[jobs EXCEPT ![j] = o] : o \in IF db = "up" THEN {"done"} ELSE {"done", "failed"}}
    /\ UNCHANGED <<boot, exit, stores, served, workers, shutdown, awaited>>

-----------------------------------------------------------------------------
(* gracefulShutdown.                                                       *)

\* Before the handlers of the signals are there, a signal ends the process.
Signal(s) ==
    /\ Running
    /\ shutdown[s] = "none"
    /\ \A q \in Signals : q < s => shutdown[q] # "none"
    /\ IF boot = "listening"
       THEN shutdown' = [shutdown EXCEPT ![s] = "server"] /\ UNCHANGED exit
       ELSE exit' = "killed" /\ UNCHANGED shutdown
    /\ UNCHANGED <<boot, stores, served, workers, jobs, awaited>>

AwaitClose == {s \in Signals : shutdown[s] = "server"}
First(s) == s \in AwaitClose /\ \A q \in AwaitClose : s <= q

\* Bad: without waiting for the connections.
BadServerClosed ==
    /\ Running
    /\ shutdown' = [s \in Signals |-> IF s \in AwaitClose THEN "workers" ELSE shutdown[s]]
    /\ \E s \in Signals : First(s) /\ awaited' = [awaited EXCEPT ![s] = workers]
    /\ workers' = {}
    /\ UNCHANGED <<boot, exit, stores, served, jobs>>

\* The callbacks of all that wait run one after the other, each up to its
\* await: the first finds the workers, and leaves null to the others.
ServerClosed ==
    /\ Running
    /\ open = {}
    /\ shutdown' = [s \in Signals |-> IF s \in AwaitClose THEN "workers" ELSE shutdown[s]]
    /\ \E s \in Signals : First(s) /\ awaited' = [awaited EXCEPT ![s] = workers]
    /\ workers' = {}
    /\ UNCHANGED <<boot, exit, stores, served, jobs>>

\* Bad: the promises are not awaited.
BadWorkersClosed(s) ==
    /\ Running
    /\ shutdown[s] = "workers"
    /\ shutdown' = [shutdown EXCEPT ![s] = "database"]
    /\ UNCHANGED <<boot, exit, stores, served, workers, jobs, awaited>>

WorkersClosed(s) ==
    /\ Running
    /\ shutdown[s] = "workers"
    /\ RunningJobs(awaited[s]) = {}
    /\ shutdown' = [shutdown EXCEPT ![s] = "database"]
    /\ UNCHANGED <<boot, exit, stores, served, workers, jobs, awaited>>

\* An error is logged and the shutdown goes on.
DisconnectDatabase(s) ==
    /\ Running
    /\ shutdown[s] = "database"
    /\ db' \in {"closed", db}
    /\ shutdown' = [shutdown EXCEPT ![s] = "redis"]
    /\ UNCHANGED <<boot, exit, redis, served, workers, jobs, awaited>>

\* Without a connection the command joins those that wait for one, of any request
\* or handler; when none waits the client may just stop.
DisconnectRedis(s) ==
    /\ Running
    /\ shutdown[s] = "redis"
    /\ \/ redis' \in {"closed", redis} /\ exit' = "clean" /\ UNCHANGED shutdown
       \/ /\ redis = "down"
          /\ shutdown' = [shutdown EXCEPT ![s] = "quit"]
          /\ UNCHANGED <<redis, exit>>
    /\ UNCHANGED <<boot, db, served, workers, jobs, awaited>>

\* It never fails (maxRetriesPerRequest: null), and is sent once Redis is back.
QuitRedis(s) ==
    /\ Running
    /\ shutdown[s] = "quit"
    /\ redis = "up"
    /\ redis' \in {"closed", redis}
    /\ exit' = "clean"
    /\ UNCHANGED <<boot, db, served, workers, jobs, shutdown, awaited>>

\* Ten seconds after a signal, wherever the shutdown is.
TimeOut ==
    /\ Running
    /\ Signalled # {}
    /\ exit' = "forced"
    /\ UNCHANGED <<boot, stores, served, workers, jobs, shutdown, awaited>>

-----------------------------------------------------------------------------
ShutdownSteps ==
    \/ ServerClosed
    \/ \E s \in Signals :
         WorkersClosed(s) \/ DisconnectDatabase(s) \/ DisconnectRedis(s) \/ QuitRedis(s)

ServerNext ==
    \/ ConnectDatabase \/ ConnectRedis \/ LoseRedis \/ RetryRedis
    \/ \E c \in Connections : Connect(c) \/ Disconnect(c) \/ Handled(c)
    \/ \E j \in Jobs : TakeJob(j) \/ EndJob(j)
    \/ \E s \in Signals : Signal(s)
    \/ ShutdownSteps
    \/ TimeOut

ServerSpec == ServerInit /\ [][ServerNext]_serverVars

-----------------------------------------------------------------------------
(* Properties.                                                             *)

\* One signal shuts down in order: no job is running when a store is closed or
\* the process ends of its own accord, and none fails for want of the database
\* (server.ts:49-55, workers/index.ts:39-74).  A second signal breaks this: its
\* callback finds the workers null and closes the stores under their jobs.
JobsFinish ==
    (\A s, q \in Signalled : s = q) =>
        /\ db = "closed" \/ redis = "closed" \/ exit = "clean" => RunningJobs(Workers) = {}
        /\ \A j \in Jobs : jobs[j] # "failed"

\* While a client is connected the database is there and no worker is told to
\* close, however many signals come (server.ts:24-49).
ServedWithStores ==
    Running /\ open # {} => db = "up" /\ Closing = {}
=============================================================================
