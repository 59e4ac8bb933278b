------------------------ MODULE CallSignalingProofs ------------------------
(***************************************************************************)
(* Proofs about CallSignaling for any users, nodes, request slots and      *)
(* bounds.  IInv strengthens the checked invariants to an inductive one:   *)
(* it adds what a handler that is past a step knows of the row.            *)
(***************************************************************************)
EXTENDS CallSignaling, TLAPS

-----------------------------------------------------------------------------
(* The tables.                                                             *)

LEMMA WrittenType ==
    ASSUME NEW r \in Rows, NEW op \in Ops, NEW saw \in BOOLEAN
    PROVE  /\ Written(r, op, saw) \in Rows
           /\ Written(r, op, saw).caller = r.caller
           /\ Written(r, op, saw).receiver = r.receiver
           /\ Written(r, op, saw).status \in CallStatus \ {"INITIATED"}
           /\ r.answered => Written(r, op, saw).answered
           /\ r.ended => Written(r, op, saw).ended
    BY DEF Written, Rows, Ops, CallStatus, Unanswered, Terminal

LEMMA TablesType ==
    ASSUME NEW op \in Ops, NEW saw \in BOOLEAN, NEW status
    PROVE  /\ EventOf(op) \in Events
           /\ LogStatusOf(op, saw) \in LogStatuses
           /\ AfterRead(op, status) \in {"write", "tell", "clear", "done"}
    BY DEF EventOf, LogStatusOf, AfterRead, Ops, Events, FinalEvents, LogStatuses

LEMMA SlotFields ==
    ASSUME NEW pc
    PROVE  /\ Slot(pc).pc = pc
           /\ Slot(pc).node = NoNode
           /\ Slot(pc).saw = FALSE
    BY DEF Slot

LEMMA Busy ==
    ASSUME TypeOK, NEW h \in Handlers, hs[h].pc \notin {"free", "done"}
    PROVE  /\ hs[h] \in BusyStates
           /\ hs[h].call \in Calls
           /\ hs[h].op \in Ops
           /\ hs[h].node \in Nodes
           /\ hs[h].saw \in BOOLEAN
    BY SlotFields DEF TypeOK, HandlerStates, BusyStates

-----------------------------------------------------------------------------
(* Type correctness.                                                       *)

LEMMA TypeInit == Init => TypeOK
    BY CountsAssumption DEF Init, TypeOK, Rows, NoRow, HandlerStates

LEMMA TypeNext ==
    ASSUME TypeOK, [Next]_vars
    PROVE  TypeOK'
<1> USE DEF TypeOK
<1>1. ASSUME NEW c \in Calls, NEW n \in Nodes, NEW u \in Users, NEW v \in Users,
             Initiate(c, n, u, v)
      PROVE  TypeOK'
    BY <1>1 DEF Initiate, Rows, NoRow, CallStatus, Unanswered
<1>2. ASSUME NEW c \in Calls, Announce(c) PROVE TypeOK'
    BY <1>2 DEF Announce
<1>3. ASSUME NEW c \in Calls, NEW offline \in BOOLEAN, Arm(c, offline) PROVE TypeOK'
  <2>1. timers' \in [Nodes -> SUBSET Calls]
    BY <1>3 DEF Arm
  <2>2. told' \subseteq Calls \X Events
    BY <1>3 DEF Arm, Events
  <2> QED
    BY <1>3, <2>1, <2>2 DEF Arm
<1>4. ASSUME NEW c \in Calls, ArmFails(c) PROVE TypeOK'
    BY <1>4, CountsAssumption DEF ArmFails
<1>5. ASSUME NEW h \in Handlers, NEW op \in Ops, NEW n \in Nodes, NEW u \in Users,
             NEW c \in Calls, Read(h, op, n, u, c)
      PROVE  TypeOK'
  <2>1. row[c].answered \in BOOLEAN
    BY DEF Rows
  <2>2. AfterRead(op, row[c].status) \in {"write", "tell", "clear", "done"}
    BY TablesType, <2>1
  <2>3. hs' \in [Handlers -> HandlerStates]
    BY <1>5, <2>1, <2>2 DEF Read, HandlerStates, BusyStates
  <2> QED
    BY <1>5, <2>3 DEF Read
<1>6. ASSUME NEW h \in Handlers, Clear(h) PROVE TypeOK'
  <2>1. hs' \in [Handlers -> HandlerStates]
    BY <1>6, Busy DEF Clear, HandlerStates, BusyStates
  <2>2. timers' \in [Nodes -> SUBSET Calls]
    BY <1>6 DEF Clear
  <2> QED
    BY <1>6, <2>1, <2>2 DEF Clear
<1>7. ASSUME NEW h \in Handlers, Write(h) PROVE TypeOK'
  <2>1. hs[h].call \in Calls /\ hs[h].op \in Ops /\ hs[h].saw \in BOOLEAN
    BY <1>7, Busy DEF Write
  <2>2. row' \in [Calls -> Rows]
    BY <1>7, <2>1, WrittenType DEF Write
  <2>3. hs' \in [Handlers -> HandlerStates]
    BY <1>7, Busy DEF Write, HandlerStates, BusyStates
  <2> QED
    BY <1>7, <2>2, <2>3 DEF Write
<1>8. ASSUME NEW h \in Handlers, Tell(h) PROVE TypeOK'
  <2>1. hs[h].call \in Calls /\ hs[h].op \in Ops /\ hs[h].saw \in BOOLEAN
    BY <1>8, Busy DEF Tell
  <2>2. hs' \in [Handlers -> HandlerStates]
    <3>1. CASE hs[h].op \in {"ring", "accept"}
      BY <1>8, <3>1 DEF Tell, HandlerStates
    <3>2. CASE hs[h].op \notin {"ring", "accept"}
      <4>1. [hs[h] EXCEPT !.pc = "record"] \in BusyStates
        BY <1>8, Busy DEF Tell, BusyStates
      <4> QED
        BY <1>8, <3>2, <4>1 DEF Tell, HandlerStates
    <3> QED
      BY <3>1, <3>2
  <2>3. told' \subseteq Calls \X Events
    BY <1>8, <2>1, TablesType DEF Tell
  <2> QED
    BY <1>8, <2>2, <2>3 DEF Tell
<1>9. ASSUME NEW h \in Handlers, NEW written \in BOOLEAN, Record(h, written)
      PROVE  TypeOK'
  <2>1. hs[h].call \in Calls /\ hs[h].op \in Ops /\ hs[h].saw \in BOOLEAN
    BY <1>9, Busy DEF Record
  <2>2. hs' \in [Handlers -> HandlerStates]
    BY <1>9 DEF Record, HandlerStates
  <2>3. messages' \subseteq Messages
    BY <1>9, <2>1, TablesType DEF Record, Messages, Sources
  <2> QED
    BY <1>9, <2>2, <2>3 DEF Record
<1>10. ASSUME NEW h \in Handlers, WriteFails(h) PROVE TypeOK'
  <2>1. hs' \in [Handlers -> HandlerStates]
    BY <1>10, Busy DEF WriteFails, HandlerStates, BusyStates
  <2> QED
    BY <1>10, <2>1, CountsAssumption DEF WriteFails
<1>11. ASSUME NEW c \in Calls, NEW n \in Nodes, Fire(n, c) PROVE TypeOK'
    BY <1>11 DEF Fire
<1>12. ASSUME NEW c \in Calls, TimeoutRead(c) PROVE TypeOK'
    BY <1>12 DEF TimeoutRead
<1>13. ASSUME NEW c \in Calls, TimeoutWrite(c) PROVE TypeOK'
    BY <1>13 DEF TimeoutWrite, Rows, CallStatus, Terminal
<1>14. ASSUME NEW c \in Calls, TimeoutTell(c) PROVE TypeOK'
    BY <1>14 DEF TimeoutTell, Events, FinalEvents
<1>15. ASSUME NEW c \in Calls, NEW written \in BOOLEAN, TimeoutRecord(c, written)
       PROVE  TypeOK'
    BY <1>15 DEF TimeoutRecord, Messages, Sources, LogStatuses
<1>16. ASSUME NEW n \in Nodes, Crash(n) PROVE TypeOK'
  <2>1. hs' \in [Handlers -> HandlerStates]
    <3>1. ASSUME NEW h \in Handlers, hs[h].node = n
          PROVE  [hs[h] EXCEPT !.pc = "failed"] \in BusyStates
      <4>1. hs[h] \in BusyStates
        BY <3>1, NodeAssumption, SlotFields DEF HandlerStates
      <4> QED
        BY <4>1 DEF BusyStates
    <3> QED
      BY <1>16, <3>1 DEF Crash, HandlerStates
  <2>2. tmo' \in [Calls -> {"idle", "read", "write", "tell", "record", "done", "lost"}]
    BY <1>16 DEF Crash
  <2>3. init' \in [Calls -> {"none", "announce", "arm", "done", "silent", "unarmed"}]
    BY <1>16 DEF Crash
  <2> QED
    BY <1>16, <2>1, <2>2, <2>3, CountsAssumption DEF Crash
<1>17. CASE UNCHANGED vars
    BY <1>17 DEF vars
<1> QED
    BY <1>1, <1>2, <1>3, <1>4, <1>5, <1>6, <1>7, <1>8, <1>9, <1>10, <1>11, <1>12,
       <1>13, <1>14, <1>15, <1>16, <1>17
    DEF Next, InitiateSteps, TimeoutSteps, HandlerSteps

\* The variables, every handler's program counter and every snapshot stay in
\* their types (the tables of prisma/schema and of call.handler.ts).
THEOREM TypeCorrect == Spec => []TypeOK
<1>1. Init => TypeOK
    BY TypeInit
<1>2. TypeOK /\ [Next]_vars => TypeOK'
    BY TypeNext
<1> QED
    BY <1>1, <1>2, PTL DEF Spec

-----------------------------------------------------------------------------
(* The inductive invariant.                                                *)

Closers == {"reject", "busy", "end"}

\* A call has a row exactly when its CALL_INITIATE handler has begun, on a
\* node; nothing else happens to a call before.
Begun ==
    \A c \in Calls :
        /\ Placed(c) <=> init[c] # "none"
        /\ Placed(c) => owner[c] \in Nodes
        /\ tmo[c] # "idle" => init[c] = "done"

TimerOwned ==
    \A n \in Nodes : \A c \in timers[n] :
        n = owner[c] /\ tmo[c] = "idle" /\ init[c] = "done"

\* What a handler may rely on although its snapshot is old: answers and ends
\* are never taken back.
HandlersKnow ==
    \A h \in Handlers : hs[h].pc \notin {"free", "done"} =>
        LET r == row[hs[h].call]
        IN  /\ r.status # "NONE"
            /\ hs[h].saw => r.answered
            /\ hs[h].pc = "clear" => hs[h].op # "ring"
            /\ hs[h].pc \in {"tell", "record"} /\ hs[h].op = "accept" => r.answered
            /\ hs[h].pc \in {"tell", "record"} /\ hs[h].op \in Closers => r.ended
            /\ hs[h].pc = "record" =>
                 hs[h].op \in Closers /\ <<hs[h].call, EventOf(hs[h].op)>> \in told

CallbacksKnow ==
    \A c \in Calls :
        /\ tmo[c] \in {"tell", "record"} => row[c].ended
        /\ tmo[c] = "record" => <<c, "missed">> \in told

IInv ==
    /\ TypeOK
    /\ RecordConsistent
    /\ Begun
    /\ TimerOwned
    /\ HandlersKnow
    /\ CallbacksKnow
    /\ Attended
    /\ OneTimeout
    /\ LoggedAfterTold

LEMMA InvInit == Init => IInv
<1> SUFFICES ASSUME Init PROVE IInv
    OBVIOUS
<1>1. TypeOK
    BY TypeInit
<1>2. \A c \in Calls : row[c] = NoRow /\ init[c] = "none" /\ tmo[c] = "idle"
    BY DEF Init
<1>3. \A h \in Handlers : hs[h].pc = "free"
    BY SlotFields DEF Init
<1> QED
    BY <1>1, <1>2, <1>3
    DEF Init, IInv, RecordConsistent, Begun, TimerOwned, HandlersKnow, CallbacksKnow,
        Attended, OneTimeout, LoggedAfterTold, Placed, NoRow, Terminal

-----------------------------------------------------------------------------
(* Which actions touch which table.                                        *)

LEMMA RowSteps ==
    ASSUME [Next]_vars
    PROVE  \/ \E c \in Calls, n \in Nodes, u, v \in Users : Initiate(c, n, u, v)
           \/ \E h \in Handlers : Write(h)
           \/ \E c \in Calls : TimeoutWrite(c)
           \/ UNCHANGED row
    BY DEF Next, vars, InitiateSteps, TimeoutSteps, HandlerSteps, Announce, Arm,
           ArmFails, Read, Clear, Tell, Record, WriteFails, Fire, TimeoutRead,
           TimeoutTell, TimeoutRecord, Crash

LEMMA ToldGrows ==
    ASSUME [Next]_vars
    PROVE  told \subseteq told'
    BY DEF Next, vars, InitiateSteps, TimeoutSteps, HandlerSteps, Announce, Arm,
           ArmFails, Read, Clear, Tell, Record, WriteFails, Fire, TimeoutRead,
           TimeoutTell, TimeoutRecord, Crash, Initiate, Write, TimeoutWrite

\* What a hang-up knows of the answer it saw: it is in the row.
LEMMA WriteKnows ==
    ASSUME TypeOK, HandlersKnow, NEW h \in Handlers, Write(h)
    PROVE  LET c == hs[h].call
           IN  /\ c \in Calls
               /\ Placed(c)
               /\ row' = [row EXCEPT ![c] = Written(row[c], hs[h].op, hs[h].saw)]
               /\ row[c] \in Rows
               /\ hs[h].op \in Ops
               /\ hs[h].saw \in BOOLEAN
               /\ hs[h].saw => row[c].answered
    BY Busy DEF Write, HandlersKnow, TypeOK, Placed

\* Rows are never deleted, answers and ends never taken back.
LEMMA RowMonotone ==
    ASSUME TypeOK, RecordConsistent, HandlersKnow, [Next]_vars, NEW c \in Calls
    PROVE  /\ row[c].answered => row'[c].answered
           /\ row[c].ended => row'[c].ended
           /\ Placed(c) => Placed(c)'
<1>1. ASSUME NEW d \in Calls, NEW n \in Nodes, NEW u \in Users, NEW v \in Users,
             Initiate(d, n, u, v)
      PROVE  Placed(c) \/ row[c].answered \/ row[c].ended => row'[c] = row[c]
    BY <1>1 DEF Initiate, TypeOK, Placed, RecordConsistent
<1>2. ASSUME NEW h \in Handlers, Write(h)
      PROVE  /\ row[c].answered => row'[c].answered
             /\ row[c].ended => row'[c].ended
             /\ Placed(c) => Placed(c)'
  <2>1. CASE hs[h].call = c
    BY <1>2, <2>1, WriteKnows, WrittenType DEF TypeOK, Placed, CallStatus, Unanswered, Terminal
  <2>2. CASE hs[h].call # c
    BY <1>2, <2>2, WriteKnows DEF TypeOK, Placed
  <2> QED
    BY <2>1, <2>2
<1>3. ASSUME NEW d \in Calls, TimeoutWrite(d)
      PROVE  /\ row[c].answered => row'[c].answered
             /\ row[c].ended => row'[c].ended
             /\ Placed(c) => Placed(c)'
    BY <1>3 DEF TimeoutWrite, TypeOK, Rows, Placed
<1>4. CASE UNCHANGED row
    BY <1>4 DEF Placed
<1> QED
    BY <1>1, <1>2, <1>3, <1>4, RowSteps DEF Placed

-----------------------------------------------------------------------------
(* Each conjunct is preserved.                                             *)

LEMMA RecordConsistentNext ==
    ASSUME TypeOK, RecordConsistent, HandlersKnow, [Next]_vars
    PROVE  RecordConsistent'
<1>1. ASSUME NEW d \in Calls, NEW n \in Nodes, NEW u \in Users, NEW v \in Users,
             Initiate(d, n, u, v)
      PROVE  RecordConsistent'
    BY <1>1 DEF Initiate, TypeOK, NoRow, RecordConsistent, Terminal
<1>2. ASSUME NEW h \in Handlers, Write(h)
      PROVE  RecordConsistent'
  <2> DEFINE c == hs[h].call
             r == Written(row[c], hs[h].op, hs[h].saw)
  <2>1. /\ r.status \in Terminal => r.ended
        /\ r.status = "ACCEPTED" => r.answered
        /\ r.timed => r.answered
        /\ r.answered \/ r.ended => r.status \notin {"NONE", "INITIATED"}
    BY <1>2, WriteKnows DEF Written, Rows, Terminal, RecordConsistent, Ops
  <2>2. row' = [row EXCEPT ![c] = r] /\ c \in Calls
    BY <1>2, WriteKnows
  <2> QED
    BY <2>1, <2>2 DEF TypeOK, RecordConsistent
<1>3. ASSUME NEW d \in Calls, TimeoutWrite(d)
      PROVE  RecordConsistent'
    BY <1>3 DEF TimeoutWrite, TypeOK, Rows, RecordConsistent, Terminal
<1>4. CASE UNCHANGED row
    BY <1>4 DEF RecordConsistent
<1> QED
    BY <1>1, <1>2, <1>3, <1>4, RowSteps

LEMMA BegunNext ==
    ASSUME TypeOK, RecordConsistent, HandlersKnow, Begun, TimerOwned, [Next]_vars
    PROVE  Begun'
<1> USE DEF Begun, Placed
<1>1. ASSUME NEW d \in Calls, NEW n \in Nodes, NEW u \in Users, NEW v \in Users,
             Initiate(d, n, u, v)
      PROVE  Begun'
    BY <1>1 DEF Initiate, TypeOK, NoRow
<1>2. ASSUME NEW d \in Calls, InitiateSteps(d) \/ ArmFails(d)
      PROVE  Begun'
    BY <1>2 DEF InitiateSteps, Announce, Arm, ArmFails, TypeOK
<1>3. ASSUME NEW d \in Calls, NEW n \in Nodes, Fire(n, d)
      PROVE  Begun'
    BY <1>3 DEF Fire, TypeOK, TimerOwned
<1>4. ASSUME NEW d \in Calls, TimeoutWrite(d)
      PROVE  Begun'
    BY <1>4 DEF TimeoutWrite, TypeOK, Rows
<1>5. ASSUME NEW d \in Calls,
             \/ TimeoutRead(d)
             \/ TimeoutTell(d)
             \/ \E written \in BOOLEAN : TimeoutRecord(d, written)
      PROVE  Begun'
    BY <1>5 DEF TimeoutRead, TimeoutTell, TimeoutRecord, TypeOK
<1>6. ASSUME NEW n \in Nodes, Crash(n)
      PROVE  Begun'
    BY <1>6, NodeAssumption DEF Crash, TypeOK, TimerOwned
<1>7. ASSUME NEW h \in Handlers, Write(h)
      PROVE  Begun'
  <2>1. ASSUME NEW c \in Calls PROVE Placed(c)' <=> Placed(c)
    <3>1. CASE c = hs[h].call
      <4>1. row'[c].status \in CallStatus /\ Placed(c)
        BY <1>7, <3>1, WriteKnows, WrittenType DEF TypeOK
      <4> QED
        BY <4>1 DEF CallStatus, Unanswered, Terminal
    <3>2. CASE c # hs[h].call
      BY <1>7, <3>2, WriteKnows DEF TypeOK
    <3> QED
      BY <3>1, <3>2
  <2> QED
    BY <1>7, <2>1 DEF Write
<1>8. ASSUME NEW h \in Handlers, Clear(h)
      PROVE  Begun'
    BY <1>8 DEF Clear
<1>9. CASE UNCHANGED <<row, init, owner, tmo>>
    BY <1>9
<1>10. \/ UNCHANGED <<row, init, owner, tmo>>
       \/ \E h \in Handlers : Write(h) \/ Clear(h)
       \/ \E d \in Calls, n \in Nodes, u, v \in Users : Initiate(d, n, u, v)
       \/ \E d \in Calls : InitiateSteps(d) \/ ArmFails(d) \/ TimeoutSteps(d)
       \/ \E n \in Nodes : Crash(n)
    BY DEF Next, vars, HandlerSteps, Read, Tell, Record, WriteFails
<1> QED
    BY <1>1, <1>2, <1>3, <1>4, <1>5, <1>6, <1>7, <1>8, <1>9, <1>10 DEF TimeoutSteps

LEMMA TimerOwnedNext ==
    ASSUME TypeOK, Begun, TimerOwned, [Next]_vars
    PROVE  TimerOwned'
<1> USE DEF TimerOwned
<1>1. ASSUME NEW d \in Calls, NEW n \in Nodes, NEW u \in Users, NEW v \in Users,
             Initiate(d, n, u, v)
      PROVE  TimerOwned'
    BY <1>1 DEF Initiate, TypeOK, Begun
<1>2. ASSUME NEW d \in Calls, Announce(d) \/ ArmFails(d)
      PROVE  TimerOwned'
    BY <1>2 DEF Announce, ArmFails, TypeOK
<1>3. ASSUME NEW d \in Calls, NEW offline \in BOOLEAN, Arm(d, offline)
      PROVE  TimerOwned'
  <2>1. owner[d] \in Nodes /\ init[d] = "arm"
    BY <1>3 DEF Arm, Begun
  <2> QED
    BY <1>3, <2>1 DEF Arm, TypeOK, Begun
<1>4. ASSUME NEW d \in Calls, NEW n \in Nodes, Fire(n, d)
      PROVE  TimerOwned'
    BY <1>4 DEF Fire, TypeOK
<1>5. ASSUME NEW d \in Calls,
             \/ TimeoutRead(d)
             \/ TimeoutWrite(d)
             \/ TimeoutTell(d)
             \/ \E written \in BOOLEAN : TimeoutRecord(d, written)
      PROVE  TimerOwned'
    BY <1>5 DEF TimeoutRead, TimeoutWrite, TimeoutTell, TimeoutRecord, TypeOK
<1>6. ASSUME NEW n \in Nodes, Crash(n)
      PROVE  TimerOwned'
    BY <1>6 DEF Crash, TypeOK
<1>7. ASSUME NEW h \in Handlers, Clear(h)
      PROVE  TimerOwned'
    BY <1>7, Busy DEF Clear, TypeOK
<1>8. CASE UNCHANGED <<init, owner, tmo, timers>>
    BY <1>8
<1>9. \/ UNCHANGED <<init, owner, tmo, timers>>
      \/ \E h \in Handlers : Clear(h)
      \/ \E d \in Calls, n \in Nodes, u, v \in Users : Initiate(d, n, u, v)
      \/ \E d \in Calls : InitiateSteps(d) \/ ArmFails(d) \/ TimeoutSteps(d)
      \/ \E n \in Nodes : Crash(n)
    BY DEF Next, vars, HandlerSteps, Read, Write, Tell, Record, WriteFails
<1> QED
    BY <1>1, <1>2, <1>3, <1>4, <1>5, <1>6, <1>7, <1>8, <1>9
    DEF InitiateSteps, TimeoutSteps

LEMMA HandlersKnowNext ==
    ASSUME TypeOK, RecordConsistent, Begun, HandlersKnow, [Next]_vars
    PROVE  HandlersKnow'
<1> DEFINE Knowing(g) ==
        hs[g].pc \notin {"free", "done"} =>
            LET r == row[hs[g].call]
            IN  /\ r.status # "NONE"
                /\ hs[g].saw => r.answered
                /\ hs[g].pc = "clear" => hs[g].op # "ring"
                /\ hs[g].pc \in {"tell", "record"} /\ hs[g].op = "accept" => r.answered
                /\ hs[g].pc \in {"tell", "record"} /\ hs[g].op \in Closers => r.ended
                /\ hs[g].pc = "record" =>
                     hs[g].op \in Closers /\ <<hs[g].call, EventOf(hs[g].op)>> \in told
<1> SUFFICES ASSUME NEW g \in Handlers PROVE Knowing(g)'
    BY DEF HandlersKnow
<1>0. Knowing(g)
    BY DEF HandlersKnow
<1>1. CASE hs'[g] = hs[g]
  <2>1. CASE hs[g].pc \in {"free", "done"}
    BY <1>1, <2>1
  <2>2. CASE hs[g].pc \notin {"free", "done"}
    <3>1. hs[g].call \in Calls
      BY <2>2, Busy
    <3> QED
      BY <1>0, <1>1, <2>2, <3>1, RowMonotone, ToldGrows DEF Placed
  <2> QED
    BY <2>1, <2>2
<1>2. ASSUME NEW op \in Ops, NEW n \in Nodes, NEW u \in Users, NEW c \in Calls,
             Read(g, op, n, u, c)
      PROVE  Knowing(g)'
  <2>1. row[c].status # "NONE"
    <3>1. CASE Knows(u, c)
      BY <3>1 DEF Knows, Begun, Placed
    <3>2. CASE IsLatestActive(u, op, c)
      BY <3>2 DEF IsLatestActive, FallbackStatuses, Unanswered, Ops
    <3> QED
      BY <1>2, <3>1, <3>2 DEF Read, Found
  <2>2. /\ AfterRead(op, row[c].status) \in {"write", "tell", "clear", "done"}
        /\ AfterRead(op, row[c].status) = "clear" => op # "ring"
        /\ AfterRead(op, row[c].status) = "tell" => op = "ring"
    BY DEF AfterRead, Ops
  <2>3. \/ hs'[g] = Slot("done")
        \/ hs'[g] = [pc |-> AfterRead(op, row[c].status), op |-> op, call |-> c,
                     user |-> u, node |-> n, saw |-> row[c].answered]
    BY <1>2 DEF Read, TypeOK
  <2>4. row' = row
    BY <1>2 DEF Read
  <2>5. CASE hs'[g] = Slot("done")
    BY <2>5, SlotFields
  <2>6. CASE hs'[g] = [pc |-> AfterRead(op, row[c].status), op |-> op, call |-> c,
                       user |-> u, node |-> n, saw |-> row[c].answered]
    <3>1. /\ hs'[g].pc = AfterRead(op, row[c].status)
          /\ hs'[g].op = op
          /\ hs'[g].call = c
          /\ hs'[g].saw = row[c].answered
      BY <2>6
    <3> QED
      BY <2>1, <2>2, <2>4, <3>1 DEF Closers
  <2> QED
    BY <2>3, <2>5, <2>6
<1>3. CASE Clear(g)
    BY <1>0, <1>3 DEF Clear, TypeOK
<1>4. CASE Write(g)
  <2> DEFINE c == hs[g].call
  <2>1. /\ hs'[g] = [hs[g] EXCEPT !.pc = "tell"]
        /\ c \in Calls
        /\ row'[c] = Written(row[c], hs[g].op, hs[g].saw)
        /\ row[c] \in Rows
    BY <1>4, WriteKnows DEF Write, TypeOK
  <2>2. /\ hs'[g].pc = "tell"
        /\ hs'[g].op = hs[g].op
        /\ hs'[g].call = c
        /\ hs'[g].saw = hs[g].saw
    BY <1>4, <2>1, Busy DEF Write, BusyStates
  <2>3. /\ row'[c].status # "NONE"
        /\ hs[g].saw => row'[c].answered
        /\ hs[g].op = "accept" => row'[c].answered
        /\ hs[g].op \in Closers => row'[c].ended
    BY <1>4, <2>1, WriteKnows DEF Written, Rows, Closers, Ops
  <2> QED
    BY <2>2, <2>3
<1>5. CASE Tell(g)
  <2>1. CASE hs[g].op \in {"ring", "accept"}
    BY <1>5, <2>1, SlotFields DEF Tell, TypeOK
  <2>2. CASE hs[g].op \notin {"ring", "accept"}
    <3>1. hs'[g] = [hs[g] EXCEPT !.pc = "record"]
      BY <1>5, <2>2 DEF Tell, TypeOK
    <3>2. /\ hs'[g].pc = "record"
          /\ hs'[g].op = hs[g].op
          /\ hs'[g].call = hs[g].call
          /\ hs'[g].saw = hs[g].saw
          /\ hs[g].op \in Closers
      BY <1>5, <2>2, <3>1, Busy DEF Tell, BusyStates, Closers, Ops
    <3>3. row' = row /\ <<hs[g].call, EventOf(hs[g].op)>> \in told'
      BY <1>5 DEF Tell
    <3> QED
      BY <1>0, <1>5, <3>2, <3>3 DEF Tell
  <2> QED
    BY <2>1, <2>2
<1>6. ASSUME NEW written \in BOOLEAN, Record(g, written)
      PROVE  Knowing(g)'
    BY <1>6, SlotFields DEF Record, TypeOK
<1>7. CASE WriteFails(g)
    BY <1>0, <1>7 DEF WriteFails, TypeOK
<1>8. ASSUME NEW n \in Nodes, Crash(n)
      PROVE  Knowing(g)'
  <2>1. CASE hs[g].node = n
    <3>1. hs[g].pc \notin {"free", "done"}
      <4>1. hs[g] \in BusyStates
        BY <2>1, NodeAssumption, SlotFields DEF TypeOK, HandlerStates
      <4> QED
        BY <4>1 DEF BusyStates
    <3>2. hs'[g] = [hs[g] EXCEPT !.pc = "failed"] /\ row' = row
      BY <1>8, <2>1 DEF Crash
    <3> QED
      BY <1>0, <3>1, <3>2, Busy DEF BusyStates
  <2>2. CASE hs[g].node # n
    BY <1>1, <1>8, <2>2 DEF Crash
  <2> QED
    BY <2>1, <2>2
<1>9. \/ hs'[g] = hs[g]
      \/ \E op \in Ops, n \in Nodes, u \in Users, c \in Calls : Read(g, op, n, u, c)
      \/ HandlerSteps(g)
      \/ WriteFails(g)
      \/ \E n \in Nodes : Crash(n)
  <2>1. ASSUME NEW h \in Handlers, h # g,
               \/ \E op \in Ops, n \in Nodes, u \in Users, c \in Calls : Read(h, op, n, u, c)
               \/ HandlerSteps(h)
               \/ WriteFails(h)
        PROVE  hs'[g] = hs[g]
    BY <2>1 DEF TypeOK, HandlerSteps, Read, Clear, Write, Tell, Record, WriteFails
  <2>2. \/ hs' = hs
        \/ \E h \in Handlers :
              \/ \E op \in Ops, n \in Nodes, u \in Users, c \in Calls : Read(h, op, n, u, c)
              \/ HandlerSteps(h)
              \/ WriteFails(h)
        \/ \E n \in Nodes : Crash(n)
    BY DEF Next, vars, InitiateSteps, TimeoutSteps, Initiate, Announce, Arm, ArmFails,
           Fire, TimeoutRead, TimeoutWrite, TimeoutTell, TimeoutRecord
  <2> QED
    BY <2>1, <2>2
<1> QED
    BY <1>1, <1>2, <1>3, <1>4, <1>5, <1>6, <1>7, <1>8, <1>9 DEF HandlerSteps

\* The callbacks of the timers move only in their own steps and in a crash.
LEMMA CallbackSteps ==
    ASSUME [Next]_vars
    PROVE  \/ \E c \in Calls : TimeoutSteps(c)
           \/ \E n \in Nodes : Crash(n)
           \/ UNCHANGED tmo
    BY DEF Next, vars, InitiateSteps, HandlerSteps, Initiate, Announce, Arm, ArmFails,
           Read, Clear, Write, Tell, Record, WriteFails

LEMMA CallbacksKnowNext ==
    ASSUME TypeOK, RecordConsistent, Begun, HandlersKnow, CallbacksKnow, [Next]_vars
    PROVE  CallbacksKnow'
<1> SUFFICES ASSUME NEW c \in Calls
             PROVE  /\ tmo'[c] \in {"tell", "record"} => row'[c].ended
                    /\ tmo'[c] = "record" => <<c, "missed">> \in told'
    BY DEF CallbacksKnow
<1>1. CASE tmo'[c] = tmo[c] \/ tmo'[c] \notin {"tell", "record"}
    BY <1>1, RowMonotone, ToldGrows DEF CallbacksKnow
<1>2. CASE TimeoutWrite(c)
    BY <1>2 DEF TimeoutWrite, TypeOK, Rows
<1>3. CASE TimeoutTell(c)
    BY <1>3 DEF TimeoutTell, TypeOK, CallbacksKnow
<1>4. \/ tmo'[c] = tmo[c]
      \/ tmo'[c] \notin {"tell", "record"}
      \/ TimeoutWrite(c)
      \/ TimeoutTell(c)
    BY CallbackSteps
    DEF TypeOK, TimeoutSteps, Fire, TimeoutRead, TimeoutWrite, TimeoutTell, TimeoutRecord, Crash
<1> QED
    BY <1>1, <1>2, <1>3, <1>4

LEMMA MessageSteps ==
    ASSUME [Next]_vars
    PROVE  \/ messages' = messages
           \/ \E h \in Handlers, written \in BOOLEAN : Record(h, written)
           \/ \E c \in Calls, written \in BOOLEAN : TimeoutRecord(c, written)
    BY DEF Next, vars, InitiateSteps, TimeoutSteps, HandlerSteps, Initiate, Announce, Arm,
           ArmFails, Read, Clear, Write, Tell, WriteFails, Fire, TimeoutRead,
           TimeoutWrite, TimeoutTell, Crash

LEMMA LoggedAfterToldNext ==
    ASSUME TypeOK, RecordConsistent, HandlersKnow, CallbacksKnow, LoggedAfterTold, [Next]_vars
    PROVE  LoggedAfterTold'
<1> DEFINE Heard(m, t) ==
        CASE m.status = "MISSED" -> <<m.call, "missed">> \in t
          [] m.status \in {"REJECTED", "BUSY"} -> <<m.call, "rejected">> \in t
          [] OTHER -> <<m.call, "ended">> \in t
<1>1. \A m \in messages : Heard(m, told')
  <2>1. \A m \in messages : Heard(m, told)
    BY DEF LoggedAfterTold
  <2> QED
    BY <2>1, ToldGrows
<1>2. ASSUME NEW h \in Handlers, NEW written \in BOOLEAN, Record(h, written)
      PROVE  \A m \in messages' : Heard(m, told')
  <2> DEFINE m == [call |-> hs[h].call, from |-> h,
                   status |-> LogStatusOf(hs[h].op, hs[h].saw)]
  <2>1. hs[h].op \in Closers /\ <<hs[h].call, EventOf(hs[h].op)>> \in told
    BY <1>2 DEF Record, HandlersKnow
  <2>2. Heard(m, told)
    BY <2>1 DEF Closers, EventOf, LogStatusOf
  <2>3. messages' \subseteq messages \cup {m} /\ told' = told
    BY <1>2 DEF Record
  <2> QED
    BY <1>1, <2>2, <2>3
<1>3. ASSUME NEW c \in Calls, NEW written \in BOOLEAN, TimeoutRecord(c, written)
      PROVE  \A m \in messages' : Heard(m, told')
  <2> DEFINE m == [call |-> c, from |-> "timer", status |-> "MISSED"]
  <2>1. Heard(m, told)
    BY <1>3 DEF TimeoutRecord, CallbacksKnow
  <2>2. messages' \subseteq messages \cup {m} /\ told' = told
    BY <1>3 DEF TimeoutRecord
  <2> QED
    BY <1>1, <2>1, <2>2
<1>4. \/ messages' = messages
      \/ \E h \in Handlers, written \in BOOLEAN : Record(h, written)
      \/ \E c \in Calls, written \in BOOLEAN : TimeoutRecord(c, written)
    BY MessageSteps
<1>5. \A m \in messages' : Heard(m, told')
    BY <1>1, <1>2, <1>3, <1>4
<1> QED
    BY <1>5 DEF LoggedAfterTold

LEMMA OneTimeoutNext ==
    ASSUME TypeOK, OneTimeout, TimerOwned', [Next]_vars
    PROVE  OneTimeout'
<1>1. \A m \in messages : m.call \in Calls
    BY DEF TypeOK, Messages
<1>2. ASSUME NEW c \in Calls, tmo[c] \in {"done", "lost"}
      PROVE  tmo'[c] \in {"done", "lost"}
  <2>1. ASSUME NEW d \in Calls, NEW n \in Nodes, Fire(n, d) PROVE tmo'[c] = tmo[c]
    BY <1>2, <2>1 DEF Fire, OneTimeout, TypeOK
  <2>2. ASSUME NEW d \in Calls,
               \/ TimeoutRead(d)
               \/ TimeoutWrite(d)
               \/ TimeoutTell(d)
               \/ \E written \in BOOLEAN : TimeoutRecord(d, written)
        PROVE  tmo'[c] = tmo[c]
    BY <1>2, <2>2 DEF TimeoutRead, TimeoutWrite, TimeoutTell, TimeoutRecord, TypeOK
  <2>3. ASSUME NEW n \in Nodes, Crash(n) PROVE tmo'[c] \in {"done", "lost"}
    BY <1>2, <2>3 DEF Crash
  <2> QED
    BY <1>2, <2>1, <2>2, <2>3, CallbackSteps DEF TimeoutSteps
<1>3. ASSUME NEW m \in messages', m.from = "timer", m \notin messages
      PROVE  tmo'[m.call] \in {"done", "lost"}
  <2>1. ASSUME NEW h \in Handlers, NEW written \in BOOLEAN, Record(h, written)
        PROVE  FALSE
    BY <1>3, <2>1, HandlersAssumption DEF Record
  <2>2. ASSUME NEW c \in Calls, NEW written \in BOOLEAN, TimeoutRecord(c, written)
        PROVE  tmo'[m.call] = "done"
    BY <1>3, <2>2 DEF TimeoutRecord, TypeOK
  <2> QED
    BY <1>3, <2>1, <2>2, MessageSteps
<1> QED
    BY <1>1, <1>2, <1>3 DEF OneTimeout, TimerOwned

\* The case that needs the whole invariant: whatever takes the timer away
\* leaves something behind that settles the call.
LEMMA AttendedNext ==
    ASSUME TypeOK, RecordConsistent, Begun, TimerOwned, HandlersKnow, CallbacksKnow,
           Attended, [Next]_vars
    PROVE  Attended'
<1> DEFINE Cared(c) ==
        \/ init[c] \in {"announce", "arm", "silent", "unarmed"}
        \/ c \in timers[owner[c]]
        \/ tmo[c] \in {"read", "write", "lost"}
        \/ Settling(c)
<1> SUFFICES ASSUME NEW c \in Calls, Placed(c)', ~row'[c].answered, ~row'[c].ended
             PROVE  Cared(c)'
    BY DEF Attended
<1>1. ASSUME NEW d \in Calls, NEW n \in Nodes, NEW u \in Users, NEW v \in Users,
             Initiate(d, n, u, v)
      PROVE  Cared(c)'
  <2>1. CASE d = c
    BY <1>1, <2>1 DEF Initiate, TypeOK
  <2>2. CASE d # c
    <3>1. /\ row'[c] = row[c] /\ init'[c] = init[c] /\ owner'[c] = owner[c]
          /\ timers' = timers /\ tmo' = tmo /\ hs' = hs
      BY <1>1, <2>2 DEF Initiate, TypeOK
    <3> QED
      BY <3>1 DEF Attended, Placed, Settling
  <2> QED
    BY <2>1, <2>2
<1> DEFINE Live == Placed(c) /\ ~row[c].answered /\ ~row[c].ended
<1>2. CASE Live /\ UNCHANGED <<init, owner, timers, tmo, hs>>
    BY <1>2 DEF Attended, Settling
<1>3. ASSUME Live, NEW d \in Calls, Announce(d) \/ ArmFails(d)
      PROVE  Cared(c)'
    BY <1>3 DEF Announce, ArmFails, TypeOK, Attended, Settling
<1>4. ASSUME Live, NEW d \in Calls, NEW offline \in BOOLEAN, Arm(d, offline)
      PROVE  Cared(c)'
  <2>1. owner[c] \in Nodes
    BY <1>4 DEF Begun
  <2>2. Cared(c)
    BY <1>4 DEF Attended
  <2>3. tmo' = tmo /\ hs' = hs /\ owner' = owner
    BY <1>4 DEF Arm
  <2>4. CASE d = c
    BY <1>4, <2>1, <2>3, <2>4 DEF Arm, TypeOK
  <2>5. CASE d # c
    <3>1. init'[c] = init[c] /\ (c \in timers[owner[c]] => c \in timers'[owner[c]])
      BY <1>4, <2>1, <2>5 DEF Arm, TypeOK
    <3> QED
      BY <2>2, <2>3, <3>1 DEF Settling
  <2> QED
    BY <2>4, <2>5
<1>5. ASSUME Live, NEW d \in Calls, NEW n \in Nodes, Fire(n, d)
      PROVE  Cared(c)'
  <2>1. Cared(c) /\ owner[c] \in Nodes
    BY <1>5 DEF Attended, Begun
  <2>2. init' = init /\ hs' = hs /\ owner' = owner
    BY <1>5 DEF Fire
  <2>3. CASE d = c
    BY <1>5, <2>3 DEF Fire, TypeOK
  <2>4. CASE d # c
    <3>1. tmo'[c] = tmo[c] /\ (c \in timers[owner[c]] => c \in timers'[owner[c]])
      BY <1>5, <2>1, <2>4 DEF Fire, TypeOK
    <3> QED
      BY <2>1, <2>2, <3>1 DEF Settling
  <2> QED
    BY <2>3, <2>4
\* An unanswered, unfinished call is INITIATED or RINGING.
<1>6. Live => row[c].status \in Unanswered
    BY DEF RecordConsistent, TypeOK, Rows, CallStatus, Placed
<1>7. ASSUME Live, NEW d \in Calls,
             \/ TimeoutRead(d)
             \/ TimeoutWrite(d)
             \/ TimeoutTell(d)
             \/ \E written \in BOOLEAN : TimeoutRecord(d, written)
      PROVE  Cared(c)'
  <2>1. Cared(c)
    BY <1>7 DEF Attended
  <2>2. init' = init /\ hs' = hs /\ owner' = owner /\ timers' = timers
    BY <1>7 DEF TimeoutRead, TimeoutWrite, TimeoutTell, TimeoutRecord
  <2>3. CASE d = c
    <3>1. TimeoutRead(c) => tmo'[c] = "write"
      BY <1>6, <1>7 DEF TimeoutRead, TypeOK
    <3>2. ~TimeoutWrite(c)
      BY DEF TimeoutWrite, TypeOK, Rows
    <3>3. tmo[c] \notin {"tell", "record"}
      BY <1>7 DEF CallbacksKnow
    <3> QED
      BY <1>7, <2>3, <3>1, <3>2, <3>3 DEF TimeoutTell, TimeoutRecord
  <2>4. CASE d # c
    <3>1. tmo'[c] = tmo[c]
      BY <1>7, <2>4 DEF TimeoutRead, TimeoutWrite, TimeoutTell, TimeoutRecord, TypeOK
    <3> QED
      BY <2>1, <2>2, <3>1 DEF Settling
  <2> QED
    BY <2>3, <2>4
<1>8. ASSUME Live, NEW h \in Handlers, Clear(h)
      PROVE  Cared(c)'
  <2>1. Cared(c) /\ owner[c] \in Nodes
    BY <1>8 DEF Attended, Begun
  <2>2. init' = init /\ tmo' = tmo /\ owner' = owner
    BY <1>8 DEF Clear
  <2>3. /\ hs'[h] = [hs[h] EXCEPT !.pc = "write"]
        /\ \A g \in Handlers : g # h => hs'[g] = hs[g]
        /\ hs[h] \in BusyStates
    BY <1>8, Busy DEF Clear, TypeOK
  <2>4. hs'[h].pc = "write" /\ hs'[h].op # "ring" /\ hs'[h].call = hs[h].call
    <3>1. hs[h].op # "ring"
      BY <1>8 DEF Clear, HandlersKnow
    <3> QED
      BY <2>3, <3>1 DEF BusyStates
  <2>5. Settling(c) => Settling(c)'
    BY <1>8, <2>3 DEF Settling, Clear
  <2>6. CASE hs[h].call = c
    BY <2>4, <2>6 DEF Settling
  <2>7. CASE hs[h].call # c
    <3>1. c \in timers[owner[c]] => c \in timers'[owner[c]]
      BY <1>8, <2>1, <2>7 DEF Clear, TypeOK
    <3> QED
      BY <2>1, <2>2, <2>5, <3>1
  <2> QED
    BY <2>6, <2>7
<1>9. ASSUME Live, NEW h \in Handlers,
             \/ \E op \in Ops, n \in Nodes, u \in Users, d \in Calls : Read(h, op, n, u, d)
             \/ Write(h)
             \/ Tell(h)
             \/ \E written \in BOOLEAN : Record(h, written)
             \/ WriteFails(h)
      PROVE  Cared(c)'
  <2>1. Cared(c)
    BY <1>9 DEF Attended
  <2>2. init' = init /\ tmo' = tmo /\ owner' = owner /\ timers' = timers
    BY <1>9 DEF Read, Write, Tell, Record, WriteFails
  <2>3. \A g \in Handlers : g # h => hs'[g] = hs[g]
    BY <1>9 DEF Read, Write, Tell, Record, WriteFails, TypeOK
  <2>4. CASE hs[h].call = c /\ hs[h].op # "ring" /\ hs[h].pc \in {"write", "failed"}
    <3>1. CASE Write(h)
      <4>1. row'[c] = Written(row[c], hs[h].op, hs[h].saw)
        BY <2>4, <3>1, WriteKnows DEF TypeOK
      <4>2. row[c] \in Rows /\ hs[h].op \in Ops
        BY <2>4, <3>1, WriteKnows
      <4>3. row'[c].answered \/ row'[c].ended
        BY <2>4, <4>1, <4>2 DEF Written, Rows, Ops
      <4> QED
        BY <4>3
    <3>2. CASE WriteFails(h)
      <4>1. hs'[h] = [hs[h] EXCEPT !.pc = "failed"] /\ hs[h] \in BusyStates
        BY <3>2, Busy DEF WriteFails, TypeOK
      <4>2. hs'[h].pc = "failed" /\ hs'[h].op = hs[h].op /\ hs'[h].call = hs[h].call
        BY <4>1 DEF BusyStates
      <4> QED
        BY <2>4, <4>2 DEF Settling
    <3> QED
      BY <1>9, <2>4, <3>1, <3>2 DEF Read, Tell, Record
  <2>5. CASE ~(hs[h].call = c /\ hs[h].op # "ring" /\ hs[h].pc \in {"write", "failed"})
    <3>1. Settling(c) => Settling(c)'
      BY <2>3, <2>5 DEF Settling
    <3> QED
      BY <2>1, <2>2, <3>1
  <2> QED
    BY <2>4, <2>5
<1>10. ASSUME Live, NEW n \in Nodes, Crash(n)
       PROVE  Cared(c)'
  <2>1. Cared(c) /\ owner[c] \in Nodes /\ owner' = owner
    BY <1>10 DEF Attended, Begun, Crash
  <2>2. CASE init[c] \in {"announce", "arm", "silent", "unarmed"}
    BY <1>10, <2>2 DEF Crash
  <2>3. CASE c \in timers[owner[c]]
    BY <1>10, <2>1, <2>3 DEF Crash, TypeOK
  <2>4. CASE tmo[c] \in {"read", "write", "lost"}
    BY <1>10, <2>4 DEF Crash
  <2>5. CASE Settling(c)
    <3>1. PICK h \in Handlers :
              hs[h].call = c /\ hs[h].op # "ring" /\ hs[h].pc \in {"write", "failed"}
      BY <2>5 DEF Settling
    <3>2. hs[h] \in BusyStates
      BY <3>1, Busy
    <3>3. hs'[h].call = c /\ hs'[h].op # "ring" /\ hs'[h].pc \in {"write", "failed"}
      BY <1>10, <3>1, <3>2 DEF Crash, BusyStates
    <3> QED
      BY <3>3 DEF Settling
  <2> QED
    BY <2>1, <2>2, <2>3, <2>4, <2>5
<1>11. CASE \E d \in Calls, n \in Nodes, u, v \in Users : Initiate(d, n, u, v)
    BY <1>1, <1>11
<1>12. CASE ~ \E d \in Calls, n \in Nodes, u, v \in Users : Initiate(d, n, u, v)
  <2>1. Live
    <3>1. Placed(c)
      <4>1. CASE \E h \in Handlers : Write(h)
        BY <4>1, WriteKnows DEF TypeOK, Placed
      <4>2. CASE \E d \in Calls : TimeoutWrite(d)
        BY <4>2 DEF TimeoutWrite, TypeOK, Begun, Placed
      <4>3. CASE UNCHANGED row
        BY <4>3 DEF Placed
      <4> QED
        BY <1>12, <4>1, <4>2, <4>3, RowSteps
    <3> QED
      BY <3>1, RowMonotone
  <2> QED
    BY <1>2, <1>3, <1>4, <1>5, <1>7, <1>8, <1>9, <1>10, <1>12, <2>1
    DEF Next, vars, InitiateSteps, TimeoutSteps, HandlerSteps
<1> QED
    BY <1>11, <1>12

-----------------------------------------------------------------------------
(* The invariants hold in every reachable state.                           *)

LEMMA InvNext ==
    ASSUME IInv, [Next]_vars
    PROVE  IInv'
<1> USE DEF IInv
<1>1. TypeOK'
    BY TypeNext
<1>2. RecordConsistent'
    BY RecordConsistentNext
<1>3. Begun'
    BY BegunNext
<1>4. TimerOwned'
    BY TimerOwnedNext
<1>5. HandlersKnow'
    BY HandlersKnowNext
<1>6. CallbacksKnow'
    BY CallbacksKnowNext
<1>7. Attended'
    BY AttendedNext
<1>8. OneTimeout'
    BY <1>4, OneTimeoutNext
<1>9. LoggedAfterTold'
    BY LoggedAfterToldNext
<1> QED
    BY <1>1, <1>2, <1>3, <1>4, <1>5, <1>6, <1>7, <1>8, <1>9

THEOREM Invariant == Spec => []IInv
    BY InvInit, InvNext, PTL DEF Spec

\* The columns of a CallLog row agree with each other whatever overlaps.
THEOREM RecordsAgree == Spec => []RecordConsistent
<1>1. IInv => RecordConsistent
    BY DEF IInv
<1> QED
    BY <1>1, Invariant, PTL

\* A call that rings has a handler, a timer or a callback that will settle
\* it, or lost it to a counted fault.
THEOREM CallsAttended == Spec => []Attended
<1>1. IInv => Attended
    BY DEF IInv
<1> QED
    BY <1>1, Invariant, PTL

\* Timers are armed on the owning node and fire at most once.
THEOREM TimeoutOnce == Spec => []OneTimeout
<1>1. IInv => OneTimeout
    BY DEF IInv
<1> QED
    BY <1>1, Invariant, PTL

\* A conversation shows a call entry only after the caller heard the outcome.
THEOREM ToldFirst == Spec => []LoggedAfterTold
<1>1. IInv => LoggedAfterTold
    BY DEF IInv
<1> QED
    BY <1>1, Invariant, PTL

-----------------------------------------------------------------------------
(* Refinement: every step is a step of the abstract lifecycle or a stutter.*)

LEMMA RefinementInit == Init => Lifecycle!Init
<1> SUFFICES ASSUME Init PROVE Lifecycle!Init
    OBVIOUS
<1>1. \A c \in Calls : row[c] = NoRow
    BY DEF Init
<1> QED
    BY <1>1 DEF Init, Lifecycle!Init, Placed, NoRow

LEMMA RefinementNext ==
    ASSUME IInv, [Next]_vars
    PROVE  [Lifecycle!Next]_Lifecycle!vars
<1> USE DEF IInv
<1>0. ASSUME NEW d \in Calls, Lifecycle!Place(d) \/ Lifecycle!Answer(d) \/ Lifecycle!Finish(d)
      PROVE  Lifecycle!Next
    BY <1>0 DEF Lifecycle!Next
<1>1. ASSUME NEW d \in Calls, NEW n \in Nodes, NEW u \in Users, NEW v \in Users,
             Initiate(d, n, u, v)
      PROVE  Lifecycle!Place(d)
  <2>1. /\ row' = [row EXCEPT ![d] = [NoRow EXCEPT !.caller = u, !.receiver = v,
                                                 !.status = "INITIATED"]]
        /\ ~row[d].answered /\ ~row[d].ended
    BY <1>1 DEF Initiate, Placed, RecordConsistent
  <2>2. {c \in Calls : Placed(c)}' = {c \in Calls : Placed(c)} \cup {d}
    BY <2>1 DEF Placed, TypeOK, NoRow
  <2>3. {c \in Calls : row'[c].answered} = {c \in Calls : row[c].answered}
    BY <2>1 DEF TypeOK, NoRow
  <2>4. {c \in Calls : row'[c].ended} = {c \in Calls : row[c].ended}
    BY <2>1 DEF TypeOK, NoRow
  <2> QED
    BY <1>1, <2>2, <2>3, <2>4 DEF Initiate, Lifecycle!Place
<1>2. ASSUME NEW h \in Handlers, Write(h)
      PROVE  [Lifecycle!Next]_Lifecycle!vars
  <2>0. PICK k \in Calls : k = hs[h].call
    BY <1>2, WriteKnows
  <2> DEFINE r == Written(row[k], hs[h].op, hs[h].saw)
  <2>1. /\ Placed(k)
        /\ row' = [row EXCEPT ![k] = r]
        /\ row[k] \in Rows
        /\ hs[h].op \in Ops
    BY <1>2, <2>0, WriteKnows
  <2>2. r.status # "NONE"
    BY <2>1 DEF Written, Rows, Ops
  <2>3. {d \in Calls : Placed(d)}' = {d \in Calls : Placed(d)}
    BY <2>1, <2>2 DEF Placed, TypeOK
  <2>4. told' = told /\ messages' = messages
    BY <1>2 DEF Write
  <2>5. CASE hs[h].op = "ring"
    <3>1. r.answered = row[k].answered /\ r.ended = row[k].ended
      BY <2>1, <2>5 DEF Written, Rows
    <3>2. /\ {d \in Calls : row'[d].answered} = {d \in Calls : row[d].answered}
          /\ {d \in Calls : row'[d].ended} = {d \in Calls : row[d].ended}
      BY <2>1, <3>1 DEF TypeOK
    <3> QED
      BY <2>3, <2>4, <3>2 DEF Lifecycle!vars
  <2>6. CASE hs[h].op = "accept"
    <3>1. r.answered /\ r.ended = row[k].ended
      BY <2>1, <2>6 DEF Written, Rows
    <3>2. /\ {d \in Calls : row'[d].answered} = {d \in Calls : row[d].answered} \cup {k}
          /\ {d \in Calls : row'[d].ended} = {d \in Calls : row[d].ended}
      BY <2>1, <3>1 DEF TypeOK
    <3>3. Lifecycle!Answer(k)
      BY <2>1, <2>3, <2>4, <3>2 DEF Lifecycle!Answer
    <3> QED
      BY <1>0, <3>3
  <2>7. CASE hs[h].op \in Closers
    <3>1. r.answered = row[k].answered /\ r.ended
      BY <2>1, <2>7 DEF Written, Rows, Closers
    <3>2. /\ {d \in Calls : row'[d].answered} = {d \in Calls : row[d].answered}
          /\ {d \in Calls : row'[d].ended} = {d \in Calls : row[d].ended} \cup {k}
      BY <2>1, <3>1 DEF TypeOK
    <3>3. Lifecycle!Finish(k)
      BY <2>1, <2>3, <2>4, <3>2 DEF Lifecycle!Finish
    <3> QED
      BY <1>0, <3>3
  <2> QED
    BY <2>1, <2>5, <2>6, <2>7 DEF Ops, Closers
<1>3. ASSUME NEW d \in Calls, TimeoutWrite(d)
      PROVE  Lifecycle!Finish(d)
  <2>1. Placed(d)
    BY <1>3 DEF TimeoutWrite, Begun
  <2>2. row' = [row EXCEPT ![d] = [row[d] EXCEPT !.status = "MISSED", !.ended = TRUE]]
    BY <1>3 DEF TimeoutWrite
  <2>3. {c \in Calls : Placed(c)}' = {c \in Calls : Placed(c)}
    BY <2>1, <2>2 DEF Placed, TypeOK, Rows
  <2>4. {c \in Calls : row'[c].answered} = {c \in Calls : row[c].answered}
    BY <2>2 DEF TypeOK, Rows
  <2>5. {c \in Calls : row'[c].ended} = {c \in Calls : row[c].ended} \cup {d}
    BY <2>2 DEF TypeOK, Rows
  <2> QED
    BY <1>3, <2>1, <2>3, <2>4, <2>5 DEF TimeoutWrite, Lifecycle!Finish
\* The steps that only emit: what they say is in the row.
<1>4. ASSUME NEW d \in Calls, NEW e \in Events, Placed(d),
             e = "accepted" => row[d].answered,
             e \in FinalEvents => row[d].ended,
             told' = told \cup {<<d, e>>}, row' = row, messages' = messages
      PROVE  Lifecycle!Next
  <2>1. Lifecycle!Hear(d, e)
    BY <1>4 DEF Lifecycle!Hear, FinalEvents, Lifecycle!FinalEvents, Placed
  <2> QED
    BY <2>1 DEF Lifecycle!Next, Lifecycle!Events, Lifecycle!FinalEvents, Events, FinalEvents
<1>5. ASSUME NEW d \in Calls, NEW offline \in BOOLEAN, Arm(d, offline)
      PROVE  [Lifecycle!Next]_Lifecycle!vars
  <2>1. CASE offline
    BY <1>4, <1>5, <2>1 DEF Arm, Begun, Events, FinalEvents
  <2>2. CASE ~offline
    BY <1>5, <2>2 DEF Arm, Lifecycle!vars, Placed
  <2> QED
    BY <2>1, <2>2
<1>6. ASSUME NEW h \in Handlers, Tell(h)
      PROVE  Lifecycle!Next
  <2>1. /\ hs[h].call \in Calls
        /\ hs[h].op \in Ops
    BY <1>6, Busy DEF Tell
  <2>2. EventOf(hs[h].op) \in Events
    BY <2>1 DEF EventOf, Ops, Events, FinalEvents
  <2>3. /\ Placed(hs[h].call)
        /\ hs[h].op = "accept" => row[hs[h].call].answered
        /\ hs[h].op \in Closers => row[hs[h].call].ended
    BY <1>6 DEF Tell, HandlersKnow, Placed
  <2>4. /\ EventOf(hs[h].op) = "accepted" => hs[h].op = "accept"
        /\ EventOf(hs[h].op) \in FinalEvents => hs[h].op \in Closers
    BY <2>1 DEF EventOf, Ops, FinalEvents, Closers
  <2> QED
    BY <1>4, <1>6, <2>1, <2>2, <2>3, <2>4 DEF Tell
<1>7. ASSUME NEW d \in Calls, TimeoutTell(d)
      PROVE  Lifecycle!Next
    BY <1>4, <1>7 DEF TimeoutTell, Begun, CallbacksKnow, Events, FinalEvents
\* The steps that write a CALL_LOG message.
<1>8. ASSUME NEW x, x.call \in Calls, x.status \in LogStatuses,
             row[x.call].ended, x.status = "ENDED" => row[x.call].answered,
             messages' = messages \cup {x}, row' = row, told' = told
      PROVE  Lifecycle!Next
  <2>1. {<<m.call, m.status>> : m \in messages'}
          = {<<m.call, m.status>> : m \in messages} \cup {<<x.call, x.status>>}
    BY <1>8
  <2>2. Lifecycle!Log(x.call, x.status)
    BY <1>8, <2>1 DEF Lifecycle!Log, Placed
  <2> QED
    BY <1>8, <2>2 DEF Lifecycle!Next, Lifecycle!LogStatuses, LogStatuses
<1>9. ASSUME NEW h \in Handlers, NEW written \in BOOLEAN, Record(h, written)
      PROVE  [Lifecycle!Next]_Lifecycle!vars
  <2> DEFINE x == [call |-> hs[h].call, from |-> h,
                   status |-> LogStatusOf(hs[h].op, hs[h].saw)]
  <2>1. CASE written
    <3>1. /\ hs[h].call \in Calls
          /\ hs[h].op \in Ops
          /\ hs[h].saw \in BOOLEAN
      BY <1>9, Busy DEF Record
    <3>2. /\ hs[h].op \in Closers
          /\ row[hs[h].call].ended
          /\ hs[h].saw => row[hs[h].call].answered
      BY <1>9 DEF Record, HandlersKnow
    <3>3. LogStatusOf(hs[h].op, hs[h].saw) \in LogStatuses
      BY <3>1, TablesType
    <3>4. LogStatusOf(hs[h].op, hs[h].saw) = "ENDED" => hs[h].saw
      BY <3>1 DEF LogStatusOf
    <3>5. /\ x.call = hs[h].call
          /\ x.status = LogStatusOf(hs[h].op, hs[h].saw)
          /\ messages' = messages \cup {x}
          /\ row' = row
          /\ told' = told
      BY <1>9, <2>1 DEF Record
    <3>6. /\ x.call \in Calls
          /\ x.status \in LogStatuses
          /\ row[x.call].ended
          /\ x.status = "ENDED" => row[x.call].answered
      BY <3>1, <3>2, <3>3, <3>4, <3>5
    <3> HIDE DEF x
    <3> QED
      BY <1>8, <3>5, <3>6
  <2>2. CASE ~written
    BY <1>9, <2>2 DEF Record, Lifecycle!vars, Placed
  <2> QED
    BY <2>1, <2>2
<1>10. ASSUME NEW d \in Calls, NEW written \in BOOLEAN, TimeoutRecord(d, written)
       PROVE  [Lifecycle!Next]_Lifecycle!vars
  <2> DEFINE x == [call |-> d, from |-> "timer", status |-> "MISSED"]
  <2>1. CASE written
    <3>1. row[d].ended
      BY <1>10 DEF TimeoutRecord, CallbacksKnow
    <3>2. messages' = messages \cup {x} /\ row' = row /\ told' = told
      BY <1>10, <2>1 DEF TimeoutRecord
    <3>3. /\ x.call \in Calls
          /\ x.status \in LogStatuses
          /\ row[x.call].ended
          /\ x.status = "ENDED" => row[x.call].answered
      BY <3>1 DEF LogStatuses
    <3> HIDE DEF x
    <3> QED
      BY <1>8, <3>2, <3>3
  <2>2. CASE ~written
    BY <1>10, <2>2 DEF TimeoutRecord, Lifecycle!vars, Placed
  <2> QED
    BY <2>1, <2>2
<1>11. CASE UNCHANGED <<row, told, messages>>
    BY <1>11 DEF Lifecycle!vars, Placed
<1>12. \/ \E d \in Calls, n \in Nodes, u, v \in Users : Initiate(d, n, u, v)
       \/ \E h \in Handlers : Write(h) \/ Tell(h)
       \/ \E h \in Handlers, written \in BOOLEAN : Record(h, written)
       \/ \E d \in Calls : TimeoutWrite(d) \/ TimeoutTell(d)
       \/ \E d \in Calls, written \in BOOLEAN : TimeoutRecord(d, written)
       \/ \E d \in Calls, offline \in BOOLEAN : Arm(d, offline)
       \/ UNCHANGED <<row, told, messages>>
    BY DEF Next, vars, InitiateSteps, TimeoutSteps, HandlerSteps, Announce, ArmFails,
           Read, Clear, WriteFails, Fire, TimeoutRead, Crash
<1> QED
    BY <1>0, <1>1, <1>2, <1>3, <1>5, <1>6, <1>7, <1>9, <1>10, <1>11, <1>12

\* The call handlers on all nodes implement the abstract call lifecycle.
THEOREM Refinement == Spec => ImplementsLifecycle
<1>1. Init => Lifecycle!Init
    BY RefinementInit
<1>2. IInv /\ [Next]_vars => [Lifecycle!Next]_Lifecycle!vars
    BY RefinementNext
<1> QED
    BY <1>1, <1>2, Invariant, PTL DEF Spec, ImplementsLifecycle, Lifecycle!Spec
=============================================================================
