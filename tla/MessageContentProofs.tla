------------------------ MODULE MessageContentProofs ------------------------
(***************************************************************************)
(* A message after it was sent, for any members, requests and failures:    *)
(* types, what a deleted row keeps, that its deletion is announced, and    *)
(* that the answers to toggles count the reactions.  Then the server whose *)
(* workers run the purge job, for any workers, jobs, connections and       *)
(* signals: JobsFinish and ServedWithStores.  Each half has an inductive   *)
(* invariant of its own, IInv and ServerInv.                               *)
(***************************************************************************)
EXTENDS MessageContent, ServerShutdown, TLAPS, FiniteSetTheorems

\* An edit that found the message alive is known to the deletion it races.
EditsRace == msg.deleted => \A q \in Requests : AtWrite(q, "edit") => q \in racing

\* Only a toggle looks for a reaction.
FindsReact == \A r \in Requests : rs[r].pc = "find" => rs[r].op = "react"

TriesLeft == job.pc # "failed" => job.tries < Attempts /\ job.stalls <= MaxStalled

IInv == TypeOK /\ EditsRace /\ FindsReact /\ TriesLeft /\ ClearedUnlessRacing /\ Announced

LEMMA InvInit == Init => IInv
<1> SUFFICES ASSUME Init PROVE IInv
    OBVIOUS
<1>1. TypeOK
  <2>1. rs \in [Requests -> RequestStates]
    <3>1. [pc |-> "free", op |-> "edit", user |-> Author, old |-> NoRequest] \in RequestStates
      BY UsersAssumption DEF RequestStates, Ops
    <3> QED
      BY <3>1 DEF Init
  <2>2. job \in JobStates
    BY DEF Init, JobStates, Attempts, MaxStalled
  <2> QED
    <3>1. msg \in [text : {"sent", "edited", "null", "gone"}, deleted : BOOLEAN,
                   hidden : SUBSET Users]
      <4>1. msg = [text |-> "sent", deleted |-> FALSE, hidden |-> {}]
        BY DEF Init
      <4> QED
        BY <4>1
    <3>2. /\ reactions = {} /\ told = {} /\ racing = {} /\ faults = 0
      BY DEF Init
    <3>3. faults \in 0 .. MaxFaults
      BY <3>2, BoundsAssumption
    <3> QED
      BY <2>1, <2>2, <3>1, <3>2, <3>3 DEF TypeOK
<1>2. EditsRace /\ FindsReact /\ TriesLeft /\ ClearedUnlessRacing /\ Announced
    BY DEF Init, EditsRace, FindsReact, TriesLeft, Attempts, MaxStalled, ClearedUnlessRacing, Announced
<1> QED
    BY <1>1, <1>2 DEF IInv

\* What the steps write into the slot of a request keeps its type.
LEMMA SlotType ==
    ASSUME NEW r \in Requests, rs \in [Requests -> RequestStates]
    PROVE  /\ \A pc \in {"drop", "write", "emit", "done", "failed"} :
                /\ [rs EXCEPT ![r].pc = pc] \in [Requests -> RequestStates]
                /\ \A q \in Requests :
                     [rs EXCEPT ![r].pc = pc, ![r].old = q] \in [Requests -> RequestStates]
           /\ \A pc \in {"find", "write"}, op \in Ops, u \in Users :
                [rs EXCEPT ![r] = [pc |-> pc, op |-> op, user |-> u, old |-> NoRequest]]
                    \in [Requests -> RequestStates]
<1>1. rs[r] \in RequestStates
    OBVIOUS
<1>2. ASSUME NEW pc \in {"drop", "write", "emit", "done", "failed"}
      PROVE  [rs[r] EXCEPT !.pc = pc] \in RequestStates
    BY <1>1 DEF RequestStates
<1>3. ASSUME NEW pc \in {"drop", "write", "emit", "done", "failed"}, NEW q \in Requests
      PROVE  [[rs[r] EXCEPT !.pc = pc] EXCEPT !.old = q] \in RequestStates
    BY <1>1 DEF RequestStates
<1>4. ASSUME NEW pc \in {"find", "write"}, NEW op \in Ops, NEW u \in Users
      PROVE  [pc |-> pc, op |-> op, user |-> u, old |-> NoRequest] \in RequestStates
    BY DEF RequestStates
<1> QED
    BY <1>2, <1>3, <1>4

-----------------------------------------------------------------------------
(* One lemma per kind of step.                                             *)

LEMMA BeginKeeps ==
    ASSUME IInv, NEW r \in Requests, NEW op \in Ops, NEW u \in Users,
           NEW pc \in {"find", "write"}, Begin(r, op, u, pc),
           op = "edit" => ~msg.deleted, pc = "find" => op = "react"
    PROVE  IInv'
<1>1. /\ rs' = [rs EXCEPT ![r] = [pc |-> pc, op |-> op, user |-> u, old |-> NoRequest]]
      /\ rs[r].pc = "free"
      /\ UNCHANGED <<msg, reactions, job, told, racing, faults>>
    BY DEF Begin
<1>2. TypeOK'
  <2>1. rs' \in [Requests -> RequestStates]
    BY <1>1, SlotType DEF IInv, TypeOK
  <2> QED
    BY <1>1, <2>1 DEF IInv, TypeOK
<1>3. \A q \in Requests : q # r => rs'[q] = rs[q]
    BY <1>1
<1>4. rs'[r].op = op /\ rs'[r].pc = pc
    BY <1>1 DEF IInv, TypeOK
<1>5. EditsRace' /\ FindsReact' /\ TriesLeft'
    BY <1>1, <1>3, <1>4 DEF IInv, EditsRace, FindsReact, TriesLeft, AtWrite
<1>6. ClearedUnlessRacing'
    BY <1>1 DEF IInv, ClearedUnlessRacing
<1>7. Announced'
    BY <1>1, <1>3, <1>4 DEF IInv, Announced
<1> QED
    BY <1>2, <1>5, <1>6, <1>7 DEF IInv

\* A step of a request that leaves the message alone and is not the emission
\* of a deletion.
LEMMA QuietKeeps ==
    ASSUME IInv, NEW r \in Requests,
           rs' \in [Requests -> RequestStates],
           \A q \in Requests : q # r => rs'[q] = rs[q],
           ~AtWrite(r, "edit")', rs'[r].pc # "find",
           rs[r].op = "erase" /\ rs[r].pc = "emit" =>
               faults' # 0 \/ {"deleted", "disappeared"} \cap told' # {},
           reactions' \subseteq Users \X Requests,
           told \subseteq told', told' \subseteq Events, faults' \in {faults, faults + 1},
           faults' \in 0 .. MaxFaults,
           UNCHANGED <<msg, job, racing>>
    PROVE  IInv'
<1>1. TypeOK'
    BY DEF IInv, TypeOK
<1>2. EditsRace' /\ FindsReact' /\ TriesLeft'
    BY DEF IInv, EditsRace, FindsReact, TriesLeft, AtWrite
<1>3. ClearedUnlessRacing'
    BY DEF IInv, ClearedUnlessRacing
<1>4. Announced'
  <2> SUFFICES ASSUME msg.deleted, faults' = 0, job.tries = 0, job.stalls = 0,
                      {"deleted", "disappeared"} \cap told' = {}
               PROVE  \/ job.pc = "emit"
                      \/ \E q \in Requests : rs'[q].op = "erase" /\ rs'[q].pc = "emit"
    BY DEF Announced
  <2>1. faults = 0 /\ {"deleted", "disappeared"} \cap told = {}
    BY DEF IInv, TypeOK
  <2>2. \/ job.pc = "emit"
        \/ \E q \in Requests : rs[q].op = "erase" /\ rs[q].pc = "emit"
    BY <2>1 DEF IInv, Announced
  <2> QED
    BY <2>2
<1> QED
    BY <1>1, <1>2, <1>3, <1>4 DEF IInv

\* A step of the job that leaves the message and the requests
\* alone; the announcement of a purge is one.
LEMMA JobKeeps ==
    ASSUME IInv, job' \in JobStates, TriesLeft',
           job'.tries = 0 /\ job'.stalls = 0 =>
               /\ job.tries = 0 /\ job.stalls = 0
               /\ job.pc = "emit" => job'.pc = "emit" \/ "disappeared" \in told',
           told \subseteq told', told' \subseteq Events,
           UNCHANGED <<msg, reactions, rs, racing, faults>>
    PROVE  IInv'
<1>1. TypeOK'
    BY DEF IInv, TypeOK
<1>2. EditsRace' /\ FindsReact' /\ ClearedUnlessRacing'
    BY DEF IInv, EditsRace, FindsReact, ClearedUnlessRacing, AtWrite
<1>3. Announced'
  <2> SUFFICES ASSUME msg.deleted, faults = 0, job'.tries = 0, job'.stalls = 0,
                      {"deleted", "disappeared"} \cap told' = {}
               PROVE  \/ job'.pc = "emit"
                      \/ \E q \in Requests : rs[q].op = "erase" /\ rs[q].pc = "emit"
    BY DEF Announced
  <2>1. job.tries = 0 /\ job.stalls = 0 /\ {"deleted", "disappeared"} \cap told = {}
    OBVIOUS
  <2>2. \/ job.pc = "emit"
        \/ \E q \in Requests : rs[q].op = "erase" /\ rs[q].pc = "emit"
    BY <2>1 DEF IInv, Announced
  <2> QED
    BY <2>2
<1> QED
    BY <1>1, <1>2, <1>3 DEF IInv

\* Both deletions count the edits they race.
LEMMA DeleteKeeps ==
    ASSUME IInv, NEW text \in {"null", "gone"}, Delete(text),
           rs' \in [Requests -> RequestStates],
           \A q \in Requests : AtWrite(q, "edit")' => AtWrite(q, "edit"),
           \A q \in Requests : rs'[q].pc = "find" => rs'[q] = rs[q],
           job' \in JobStates,
           TriesLeft',
           job'.pc = "emit" \/ \E q \in Requests : rs'[q].op = "erase" /\ rs'[q].pc = "emit",
           UNCHANGED <<reactions, told, faults>>
    PROVE  IInv'
<1>1. msg' = [msg EXCEPT !.deleted = TRUE, !.text = text]
    BY DEF Delete
<1>2. racing' = racing \cup {q \in Requests : AtWrite(q, "edit")}
    BY DEF Delete
<1>3. msg' \in [text : {"sent", "edited", "null", "gone"}, deleted : BOOLEAN, hidden : SUBSET Users]
    BY <1>1 DEF IInv, TypeOK
<1>4. racing' \subseteq Requests
    BY <1>2 DEF IInv, TypeOK
<1>5. TypeOK'
    BY <1>3, <1>4 DEF IInv, TypeOK
<1>6. EditsRace' /\ FindsReact'
    BY <1>2 DEF IInv, EditsRace, FindsReact
<1>7. msg'.text = text
    BY <1>1 DEF IInv, TypeOK
<1>8. ClearedUnlessRacing' /\ Announced'
    BY <1>7 DEF ClearedUnlessRacing, Announced
<1> QED
    BY <1>5, <1>6, <1>8 DEF IInv

-----------------------------------------------------------------------------
LEMMA StepKeeps ==
    ASSUME IInv, NEW r \in Requests, Steps(r) \/ Fail(r)
    PROVE  IInv'
<1> USE DEF IInv
<1>1. CASE Edit(r)
  <2>1. msg' = [msg EXCEPT !.text = "edited"] /\ rs' = [rs EXCEPT ![r].pc = "emit"]
    BY <1>1 DEF Edit, Goto
  <2>2. rs' \in [Requests -> RequestStates]
    BY <2>1, SlotType DEF TypeOK
  <2>3. msg' \in [text : {"sent", "edited", "null", "gone"}, deleted : BOOLEAN,
                  hidden : SUBSET Users] /\ msg'.deleted = msg.deleted
    BY <2>1 DEF TypeOK
  <2>4. TypeOK'
    BY <1>1, <2>2, <2>3 DEF Edit, TypeOK
  <2>5. \A q \in Requests : rs'[q].op = rs[q].op /\ (q # r => rs'[q] = rs[q])
    BY <2>1 DEF TypeOK, RequestStates
  <2>6. rs'[r].pc = "emit"
    BY <2>1 DEF TypeOK, RequestStates
  <2>7. EditsRace' /\ FindsReact' /\ TriesLeft'
    BY <1>1, <2>3, <2>5, <2>6 DEF Edit, EditsRace, FindsReact, TriesLeft, AtWrite
  <2>8. ClearedUnlessRacing'
    BY <1>1, <2>3 DEF Edit, EditsRace, ClearedUnlessRacing
  <2>9. Announced'
    BY <1>1, <2>3, <2>5 DEF Edit, Announced, AtWrite
  <2> QED
    BY <2>4, <2>7, <2>8, <2>9
<1>2. CASE Hide(r)
  <2>1. msg' = [msg EXCEPT !.hidden = @ \cup {rs[r].user}] /\ rs' = [rs EXCEPT ![r].pc = "done"]
    BY <1>2 DEF Hide, Goto
  <2>2. rs' \in [Requests -> RequestStates]
    BY <2>1, SlotType DEF TypeOK
  <2>3. rs[r].user \in Users
    BY DEF TypeOK, RequestStates
  <2>4. /\ msg' \in [text : {"sent", "edited", "null", "gone"}, deleted : BOOLEAN,
                     hidden : SUBSET Users]
        /\ msg'.deleted = msg.deleted /\ msg'.text = msg.text
    BY <2>1, <2>3 DEF TypeOK
  <2>5. TypeOK'
    BY <1>2, <2>2, <2>4 DEF Hide, TypeOK
  <2>6. \A q \in Requests : q # r => rs'[q] = rs[q]
    BY <2>1
  <2>7. rs'[r].pc = "done"
    BY <2>1 DEF TypeOK, RequestStates
  <2>8. EditsRace' /\ FindsReact' /\ TriesLeft' /\ ClearedUnlessRacing'
    BY <1>2, <2>4, <2>6, <2>7
       DEF Hide, EditsRace, FindsReact, TriesLeft, ClearedUnlessRacing, AtWrite
  <2>9. Announced'
    BY <1>2, <2>4, <2>6 DEF Hide, Announced, AtWrite
  <2> QED
    BY <2>5, <2>8, <2>9
<1>3. CASE Erase(r)
  <2>1. rs' = [rs EXCEPT ![r].pc = "emit"] /\ rs[r].op = "erase"
    BY <1>3 DEF Erase, Goto, AtWrite
  <2>2. rs' \in [Requests -> RequestStates]
    BY <2>1, SlotType DEF TypeOK
  <2>3. rs'[r].op = "erase" /\ rs'[r].pc = "emit"
    BY <2>1 DEF TypeOK, RequestStates
  <2>4. \A q \in Requests : /\ AtWrite(q, "edit")' => AtWrite(q, "edit")
                            /\ rs'[q].pc = "find" => rs'[q] = rs[q]
    BY <2>1, <2>3 DEF AtWrite
  <2>5. /\ Delete("null")
        /\ UNCHANGED <<reactions, job, told, faults>>
    BY <1>3 DEF Erase
  <2>6. job' \in JobStates /\ TriesLeft'
    BY <2>5 DEF TypeOK, TriesLeft
  <2> QED
    BY <2>2, <2>3, <2>4, <2>5, <2>6, DeleteKeeps
<1>4. CASE Emit(r)
  <2>1. /\ rs' = [rs EXCEPT ![r].pc = "done"]
        /\ told' = IF rs[r].op = "erase" THEN told \cup {"deleted"} ELSE told
        /\ UNCHANGED <<msg, reactions, job, racing, faults>>
    BY <1>4 DEF Emit, Goto
  <2>2. rs' \in [Requests -> RequestStates]
    BY <2>1, SlotType DEF TypeOK
  <2>3. rs'[r].pc = "done" /\ \A q \in Requests : q # r => rs'[q] = rs[q]
    BY <2>1 DEF TypeOK, RequestStates
  <2>4. ~AtWrite(r, "edit")' /\ rs'[r].pc # "find"
    BY <2>3 DEF AtWrite
  <2>5. rs[r].op = "erase" => {"deleted", "disappeared"} \cap told' # {}
    BY <2>1
  <2>6. told \subseteq told' /\ told' \subseteq Events
    BY <2>1 DEF TypeOK, Events
  <2>7. reactions' \subseteq Users \X Requests /\ faults' \in {faults, faults + 1}
          /\ faults' \in 0 .. MaxFaults
    BY <2>1 DEF TypeOK
  <2> QED
    BY <2>1, <2>2, <2>3, <2>4, <2>5, <2>6, <2>7, QuietKeeps
<1>5. CASE FindReaction(r) \/ AddReaction(r) \/ DropReaction(r)
  <2>1. UNCHANGED <<msg, job, told, racing, faults>>
    BY <1>5 DEF FindReaction, AddReaction, DropReaction
  <2>2. PICK pc \in {"drop", "write", "done", "failed"}, q \in Requests :
          /\ \/ rs' = [rs EXCEPT ![r].pc = pc]
             \/ rs' = [rs EXCEPT ![r].pc = pc, ![r].old = q]
          /\ pc = "write" => rs[r].pc = "find"
    <3>1. r \in Requests /\ \A x \in Mine(r) : x[2] \in Requests
      BY DEF Mine, TypeOK
    <3> QED
      BY <1>5, <3>1 DEF FindReaction, AddReaction, DropReaction, Goto
  <2>3. rs' \in [Requests -> RequestStates]
    <3>1. CASE rs' = [rs EXCEPT ![r].pc = pc]
      BY <3>1, SlotType DEF TypeOK
    <3>2. CASE rs' = [rs EXCEPT ![r].pc = pc, ![r].old = q]
      BY <3>2, SlotType DEF TypeOK
    <3> QED
      BY <2>2, <3>1, <3>2
  <2>4. rs'[r].pc = pc /\ rs'[r].op = rs[r].op /\ \A p \in Requests : p # r => rs'[p] = rs[p]
    BY <2>2 DEF TypeOK, RequestStates
  <2>5. ~AtWrite(r, "edit")' /\ rs'[r].pc # "find"
    BY <2>2, <2>4 DEF FindsReact, AtWrite
  <2>6. rs[r].pc # "emit"
    BY <1>5 DEF FindReaction, AddReaction, DropReaction
  <2>7. reactions' \subseteq Users \X Requests
    <3>1. rs[r].user \in Users
      BY DEF TypeOK, RequestStates
    <3> QED
      BY <1>5, <3>1 DEF FindReaction, AddReaction, DropReaction, TypeOK
  <2>8. told \subseteq told' /\ told' \subseteq Events /\ faults' \in {faults, faults + 1}
          /\ faults' \in 0 .. MaxFaults
    BY <2>1 DEF TypeOK
  <2> QED
    BY <2>1, <2>3, <2>4, <2>5, <2>6, <2>7, <2>8, QuietKeeps
<1>6. CASE Fail(r)
  <2>1. /\ rs' = [rs EXCEPT ![r].pc = "failed"]
        /\ faults < MaxFaults /\ faults' = faults + 1
        /\ UNCHANGED <<msg, reactions, job, told, racing>>
    BY <1>6 DEF Fail, Goto
  <2>2. rs' \in [Requests -> RequestStates]
    BY <2>1, SlotType DEF TypeOK
  <2>3. rs'[r].pc = "failed" /\ \A q \in Requests : q # r => rs'[q] = rs[q]
    BY <2>1 DEF TypeOK, RequestStates
  <2>4. ~AtWrite(r, "edit")' /\ rs'[r].pc # "find"
    BY <2>3 DEF AtWrite
  <2>5. faults' # 0 /\ faults' \in {faults, faults + 1} /\ faults' \in 0 .. MaxFaults
    BY <2>1, BoundsAssumption DEF TypeOK
  <2>6. reactions' \subseteq Users \X Requests /\ told \subseteq told' /\ told' \subseteq Events
    BY <2>1 DEF TypeOK
  <2> QED
    BY <2>1, <2>2, <2>3, <2>4, <2>5, <2>6, QuietKeeps
<1> QED
  BY <1>1, <1>2, <1>3, <1>4, <1>5, <1>6 DEF Steps

LEMMA AgainFields ==
    ASSUME NEW tries \in 0 .. Attempts, NEW stalls \in 0 .. MaxStalled + 1, Again(tries, stalls)
    PROVE  job' \in JobStates /\ job'.tries = tries /\ job'.stalls = stalls /\ TriesLeft'
<1>1. job' = [pc |-> IF tries < Attempts /\ stalls <= MaxStalled THEN "waiting" ELSE "failed",
              tries |-> tries, stalls |-> stalls]
    BY DEF Again
<1>2. (IF tries < Attempts /\ stalls <= MaxStalled THEN "waiting" ELSE "failed")
          \in {"waiting", "failed"}
    OBVIOUS
<1>3. job'.tries = tries /\ job'.stalls = stalls /\ job' \in JobStates
    BY <1>1, <1>2 DEF JobStates
<1>4. job'.pc # "failed" => tries < Attempts /\ stalls <= MaxStalled
    BY <1>1
<1> QED
    BY <1>3, <1>4 DEF TriesLeft

\* An attempt that throws or stalls leaves a trace.
LEMMA AgainKeeps ==
    ASSUME IInv, JobThrows \/ JobStalls
    PROVE  IInv'
<1> USE DEF IInv
<1>1. /\ job \in JobStates /\ job.pc # "failed"
      /\ UNCHANGED <<msg, reactions, told, rs, racing, faults>>
  <2>1. Attempting /\ UNCHANGED <<msg, reactions, told, rs, racing, faults>>
    <3>1. CASE JobThrows
      BY <3>1 DEF JobThrows, Again
    <3>2. CASE JobStalls
      BY <3>2 DEF JobStalls, Again
    <3> QED
      BY <3>1, <3>2
  <2> QED
    BY <2>1 DEF Attempting, TypeOK
<1>2. /\ job.tries \in 0 .. Attempts /\ job.tries < Attempts
      /\ job.stalls \in 0 .. MaxStalled + 1 /\ job.stalls <= MaxStalled
    BY <1>1 DEF JobStates, TriesLeft
<1>3. /\ job.tries + 1 \in 0 .. Attempts /\ job.tries + 1 # 0
      /\ job.stalls + 1 \in 0 .. MaxStalled + 1 /\ job.stalls + 1 # 0
    BY <1>2 DEF Attempts, MaxStalled
<1>4. /\ job' \in JobStates /\ TriesLeft'
      /\ job'.tries # 0 \/ job'.stalls # 0
  <2>1. CASE JobThrows
    BY <1>2, <1>3, <2>1, AgainFields DEF JobThrows
  <2>2. CASE JobStalls
    BY <1>2, <1>3, <2>2, AgainFields DEF JobStalls
  <2> QED
    BY <2>1, <2>2
<1>5. told' \subseteq Events
    BY <1>1 DEF TypeOK
<1> QED
    BY <1>1, <1>4, <1>5, JobKeeps

LEMMA JobStepKeeps ==
    ASSUME IInv, JobSteps \/ LoseJob \/ PurgeEarly
    PROVE  IInv'
<1> USE DEF IInv
<1>1. job \in JobStates
    BY DEF TypeOK
<1>2. ASSUME NEW pc \in {"none", "waiting", "read", "write", "emit", "done", "skipped"},
             job' = [job EXCEPT !.pc = pc], job.pc # "failed"
      PROVE  /\ job' \in JobStates /\ TriesLeft'
             /\ job'.tries = job.tries /\ job'.stalls = job.stalls /\ job'.pc = pc
  <2>1. /\ [job EXCEPT !.pc = pc] \in JobStates
        /\ [job EXCEPT !.pc = pc].tries = job.tries /\ [job EXCEPT !.pc = pc].pc = pc
        /\ [job EXCEPT !.pc = pc].stalls = job.stalls
    BY <1>1 DEF JobStates
  <2> QED
    BY <1>2, <2>1 DEF TriesLeft
<1>3. CASE AddJob \/ StartJob \/ PurgeRead \/ LoseJob \/ PurgeEarly
    <2>1. UNCHANGED <<msg, reactions, told, rs, racing, faults>>
      BY <1>3 DEF AddJob, StartJob, PurgeRead, LoseJob, PurgeEarly, JobGoto
    <2>2. job.pc # "emit" /\ job.pc # "failed"
      BY <1>3 DEF AddJob, StartJob, PurgeRead, LoseJob, PurgeEarly
    <2>3. PICK pc \in {"none", "waiting", "read", "write", "done", "skipped"} :
              job' = [job EXCEPT !.pc = pc]
      <3>1. AddJob => job' = [job EXCEPT !.pc = "waiting"]
        BY DEF AddJob, JobGoto
      <3>2. StartJob => job' = [job EXCEPT !.pc = "read"]
        BY DEF StartJob, JobGoto
      <3>3. PurgeRead => \E pc \in {"write", "done"} : job' = [job EXCEPT !.pc = pc]
        BY DEF PurgeRead, JobGoto
      <3>4. LoseJob => job' = [job EXCEPT !.pc = "none"]
        BY DEF LoseJob, JobGoto
      <3>5. PurgeEarly => job' = [job EXCEPT !.pc = "skipped"]
        BY DEF PurgeEarly, JobGoto
      <3> QED
        BY <1>3, <3>1, <3>2, <3>3, <3>4, <3>5
    <2>4. told' \subseteq Events
      BY <2>1 DEF TypeOK
    <2> QED
      BY <1>2, <2>1, <2>2, <2>3, <2>4, JobKeeps
<1>4. CASE PurgeWrite
    <2>1. /\ Delete("gone")
          /\ job' = [job EXCEPT !.pc = "emit"]
          /\ UNCHANGED <<reactions, told, rs, faults>>
          /\ job.pc = "write"
      BY <1>4 DEF PurgeWrite, JobGoto
    <2>2. job' \in JobStates /\ job'.pc = "emit" /\ TriesLeft'
      BY <1>2, <2>1
    <2>3. rs' \in [Requests -> RequestStates]
      BY <2>1 DEF TypeOK
    <2>4. \A q \in Requests : /\ AtWrite(q, "edit")' => AtWrite(q, "edit")
                              /\ rs'[q].pc = "find" => rs'[q] = rs[q]
      BY <2>1 DEF AtWrite
    <2> QED
      BY <2>1, <2>2, <2>3, <2>4, DeleteKeeps
<1>5. CASE PurgeEmit
    <2>1. /\ job' = [job EXCEPT !.pc = "done"]
          /\ told' = told \cup {"disappeared"}
          /\ UNCHANGED <<msg, reactions, rs, racing, faults>>
          /\ job.pc = "emit"
      BY <1>5 DEF PurgeEmit, JobGoto
    <2>2. job' \in JobStates /\ TriesLeft' /\ job'.tries = job.tries /\ job'.stalls = job.stalls
      BY <1>2, <2>1
    <2>3. told' \subseteq Events
      BY <2>1 DEF TypeOK, Events
    <2> QED
      BY <2>1, <2>2, <2>3, JobKeeps
<1> QED
    BY <1>3, <1>4, <1>5 DEF JobSteps

LEMMA InvNext ==
    ASSUME IInv, [Next]_vars
    PROVE  IInv'
<1>1. ASSUME NEW r \in Requests, BeginEdit(r)
      PROVE  IInv'
    BY <1>1, BeginKeeps, UsersAssumption DEF BeginEdit, Ops
<1>2. ASSUME NEW r \in Requests, NEW u \in Users,
             BeginHide(r, u) \/ BeginErase(r, u) \/ BeginReact(r, u)
      PROVE  IInv'
    BY <1>2, BeginKeeps DEF BeginHide, BeginErase, BeginReact, Ops
<1>3. ASSUME UNCHANGED vars
      PROVE  IInv'
  <2>1. TypeOK'
    BY <1>3 DEF vars, IInv, TypeOK
  <2> QED
    BY <1>3, <2>1 DEF vars, IInv, EditsRace, FindsReact, TriesLeft, ClearedUnlessRacing, Announced,
                      AtWrite
<1> QED
    BY <1>1, <1>2, <1>3, StepKeeps, JobStepKeeps, AgainKeeps DEF Next

THEOREM Invariant == Spec => []IInv
    BY InvInit, InvNext, PTL DEF Spec

\* The rows of the message and its reactions, the job and the requests keep
\* their types (prisma/schema/message.prisma).
THEOREM TypeCorrect == Spec => []TypeOK
<1>1. IInv => TypeOK
    BY DEF IInv
<1> QED
    BY <1>1, Invariant, PTL

\* However many edits, deletions and attempts of the job overlap, a deleted
\* row keeps content only of an edit that found the message alive and wrote
\* after the deletion (message.service.ts:505-514, 596-602,
\* ephemeral.worker.ts:127-139).
THEOREM DeletedIsCleared == Spec => []ClearedUnlessRacing
<1>1. IInv => ClearedUnlessRacing
    BY DEF IInv
<1> QED
    BY <1>1, Invariant, PTL

\* Without failures every deletion is announced, by whichever request or
\* attempt made it (message.service.ts:596-608, ephemeral.worker.ts:127-148).
THEOREM DeletionsTold == Spec => []Announced
<1>1. IInv => Announced
    BY DEF IInv
<1> QED
    BY <1>1, Invariant, PTL

-----------------------------------------------------------------------------
(* The toggles that were answered and the reactions that are there.        *)

\* Only a toggle looks for a reaction, and it answers "added" unless it found
\* one.
TogglesShaped ==
    \A r \in Requests :
        /\ rs[r].pc \in {"find", "drop"} => rs[r].op = "react"
        /\ rs[r].pc = "emit" => rs[r].op # "react"
        /\ rs[r].op = "react" /\ rs[r].pc \in {"find", "write"} => rs[r].old = NoRequest
        /\ rs[r].pc = "drop" => rs[r].old # NoRequest

\* The unique index.
OneEach == \A x, y \in reactions : x[1] = y[1] => x = y

CountInv == TogglesShaped /\ OneEach /\ TogglesCount

Reacted(u) == \E x \in reactions : x[1] = u
Removed(u) == Toggles(u) \ Added(u)

LEMMA CountInit ==
    ASSUME Init
    PROVE  CountInv
<1>1. \A r \in Requests : rs[r].pc = "free"
    BY DEF Init
<1>2. reactions = {}
    BY DEF Init
<1>3. \A u \in Users : Added(u) = {} /\ Toggles(u) \ Added(u) = {}
    BY <1>1 DEF Added, Toggles, Answered
<1>4. TogglesCount
    BY <1>2, <1>3, FS_EmptySet DEF TogglesCount
<1> QED
    BY <1>1, <1>2, <1>4 DEF CountInv, TogglesShaped, OneEach

LEMMA MovedFields ==
    ASSUME TypeOK, NEW r \in Requests, NEW pc, rs' = [rs EXCEPT ![r].pc = pc]
    PROVE  /\ \A q \in Requests \ {r} : rs'[q] = rs[q]
           /\ rs'[r].pc = pc /\ rs'[r].op = rs[r].op /\ rs'[r].user = rs[r].user
           /\ rs'[r].old = rs[r].old
    BY DEF TypeOK, RequestStates

LEMMA TogglesFinite ==
    ASSUME NEW u
    PROVE  IsFiniteSet(Added(u)) /\ IsFiniteSet(Removed(u))
<1>1. IsFiniteSet(Requests)
    BY FS_Interval, BoundsAssumption DEF Requests
<1>2. Added(u) \in SUBSET Requests /\ Removed(u) \in SUBSET Requests
    BY DEF Added, Removed, Toggles, Answered
<1> QED
    BY <1>1, <1>2, FS_Subset

\* A step that answers no toggle leaves the count alone.
LEMMA QuietCounts ==
    ASSUME TogglesCount, NEW r \in Requests,
           \A q \in Requests \ {r} : rs'[q] = rs[q],
           rs[r].pc # "done", rs'[r].pc = "done" => rs'[r].op # "react",
           UNCHANGED reactions
    PROVE  TogglesCount'
<1>1. \A u \in Users : Toggles(u)' = Toggles(u)
    BY DEF Toggles, Answered
<1>2. \A u \in Users : Added(u)' = Added(u)
    BY <1>1 DEF Added, Toggles, Answered
<1> QED
    BY <1>1, <1>2 DEF TogglesCount

LEMMA AddCounts ==
    ASSUME TypeOK, CountInv, NEW r \in Requests, AddReaction(r), Mine(r) = {}
    PROVE  CountInv'
<1> DEFINE u == rs[r].user
<1>1. /\ reactions' = reactions \cup {<<u, r>>} /\ rs' = [rs EXCEPT ![r].pc = "done"]
      /\ rs[r].op = "react" /\ rs[r].pc = "write"
    BY DEF AddReaction, Goto
<1>2. u \in Users /\ rs[r].old = NoRequest
    BY <1>1 DEF TypeOK, RequestStates, CountInv, TogglesShaped
<1>3. /\ \A q \in Requests \ {r} : rs'[q] = rs[q]
      /\ rs'[r].pc = "done" /\ rs'[r].op = "react" /\ rs'[r].user = u /\ rs'[r].old = NoRequest
    BY <1>1, <1>2, MovedFields
<1>4. \A x \in reactions : x[1] # u
    BY DEF Mine
<1> HIDE DEF u
<1>5. TogglesShaped'
    BY <1>3 DEF CountInv, TogglesShaped
<1>6. OneEach'
    BY <1>1, <1>4 DEF CountInv, OneEach
<1>7. ASSUME NEW v \in Users
      PROVE  Cardinality(Added(v)') - Cardinality(Removed(v)') = IF Reacted(v)' THEN 1 ELSE 0
  <2>1. Cardinality(Added(v)) - Cardinality(Removed(v)) = IF Reacted(v) THEN 1 ELSE 0
    BY DEF CountInv, TogglesCount, Removed, Reacted
  <2>2. CASE v # u
    <3>1. Toggles(v)' = Toggles(v) /\ \A q \in Toggles(v) : rs'[q] = rs[q]
      BY <1>1, <1>3, <2>2 DEF Toggles, Answered
    <3>2. Added(v)' = Added(v) /\ Removed(v)' = Removed(v)
      BY <3>1 DEF Added, Removed
    <3>3. Reacted(v)' = Reacted(v)
      BY <1>1, <2>2 DEF Reacted
    <3> QED
      BY <2>1, <3>2, <3>3
  <2>3. CASE v = u
    <3>1. Toggles(v)' = Toggles(v) \cup {r} /\ r \notin Toggles(v)
      BY <1>1, <1>3, <2>3 DEF Toggles, Answered
    <3>2. Added(v)' = Added(v) \cup {r} /\ r \notin Added(v)
      BY <1>3, <3>1 DEF Added, Toggles, Answered
    <3>3. Removed(v)' = Removed(v)
      BY <3>1, <3>2 DEF Removed
    <3>4. Cardinality(Added(v)') = Cardinality(Added(v)) + 1
      BY <3>2, TogglesFinite, FS_AddElement
    <3>5. ~Reacted(v) /\ Reacted(v)'
      <4>1. <<u, r>> \in reactions' /\ <<u, r>>[1] = u
        BY <1>1
      <4> QED
        BY <1>4, <2>3, <4>1 DEF Reacted
    <3>6. Cardinality(Added(v)) \in Nat /\ Cardinality(Removed(v)) \in Nat
      BY TogglesFinite, FS_CardinalityType
    <3> QED
      BY <2>1, <3>3, <3>4, <3>5, <3>6
  <2> QED
    BY <2>2, <2>3
<1>8. TogglesCount'
    BY <1>7 DEF TogglesCount, Removed, Reacted
<1> QED
    BY <1>5, <1>6, <1>8 DEF CountInv

LEMMA DropCounts ==
    ASSUME TypeOK, CountInv, NEW r \in Requests, DropReaction(r),
           <<rs[r].user, rs[r].old>> \in reactions
    PROVE  CountInv'
<1> DEFINE u == rs[r].user
           x == <<u, rs[r].old>>
<1>1. /\ reactions' = reactions \ {x} /\ rs' = [rs EXCEPT ![r].pc = "done"]
      /\ rs[r].pc = "drop"
    BY DEF DropReaction, Goto
<1>2. u \in Users /\ rs[r].op = "react" /\ rs[r].old # NoRequest
    BY <1>1 DEF TypeOK, RequestStates, CountInv, TogglesShaped
<1>3. /\ \A q \in Requests \ {r} : rs'[q] = rs[q]
      /\ rs'[r].pc = "done" /\ rs'[r].op = "react" /\ rs'[r].user = u /\ rs'[r].old # NoRequest
    BY <1>1, <1>2, MovedFields
<1>4. x \in reactions /\ x[1] = u
    OBVIOUS
<1> HIDE DEF u, x
<1>5. TogglesShaped'
    BY <1>3 DEF CountInv, TogglesShaped
<1>6. OneEach'
    BY <1>1 DEF CountInv, OneEach
<1>7. ASSUME NEW v \in Users
      PROVE  Cardinality(Added(v)') - Cardinality(Removed(v)') = IF Reacted(v)' THEN 1 ELSE 0
  <2>1. Cardinality(Added(v)) - Cardinality(Removed(v)) = IF Reacted(v) THEN 1 ELSE 0
    BY DEF CountInv, TogglesCount, Removed, Reacted
  <2>2. CASE v # u
    <3>1. Toggles(v)' = Toggles(v) /\ \A q \in Toggles(v) : rs'[q] = rs[q]
      BY <1>1, <1>3, <2>2 DEF Toggles, Answered
    <3>2. Added(v)' = Added(v) /\ Removed(v)' = Removed(v)
      BY <3>1 DEF Added, Removed
    <3>3. Reacted(v)' = Reacted(v)
      BY <1>1, <1>4, <2>2 DEF Reacted
    <3> QED
      BY <2>1, <3>2, <3>3
  <2>3. CASE v = u
    <3>1. Toggles(v)' = Toggles(v) \cup {r} /\ r \notin Toggles(v)
      BY <1>1, <1>3, <2>3 DEF Toggles, Answered
    <3>2. Added(v)' = Added(v)
      BY <1>3, <3>1 DEF Added, Toggles, Answered
    <3>3. Removed(v)' = Removed(v) \cup {r} /\ r \notin Removed(v)
      <4>1. r \notin Added(v)
        BY <3>1 DEF Added
      <4> QED
        BY <3>1, <3>2, <4>1 DEF Removed
    <3>4. Cardinality(Removed(v)') = Cardinality(Removed(v)) + 1
      BY <3>3, TogglesFinite, FS_AddElement
    <3>5. Reacted(v) /\ ~Reacted(v)'
      BY <1>1, <1>4, <2>3 DEF Reacted, CountInv, OneEach
    <3>6. Cardinality(Added(v)) \in Nat /\ Cardinality(Removed(v)) \in Nat
      BY TogglesFinite, FS_CardinalityType
    <3> QED
      BY <2>1, <3>2, <3>4, <3>5, <3>6
  <2> QED
    BY <2>2, <2>3
<1>8. TogglesCount'
    BY <1>7 DEF TogglesCount, Removed, Reacted
<1> QED
    BY <1>5, <1>6, <1>8 DEF CountInv

LEMMA CountNext ==
    ASSUME TypeOK, CountInv, [Next]_vars
    PROVE  CountInv'
<1>1. ASSUME NEW r \in Requests, UNCHANGED reactions,
             \A q \in Requests \ {r} : rs'[q] = rs[q],
             rs[r].pc # "done", rs'[r].pc = "done" => rs'[r].op # "react",
             /\ rs'[r].pc \in {"find", "drop"} => rs'[r].op = "react"
             /\ rs'[r].pc = "emit" => rs'[r].op # "react"
             /\ rs'[r].op = "react" /\ rs'[r].pc \in {"find", "write"} => rs'[r].old = NoRequest
             /\ rs'[r].pc = "drop" => rs'[r].old # NoRequest
      PROVE  CountInv'
    BY <1>1, QuietCounts DEF CountInv, TogglesShaped, OneEach
<1>2. ASSUME NEW r \in Requests, NEW op \in Ops, NEW u \in Users, NEW pc \in {"find", "write"},
             Begin(r, op, u, pc), pc = "find" => op = "react"
      PROVE  CountInv'
  <2>1. /\ \A q \in Requests \ {r} : rs'[q] = rs[q]
        /\ rs'[r].pc = pc /\ rs'[r].op = op /\ rs'[r].old = NoRequest
        /\ rs[r].pc = "free" /\ UNCHANGED reactions
    BY <1>2 DEF Begin, TypeOK
  <2> QED
    BY <1>1, <1>2, <2>1
<1>3. ASSUME NEW r \in Requests, NEW u \in Users,
             BeginEdit(r) \/ BeginHide(r, u) \/ BeginErase(r, u) \/ BeginReact(r, u)
      PROVE  CountInv'
    BY <1>2, <1>3, UsersAssumption DEF BeginEdit, BeginHide, BeginErase, BeginReact, Ops
<1>4. ASSUME NEW r \in Requests, Edit(r) \/ Hide(r) \/ Erase(r) \/ Emit(r)
      PROVE  CountInv'
  <2>1. PICK pc \in {"emit", "done"} : rs' = [rs EXCEPT ![r].pc = pc]
    BY <1>4 DEF Edit, Hide, Erase, Emit, Goto
  <2>2. rs[r].op # "react" /\ rs[r].pc # "done" /\ UNCHANGED reactions
    BY <1>4 DEF Edit, Hide, Erase, Emit, AtWrite, CountInv, TogglesShaped
  <2> QED
    BY <1>1, <2>1, <2>2, MovedFields
<1>5. ASSUME NEW r \in Requests, FindReaction(r)
      PROVE  CountInv'
  <2>1. rs[r].pc = "find" /\ rs[r].op = "react" /\ rs[r].old = NoRequest /\ UNCHANGED reactions
    BY <1>5 DEF FindReaction, CountInv, TogglesShaped
  <2>2. CASE Mine(r) = {}
    <3>1. rs' = [rs EXCEPT ![r].pc = "write"]
      BY <1>5, <2>2 DEF FindReaction, Goto
    <3> QED
      BY <1>1, <2>1, <3>1, MovedFields
  <2>3. CASE Mine(r) # {}
    <3>1. PICK x \in Mine(r) : rs' = [rs EXCEPT ![r].pc = "drop", ![r].old = x[2]]
      BY <1>5, <2>3 DEF FindReaction
    <3>2. x[2] \in Requests
      BY DEF Mine, TypeOK
    <3>3. x[2] # NoRequest
      BY <3>2, BoundsAssumption DEF Requests, NoRequest
    <3>4. /\ \A q \in Requests \ {r} : rs'[q] = rs[q]
          /\ rs'[r].pc = "drop" /\ rs'[r].op = rs[r].op /\ rs'[r].old = x[2]
      BY <3>1 DEF TypeOK, RequestStates
    <3> QED
      BY <1>1, <2>1, <3>3, <3>4
  <2> QED
    BY <2>2, <2>3
<1>6. ASSUME NEW r \in Requests, AddReaction(r)
      PROVE  CountInv'
  <2>1. CASE Mine(r) # {}
    <3>1. /\ rs' = [rs EXCEPT ![r].pc = "failed"] /\ UNCHANGED reactions
          /\ rs[r].pc = "write"
      BY <1>6, <2>1 DEF AddReaction, Goto
    <3>2. rs'[r].pc = "failed" /\ \A q \in Requests \ {r} : rs'[q] = rs[q]
      BY <3>1, MovedFields
    <3> QED
      BY <1>1, <3>1, <3>2
  <2> QED
    BY <1>6, <2>1, AddCounts
<1>7. ASSUME NEW r \in Requests, DropReaction(r)
      PROVE  CountInv'
  <2>1. CASE <<rs[r].user, rs[r].old>> \notin reactions
    <3>1. /\ rs' = [rs EXCEPT ![r].pc = "failed"] /\ UNCHANGED reactions
          /\ rs[r].pc = "drop"
      BY <1>7, <2>1 DEF DropReaction, Goto
    <3>2. rs'[r].pc = "failed" /\ \A q \in Requests \ {r} : rs'[q] = rs[q]
      BY <3>1, MovedFields
    <3> QED
      BY <1>1, <3>1, <3>2
  <2> QED
    BY <1>7, <2>1, DropCounts
<1>8. ASSUME NEW r \in Requests, Fail(r)
      PROVE  CountInv'
  <2>1. rs' = [rs EXCEPT ![r].pc = "failed"] /\ UNCHANGED reactions /\ rs[r].pc # "done"
    BY <1>8 DEF Fail, Goto, InFlight
  <2>2. rs'[r].pc = "failed" /\ \A q \in Requests \ {r} : rs'[q] = rs[q]
    BY <2>1, MovedFields
  <2> QED
    BY <1>1, <2>1, <2>2
<1>9. ASSUME UNCHANGED <<reactions, rs>>
      PROVE  CountInv'
  <2>1. \A u \in Users : Toggles(u)' = Toggles(u) /\ Added(u)' = Added(u)
    BY <1>9 DEF Toggles, Added, Answered
  <2>2. TogglesCount'
    BY <1>9, <2>1 DEF CountInv, TogglesCount
  <2> QED
    BY <1>9, <2>2 DEF CountInv, TogglesShaped, OneEach
<1>10. CASE JobSteps \/ LoseJob \/ PurgeEarly \/ JobThrows \/ JobStalls \/ UNCHANGED vars
  <2>1. UNCHANGED <<reactions, rs>>
    BY <1>10 DEF JobSteps, AddJob, StartJob, PurgeRead, PurgeWrite, PurgeEmit, LoseJob,
       PurgeEarly, JobThrows, JobStalls, Again, JobGoto, vars
  <2> QED
    BY <1>9, <2>1
<1> QED
    BY <1>3, <1>4, <1>5, <1>6, <1>7, <1>8, <1>10, UsersAssumption DEF Next, Steps

\* However many devices toggle the reaction at a time, and whatever breaks
\* off, the answers "added" and "removed" a member got tell whether the
\* reaction is there (message.service.ts:647-705).
THEOREM AnswersCount == Spec => []TogglesCount
<1>1. CountInv => TogglesCount
    BY DEF CountInv
<1>2. TypeOK /\ CountInv /\ [Next]_vars => CountInv'
    BY CountNext
<1> QED
    BY <1>1, <1>2, CountInit, TypeCorrect, PTL DEF Spec

-----------------------------------------------------------------------------
(* ServerShutdown: the workers, and the stores closed under them or not.    *)

Past == {s \in Signals : shutdown[s] \in {"workers", "database", "redis", "quit"}}

\* Nothing runs before the start is over.
Booting ==
    boot # "listening" => open = {} /\ workers = {} /\ Signalled = {}

\* The database is there unless a shutdown came to its closing, and so on.
StoresKept ==
    /\ boot = "database" <=> db = "down"
    /\ boot # "listening" => redis = "down"
    /\ db = "closed" => \E s \in Signals : shutdown[s] \in {"redis", "quit"}
    /\ redis = "closed" \/ exit = "clean" => \E s \in Signals : shutdown[s] \in {"redis", "quit"}

\* A shutdown that is past the server left no connection and no worker.
NobodyServed == Past # {} => open = {} /\ workers = {}

\* Whoever waits for the server awaits no worker.
AwaitedByPast == \A s \in Signals : awaited[s] # {} => s \in Past

\* Every running job is a worker's that runs or is being closed.
JobsHaveWorkers ==
    \A j \in Jobs : jobs[j] = "running" => QueueOf[j] \in workers \cup Closing

\* Past the workers it awaited none of their jobs runs.
AwaitedAreIdle ==
    \A s \in Signals : shutdown[s] \in {"database", "redis", "quit"} => RunningJobs(awaited[s]) = {}

\* A single shutdown closes the database after the last job.
NoneFailed ==
    (\A s, q \in Signalled : s = q) => \A j \in Jobs : jobs[j] # "failed"

ServerInv ==
    /\ ServerTypeOK /\ Booting /\ StoresKept /\ NobodyServed
    /\ AwaitedByPast /\ JobsHaveWorkers /\ AwaitedAreIdle /\ NoneFailed

-----------------------------------------------------------------------------
LEMMA ServerStart == ServerInit => ServerInv
  BY DEF ServerInit, ServerInv, ServerTypeOK, Booting, StoresKept, NobodyServed, AwaitedByPast, JobsHaveWorkers,
         AwaitedAreIdle, NoneFailed, Signalled, Past, RunningJobs, Closing

LEMMA StartSteps ==
    ASSUME ServerInv, ConnectDatabase \/ ConnectRedis \/ LoseRedis \/ RetryRedis
    PROVE  ServerInv'
<1> USE DEF ServerInv, ServerTypeOK, Booting, StoresKept, NobodyServed, AwaitedByPast, JobsHaveWorkers,
            AwaitedAreIdle, NoneFailed, Signalled, Past, RunningJobs, Closing, served, Running
<1>1. CASE ConnectDatabase
  BY <1>1 DEF ConnectDatabase
<1>2. CASE ConnectRedis
  BY <1>2 DEF ConnectRedis
<1>3. CASE RetryRedis
  BY <1>3 DEF RetryRedis
<1>4. CASE LoseRedis
  BY <1>4 DEF LoseRedis
<1> QED
  BY <1>1, <1>2, <1>3, <1>4

LEMMA ConnectionSteps ==
    ASSUME ServerInv, NEW c \in Connections, Connect(c) \/ Disconnect(c) \/ Handled(c)
    PROVE  ServerInv'
<1> USE DEF ServerInv, ServerTypeOK, Booting, StoresKept, NobodyServed, AwaitedByPast, JobsHaveWorkers,
            AwaitedAreIdle, NoneFailed, Signalled, Past, RunningJobs, Closing, stores, Running
<1>1. CASE Connect(c)
  BY <1>1 DEF Connect, Listening
<1>2. CASE Disconnect(c)
  BY <1>2 DEF Disconnect
<1>3. CASE Handled(c)
  BY <1>3 DEF Handled
<1> QED
  BY <1>1, <1>2, <1>3

-----------------------------------------------------------------------------
(* Jobs.                                                                   *)

\* When only one shutdown has begun, and closed a store or ended the process,
\* no job is running: the jobs' workers are those it awaited.
LEMMA SingleIsIdle ==
    ASSUME ServerTypeOK, NobodyServed, AwaitedByPast, JobsHaveWorkers, AwaitedAreIdle,
           \A s, q \in Signalled : s = q,
           NEW r \in Signals, shutdown[r] \in {"redis", "quit"}
    PROVE  RunningJobs(Workers) = {}
<1>1. workers = {}
  BY DEF NobodyServed, Past
<1>2. Closing = awaited[r]
  BY DEF AwaitedByPast, Past, Signalled, Closing
<1>3. RunningJobs(awaited[r]) = {}
  BY DEF AwaitedAreIdle
<1> QED
  BY <1>1, <1>2, <1>3 DEF JobsHaveWorkers, RunningJobs

LEMMA TakeJobStep ==
    ASSUME ServerInv, NEW j \in Jobs, TakeJob(j)
    PROVE  ServerInv'
  BY QueueAssumption
  DEF TakeJob, ServerInv, ServerTypeOK, Booting, StoresKept, NobodyServed, AwaitedByPast, JobsHaveWorkers,
      AwaitedAreIdle, NoneFailed, Signalled, Past, RunningJobs, Closing, served, stores, Running

LEMMA EndJobStep ==
    ASSUME ServerInv, NEW j \in Jobs, EndJob(j)
    PROVE  ServerInv'
<1>1. /\ jobs' \in {[jobs EXCEPT ![j] = "done"], [jobs EXCEPT ![j] = "failed"]}
      /\ (db = "up") => (jobs' = [jobs EXCEPT ![j] = "done"])
      /\ jobs[j] = "running"
      /\ UNCHANGED <<boot, exit, db, redis, open, handlers, workers, shutdown, awaited>>
  BY DEF EndJob, stores, served
<1>2. /\ (ServerTypeOK /\ Booting /\ StoresKept /\ NobodyServed)'
      /\ (AwaitedByPast /\ JobsHaveWorkers /\ AwaitedAreIdle)'
  BY <1>1 DEF ServerInv, ServerTypeOK, Booting, StoresKept, NobodyServed, AwaitedByPast, JobsHaveWorkers,
              AwaitedAreIdle, Signalled, Past, RunningJobs, Closing
<1>3. ASSUME \A s, q \in Signalled : s = q
      PROVE  db = "up"
  <2>1. j \in RunningJobs(Workers)
    BY <1>1, QueueAssumption DEF RunningJobs
  <2>2. db # "closed"
    BY <1>3, <2>1, SingleIsIdle DEF ServerInv, StoresKept
  <2>3. db # "down"
    BY <1>1 DEF ServerInv, StoresKept, Booting, JobsHaveWorkers, Closing, AwaitedByPast, Past, Signalled
  <2> QED
    BY <2>2, <2>3 DEF ServerInv, ServerTypeOK
<1>4. NoneFailed'
  BY <1>1, <1>3 DEF ServerInv, NoneFailed, Signalled, ServerTypeOK
<1> QED
  BY <1>2, <1>4 DEF ServerInv

-----------------------------------------------------------------------------
(* Signals and the shutdown.                                               *)

LEMMA SignalStep ==
    ASSUME ServerInv, NEW s \in Signals, Signal(s)
    PROVE  ServerInv'
  BY DEF Signal, ServerInv, ServerTypeOK, Booting, StoresKept, NobodyServed, AwaitedByPast, JobsHaveWorkers,
         AwaitedAreIdle, NoneFailed, Signalled, Past, RunningJobs, Closing, served, stores, Running

LEMMA ServerClosedStep ==
    ASSUME ServerInv, ServerClosed
    PROVE  ServerInv'
<1>1. PICK f \in Signals : First(f) /\ awaited' = [awaited EXCEPT ![f] = workers]
  BY DEF ServerClosed
<1>2. /\ open = {} /\ workers' = {}
      /\ shutdown' = [s \in Signals |-> IF s \in AwaitClose THEN "workers" ELSE shutdown[s]]
      /\ UNCHANGED <<boot, exit, db, redis, open, handlers, jobs>>
  BY DEF ServerClosed, stores, served
<1>3. shutdown[f] = "server" /\ awaited[f] = {}
  BY <1>1 DEF First, AwaitClose, ServerInv, AwaitedByPast, Past
<1>4. Signalled' = Signalled
  BY <1>2 DEF Signalled, AwaitClose, ServerInv, ServerTypeOK
<1>5. (ServerTypeOK /\ Booting /\ StoresKept /\ NobodyServed /\ NoneFailed)'
  BY <1>1, <1>2, <1>4 DEF ServerInv, ServerTypeOK, Booting, StoresKept, NobodyServed, NoneFailed, AwaitClose
<1>6. AwaitedByPast'
  BY <1>1, <1>2, <1>3 DEF ServerInv, ServerTypeOK, AwaitedByPast, Past, AwaitClose
<1>7. Closing' = Closing \cup workers
  BY <1>1, <1>3 DEF Closing, ServerInv, ServerTypeOK
<1>8. JobsHaveWorkers'
  BY <1>2, <1>7 DEF ServerInv, JobsHaveWorkers
<1>9. AwaitedAreIdle'
  BY <1>1, <1>2, <1>3 DEF ServerInv, ServerTypeOK, AwaitedAreIdle, AwaitClose, RunningJobs
<1> QED
  BY <1>5, <1>6, <1>8, <1>9 DEF ServerInv

LEMMA ClosingSteps ==
    ASSUME ServerInv, NEW s \in Signals,
           WorkersClosed(s) \/ DisconnectDatabase(s) \/ DisconnectRedis(s) \/ QuitRedis(s)
    PROVE  ServerInv'
<1> USE DEF ServerInv, ServerTypeOK, Booting, StoresKept, NobodyServed, AwaitedByPast, JobsHaveWorkers,
            AwaitedAreIdle, NoneFailed, Signalled, Past, RunningJobs, Closing, served, Running
<1>1. CASE WorkersClosed(s)
  BY <1>1 DEF WorkersClosed, stores
<1>2. CASE DisconnectDatabase(s)
  BY <1>2 DEF DisconnectDatabase
<1>3. CASE DisconnectRedis(s)
  BY <1>3 DEF DisconnectRedis
<1>4. CASE QuitRedis(s)
  BY <1>4 DEF QuitRedis
<1> QED
  BY <1>1, <1>2, <1>3, <1>4

LEMMA TimeOutStep ==
    ASSUME ServerInv, TimeOut
    PROVE  ServerInv'
  BY DEF TimeOut, ServerInv, ServerTypeOK, Booting, StoresKept, NobodyServed, AwaitedByPast, JobsHaveWorkers,
         AwaitedAreIdle, NoneFailed, Signalled, Past, RunningJobs, Closing, served, stores, Running

LEMMA ServerStutter ==
    ASSUME ServerInv, UNCHANGED serverVars
    PROVE  ServerInv'
  BY DEF serverVars, ServerInv, ServerTypeOK, Booting, StoresKept, NobodyServed, AwaitedByPast, JobsHaveWorkers,
         AwaitedAreIdle, NoneFailed, Signalled, Past, RunningJobs, Closing, served, stores

LEMMA ServerStep == ServerInv /\ [ServerNext]_serverVars => ServerInv'
<1> SUFFICES ASSUME ServerInv, [ServerNext]_serverVars
             PROVE  ServerInv'
  OBVIOUS
<1>1. CASE ConnectDatabase \/ ConnectRedis \/ LoseRedis \/ RetryRedis
  BY <1>1, StartSteps
<1>2. CASE \E c \in Connections : Connect(c) \/ Disconnect(c) \/ Handled(c)
  BY <1>2, ConnectionSteps
<1>3. CASE \E j \in Jobs : TakeJob(j) \/ EndJob(j)
  BY <1>3, TakeJobStep, EndJobStep
<1>4. CASE \E s \in Signals : Signal(s)
  BY <1>4, SignalStep
<1>5. CASE ShutdownSteps
  BY <1>5, ServerClosedStep, ClosingSteps DEF ShutdownSteps
<1>6. CASE TimeOut
  BY <1>6, TimeOutStep
<1>7. CASE UNCHANGED serverVars
  BY <1>7, ServerStutter
<1> QED
  BY <1>1, <1>2, <1>3, <1>4, <1>5, <1>6, <1>7 DEF ServerNext

-----------------------------------------------------------------------------
\* The strengthening is an invariant.
THEOREM ServerInvariant == ServerSpec => []ServerInv
  BY ServerStart, ServerStep, PTL DEF ServerSpec

\* Every variable keeps its type (server.ts, workers/index.ts).
THEOREM ServerTypeCorrect == ServerSpec => []ServerTypeOK
<1>1. ServerInv => ServerTypeOK
  BY DEF ServerInv
<1> QED
  BY ServerInvariant, <1>1, PTL

\* A single signal lets every running job finish before a store is closed or
\* the process ends (server.ts:49-55, workers/index.ts:39-74).
THEOREM JobsFinishFirst == ServerSpec => []JobsFinish
<1>1. ServerInv => JobsFinish
  BY SingleIsIdle DEF ServerInv, JobsFinish, StoresKept, NoneFailed
<1> QED
  BY ServerInvariant, <1>1, PTL

\* No client is served without the database or by workers that close
\* (server.ts:24-49).
THEOREM ClientsHaveStores == ServerSpec => []ServedWithStores
<1>1. ServerInv => ServedWithStores
  BY DEF ServerInv, ServedWithStores, ServerTypeOK, Booting, StoresKept, NobodyServed, AwaitedByPast, Past, Closing
<1> QED
  BY ServerInvariant, <1>1, PTL
=============================================================================
