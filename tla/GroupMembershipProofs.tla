----------------------- MODULE GroupMembershipProofs -----------------------
(***************************************************************************)
(* Group membership for any users, requests and overlap: types, who comes  *)
(* in, what becomes of the creator, and that every promise is kept as long *)
(* as one request runs at a time.                                          *)
(***************************************************************************)
EXTENDS GroupMembership, TLAPS, FiniteSetTheorems

\* What a request past its checks may rely on, whatever has happened since:
\* its own fields say what it saw.
Checked ==
    \A r \in Requests :
        /\ rs[r].pc = "add" => rs[r].op = "add" /\ rs[r].role \in Staff
        /\ rs[r].pc \in {"target", "write"} => rs[r].op \in {"remove", "role"}
        /\ rs[r].pc = "write" /\ rs[r].target = Creator =>
             rs[r].op = "role" /\ rs[r].newRole = "ADMIN"

IInv == TypeOK /\ Checked

LEMMA InvInit == Init => IInv
<1> SUFFICES ASSUME Init PROVE IInv
    OBVIOUS
<1>1. TypeOK
    BY CreatorAssumption DEF Init, TypeOK, Rows, Roles, RequestStates, Ops, Slot
<1>2. Checked
    BY DEF Init, Checked, Slot
<1> QED
    BY <1>1, <1>2 DEF IInv

\* What the steps write into the slot of a request keeps its type.
LEMMA SlotType ==
    ASSUME NEW r \in Requests, rs \in [Requests -> RequestStates]
    PROVE  /\ [rs EXCEPT ![r] = Slot("done")] \in [Requests -> RequestStates]
           /\ \A pc \in {"write", "check", "elect", "promote", "commit"} :
                /\ [rs EXCEPT ![r].pc = pc] \in [Requests -> RequestStates]
                /\ \A u \in Users \cup {NoUser} :
                     [rs EXCEPT ![r].pc = pc, ![r].next = u] \in [Requests -> RequestStates]
<1>1. Slot("done") \in RequestStates
    BY DEF Slot, RequestStates, Ops, Roles
<1>2. rs[r] \in RequestStates
    OBVIOUS
<1>3. ASSUME NEW pc \in {"write", "check", "elect", "promote", "commit"}
      PROVE  [rs[r] EXCEPT !.pc = pc] \in RequestStates
    BY <1>2 DEF RequestStates
<1>4. ASSUME NEW pc \in {"write", "check", "elect", "promote", "commit"},
             NEW u \in Users \cup {NoUser}
      PROVE  [[rs[r] EXCEPT !.pc = pc] EXCEPT !.next = u] \in RequestStates
    BY <1>2 DEF RequestStates
<1> QED
    BY <1>1, <1>3, <1>4

\* A request that begins takes its slot and leaves the rows alone.
LEMMA BeginKeeps ==
    ASSUME IInv, NEW r \in Requests, NEW s \in RequestStates, Begin(r, s), rs[r].pc = "free",
           s.pc = "add" => s.op = "add" /\ s.role \in Staff,
           s.pc = "target" => s.op \in {"remove", "role"},
           s.pc # "write"
    PROVE  IInv'
<1>1. TypeOK'
    BY DEF IInv, TypeOK, Begin, RequestStates
<1>2. ASSUME NEW q \in Requests
      PROVE  \/ q = r /\ rs'[q] = [s EXCEPT !.alone = (InFlight = {})]
             \/ q # r /\ rs'[q] = [rs[q] EXCEPT !.alone = FALSE]
             \/ q # r /\ rs'[q] = rs[q]
  <2> DEFINE mine == [s EXCEPT !.alone = (InFlight = {})]
             other == [rs[q] EXCEPT !.alone = FALSE]
  <2>1. rs'[q] = CASE q = r -> mine
                   [] q \in InFlight -> other
                   [] OTHER -> rs[q]
    BY DEF Begin
  <2> SUFFICES \/ q = r /\ rs'[q] = mine
               \/ q # r /\ rs'[q] = other
               \/ q # r /\ rs'[q] = rs[q]
    OBVIOUS
  <2>2. r \notin InFlight
    BY DEF InFlight
  <2> HIDE DEF mine, other
  <2> QED
    BY <2>1, <2>2
<1>3. Checked'
  <2> SUFFICES ASSUME NEW q \in Requests
      PROVE  /\ rs'[q].pc = "add" => rs'[q].op = "add" /\ rs'[q].role \in Staff
             /\ rs'[q].pc \in {"target", "write"} => rs'[q].op \in {"remove", "role"}
             /\ rs'[q].pc = "write" /\ rs'[q].target = Creator =>
                  rs'[q].op = "role" /\ rs'[q].newRole = "ADMIN"
      BY DEF Checked
  <2>1. CASE q = r
    BY <1>2, <2>1 DEF RequestStates
  <2>2. CASE q # r
    <3>1. rs[q] \in RequestStates
      BY DEF IInv, TypeOK
    <3>2. \A f \in {"pc", "op", "role", "newRole", "target"} : rs'[q][f] = rs[q][f]
      BY <1>2, <2>2, <3>1 DEF RequestStates
    <3>3. /\ rs'[q].pc = rs[q].pc /\ rs'[q].op = rs[q].op /\ rs'[q].role = rs[q].role
          /\ rs'[q].newRole = rs[q].newRole /\ rs'[q].target = rs[q].target
      BY <3>2
    <3> QED
      BY <3>3 DEF IInv, Checked
  <2> QED
    BY <2>1, <2>2
<1> QED
    BY <1>1, <1>3 DEF IInv

\* The slot of r is as it was, but for the stamps.
SameButStamps(r) ==
    /\ rs'[r].pc = rs[r].pc /\ rs'[r].op = rs[r].op /\ rs'[r].by = rs[r].by
    /\ rs'[r].target = rs[r].target /\ rs'[r].targets = rs[r].targets
    /\ rs'[r].role = rs[r].role /\ rs'[r].newRole = rs[r].newRole
    /\ rs'[r].next = rs[r].next /\ rs'[r].alone = rs[r].alone

\* An upsert stamps one of the rows to be added.
LEMMA UpsertSlot ==
    ASSUME TypeOK, NEW r \in Requests, NEW v \in rs[r].targets,
           rs' = [rs EXCEPT ![r].stamps[v] = clock + 1]
    PROVE  /\ rs'[r] \in RequestStates /\ \A q \in Requests \ {r} : rs'[q] = rs[q]
           /\ SameButStamps(r)
           /\ rs'[r].stamps = [rs[r].stamps EXCEPT ![v] = clock + 1]
<1> DEFINE stamps == [rs[r].stamps EXCEPT ![v] = clock + 1]
           slot == [rs[r] EXCEPT !.stamps = stamps]
<1>1. rs[r] \in RequestStates /\ rs \in [Requests -> RequestStates] /\ clock + 1 \in Nat
    BY DEF TypeOK
<1>2. stamps \in [Users -> Nat]
    BY <1>1 DEF RequestStates
<1>3. rs' = [rs EXCEPT ![r] = slot]
    OBVIOUS
<1> HIDE DEF stamps
<1>4. slot \in RequestStates
    BY <1>1, <1>2 DEF RequestStates
<1>5. /\ slot.pc = rs[r].pc /\ slot.op = rs[r].op /\ slot.by = rs[r].by
      /\ slot.target = rs[r].target /\ slot.targets = rs[r].targets
      /\ slot.role = rs[r].role /\ slot.newRole = rs[r].newRole
      /\ slot.next = rs[r].next /\ slot.alone = rs[r].alone /\ slot.stamps = stamps
    BY <1>1 DEF RequestStates
<1> HIDE DEF slot
<1>6. rs'[r] = slot /\ \A q \in Requests \ {r} : rs'[q] = rs[q]
    BY <1>1, <1>3
<1> QED
    BY <1>4, <1>5, <1>6 DEF SameButStamps, stamps

LEMMA InvNext ==
    ASSUME IInv, [Next]_vars
    PROVE  IInv'
<1> USE DEF IInv
<1>1. ASSUME NEW r \in Requests, NEW u \in Users, NEW vs \in SUBSET Users, BeginAdd(r, u, vs)
      PROVE  IInv'
  <2> DEFINE s == [Slot("add") EXCEPT !.op = "add", !.by = u, !.targets = vs,
                                      !.role = member[u].role]
  <2>1. /\ s \in RequestStates /\ s.pc = "add" /\ s.op = "add" /\ s.role \in Staff /\ Begin(r, s)
        /\ rs[r].pc = "free"
    BY <1>1 DEF BeginAdd, MayBegin, TypeOK, Slot, RequestStates, Ops, Rows, Roles
  <2> QED
    BY <2>1, BeginKeeps
<1>2. ASSUME NEW r \in Requests, NEW u \in Users, NEW v \in Users, BeginRemove(r, u, v)
      PROVE  IInv'
  <2> DEFINE s == [Slot("target") EXCEPT !.op = "remove", !.by = u, !.target = v,
                                         !.role = member[u].role]
  <2>1. /\ s \in RequestStates /\ s.pc = "target" /\ s.op = "remove" /\ Begin(r, s)
        /\ rs[r].pc = "free"
    BY <1>2 DEF BeginRemove, MayBegin, TypeOK, Slot, RequestStates, Ops, Rows, Roles
  <2> QED
    BY <2>1, BeginKeeps
<1>3. ASSUME NEW r \in Requests, NEW u \in Users, NEW v \in Users, NEW newRole \in Roles,
             BeginRole(r, u, v, newRole)
      PROVE  IInv'
  <2> DEFINE s == [Slot("target") EXCEPT !.op = "role", !.by = u, !.target = v,
                                         !.role = "ADMIN", !.newRole = newRole]
  <2>1. /\ s \in RequestStates /\ s.pc = "target" /\ s.op = "role" /\ Begin(r, s)
        /\ rs[r].pc = "free"
    BY <1>3 DEF BeginRole, MayBegin, TypeOK, Slot, RequestStates, Ops, Rows, Roles
  <2> QED
    BY <2>1, BeginKeeps
<1>4. ASSUME NEW r \in Requests, NEW u \in Users, BeginLeave(r, u)
      PROVE  IInv'
  <2> DEFINE s == [Slot("mark") EXCEPT !.op = "leave", !.by = u, !.role = member[u].role]
  <2>1. /\ s \in RequestStates /\ s.pc = "mark" /\ Begin(r, s)
        /\ rs[r].pc = "free"
    BY <1>4 DEF BeginLeave, MayBegin, TypeOK, Slot, RequestStates, Ops, Rows, Roles
  <2> QED
    BY <2>1, BeginKeeps
<1>5. ASSUME NEW r \in Requests, Add(r)
      PROVE  IInv'
  <2>0. rs[r] \in RequestStates /\ member \in [Users -> Rows] /\ clock \in Nat
    BY DEF TypeOK
  <2>1. TypeOK'
    <3>1. \A u \in Users : Restored(rs[r].stamps[u]) \in Rows
      BY <2>0 DEF Restored, Rows, Roles, RequestStates
    <3>2. rs' = [rs EXCEPT ![r] = Slot("done")]
      BY <1>5 DEF Add, End
    <3>3. rs' \in [Requests -> RequestStates]
      BY <3>2, SlotType DEF TypeOK
    <3>4. clock' \in Nat
      BY <1>5, <2>0 DEF Add
    <3>5. member' \in [Users -> Rows]
      <4>1. member' = [u \in Users |->
                         IF u \in rs[r].targets THEN Restored(rs[r].stamps[u]) ELSE member[u]]
        BY <1>5 DEF Add
      <4> QED
        BY <2>0, <3>1, <4>1
    <3> QED
      BY <3>3, <3>4, <3>5 DEF TypeOK
  <2> QED
    BY <1>5, <2>1 DEF Add, End, Slot, TypeOK, Checked
<1>12. ASSUME NEW r \in Requests, Upsert(r)
       PROVE  IInv'
  <2>1. PICK v \in rs[r].targets : rs' = [rs EXCEPT ![r].stamps[v] = clock + 1]
    BY <1>12 DEF Upsert
  <2>2. UNCHANGED <<member, clock>>
    BY <1>12 DEF Upsert
  <2>3. /\ rs'[r] \in RequestStates /\ \A q \in Requests \ {r} : rs'[q] = rs[q]
        /\ SameButStamps(r)
    BY <2>1, UpsertSlot
  <2>4. TypeOK'
    BY <2>1, <2>2, <2>3 DEF TypeOK
  <2> QED
    BY <2>3, <2>4 DEF Checked, SameButStamps
<1>6. ASSUME NEW r \in Requests, CheckTarget(r)
      PROVE  IInv'
  <2>1. TypeOK'
    BY <1>6, SlotType DEF CheckTarget, Goto, End, TypeOK
  <2>2. CASE TargetAllowed(r)
    BY <1>6, <2>1, <2>2 DEF CheckTarget, TargetAllowed, Goto, TypeOK, RequestStates, Checked
  <2>3. CASE ~TargetAllowed(r)
    BY <1>6, <2>1, <2>3 DEF CheckTarget, End, Slot, TypeOK, Checked
  <2> QED
    BY <2>2, <2>3
<1>7. ASSUME NEW r \in Requests, Remove(r) \/ UpdateRole(r)
      PROVE  IInv'
  <2>1. rs' = [rs EXCEPT ![r] = Slot("done")] /\ clock' = clock
    BY <1>7 DEF Remove, UpdateRole, End
  <2>0. rs[r].newRole \in Roles
    BY DEF TypeOK, RequestStates
  <2>2. member' \in [Users -> Rows]
    BY <1>7, <2>0 DEF Remove, UpdateRole, TypeOK, Rows
  <2>3. TypeOK'
    BY <2>1, <2>2, SlotType DEF TypeOK
  <2> QED
    BY <2>1, <2>3 DEF TypeOK, Slot, Checked
<1>8. ASSUME NEW r \in Requests, MarkLeft(r) \/ CheckAdmins(r) \/ Elect(r) \/ Promote(r)
      PROVE  IInv'
  <2>1. /\ UNCHANGED <<member, clock>>
        /\ \E pc \in {"check", "elect", "promote", "commit"}, u \in Users \cup {NoUser} :
             \/ rs' = [rs EXCEPT ![r].pc = pc]
             \/ rs' = [rs EXCEPT ![r].pc = pc, ![r].next = u]
    <3>1. \A u \in Oldest(Remaining(r)) : u \in Users
      BY DEF Oldest, Remaining, Active
    <3> QED
      BY <1>8, <3>1 DEF MarkLeft, CheckAdmins, Elect, Promote, Goto
  <2>2. TypeOK'
    <3>1. ASSUME NEW pc \in {"check", "elect", "promote", "commit"}, NEW u \in Users \cup {NoUser}
          PROVE  /\ [rs EXCEPT ![r].pc = pc] \in [Requests -> RequestStates]
                 /\ [rs EXCEPT ![r].pc = pc, ![r].next = u] \in [Requests -> RequestStates]
      BY SlotType DEF TypeOK
    <3>2. rs' \in [Requests -> RequestStates]
      <4>1. PICK pc \in {"check", "elect", "promote", "commit"}, u \in Users \cup {NoUser} :
              \/ rs' = [rs EXCEPT ![r].pc = pc]
              \/ rs' = [rs EXCEPT ![r].pc = pc, ![r].next = u]
        BY <2>1
      <4>2. CASE rs' = [rs EXCEPT ![r].pc = pc]
        BY <3>1, <4>2
      <4>3. CASE rs' = [rs EXCEPT ![r].pc = pc, ![r].next = u]
        BY <3>1, <4>3
      <4> QED
        BY <4>1, <4>2, <4>3
    <3> QED
      BY <2>1, <3>2 DEF TypeOK
  <2>3. \A q \in Requests :
          \/ rs'[q].pc \in {"check", "elect", "promote", "commit"}
          \/ rs'[q] = rs[q]
    BY <2>1 DEF TypeOK, RequestStates
  <2> QED
    BY <2>2, <2>3 DEF Checked
<1>9. ASSUME NEW r \in Requests, Commit(r)
      PROVE  IInv'
  <2>1. member' \in [Users -> Rows]
    BY <1>9 DEF Commit, TypeOK, Rows, Roles
  <2>2. TypeOK'
    BY <1>9, <2>1, SlotType DEF Commit, End, TypeOK
  <2> QED
    BY <1>9, <2>2 DEF Commit, End, Slot, TypeOK, Checked
<1>10. ASSUME NEW r \in Requests, RollBack(r)
       PROVE  IInv'
  <2>1. TypeOK'
    BY <1>10, SlotType DEF RollBack, End, TypeOK
  <2> QED
    BY <1>10, <2>1 DEF RollBack, End, Slot, TypeOK, Checked
<1>11. ASSUME UNCHANGED vars
       PROVE  IInv'
  BY <1>11 DEF vars, TypeOK, Checked
<1> QED
  BY <1>1, <1>2, <1>3, <1>4, <1>5, <1>6, <1>7, <1>8, <1>9, <1>10, <1>11, <1>12
     DEF Next, Steps

THEOREM Invariant == Spec => []IInv
    BY InvInit, InvNext, PTL DEF Spec

\* The rows of the group and the requests keep their types
\* (prisma/schema/conversation.prisma:26-46).
THEOREM TypeCorrect == Spec => []TypeOK
<1>1. IInv => TypeOK
    BY DEF IInv
<1> QED
    BY <1>1, Invariant, PTL

-----------------------------------------------------------------------------
(* The steps that write rows.                                              *)

LEMMA RowSteps ==
    ASSUME IInv, [Next]_vars
    PROVE  \/ member' = member
           \/ \E r \in Requests : Add(r) \/ Remove(r) \/ UpdateRole(r) \/ Commit(r)
    BY DEF Next, Steps, vars, BeginAdd, BeginRemove, BeginRole, BeginLeave, Begin, Upsert, CheckTarget,
           MarkLeft, CheckAdmins, Elect, Promote, RollBack

\* Whatever overlaps, nobody comes (back) into the group but by an addition of
\* somebody who was staff when the request began (chat.service.ts:573-590,
\* 722-735, 795-798).
THEOREM StaffAdmits == Spec => OnlyAdditionsAdmit
<1>1. ASSUME IInv, [Next]_vars
      PROVE  [AdmittedByStaff]_vars
  <2> SUFFICES ASSUME NEW u \in Users, u \notin Active, u \in Active'
               PROVE  \E r \in Requests :
                         rs[r].op = "add" /\ u \in rs[r].targets /\ rs[r].role \in Staff /\ Add(r)
      BY DEF AdmittedByStaff
  <2>1. ASSUME NEW r \in Requests, Add(r)
        PROVE  rs[r].op = "add" /\ u \in rs[r].targets /\ rs[r].role \in Staff
      BY <1>1, <2>1 DEF IInv, TypeOK, Checked, Add, Active
  <2>2. ASSUME NEW r \in Requests, Remove(r) \/ UpdateRole(r) \/ Commit(r)
        PROVE  FALSE
      BY <1>1, <2>2 DEF IInv, TypeOK, Rows, Remove, UpdateRole, Commit, Active
  <2>3. member' # member
      BY DEF Active
  <2> QED
      BY <1>1, <2>1, <2>2, <2>3, RowSteps
<1> QED
    BY <1>1, Invariant, PTL DEF Spec, OnlyAdditionsAdmit

\* Whatever overlaps, the creator is out of the group only by leaving, and
\* loses the role of ADMIN only by being added again (chat.service.ts:646-648,
\* 715-720).
THEOREM CreatorStays == Spec => CreatorProtected
<1>1. ASSUME IInv, [Next]_vars
      PROVE  [CreatorKept]_vars
  <2> USE CreatorAssumption
  <2>1. CASE member' = member
      BY <2>1 DEF CreatorKept, Active, Admins
  <2>2. ASSUME NEW r \in Requests, Add(r)
        PROVE  CreatorKept
    <3>1. CASE Creator \in rs[r].targets
        BY <1>1, <2>2, <3>1 DEF CreatorKept, Active, Admins, Add, Restored, IInv, TypeOK
    <3>2. CASE Creator \notin rs[r].targets
        BY <1>1, <2>2, <3>2 DEF CreatorKept, Active, Admins, Add, IInv, TypeOK
    <3> QED
        BY <3>1, <3>2
  <2>3. ASSUME NEW r \in Requests, Remove(r)
        PROVE  CreatorKept
    <3>1. rs[r].target # Creator
        BY <1>1, <2>3 DEF Remove, IInv, Checked
    <3> QED
        BY <1>1, <2>3, <3>1 DEF CreatorKept, Active, Admins, Remove, IInv, TypeOK
  <2>4. ASSUME NEW r \in Requests, UpdateRole(r)
        PROVE  CreatorKept
    <3>1. rs[r].target # Creator \/ rs[r].newRole = "ADMIN"
        BY <1>1, <2>4 DEF UpdateRole, IInv, Checked
    <3> QED
        BY <1>1, <2>4, <3>1 DEF CreatorKept, Active, Admins, UpdateRole, IInv, TypeOK, Rows
  <2>5. ASSUME NEW r \in Requests, Commit(r)
        PROVE  CreatorKept
    <3>1. CASE rs[r].by = Creator
        BY <1>1, <2>5, <3>1 DEF CreatorKept, Active, Admins, Commit, IInv, TypeOK, Rows
    <3>2. CASE rs[r].by # Creator
        BY <1>1, <2>5, <3>2 DEF CreatorKept, Active, Admins, Commit, IInv, TypeOK, Rows
    <3> QED
        BY <3>1, <3>2
  <2> QED
      BY <1>1, <2>1, <2>2, <2>3, <2>4, <2>5, RowSteps
<1> QED
    BY <1>1, Invariant, PTL DEF Spec, CreatorProtected

-----------------------------------------------------------------------------
(* A request that no other overlaps.                                       *)

\* While a request is alone, what it has read stays true: it is the only one
\* in progress, who sent it is in the group with the role that was read, the
\* target is one it may change, whoever it elected is the longest standing of the
\* others, and a departure that goes without an election leaves an administrator
\* or nobody behind.
Sees(r) ==
    /\ InFlight = {r}
    /\ rs[r].by \in Active
    /\ rs[r].role = member[rs[r].by].role
    /\ rs[r].pc = "add" => \A v \in Users : rs[r].stamps[v] \in {0, clock + 1}
    /\ rs[r].pc = "add" => rs[r].targets # {}
    /\ rs[r].pc \in {"target", "write"} =>
         /\ rs[r].op = "remove" => rs[r].by # rs[r].target
         /\ rs[r].op = "role" => rs[r].role = "ADMIN"
    /\ rs[r].pc = "write" => TargetAllowed(r)
    /\ rs[r].pc \in {"mark", "check", "elect"} => rs[r].next = NoUser
    /\ rs[r].pc = "promote" \/ (rs[r].pc = "commit" /\ rs[r].next # NoUser) =>
         rs[r].next \in Oldest(Remaining(r))
    /\ rs[r].pc = "commit" /\ rs[r].next # NoUser =>
         rs[r].role = "ADMIN" /\ Admins \cap Remaining(r) = {}
    /\ rs[r].pc \in {"elect", "promote"} =>
         rs[r].role = "ADMIN" /\ Admins \cap Remaining(r) = {}
    /\ rs[r].pc = "check" => rs[r].role = "ADMIN"
    /\ rs[r].pc = "commit" /\ rs[r].next = NoUser =>
         rs[r].role # "ADMIN" \/ Admins \cap Remaining(r) # {} \/ Remaining(r) = {}

AloneSees == \A r \in InFlight : rs[r].alone => Sees(r)

LEMMA AloneInit == Init => AloneSees
    BY DEF Init, AloneSees, InFlight, Slot

\* A request that begins while others are in progress leaves none of them
\* alone, and is not alone itself.
LEMMA BeginAlone ==
    ASSUME IInv, AloneSees, NEW r \in Requests, NEW s \in RequestStates, Begin(r, s),
           rs[r].pc = "free", s.pc \in {"add", "target", "mark"}, s.next = NoUser,
           s.by \in Active, s.role = member[s.by].role,
           s.pc = "add" => s.targets # {} /\ \A v \in Users : s.stamps[v] = 0,
           s.pc = "target" => /\ s.op = "remove" => s.by # s.target
                              /\ s.op = "role" => s.role = "ADMIN"
    PROVE  AloneSees'
<1>1. UNCHANGED <<member, clock>>
    BY DEF Begin
<1>2. r \notin InFlight
    BY DEF InFlight
<1>3. ASSUME NEW q \in Requests
      PROVE  /\ q = r => /\ rs'[q].pc = s.pc /\ rs'[q].next = s.next
                         /\ rs'[q].by = s.by /\ rs'[q].role = s.role
                         /\ rs'[q].op = s.op /\ rs'[q].target = s.target
                         /\ rs'[q].targets = s.targets /\ rs'[q].stamps = s.stamps
                         /\ rs'[q].alone <=> InFlight = {}
             /\ q # r => rs'[q].pc = rs[q].pc
             /\ q # r /\ q \in InFlight => ~rs'[q].alone
  <2> DEFINE mine == [s EXCEPT !.alone = (InFlight = {})]
             other == [rs[q] EXCEPT !.alone = FALSE]
  <2>1. rs'[q] = CASE q = r -> mine
                   [] q \in InFlight -> other
                   [] OTHER -> rs[q]
    BY DEF Begin
  <2>2. rs[q] \in RequestStates
    BY DEF IInv, TypeOK
  <2>3. /\ mine.pc = s.pc /\ mine.next = s.next /\ mine.by = s.by /\ mine.role = s.role
        /\ mine.op = s.op /\ mine.target = s.target
        /\ mine.targets = s.targets /\ mine.stamps = s.stamps
        /\ mine.alone <=> InFlight = {}
    BY Zenon DEF RequestStates
  <2>4. other.pc = rs[q].pc /\ ~other.alone
    BY <2>2 DEF RequestStates
  <2> HIDE DEF mine, other
  <2> QED
    BY <1>2, <2>1, <2>3, <2>4
<1>4. InFlight' = InFlight \cup {r}
    BY <1>3 DEF InFlight
<1>5. SUFFICES ASSUME NEW q \in InFlight', rs'[q].alone
               PROVE  Sees(q)'
    BY DEF AloneSees
<1>6. q = r /\ InFlight = {}
    BY <1>3, <1>4, <1>5 DEF InFlight
<1> QED
    BY <1>1, <1>3, <1>4, <1>6 DEF Sees, Active

\* A step of one request: the others are as they were, and not alone.
LEMMA StepAlone ==
    ASSUME IInv, AloneSees, NEW r \in InFlight,
           \A q \in Requests \ {r} : rs'[q] = rs[q],
           rs[r].alone /\ Sees(r) /\ InFlight' = {r} => Sees(r)',
           r \in InFlight' => rs'[r].alone = rs[r].alone
    PROVE  AloneSees'
<1>1. InFlight' \subseteq InFlight /\ r \in Requests
    BY DEF InFlight
<1>2. SUFFICES ASSUME NEW q \in InFlight', rs'[q].alone
               PROVE  Sees(q)'
    BY DEF AloneSees
<1>3. q \in InFlight /\ rs[q].alone
    BY <1>1, <1>2 DEF InFlight
<1>4. Sees(q) /\ InFlight = {q} /\ q = r
    BY <1>3 DEF AloneSees, Sees
<1> QED
    BY <1>1, <1>2, <1>3, <1>4

LEMMA EndAlone ==
    ASSUME IInv, AloneSees, NEW r \in InFlight, End(r)
    PROVE  AloneSees'
<1>1. r \in Requests /\ rs \in [Requests -> RequestStates]
    BY DEF IInv, TypeOK, InFlight
<1>2. r \notin InFlight' /\ \A q \in Requests \ {r} : rs'[q] = rs[q]
    BY <1>1 DEF End, Slot, InFlight
<1> QED
    BY <1>2, StepAlone

\* A step from one query to the next, which writes no row.
LEMMA GotoAlone ==
    ASSUME IInv, AloneSees, NEW r \in InFlight, UNCHANGED <<member, clock>>,
           NEW pc \in {"write", "check", "elect", "promote", "commit"},
           NEW u \in Users \cup {NoUser},
           \/ rs' = [rs EXCEPT ![r].pc = pc] /\ u = rs[r].next
           \/ rs' = [rs EXCEPT ![r].pc = pc, ![r].next = u],
           pc = "write" => rs[r].pc = "target" /\ TargetAllowed(r),
           Sees(r) /\ pc \in {"check", "elect"} => u = NoUser,
           Sees(r) /\ pc \in {"check", "elect", "promote"} => rs[r].role = "ADMIN",
           Sees(r) /\ pc \in {"elect", "promote"} => Admins \cap Remaining(r) = {},
           Sees(r) /\ pc = "commit" /\ u # NoUser =>
             rs[r].role = "ADMIN" /\ Admins \cap Remaining(r) = {},
           Sees(r) /\ (pc = "promote" \/ (pc = "commit" /\ u # NoUser)) =>
             u \in Oldest(Remaining(r)),
           Sees(r) /\ pc = "commit" /\ u = NoUser =>
             rs[r].role # "ADMIN" \/ Admins \cap Remaining(r) # {} \/ Remaining(r) = {}
    PROVE  AloneSees'
<1>1. r \in Requests /\ rs \in [Requests -> RequestStates]
    BY DEF IInv, TypeOK, InFlight
<1>2. /\ \A q \in Requests \ {r} : rs'[q] = rs[q]
      /\ rs'[r].pc = pc /\ rs'[r].next = u
      /\ rs'[r].alone = rs[r].alone /\ rs'[r].by = rs[r].by /\ rs'[r].role = rs[r].role
      /\ rs'[r].op = rs[r].op /\ rs'[r].target = rs[r].target
      /\ rs'[r].newRole = rs[r].newRole
    BY <1>1 DEF RequestStates
<1>3. ASSUME Sees(r), InFlight' = {r}
      PROVE  Sees(r)'
  <2>1. Active' = Active /\ Admins' = Admins /\ Remaining(r)' = Remaining(r)
    BY <1>2 DEF Active, Admins, Remaining
  <2>2. Oldest(Remaining(r))' = Oldest(Remaining(r))
    BY <2>1 DEF Oldest
  <2>3. TargetAllowed(r) => TargetAllowed(r)'
    BY <1>2, <2>1 DEF TargetAllowed
  <2> QED
    BY <1>1, <1>2, <1>3, <2>1, <2>2, <2>3 DEF Sees
<1> QED
    BY <1>2, <1>3, StepAlone

LEMMA AloneNext ==
    ASSUME IInv, AloneSees, [Next]_vars
    PROVE  AloneSees'
<1>1. ASSUME NEW r \in Requests, NEW u \in Users, NEW vs \in SUBSET Users, BeginAdd(r, u, vs)
      PROVE  AloneSees'
  <2> DEFINE s == [Slot("add") EXCEPT !.op = "add", !.by = u, !.targets = vs,
                                      !.role = member[u].role]
  <2>1. /\ s \in RequestStates /\ s.pc = "add" /\ s.next = NoUser /\ Begin(r, s)
        /\ rs[r].pc = "free"
        /\ s.by \in Active /\ s.role = member[s.by].role
        /\ s.targets # {} /\ \A w \in Users : s.stamps[w] = 0
    BY <1>1 DEF BeginAdd, MayBegin, IInv, TypeOK, Slot, RequestStates, Ops, Rows, Roles
  <2> QED
    BY <2>1, BeginAlone
<1>2. ASSUME NEW r \in Requests, NEW u \in Users, NEW v \in Users, BeginRemove(r, u, v)
      PROVE  AloneSees'
  <2> DEFINE s == [Slot("target") EXCEPT !.op = "remove", !.by = u, !.target = v,
                                         !.role = member[u].role]
  <2>1. /\ s \in RequestStates /\ s.pc = "target" /\ s.next = NoUser /\ Begin(r, s)
        /\ rs[r].pc = "free"
        /\ s.by \in Active /\ s.role = member[s.by].role
        /\ s.op = "remove" /\ s.by # s.target
    BY <1>2 DEF BeginRemove, MayBegin, IInv, TypeOK, Slot, RequestStates, Ops, Rows, Roles
  <2> QED
    BY <2>1, BeginAlone
<1>3. ASSUME NEW r \in Requests, NEW u \in Users, NEW v \in Users, NEW newRole \in Roles,
             BeginRole(r, u, v, newRole)
      PROVE  AloneSees'
  <2> DEFINE s == [Slot("target") EXCEPT !.op = "role", !.by = u, !.target = v,
                                         !.role = "ADMIN", !.newRole = newRole]
  <2>1. /\ s \in RequestStates /\ s.pc = "target" /\ s.next = NoUser /\ Begin(r, s)
        /\ rs[r].pc = "free"
        /\ s.by \in Active /\ s.role = member[s.by].role
        /\ s.op = "role" /\ s.role = "ADMIN"
    BY <1>3 DEF BeginRole, MayBegin, IInv, TypeOK, Slot, RequestStates, Ops, Rows, Roles
  <2> QED
    BY <2>1, BeginAlone
<1>4. ASSUME NEW r \in Requests, NEW u \in Users, BeginLeave(r, u)
      PROVE  AloneSees'
  <2> DEFINE s == [Slot("mark") EXCEPT !.op = "leave", !.by = u, !.role = member[u].role]
  <2>1. /\ s \in RequestStates /\ s.pc = "mark" /\ s.next = NoUser /\ Begin(r, s)
        /\ rs[r].pc = "free"
        /\ s.by \in Active /\ s.role = member[s.by].role
    BY <1>4 DEF BeginLeave, MayBegin, IInv, TypeOK, Slot, RequestStates, Ops, Rows, Roles
  <2> QED
    BY <2>1, BeginAlone
<1>5. ASSUME NEW r \in Requests,
             \/ Add(r) \/ Remove(r) \/ UpdateRole(r) \/ Commit(r) \/ RollBack(r)
      PROVE  AloneSees'
  <2>1. r \in InFlight /\ End(r)
    BY <1>5 DEF Add, Remove, UpdateRole, Commit, RollBack, InFlight
  <2> QED
    BY <2>1, EndAlone
<1>6. ASSUME NEW r \in Requests, CheckTarget(r)
      PROVE  AloneSees'
  <2>1. r \in InFlight /\ rs[r] \in RequestStates /\ member \in [Users -> Rows]
    BY <1>6 DEF CheckTarget, InFlight, IInv, TypeOK
  <2>2. CASE TargetAllowed(r)
    <3>1. rs' = [rs EXCEPT ![r].pc = "write"] /\ UNCHANGED <<member, clock>>
      BY <1>6, <2>2 DEF CheckTarget, Goto
    <3>2. rs[r].next \in Users \cup {NoUser} /\ rs[r].pc = "target"
      BY <1>6, <2>1 DEF CheckTarget, RequestStates
    <3> QED
      BY <2>1, <2>2, <3>1, <3>2, GotoAlone
  <2>3. CASE ~TargetAllowed(r)
    BY <1>6, <2>1, <2>3, EndAlone DEF CheckTarget
  <2> QED
    BY <2>2, <2>3
<1>7. ASSUME NEW r \in Requests, MarkLeft(r)
      PROVE  AloneSees'
  <2> DEFINE pc == IF rs[r].role = "ADMIN" THEN "check" ELSE "commit"
  <2>1. r \in InFlight /\ rs[r].next \in Users \cup {NoUser}
    BY <1>7 DEF MarkLeft, InFlight, IInv, TypeOK, RequestStates
  <2>2. /\ pc \in {"check", "commit"}
        /\ pc = "commit" => rs[r].role # "ADMIN"
        /\ pc = "check" => rs[r].role = "ADMIN"
    OBVIOUS
  <2>3. rs' = [rs EXCEPT ![r].pc = pc] /\ UNCHANGED <<member, clock>> /\ rs[r].pc = "mark"
    BY <1>7 DEF MarkLeft, Goto
  <2>4. Sees(r) => rs[r].next = NoUser
    BY <2>3 DEF Sees
  <2> HIDE DEF pc
  <2> QED
    BY <2>1, <2>2, <2>3, <2>4, GotoAlone
<1>8. ASSUME NEW r \in Requests, CheckAdmins(r)
      PROVE  AloneSees'
  <2> DEFINE pc == IF Admins \cap Remaining(r) = {} THEN "elect" ELSE "commit"
  <2>1. r \in InFlight /\ rs[r].next \in Users \cup {NoUser}
    BY <1>8 DEF CheckAdmins, InFlight, IInv, TypeOK, RequestStates
  <2>2. /\ pc \in {"elect", "commit"}
        /\ pc = "commit" => Admins \cap Remaining(r) # {}
        /\ pc = "elect" => Admins \cap Remaining(r) = {}
    OBVIOUS
  <2>3. rs' = [rs EXCEPT ![r].pc = pc] /\ UNCHANGED <<member, clock>> /\ rs[r].pc = "check"
    BY <1>8 DEF CheckAdmins, Goto
  <2>4. Sees(r) => rs[r].next = NoUser /\ rs[r].role = "ADMIN"
    BY <2>3 DEF Sees
  <2> HIDE DEF pc
  <2> QED
    BY <2>1, <2>2, <2>3, <2>4, GotoAlone
<1>9. ASSUME NEW r \in Requests, Elect(r)
      PROVE  AloneSees'
  <2>1. /\ r \in InFlight /\ rs[r].next \in Users \cup {NoUser}
        /\ UNCHANGED <<member, clock>> /\ rs[r].pc = "elect"
    BY <1>9 DEF Elect, InFlight, IInv, TypeOK, RequestStates
  <2>2. Sees(r) => /\ rs[r].next = NoUser /\ rs[r].role = "ADMIN"
                   /\ Admins \cap Remaining(r) = {}
    BY <2>1 DEF Sees
  <2>3. CASE Remaining(r) = {} /\ rs' = [rs EXCEPT ![r].pc = "commit"]
    BY <2>1, <2>2, <2>3, GotoAlone
  <2>4. ASSUME NEW u \in Oldest(Remaining(r)), rs' = [rs EXCEPT ![r].pc = "promote", ![r].next = u]
        PROVE  AloneSees'
    <3>1. u \in Users /\ u # NoUser
      BY CreatorAssumption DEF Oldest, Remaining, Active
    <3>2. rs' = [rs EXCEPT ![r].pc = "promote", ![r].next = u]
      BY <2>4
    <3> DEFINE pc == "promote"
    <3>3. pc = "promote" /\ rs' = [rs EXCEPT ![r].pc = pc, ![r].next = u]
      BY <3>2
    <3> HIDE DEF pc
    <3> QED
      BY <2>1, <2>2, <3>1, <3>3, GotoAlone
  <2> QED
    BY <1>9, <2>3, <2>4 DEF Elect, Goto
<1>10. ASSUME NEW r \in Requests, Promote(r)
       PROVE  AloneSees'
  <2>1. /\ r \in InFlight /\ rs[r].next \in Users \cup {NoUser}
        /\ UNCHANGED <<member, clock>> /\ rs[r].pc = "promote"
        /\ rs' = [rs EXCEPT ![r].pc = "commit"]
    BY <1>10 DEF Promote, Goto, InFlight, IInv, TypeOK, RequestStates
  <2>2. Sees(r) => /\ rs[r].next \in Oldest(Remaining(r)) /\ rs[r].next # NoUser
                   /\ rs[r].role = "ADMIN" /\ Admins \cap Remaining(r) = {}
    BY <2>1, CreatorAssumption DEF Sees, Oldest, Remaining, Active
  <2> QED
    BY <2>1, <2>2, GotoAlone
<1>12. ASSUME NEW r \in Requests, Upsert(r)
       PROVE  AloneSees'
  <2>1. PICK v \in rs[r].targets : rs' = [rs EXCEPT ![r].stamps[v] = clock + 1]
    BY <1>12 DEF Upsert
  <2>2. /\ UNCHANGED <<member, clock>> /\ rs[r].pc = "add" /\ r \in InFlight
        /\ rs[r].stamps \in [Users -> Nat] /\ TypeOK
    BY <1>12 DEF Upsert, InFlight, IInv, TypeOK, RequestStates
  <2>3. /\ \A q \in Requests \ {r} : rs'[q] = rs[q]
        /\ SameButStamps(r)
        /\ rs'[r].stamps = [rs[r].stamps EXCEPT ![v] = clock + 1]
    BY <2>1, <2>2, UpsertSlot
  <2>4. ASSUME Sees(r), InFlight' = {r} PROVE Sees(r)'
    <3>1. \A w \in Users : rs'[r].stamps[w] \in {0, clock + 1}
      BY <2>2, <2>3, <2>4 DEF Sees
    <3>2. Active' = Active /\ Admins' = Admins
      BY <2>2 DEF Active, Admins
    <3> QED
      BY <2>2, <2>3, <2>4, <3>1, <3>2 DEF Sees, SameButStamps
  <2>5. rs'[r].alone = rs[r].alone
    BY <2>3 DEF SameButStamps
  <2> QED
    BY <2>2, <2>3, <2>4, <2>5, StepAlone
<1>11. ASSUME UNCHANGED vars
       PROVE  AloneSees'
  BY <1>11 DEF vars, AloneSees, Sees, InFlight, Active, Admins, Remaining, Oldest, TargetAllowed
<1> QED
  BY <1>1, <1>2, <1>3, <1>4, <1>5, <1>6, <1>7, <1>8, <1>9, <1>10, <1>11, <1>12
     DEF Next, Steps

-----------------------------------------------------------------------------
(* What such a request does, it does at one stroke.                        *)

RoleOf(u) == IF u \in Active THEN member[u].role ELSE "OUT"

LEMMA AloneAdds ==
    ASSUME IInv, NEW r \in Requests, Sees(r), Add(r)
    PROVE  Atomic!Admit(rs[r].by, rs[r].targets)
<1> DEFINE u == rs[r].by
           vs == rs[r].targets
<1>1. /\ member \in [Users -> Rows] /\ u \in Users /\ vs \in SUBSET Users /\ vs # {}
      /\ u \in Active /\ member[u].role \in Staff /\ clock \in Nat
      /\ rs[r].pc = "add" /\ rs[r].stamps \in [Users -> Nat]
    BY DEF Sees, Add, IInv, TypeOK, Checked, Active, RequestStates
<1>2. /\ member' = [w \in Users |-> IF w \in vs THEN Restored(rs[r].stamps[w]) ELSE member[w]]
      /\ clock' = IF \E v \in vs : rs[r].stamps[v] > clock THEN clock + 1 ELSE clock
      /\ \A v \in vs : rs[r].stamps[v] # 0
    BY DEF Add
<1>3. \A v \in vs : rs[r].stamps[v] = clock + 1
    BY <1>1, <1>2 DEF Sees
<1>4. clock' = clock + 1
    BY <1>1, <1>2, <1>3
<1> HIDE DEF vs
<1>5. \A w \in Users : RoleOf(w)' = IF w \in vs THEN "MEMBER" ELSE RoleOf(w)
    BY <1>1, <1>2 DEF RoleOf, Active, Restored
<1>6. \A w \in Users : member'[w].joined = IF w \in vs THEN clock + 1 ELSE member[w].joined
    BY <1>1, <1>2, <1>3 DEF Restored
<1>7. RoleOf(u) \in {"ADMIN", "MODERATOR"}
    BY <1>1 DEF RoleOf, Staff
<1> QED
    BY <1>1, <1>4, <1>5, <1>6, <1>7 DEF Atomic!Admit, RoleOf, vs

\* A write of one row that leaves its joinedAt alone.
LEMMA RoleWritten ==
    ASSUME IInv, NEW v \in Users, NEW role, NEW row \in Rows, row.joined = member[v].joined,
           role = IF row.state = "active" THEN row.role ELSE "OUT",
           member' = [member EXCEPT ![v] = row], clock' = clock
    PROVE  /\ [w \in Users |-> RoleOf(w)]' = [[w \in Users |-> RoleOf(w)] EXCEPT ![v] = role]
           /\ [w \in Users |-> member[w].joined]' = [w \in Users |-> member[w].joined]
<1>1. member \in [Users -> Rows]
    BY DEF IInv, TypeOK
<1>2. \A w \in Users : member'[w] = IF w = v THEN row ELSE member[w]
    BY <1>1
<1>3. \A w \in Users : RoleOf(w)' = IF w = v THEN role ELSE RoleOf(w)
    BY <1>2 DEF RoleOf, Active
<1>4. \A w \in Users : member'[w].joined = member[w].joined
    BY <1>2
<1> QED
    BY <1>3, <1>4

LEMMA AloneRemoves ==
    ASSUME IInv, NEW r \in Requests, Sees(r), Remove(r)
    PROVE  Atomic!Remove(rs[r].by, rs[r].target)
<1> DEFINE u == rs[r].by
           v == rs[r].target
           row == [member[v] EXCEPT !.state = "left"]
<1>1. /\ TargetAllowed(r) /\ rs[r].op = "remove" /\ u # v
      /\ member' = [member EXCEPT ![v] = row] /\ clock' = clock
      /\ u \in Active /\ rs[r].role = member[u].role
    BY DEF Sees, Remove
<1>2. u \in Users /\ v \in Users /\ v \in Active /\ v # Creator
    BY <1>1 DEF TargetAllowed, Active
<1>3. member[v] \in Rows /\ member[u] \in Rows
    BY <1>2 DEF IInv, TypeOK
<1>4. row \in Rows /\ row.joined = member[v].joined /\ row.state = "left"
    BY <1>3 DEF Rows
<1>5. /\ [w \in Users |-> RoleOf(w)]' = [[w \in Users |-> RoleOf(w)] EXCEPT ![v] = "OUT"]
      /\ [w \in Users |-> member[w].joined]' = [w \in Users |-> member[w].joined]
  <2> HIDE DEF row
  <2> QED
    BY <1>1, <1>2, <1>4, RoleWritten
<1>6. /\ RoleOf(v) # "OUT" /\ RoleOf(u) = rs[r].role
      /\ rs[r].role = "ADMIN" \/ (rs[r].role = "MODERATOR" /\ RoleOf(v) = "MEMBER")
    BY <1>1, <1>2, <1>3 DEF RoleOf, TargetAllowed, Rows, Roles, Staff
<1> QED
    BY <1>1, <1>2, <1>5, <1>6 DEF Atomic!Remove, Atomic!In, RoleOf

LEMMA AloneSetsRole ==
    ASSUME IInv, NEW r \in Requests, Sees(r), UpdateRole(r)
    PROVE  Atomic!SetRole(rs[r].by, rs[r].target, rs[r].newRole)
<1> DEFINE u == rs[r].by
           v == rs[r].target
           row == [member[v] EXCEPT !.role = rs[r].newRole]
<1>1. /\ TargetAllowed(r) /\ rs[r].op = "role" /\ rs[r].role = "ADMIN"
      /\ member' = [member EXCEPT ![v] = row] /\ clock' = clock
      /\ u \in Active /\ rs[r].role = member[u].role
    BY DEF Sees, UpdateRole
<1>2. u \in Users /\ v \in Users /\ v \in Active /\ (v = Creator => rs[r].newRole = "ADMIN")
    BY <1>1 DEF TargetAllowed, Active
<1>3. member[v] \in Rows /\ rs[r].newRole \in Roles
    BY <1>2 DEF IInv, TypeOK, RequestStates
<1>4. /\ row \in Rows /\ row.joined = member[v].joined
      /\ row.state = "active" /\ row.role = rs[r].newRole
    BY <1>2, <1>3 DEF Rows, Active
<1>5. /\ [w \in Users |-> RoleOf(w)]'
           = [[w \in Users |-> RoleOf(w)] EXCEPT ![v] = rs[r].newRole]
      /\ [w \in Users |-> member[w].joined]' = [w \in Users |-> member[w].joined]
  <2> HIDE DEF row
  <2> QED
    BY <1>1, <1>2, <1>4, RoleWritten
<1>6. RoleOf(v) # "OUT" /\ RoleOf(u) = "ADMIN"
    BY <1>1, <1>2, <1>3 DEF RoleOf, Rows, Roles
<1> QED
    BY <1>1, <1>2, <1>5, <1>6 DEF Atomic!SetRole, Atomic!In, RoleOf

\* What the transaction of a departure commits.
LEMMA CommitRows ==
    ASSUME IInv, NEW r \in Requests, Sees(r), Commit(r)
    PROVE  /\ rs[r].by # rs[r].next
           /\ \A w \in Users : RoleOf(w)' = IF w = rs[r].by THEN "OUT"
                                            ELSE IF w = rs[r].next THEN "ADMIN"
                                            ELSE RoleOf(w)
           /\ \A w \in Users : member'[w].joined = member[w].joined
<1>1. /\ rs[r].pc = "commit" /\ member \in [Users -> Rows]
      /\ rs[r].next # NoUser => rs[r].next \in Remaining(r)
      /\ rs[r].by \in Active
    BY DEF Commit, Sees, Oldest, IInv, TypeOK
<1>2. rs[r].by # rs[r].next
    BY <1>1, CreatorAssumption DEF Remaining, Active
<1>3. ASSUME NEW w \in Users
      PROVE  /\ RoleOf(w)' = IF w = rs[r].by THEN "OUT"
                             ELSE IF w = rs[r].next THEN "ADMIN" ELSE RoleOf(w)
             /\ member'[w].joined = member[w].joined
  <2> DEFINE gone == [member[w] EXCEPT !.state = "left"]
             raised == [member[w] EXCEPT !.role = "ADMIN"]
  <2>1. member'[w] = CASE w = rs[r].by -> gone
                       [] w = rs[r].next -> raised
                       [] OTHER -> member[w]
    BY DEF Commit
  <2>2. /\ gone.state = "left" /\ gone.joined = member[w].joined
        /\ raised.role = "ADMIN" /\ raised.state = member[w].state
        /\ raised.joined = member[w].joined
    BY <1>1 DEF Rows
  <2>3. w = rs[r].next => member[w].state = "active"
    BY <1>1, CreatorAssumption DEF Remaining, Active
  <2> HIDE DEF gone, raised
  <2> QED
    BY <1>2, <2>1, <2>2, <2>3 DEF RoleOf, Active
<1> QED
    BY <1>2, <1>3

LEMMA AloneLeaves ==
    ASSUME IInv, NEW r \in Requests, Sees(r), Commit(r)
    PROVE  Atomic!Leave(rs[r].by)
<1> DEFINE u == rs[r].by
           roles == [w \in Users |-> RoleOf(w)]
<1>1. /\ rs[r].pc = "commit" /\ member \in [Users -> Rows] /\ clock' = clock
      /\ u \in Active /\ u \in Users /\ rs[r].role = member[u].role
    BY DEF Commit, Sees, IInv, TypeOK, Active
<1>2. /\ Atomic!In = Active
      /\ Atomic!Admins = Admins
      /\ Atomic!In \ {u} = Remaining(r)
    BY <1>1 DEF Atomic!In, Atomic!Admins, Active, Admins, Remaining, Rows, Roles
<1>3. Atomic!Longest(Remaining(r)) = Oldest(Remaining(r))
  <2>1. Remaining(r) \subseteq Users
    BY DEF Remaining, Active
  <2> QED
    BY <2>1 DEF Atomic!Longest, Oldest
<1>4. [w \in Users |-> member[w].joined]' = [w \in Users |-> member[w].joined]
    BY CommitRows
<1>5. CASE rs[r].next = NoUser
  <2>1. roles' = [roles EXCEPT ![u] = "OUT"]
    BY <1>1, <1>5, CommitRows, CreatorAssumption
  <2>2. ~(Admins = {u} /\ Remaining(r) # {})
    BY <1>1, <1>5 DEF Sees, Admins, Remaining
  <2> QED
    BY <1>1, <1>2, <1>4, <2>1, <2>2 DEF Atomic!Leave, RoleOf
<1>6. CASE rs[r].next # NoUser
  <2>1. rs[r].next \in Oldest(Remaining(r)) /\ rs[r].next \in Users
    BY <1>1, <1>6 DEF Sees, Oldest, Remaining, Active
  <2>2. roles' = [roles EXCEPT ![u] = "OUT", ![rs[r].next] = "ADMIN"]
    BY <1>1, <2>1, CommitRows
  <2>3. Admins = {u} /\ Remaining(r) # {}
    BY <1>1, <1>6, <2>1 DEF Sees, Admins, Remaining, Oldest
  <2> QED
    BY <1>1, <1>2, <1>3, <1>4, <2>1, <2>2, <2>3 DEF Atomic!Leave, RoleOf
<1> QED
    BY <1>5, <1>6

\* A request that no other overlaps does what it promises at one stroke: it
\* adds, removes, sets a role or leaves as the atomic group does, on rows that are
\* still as it read them (chat.service.ts:551-805).
THEOREM OneStrokeAlone == Spec => AtomicWhenAlone
<1>1. ASSUME IInv, AloneSees, NEW r \in Requests, rs[r].alone
      PROVE  /\ Add(r) => Atomic!Admit(rs[r].by, rs[r].targets)
             /\ Remove(r) => Atomic!Remove(rs[r].by, rs[r].target)
             /\ UpdateRole(r) => Atomic!SetRole(rs[r].by, rs[r].target, rs[r].newRole)
             /\ Commit(r) => Atomic!Leave(rs[r].by)
  <2>1. Add(r) \/ Remove(r) \/ UpdateRole(r) \/ Commit(r) => Sees(r)
    BY <1>1 DEF AloneSees, InFlight, Add, Remove, UpdateRole, Commit
  <2> QED
    BY <1>1, <2>1, AloneAdds, AloneRemoves, AloneSetsRole, AloneLeaves
<1>2. IInv /\ AloneSees /\ [Next]_vars => AloneSees'
    BY AloneNext
<1>3. IInv /\ AloneSees =>
        [\A r \in Requests : rs[r].alone =>
           LET u == rs[r].by
               v == rs[r].target IN
           /\ Add(r) => Atomic!Admit(u, rs[r].targets)
           /\ Remove(r) => Atomic!Remove(u, v)
           /\ UpdateRole(r) => Atomic!SetRole(u, v, rs[r].newRole)
           /\ Commit(r) => Atomic!Leave(u)]_vars
    BY <1>1
<1> QED
    BY <1>2, <1>3, AloneInit, Invariant, PTL DEF Spec, AtomicWhenAlone


\* A departure that no other request overlaps leaves an administrator behind, if
\* there was one and anybody remains (chat.service.ts:743-744).
THEOREM AdminStays ==
    Spec => [][\A r \in Requests : rs[r].alone /\ Commit(r) /\ Admins # {} =>
                 Admins' # {} \/ Active' = {}]_vars
<1>1. ASSUME IInv, AloneSees, NEW r \in Requests, rs[r].alone, Commit(r), Admins # {}
      PROVE  Admins' # {} \/ Active' = {}
  <2> DEFINE u == rs[r].by
  <2>1. Sees(r) /\ rs[r].pc = "commit" /\ u \in Active
    BY <1>1 DEF Commit, AloneSees, InFlight, Sees
  <2>2. \A w \in Users : RoleOf(w)' = IF w = u THEN "OUT"
                                      ELSE IF w = rs[r].next THEN "ADMIN" ELSE RoleOf(w)
    BY <1>1, <2>1, CommitRows
  <2>3. /\ Active' = {w \in Users : RoleOf(w)' # "OUT"} /\ Active = {w \in Users : RoleOf(w) # "OUT"}
        /\ Admins' = {w \in Users : RoleOf(w)' = "ADMIN"} /\ Admins = {w \in Users : RoleOf(w) = "ADMIN"}
    <3>1. member \in [Users -> Rows] /\ member' \in [Users -> Rows]
      BY <1>1, InvNext DEF IInv, TypeOK, Next, Steps
    <3> QED
      BY <3>1 DEF RoleOf, Active, Admins, Rows, Roles
  <2>4. Active' = Remaining(r)
    <3>1. \A w \in Remaining(r) : w \in Active /\ w # u
      BY DEF Remaining
    <3>2. rs[r].next \in Users => rs[r].next \in Active
      BY <2>1, CreatorAssumption DEF Sees, Oldest, Remaining
    <3> QED
      BY <2>2, <2>3, <3>1, <3>2 DEF Remaining
  <2>5. CASE rs[r].next # NoUser
    BY <2>1, <2>2, <2>3, <2>5 DEF Sees, Oldest, Remaining, Active
  <2>6. CASE rs[r].next = NoUser /\ Admins \cap Remaining(r) # {}
    BY <2>2, <2>3, <2>6, CreatorAssumption DEF Remaining
  <2>7. CASE rs[r].next = NoUser /\ rs[r].role # "ADMIN"
    <3>1. u \notin Admins
      BY <2>1, <2>7 DEF Sees, Admins
    <3> QED
      BY <1>1, <2>2, <2>3, <2>7, <3>1, CreatorAssumption
  <2> QED
    BY <2>1, <2>4, <2>5, <2>6, <2>7 DEF Sees
<1>2. IInv /\ AloneSees /\ [Next]_vars => AloneSees'
    BY AloneNext
<1>3. IInv /\ AloneSees =>
        [\A r \in Requests : rs[r].alone /\ Commit(r) /\ Admins # {} =>
           Admins' # {} \/ Active' = {}]_vars
    BY <1>1
<1> QED
    BY <1>2, <1>3, AloneInit, Invariant, PTL DEF Spec

-----------------------------------------------------------------------------
(* One request at a time.                                                  *)

AllAlone == \A r \in InFlight : rs[r].alone

LEMMA InFlightFinite == IsFiniteSet(InFlight)
<1>1. IsFiniteSet(Requests)
  <2>1. 1 \in Int /\ MaxRequests \in Int
    BY BoundsAssumption
  <2> QED
    BY <2>1, FS_Interval DEF Requests
<1>2. InFlight \in SUBSET Requests
  BY DEF InFlight
<1> QED
  BY <1>1, <1>2, FS_Subset

\* Where requests run one at a time, each of them is alone.
LEMMA AllAloneNext ==
    ASSUME MaxInFlight <= 1, IInv, AllAlone, [Next]_vars
    PROVE  AllAlone'
<1> SUFFICES ASSUME NEW q \in Requests, q \in InFlight'
             PROVE  rs'[q].alone
    BY DEF AllAlone, InFlight
<1>1. IsFiniteSet(InFlight)
    BY InFlightFinite
<1>2. ASSUME NEW r \in Requests, NEW s \in RequestStates, Begin(r, s),
             Cardinality(InFlight) < MaxInFlight
      PROVE  rs'[q].alone
  <2>1. InFlight = {}
    BY <1>1, <1>2, FS_EmptySet, FS_CardinalityType, BoundsAssumption
  <2> DEFINE mine == [s EXCEPT !.alone = (InFlight = {})]
             other == [rs[q] EXCEPT !.alone = FALSE]
  <2>2. rs'[q] = CASE q = r -> mine
                   [] q \in InFlight -> other
                   [] OTHER -> rs[q]
    BY <1>2 DEF Begin
  <2>3. mine.alone
    BY <2>1, Zenon DEF RequestStates
  <2> HIDE DEF mine, other
  <2>4. ASSUME q = r PROVE rs'[q].alone
    <3>1. rs'[q] = mine
      BY <2>1, <2>2, <2>4
    <3> QED
      BY <2>3, <3>1
  <2>5. q # r => rs'[q] = rs[q]
    BY <2>1, <2>2
  <2> QED
    BY <2>1, <2>4, <2>5 DEF InFlight
<1>3. ASSUME NEW r \in Requests, NEW u \in Users,
             \/ \E vs \in SUBSET Users : BeginAdd(r, u, vs)
             \/ \E v \in Users : \/ BeginRemove(r, u, v)
                                 \/ \E newRole \in Roles : BeginRole(r, u, v, newRole)
             \/ BeginLeave(r, u)
      PROVE  rs'[q].alone
  <2>1. Cardinality(InFlight) < MaxInFlight
    BY <1>3 DEF BeginAdd, BeginRemove, BeginRole, BeginLeave, MayBegin
  <2>2. \E s \in RequestStates : Begin(r, s)
    BY <1>3 DEF BeginAdd, BeginRemove, BeginRole, BeginLeave, IInv, TypeOK, Slot, RequestStates,
                Ops, Rows, Roles
  <2> QED
    BY <1>2, <2>1, <2>2
<1>4. ASSUME NEW r \in Requests, Steps(r) \/ RollBack(r)
      PROVE  rs'[q].alone
  <2>0. ASSUME Upsert(r) PROVE rs'[q].alone
    <3>1. PICK v \in rs[r].targets : rs' = [rs EXCEPT ![r].stamps[v] = clock + 1]
      BY <2>0 DEF Upsert
    <3>2. /\ \A p \in Requests \ {r} : rs'[p] = rs[p]
          /\ rs'[r].pc = rs[r].pc /\ rs'[r].alone = rs[r].alone
      BY <3>1, UpsertSlot DEF IInv, SameButStamps
    <3> QED
      BY <3>2 DEF InFlight, AllAlone
  <2> SUFFICES ASSUME ~Upsert(r) PROVE rs'[q].alone
    BY <2>0
  <2>1. \/ rs' = [rs EXCEPT ![r] = Slot("done")]
        \/ \E pc \in {"write", "check", "elect", "promote", "commit"} :
              \/ rs' = [rs EXCEPT ![r].pc = pc]
              \/ \E u \in Users : rs' = [rs EXCEPT ![r].pc = pc, ![r].next = u]
    BY <1>4 DEF Steps, Add, CheckTarget, Remove, UpdateRole, MarkLeft, CheckAdmins, Elect,
                Promote, Commit, RollBack, Goto, End, Oldest, Remaining, Active
  <2>2. r \in InFlight \/ rs'[r] = Slot("done")
    BY <1>4 DEF Steps, Add, CheckTarget, Remove, UpdateRole, MarkLeft, CheckAdmins, Elect,
                Promote, Commit, RollBack, Goto, InFlight
  <2>3. rs \in [Requests -> RequestStates]
    BY DEF IInv, TypeOK
  <2>4. CASE q # r
    BY <2>1, <2>3, <2>4 DEF InFlight, AllAlone
  <2>5. CASE q = r
    <3>1. rs'[r] = Slot("done") \/ rs'[r].alone = rs[r].alone
      BY <2>1, <2>3 DEF RequestStates
    <3> QED
      BY <2>2, <2>5, <3>1 DEF InFlight, AllAlone, Slot
  <2> QED
    BY <2>4, <2>5
<1>5. CASE UNCHANGED vars
    BY <1>5 DEF vars, AllAlone, InFlight
<1> QED
    BY <1>3, <1>4, <1>5 DEF Next

LEMMA AtomicInit == Init => Atomic!Init
<1> SUFFICES ASSUME Init PROVE Atomic!Init
    OBVIOUS
<1>1. PICK invited \in SUBSET (Users \ {Creator}) :
         member = [u \in Users |->
            [state |-> IF u \in invited \cup {Creator} THEN "active" ELSE "absent",
             role |-> IF u = Creator THEN "ADMIN" ELSE "MEMBER",
             joined |-> 0]]
    BY DEF Init
<1>2. \A u \in Users : RoleOf(u) = IF u = Creator THEN "ADMIN"
                                   ELSE IF u \in invited THEN "MEMBER" ELSE "OUT"
    BY <1>1 DEF RoleOf, Active
<1>3. [u \in Users |-> RoleOf(u)] \in [Users -> {"MEMBER", "OUT", "ADMIN"}]
    BY <1>2
<1>4. {u \in Users : [w \in Users |-> RoleOf(w)][u] = "ADMIN"} = {Creator}
    BY <1>2, CreatorAssumption
<1>5. [u \in Users |-> member[u].joined] = [u \in Users |-> 0]
    BY <1>1
<1> QED
    BY <1>3, <1>4, <1>5 DEF Atomic!Init, Atomic!Admins, RoleOf, Init

\* Requests one at a time implement the atomic group: every step of the service
\* is one of the group's, or changes nothing a member can see
\* (chat.service.ts:551-805).
THEOREM SerialRefinement == MaxInFlight <= 1 => (Spec => Atomic!Spec)
<1> SUFFICES ASSUME MaxInFlight <= 1 PROVE Spec => Atomic!Spec
    OBVIOUS
<1>1. ASSUME IInv, AloneSees, AllAlone, [Next]_vars
      PROVE  [Atomic!Next]_(Atomic!vars)
  <2>1. CASE member' = member /\ clock' = clock
    BY <2>1 DEF Atomic!vars, Active
  <2>2. ASSUME NEW r \in Requests, Add(r) \/ Remove(r) \/ UpdateRole(r) \/ Commit(r)
        PROVE  Atomic!Next
    <3>1. Sees(r) /\ rs[r].newRole \in Atomic!Roles
      BY <1>1, <2>2 DEF AllAlone, AloneSees, InFlight, Add, Remove, UpdateRole, Commit,
                        IInv, TypeOK, RequestStates, Roles, Atomic!Roles
    <3>2. rs[r].by \in Users
      BY <3>1 DEF Sees, Active
    <3>3. Remove(r) \/ UpdateRole(r) => rs[r].target \in Users
      BY <3>1 DEF Sees, Remove, UpdateRole, TargetAllowed, Active
    <3>4. IInv /\ Sees(r)
      BY <1>1, <3>1
    <3>5. CASE Add(r)
      <4>1. Atomic!Admit(rs[r].by, rs[r].targets)
        BY <3>4, <3>5, AloneAdds
      <4>2. rs[r].targets \in SUBSET Users
        BY <3>4 DEF IInv, TypeOK, RequestStates
      <4> QED
        BY <3>2, <4>1, <4>2 DEF Atomic!Next, Atomic!Admit
    <3>6. CASE Remove(r)
      <4>1. Atomic!Remove(rs[r].by, rs[r].target)
        BY <3>4, <3>6, AloneRemoves
      <4> QED
        BY <3>2, <3>3, <3>6, <4>1 DEF Atomic!Next, Atomic!Remove
    <3>7. CASE UpdateRole(r)
      <4>1. Atomic!SetRole(rs[r].by, rs[r].target, rs[r].newRole)
        BY <3>4, <3>7, AloneSetsRole
      <4> QED
        BY <3>1, <3>2, <3>3, <3>7, <4>1 DEF Atomic!Next, Atomic!SetRole
    <3>8. CASE Commit(r)
      <4>1. Atomic!Leave(rs[r].by)
        BY <3>4, <3>8, AloneLeaves
      <4> QED
        BY <3>2, <4>1 DEF Atomic!Next, Atomic!Leave
    <3> QED
      BY <2>2, <3>5, <3>6, <3>7, <3>8
  <2>3. \/ member' = member /\ clock' = clock
        \/ \E r \in Requests : Add(r) \/ Remove(r) \/ UpdateRole(r) \/ Commit(r)
    BY <1>1 DEF Next, Steps, vars, BeginAdd, BeginRemove, BeginRole, BeginLeave, Begin,
           Upsert, CheckTarget, MarkLeft, CheckAdmins, Elect, Promote, RollBack
  <2> QED
    BY <2>1, <2>2, <2>3
<1>2. IInv /\ AloneSees /\ [Next]_vars => AloneSees'
    BY AloneNext
<1>3. IInv /\ AllAlone /\ [Next]_vars => AllAlone'
    BY AllAloneNext
<1>4. Init => AllAlone
    BY DEF Init, AllAlone, InFlight, Slot
<1> QED
    BY <1>1, <1>2, <1>3, <1>4, AloneInit, AtomicInit, Invariant, PTL DEF Spec, Atomic!Spec
=============================================================================
