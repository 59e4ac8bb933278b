-------------------------- MODULE GroupMembership --------------------------
(***************************************************************************)
(* Membership and roles of one group conversation: createGroupChat,        *)
(* addMembers, removeMember, updateMemberRole and leaveGroup of            *)
(* src/modules/chat/chat.service.ts.                                       *)
(*                                                                         *)
(* Each request reads the requester's row, checks it, reads the target's   *)
(* row, checks it, and updates that row by its id without looking at it    *)
(* again.  Requests interleave between any two queries.  addMembers does   *)
(* its upserts, and leaveGroup its updates and reads, in one transaction   *)
(* at PostgreSQL's default READ COMMITTED level: every query of it sees    *)
(* what is committed by then and its own updates, rows it updated stay     *)
(* locked until it ends, and an update of a locked row waits.              *)
(***************************************************************************)
EXTENDS Integers, FiniteSets

CONSTANTS
    Users,
    Creator,
    NoUser,
    MaxRequests,    \* bound on the requests of the history
    MaxInFlight     \* how many of them may be in progress together

ASSUME CreatorAssumption == Creator \in Users /\ NoUser \notin Users
ASSUME BoundsAssumption == MaxRequests \in Nat /\ MaxInFlight \in Nat

Requests == 1 .. MaxRequests        \* numbered as they begin

VARIABLES
    member,     \* the committed conversation_members rows of the group
    clock,      \* joinedAt of the latest row
    rs          \* the requests

vars == <<member, clock, rs>>

Roles == {"ADMIN", "MODERATOR", "MEMBER"}
Staff == {"ADMIN", "MODERATOR"}
Ops == {"add", "remove", "role", "leave"}

Rows == [state : {"absent", "active", "left"}, role : Roles, joined : Nat]

\* pc: a request reads its requester in "free"; "add" is the transaction of add,
\* which adds targets and has given stamps to some; "target" and "write" are the
\* other two queries of remove and role; "mark", "check", "elect", "promote"
\* and "commit" are the transaction of leave.  The code has no field alone: it
\* records that no other request was in progress while this one was.
RequestStates ==
    [pc : {"free", "add", "target", "write", "mark", "check", "elect",
           "promote", "commit", "done"},
     op : Ops, by : Users \cup {NoUser}, target : Users \cup {NoUser},
     targets : SUBSET Users, stamps : [Users -> Nat],
     role : Roles, newRole : Roles, next : Users \cup {NoUser}, alone : BOOLEAN]

Slot(pc) ==
    [pc |-> pc, op |-> "leave", by |-> NoUser, target |-> NoUser,
     targets |-> {}, stamps |-> [u \in Users |-> 0],
     role |-> "MEMBER", newRole |-> "MEMBER", next |-> NoUser, alone |-> TRUE]

TypeOK ==
    /\ member \in [Users -> Rows]
    /\ clock \in Nat
    /\ rs \in [Requests -> RequestStates]

\* createGroupChat: the creator is ADMIN, the invited are MEMBER, and all
\* have the joinedAt of the one nested write.
Init ==
    /\ \E invited \in SUBSET (Users \ {Creator}) :
         member = [u \in Users |->
            [state |-> IF u \in invited \cup {Creator} THEN "active" ELSE "absent",
             role |-> IF u = Creator THEN "ADMIN" ELSE "MEMBER",
             joined |-> 0]]
    /\ clock = 0
    /\ rs = [r \in Requests |-> Slot("free")]

Active == {u \in Users : member[u].state = "active"}
Admins == {u \in Active : member[u].role = "ADMIN"}

InFlight == {r \in Requests : rs[r].pc \notin {"free", "done"}}

\* Rows updated by the open transaction of a request.
Locked(r) ==
    (IF rs[r].pc = "add" THEN {u \in Users : rs[r].stamps[u] # 0} ELSE {})
      \cup (IF rs[r].pc \in {"check", "elect", "promote", "commit"} THEN {rs[r].by} ELSE {})
      \cup (IF rs[r].pc = "commit" THEN {rs[r].next} \ {NoUser} ELSE {})

FreeFor(r, u) == \A q \in Requests \ {r} : u \notin Locked(q)

\* The active members a query inside the transaction of r sees.
Remaining(r) == Active \ {rs[r].by}

End(r) == rs' = [rs EXCEPT ![r] = Slot("done")]
Goto(r, pc) == rs' = [rs EXCEPT ![r].pc = pc]

-----------------------------------------------------------------------------
(* Requests begin: the requester's row is read and checked.  A refused     *)
(* request changes nothing and is left out.                                *)

MayBegin(r, u) ==
    /\ rs[r].pc = "free"
    /\ \A q \in Requests : q < r => rs[q].pc # "free"
    /\ Cardinality(InFlight) < MaxInFlight
    /\ u \in Active

Begin(r, state) ==
    /\ rs' = [q \in Requests |->
                CASE q = r -> [state EXCEPT !.alone = (InFlight = {})]
                  [] q \in InFlight -> [rs[q] EXCEPT !.alone = FALSE]
                  [] OTHER -> rs[q]]
    /\ UNCHANGED <<member, clock>>

BeginAdd(r, u, vs) ==
    /\ MayBegin(r, u)
    /\ member[u].role \in Staff
    /\ vs # {}
    /\ Begin(r, [Slot("add") EXCEPT !.op = "add", !.by = u, !.targets = vs,
                                   !.role = member[u].role])

\* The role of the requester is looked at after the target is read.
BeginRemove(r, u, v) ==
    /\ MayBegin(r, u)
    /\ u # v
    /\ Begin(r, [Slot("target") EXCEPT !.op = "remove", !.by = u, !.target = v,
                                      !.role = member[u].role])

BeginRole(r, u, v, newRole) ==
    /\ MayBegin(r, u)
    /\ member[u].role = "ADMIN"
    /\ Begin(r, [Slot("target") EXCEPT !.op = "role", !.by = u, !.target = v,
                                      !.role = "ADMIN", !.newRole = newRole])

\* leaveGroup, also reached by a removal of oneself, which reads the row
\* twice in a row.
BeginLeave(r, u) ==
    /\ MayBegin(r, u)
    /\ Begin(r, [Slot("mark") EXCEPT !.op = "leave", !.by = u, !.role = member[u].role])

-----------------------------------------------------------------------------
(* addMembers: the transaction inserts the rows of the invited one by one, *)
(* or restores them to an active MEMBER whatever they were.                *)

\* joinedAt is the time of the upsert, not of the commit.
Upsert(r) ==
    /\ rs[r].pc = "add"
    /\ \E v \in rs[r].targets :
         /\ rs[r].stamps[v] = 0
         /\ FreeFor(r, v)
         /\ rs' = [rs EXCEPT ![r].stamps[v] = clock + 1]
    /\ UNCHANGED <<member, clock>>

Restored(stamp) == [state |-> "active", role |-> "MEMBER", joined |-> stamp]

Add(r) ==
    /\ rs[r].pc = "add"
    /\ \A v \in rs[r].targets : rs[r].stamps[v] # 0
    /\ member' = [u \in Users |->
                    IF u \in rs[r].targets THEN Restored(rs[r].stamps[u]) ELSE member[u]]
    /\ clock' = IF \E v \in rs[r].targets : rs[r].stamps[v] > clock THEN clock + 1 ELSE clock
    /\ End(r)

-----------------------------------------------------------------------------
(* removeMember and updateMemberRole: check the target's row, then update. *)

\* Bad: the creator is not looked for.
BadTargetAllowed(r) ==
    /\ rs[r].target \in Active
    /\ rs[r].op = "remove" => rs[r].role \in Staff

\* What the two functions check on the target's row.
TargetAllowed(r) ==
    /\ rs[r].target \in Active
    /\ rs[r].op = "remove" =>
         /\ rs[r].target # Creator
         /\ \/ rs[r].role = "ADMIN"
            \/ rs[r].role = "MODERATOR" /\ member[rs[r].target].role \notin Staff
    /\ rs[r].op = "role" => rs[r].target # Creator \/ rs[r].newRole = "ADMIN"

CheckTarget(r) ==
    /\ rs[r].pc = "target"
    /\ IF TargetAllowed(r) THEN Goto(r, "write") ELSE End(r)
    /\ UNCHANGED <<member, clock>>

Remove(r) ==
    /\ rs[r].pc = "write" /\ rs[r].op = "remove"
    /\ FreeFor(r, rs[r].target)
    /\ member' = [member EXCEPT ![rs[r].target].state = "left"]
    /\ End(r)
    /\ UNCHANGED clock

\* Bad: the update also clears leftAt.
BadUpdateRole(r) ==
    /\ rs[r].pc = "write" /\ rs[r].op = "role"
    /\ FreeFor(r, rs[r].target)
    /\ member' = [member EXCEPT ![rs[r].target] =
                    [@ EXCEPT !.role = rs[r].newRole, !.state = "active"]]
    /\ End(r)
    /\ UNCHANGED clock

UpdateRole(r) ==
    /\ rs[r].pc = "write" /\ rs[r].op = "role"
    /\ FreeFor(r, rs[r].target)
    /\ member' = [member EXCEPT ![rs[r].target].role = rs[r].newRole]
    /\ End(r)
    /\ UNCHANGED clock

-----------------------------------------------------------------------------
(* leaveGroup: the transaction.                                            *)

\* leftAt is set, uncommitted; only an ADMIN (by the row read before the
\* transaction) looks for a successor.
MarkLeft(r) ==
    /\ rs[r].pc = "mark"
    /\ FreeFor(r, rs[r].by)
    /\ Goto(r, IF rs[r].role = "ADMIN" THEN "check" ELSE "commit")
    /\ UNCHANGED <<member, clock>>

\* Bad: the leaving admin's own row is counted.
BadCheckAdmins(r) ==
    /\ rs[r].pc = "check"
    /\ Goto(r, IF Admins = {} THEN "elect" ELSE "commit")
    /\ UNCHANGED <<member, clock>>

CheckAdmins(r) ==
    /\ rs[r].pc = "check"
    /\ Goto(r, IF Admins \cap Remaining(r) = {} THEN "elect" ELSE "commit")
    /\ UNCHANGED <<member, clock>>

Oldest(S) == {u \in S : \A v \in S : member[u].joined <= member[v].joined}

Elect(r) ==
    /\ rs[r].pc = "elect"
    /\ \/ Remaining(r) = {} /\ Goto(r, "commit")
       \/ \E u \in Oldest(Remaining(r)) :
             rs' = [rs EXCEPT ![r].pc = "promote", ![r].next = u]
    /\ UNCHANGED <<member, clock>>

Promote(r) ==
    /\ rs[r].pc = "promote"
    /\ FreeFor(r, rs[r].next)
    /\ Goto(r, "commit")
    /\ UNCHANGED <<member, clock>>

Commit(r) ==
    /\ rs[r].pc = "commit"
    /\ member' = [u \in Users |->
                    CASE u = rs[r].by -> [member[u] EXCEPT !.state = "left"]
                      [] u = rs[r].next -> [member[u] EXCEPT !.role = "ADMIN"]
                      [] OTHER -> member[u]]
    /\ End(r)
    /\ UNCHANGED clock

\* The transaction fails, exceeds Prisma's time limit, or is the one that PostgreSQL
\* aborts of those that wait for each other's rows, and is rolled back.
RollBack(r) ==
    /\ rs[r].pc \in {"add", "mark", "check", "elect", "promote", "commit"}
    /\ End(r)
    /\ UNCHANGED <<member, clock>>

-----------------------------------------------------------------------------
Steps(r) ==
    \/ Upsert(r)
    \/ Add(r)
    \/ CheckTarget(r)
    \/ Remove(r)
    \/ UpdateRole(r)
    \/ MarkLeft(r)
    \/ CheckAdmins(r)
    \/ Elect(r)
    \/ Promote(r)
    \/ Commit(r)

Next ==
    \/ \E r \in Requests, u \in Users, vs \in SUBSET Users : BeginAdd(r, u, vs)
    \/ \E r \in Requests, u, v \in Users :
         \/ BeginRemove(r, u, v)
         \/ \E newRole \in Roles : BeginRole(r, u, v, newRole)
    \/ \E r \in Requests, u \in Users : BeginLeave(r, u)
    \/ \E r \in Requests : Steps(r) \/ RollBack(r)

Spec == Init /\ [][Next]_vars

-----------------------------------------------------------------------------
(* Properties.                                                             *)

\* A user comes into the group by an addition of somebody who was staff when
\* the request began.
AdmittedByStaff ==
    \A u \in Users : u \notin Active /\ u \in Active' =>
        \E r \in Requests :
            rs[r].op = "add" /\ u \in rs[r].targets /\ rs[r].role \in Staff /\ Add(r)

\* Whatever overlaps, a departed or unknown user comes (back) into the group
\* only by such an addition; no election and no role change readmits anyone
\* (chat.service.ts:573-590, 722-735, 795-798).
OnlyAdditionsAdmit == [][AdmittedByStaff]_vars

\* The creator's row changes for the worse only by the creator's own departure
\* and by an addition.
CreatorKept ==
    /\ Creator \in Active /\ Creator \notin Active' =>
         \E r \in Requests : rs[r].by = Creator /\ Commit(r)
    /\ Creator \in Admins /\ Creator \in Active' /\ Creator \notin Admins' =>
         \E r \in Requests : Creator \in rs[r].targets /\ Add(r)

\* Whatever overlaps, the creator is out of the group only by leaving, and
\* loses the role of ADMIN only by being added again (chat.service.ts:646-648,
\* 715-720; that an addition demotes is not what 674 says).
CreatorProtected == [][CreatorKept]_vars

\* The group as its members see it.
Atomic ==
    INSTANCE Group WITH
        role <- [u \in Users |-> IF u \in Active THEN member[u].role ELSE "OUT"],
        since <- [u \in Users |-> member[u].joined]

\* A request that no other overlaps does what it promises at one stroke: who
\* adds is staff, who is removed is below the one who removes, roles are set by an
\* administrator, a departure leaves an administrator behind, the longest
\* standing if there was no other (chat.service.ts:551-805).
AtomicWhenAlone ==
    [][\A r \in Requests : rs[r].alone =>
         LET u == rs[r].by
             v == rs[r].target IN
         /\ Add(r) => Atomic!Admit(u, rs[r].targets)
         /\ Remove(r) => Atomic!Remove(u, v)
         /\ UpdateRole(r) => Atomic!SetRole(u, v, rs[r].newRole)
         /\ Commit(r) => Atomic!Leave(u)]_vars
=============================================================================
