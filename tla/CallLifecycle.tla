--------------------------- MODULE CallLifecycle ---------------------------
(***************************************************************************)
(* What call signalling promises, without nodes, timers, handlers or       *)
(* statuses: a call is placed; it may be answered and it may be over, and  *)
(* neither is ever taken back; the caller's channel carries "accepted"     *)
(* only for an answered call and a final event only for a call that is     *)
(* over; and the conversation shows a call entry only for a call that is   *)
(* over, as ENDED only if the call was answered.                           *)
(***************************************************************************)
CONSTANT Calls

VARIABLES
    placed,     \* calls whose CallLog row exists
    answered,   \* calls with an answer time
    over,       \* calls with an end time
    heard,      \* <<call, event>> pairs emitted to the caller's channel
    logged      \* <<call, status>> pairs of the CALL_LOG messages

vars == <<placed, answered, over, heard, logged>>

FinalEvents == {"rejected", "ended", "missed"}
Events == {"ringing", "accepted"} \cup FinalEvents
LogStatuses == {"REJECTED", "BUSY", "MISSED", "ENDED", "CANCELLED"}

Init == placed = {} /\ answered = {} /\ over = {} /\ heard = {} /\ logged = {}

Place(c) ==
    /\ placed' = placed \cup {c}
    /\ UNCHANGED <<answered, over, heard, logged>>

Answer(c) ==
    /\ c \in placed
    /\ answered' = answered \cup {c}
    /\ UNCHANGED <<placed, over, heard, logged>>

Finish(c) ==
    /\ c \in placed
    /\ over' = over \cup {c}
    /\ UNCHANGED <<placed, answered, heard, logged>>

\* The caller may hear of an answer or of an end only once it is recorded.
Hear(c, e) ==
    /\ c \in placed
    /\ e = "accepted" => c \in answered
    /\ e \in FinalEvents => c \in over
    /\ heard' = heard \cup {<<c, e>>}
    /\ UNCHANGED <<placed, answered, over, logged>>

Log(c, s) ==
    /\ c \in over
    /\ s = "ENDED" => c \in answered
    /\ logged' = logged \cup {<<c, s>>}
    /\ UNCHANGED <<placed, answered, over, heard>>

Next ==
    \E c \in Calls :
        \/ Place(c)
        \/ Answer(c)
        \/ Finish(c)
        \/ \E e \in Events : Hear(c, e)
        \/ \E s \in LogStatuses : Log(c, s)

Spec == Init /\ [][Next]_vars
=============================================================================
