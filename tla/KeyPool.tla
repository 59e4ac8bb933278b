------------------------------- MODULE KeyPool -------------------------------
(***************************************************************************)
(* What a pool of one-time keys promises.  A request that began after      *)
(* another one was answered never gets that one's key: a key goes twice    *)
(* only to requests that overlap.  A request goes without a key only when  *)
(* every key put in has been given.                                        *)
(***************************************************************************)
CONSTANTS Keys, Requests

VARIABLES
    stored,     \* every key ever put in
    begun,
    after,      \* for each request, those answered before it began
    given,      \* <<request, key>> pairs
    refused     \* requests answered without a key

vars == <<stored, begun, after, given, refused>>

Answered == {g[1] : g \in given} \cup refused

Init ==
    /\ stored = {}
    /\ begun = {}
    /\ after = [r \in Requests |-> {}]
    /\ given = {}
    /\ refused = {}

Put(S) ==
    /\ stored' = stored \cup S
    /\ UNCHANGED <<begun, after, given, refused>>

Begin(r) ==
    /\ r \notin begun
    /\ begun' = begun \cup {r}
    /\ after' = [after EXCEPT ![r] = Answered]
    /\ UNCHANGED <<stored, given, refused>>

Waiting(r) == r \in begun \ Answered

Take(r, k) ==
    /\ Waiting(r)
    /\ k \in stored
    /\ \A q \in after[r] : <<q, k>> \notin given
    /\ given' = given \cup {<<r, k>>}
    /\ UNCHANGED <<stored, begun, after, refused>>

Refuse(r) ==
    /\ Waiting(r)
    /\ \A k \in stored : \E q \in Requests : <<q, k>> \in given
    /\ refused' = refused \cup {r}
    /\ UNCHANGED <<stored, begun, after, given>>

Next ==
    \/ \E S \in SUBSET Keys : Put(S)
    \/ \E r \in Requests : Begin(r) \/ Refuse(r) \/ \E k \in Keys : Take(r, k)

Spec == Init /\ [][Next]_vars
=============================================================================
