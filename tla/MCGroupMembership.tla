------------------------- MODULE MCGroupMembership -------------------------
EXTENDS GroupMembership, TLC

CONSTANTS alice, bob, carol

\* The users other than the creator are interchangeable (Oldest is a set:
\* ties are broken by \E).
Interchangeable == Permutations(Users \ {Creator})
=============================================================================
