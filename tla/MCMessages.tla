---------------------------- MODULE MCMessages ----------------------------
EXTENDS Messages, TLC

CONSTANTS alice, bob, carol

\* The members who are no staff are interchangeable.
Interchangeable == Permutations(Users \ Staff)
=============================================================================
