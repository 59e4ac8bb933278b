------------------------------ MODULE MCPreKeys ------------------------------
EXTENDS PreKeys, TLC

CONSTANTS r1, r2, r3, k1, k2

\* Request slots are interchangeable, and so are key ids.
Interchangeable == Permutations(Requests) \cup Permutations(Keys)
=============================================================================
