-------------------------- MODULE MCRefreshTokens --------------------------
EXTENDS RefreshTokens, TLC

CONSTANTS r1, r2, r3, r4

\* Request slots are interchangeable.
Interchangeable == Permutations(Requests)
=============================================================================
