-------------------------- MODULE MCCallSignaling --------------------------
EXTENDS CallSignaling

CONSTANTS n1, n2, h1, h2, alice, bob
=============================================================================
