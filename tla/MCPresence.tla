---------------------------- MODULE MCPresence ----------------------------
EXTENDS Presence

CONSTANTS n1, n2, s1, s2, s3, o1

\* Everything is connected to the first node, except s3.
Placement == [x \in Sockets \cup Logouts |-> IF x = s3 THEN n2 ELSE n1]
=============================================================================
