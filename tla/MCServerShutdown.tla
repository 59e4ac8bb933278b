------------------------ MODULE MCServerShutdown ------------------------
EXTENDS ServerShutdown

CONSTANTS ephemeral, media, j1, j2, j3

\* Two jobs of one worker and one of another.
TwoQueues == [j \in Jobs |-> IF j = j3 THEN media ELSE ephemeral]
=============================================================================
