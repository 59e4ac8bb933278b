------------------------- MODULE MCMessageContent -------------------------
EXTENDS MessageContent

CONSTANTS alice, bob
=============================================================================
