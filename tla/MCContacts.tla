---------------------------- MODULE MCContacts ----------------------------
EXTENDS Contacts, TLC

CONSTANTS alice, bob

\* The two users are interchangeable.
Interchangeable == Permutations(Users)
=============================================================================
