---------------------------- MODULE MCStories ----------------------------
EXTENDS Stories, TLC

CONSTANTS alice, bob

\* The two users are interchangeable.
Interchangeable == Permutations(Users)

Offer(source, privacy, allowed) == [source |-> source, privacy |-> privacy, allowed |-> allowed]

\* Every source, every privacy, and each with the other user and without.
FourOffers ==
    {Offer("inline", "ALL_CONTACTS", {}), Offer("uploaded", "SELECTED", Users),
     Offer("link", "SELECTED", {}), Offer("shared", "CLOSE_FRIENDS", Users)}
=============================================================================
