------------------------------ MODULE MCContact ------------------------------
EXTENDS Contact, TLC

CONSTANTS u1, u2, g1, g2

MCUsers == {u1, u2}
MCGroups == {g1, g2}

\* Every list a request can carry, the empty (nil) one included.
MCGroupLists == SUBSET MCGroups

Symmetry == Permutations(MCUsers) \cup Permutations(MCGroups)

=============================================================================
