---------------------------- MODULE MCUserAccount ----------------------------
EXTENDS UserAccount, TLC

CONSTANTS u1, u2, a1, a2, s1, s2, admin

MCUserIDs == {u1, u2}
MCAccounts == {a1, a2}
MCSlots == {s1, s2}
OneSlot == {s1}

=============================================================================
