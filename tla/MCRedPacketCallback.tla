------------------------- MODULE MCRedPacketCallback -------------------------
EXTENDS RedPacketCallback, TLC

CONSTANTS m1, m2

MCMsgs == {m1, m2}

Symmetry == Permutations(MCMsgs)

=============================================================================
