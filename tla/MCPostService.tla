---------------------------- MODULE MCPostService ----------------------------
(* Model-checking instance of PostService: users and post ids are model    *)
(* values, and the relation keys are symmetric in both.                    *)
EXTENDS PostService

CONSTANTS u1, u2, p1, p2, p3, s1, s2

MCUsers == {u1, u2}
OneUser == {u1}
MCPostIDs == {p1, p2, p3}
TwoPostIDs == {p1, p2}
OneSlot == {s1}
TwoSlots == {s1, s2}

Symmetry == Permutations(MCUsers) \cup Permutations(MCPostIDs)
TwoPostSymmetry == Permutations(MCUsers) \cup Permutations(TwoPostIDs)
=============================================================================
