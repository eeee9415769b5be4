\* One request at a time; posts linked by forward, comment and ref, with
\* deletes so that reused ids can close cycles of links.
CONSTANTS
    u1 = u1  u2 = u2  p1 = p1  p2 = p2  p3 = p3  s1 = s1  s2 = s2
    None = None
    Users <- MCUsers
    PostIDs <- TwoPostIDs
    Slots <- OneSlot
    Ops = {"Comment", "Forward", "Like"}
    PinValues = {0, 1}
    AllowValues = {1}
    Following <- MCFollowing
    Subscribed <- MCSubscribed
    Blocked <- MCBlocked
SYMMETRY TwoPostSymmetry
SPECIFICATION Spec
INVARIANT ViewMatchesSpec
