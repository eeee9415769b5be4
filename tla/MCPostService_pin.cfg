\* One request at a time: the owner-only handlers and pinning.
CONSTANTS
    u1 = u1  u2 = u2  p1 = p1  p2 = p2  p3 = p3  s1 = s1  s2 = s2
    None = None
    Users <- MCUsers
    PostIDs <- MCPostIDs
    Slots <- OneSlot
    Ops = {"Publish", "Reference", "Pin", "AllowComment", "AllowForward", "Delete"}
    PinValues = {0, 1, 2}
    AllowValues = {0, 1}
SYMMETRY Symmetry
SPECIFICATION Spec
 
INVARIANT PinnedAtMostOne
