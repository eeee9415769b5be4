CONSTANTS
    u1 = u1  u2 = u2  p1 = p1  p2 = p2  p3 = p3  s1 = s1  s2 = s2
    None = None
    Users <- OneUser
    PostIDs <- TwoPostIDs
    Slots <- OneSlot
    Ops = {"Publish", "Delete"}
    PinValues = {0, 1}
    AllowValues = {1}
SYMMETRY Symmetry
SPECIFICATION Spec
PROPERTY IdNeverReused
