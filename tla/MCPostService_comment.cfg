\* Two concurrent requests of one user: comments racing with likes on the
\* relation CommentPost looked up before its transaction, likes and forwards
\* writing flags of one relation, and publishers racing on a generated id.
CONSTANTS
    u1 = u1  u2 = u2  p1 = p1  p2 = p2  p3 = p3  s1 = s1  s2 = s2
    None = None
    Users <- OneUser
    PostIDs <- TwoPostIDs
    Slots <- TwoSlots
    Ops = {"Publish", "Comment", "Forward", "Like"}
    PinValues = {0, 1}
    AllowValues = {1}
SYMMETRY Symmetry
SPECIFICATION Spec
INVARIANT CommentHasRelation
PROPERTY FlagWritesAuthorized
PROPERTY PostIdentityImmutable
