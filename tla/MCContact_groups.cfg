\* Two users saving, deleting and reading lists of two groups over three milliseconds.
CONSTANTS
    u1 = u1  u2 = u2  g1 = g1  g2 = g2
    None = None
    Users <- MCUsers
    Groups <- MCGroups
    GroupLists <- MCGroupLists
    MaxTime = 2
SPECIFICATION Spec
PROPERTY RefinesContactSet
