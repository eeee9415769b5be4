\* One request at a time: a user's account changed right after an earlier change.
CONSTANTS
    u1 = u1  u2 = u2  a1 = a1  a2 = a2  s1 = s1  s2 = s2
    admin = admin
    None = None
    Admin = admin
    UserIDs <- MCUserIDs
    Accounts <- MCAccounts
    Slots <- OneSlot
    GenTries = 2
    LockTime = 1
    MaxTime = 2
SPECIFICATION Spec
PROPERTY AccountLockHonoured
