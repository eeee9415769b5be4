\* Two concurrent requests adding, deleting and updating two users' accounts, with failing database calls.
CONSTANTS
    u1 = u1  u2 = u2  a1 = a1  a2 = a2  s1 = s1  s2 = s2
    admin = admin
    None = None
    Admin = admin
    UserIDs <- MCUserIDs
    Accounts <- MCAccounts
    Slots <- MCSlots
    GenTries = 2
    LockTime = 1
    MaxTime = 1
SPECIFICATION Spec
INVARIANT TypeOK
INVARIANT RecordsConsistent
PROPERTY RegistrationNeverOverwrites
