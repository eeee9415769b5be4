----------------------------- MODULE UserAccount -----------------------------
(***************************************************************************)
(* User accounts: the handlers AddUserAccount, DelUserAccount and         *)
(* UpdateUserInfo of rpc/chat/user.go and the ChatDatabase calls they     *)
(* make on the register, account and attribute collections.  Each        *)
(* request holds a slot; its pc names the database call it makes next,   *)
(* so requests of several slots interleave between calls.                *)
(*                                                                         *)
(* The three collection models live outside this repository (openimsdk    *)
(* chat); the model takes what their tables state: one document per      *)
(* user_id, under a unique index, so a second Create of a user_id fails   *)
(* with a duplicate key.  Register and account documents carry nothing a  *)
(* handler reads back, so they are sets of user ids; the attribute        *)
(* document keeps its account, create_time and change_account_time.      *)
(*                                                                         *)
(* Fault model: every database call may fail (a lost connection, a       *)
(* timeout, an aborted transaction).  A failure is the step Fail, a      *)
(* disjunct of Next of its own that is not in the fairness: the handler   *)
(* returns the error and the client may ask again.                        *)
(*                                                                         *)
(* `now` counts LockTime-sized steps of time.Now(); the 72-hour lock on   *)
(* account changes is LockTime.  `changedAt` is a history variable: the  *)
(* time the user's account was last set, which no code reads.            *)
(***************************************************************************)
EXTENDS Naturals

CONSTANTS
    UserIDs,     \* the ids genUserID can produce, and ids a request can carry
    Accounts,    \* account names
    Slots,       \* concurrent requests
    GenTries,    \* the 20 iterations of AddUserAccount's id loop
    LockTime,    \* 72*time.Hour
    MaxTime,     \* bound on the clock
    Admin,       \* the operator of admin type (constant.AdminUser)
    None

VARIABLES
    register,   \* user ids with a register document
    account,    \* user ids with an account document
    attribute,  \* user id -> the attribute document, or None
    now,        \* the clock
    req,        \* slot -> the request it serves
    changedAt   \* user id -> when its account was last set (history)

vars == <<register, account, attribute, now, req, changedAt>>

Time == 0..MaxTime

\* table/chat.Attribute, the fields the handlers read.
AttributeDoc == [account : Accounts, create_time : Time, change_account_time : Time]

Pcs == {"idle", "gen", "register", "take", "check", "update"}

Idle == [pc |-> "idle", op |-> None, uid |-> None, acc |-> None, tries |-> 0]

\* The users with an attribute document.
Attributed == {u \in UserIDs : attribute[u] # None}

Done(s) == req' = [req EXCEPT ![s] = Idle]

Goto(s, pc) == req' = [req EXCEPT ![s].pc = pc]

Init ==
    /\ register = {}
    /\ account = {}
    /\ attribute = [u \in UserIDs |-> None]
    /\ now = 0
    /\ req = [s \in Slots |-> Idle]
    /\ changedAt = [u \in UserIDs |-> None]

(***************************************************************************)
(* AddUserAccount: mctx.Check, then checkTheUniqueness, whose body is     *)
(* commented out and returns nil.  A request without a UserID goes to    *)
(* the id loop; one with a UserID goes straight to RegisterUser.         *)
(***************************************************************************)
StartAddUserAccount(s, uid, acc) ==
    /\ req[s].pc = "idle"
    /\ req' = [req EXCEPT ![s] = [pc |-> IF uid = None THEN "gen" ELSE "register",
                                  op |-> "AddUserAccount", uid |-> uid,
                                  acc |-> acc, tries |-> 0]]
    /\ UNCHANGED <<register, account, attribute, now, changedAt>>

\* The id loop running one iteration too many (i <= 20).
GenUserIDOneMore(s) ==
    /\ req[s].pc = "gen"
    /\ \/ /\ req[s].tries <= GenTries
          /\ \E id \in UserIDs :
                req' = [req EXCEPT ![s] =
                          IF id \in account
                          THEN [@ EXCEPT !.tries = @ + 1]
                          ELSE [@ EXCEPT !.uid = id, !.pc = "register"]]
       \/ /\ req[s].tries = GenTries + 1
          /\ Done(s)
    /\ UNCHANGED <<register, account, attribute, now, changedAt>>

(***************************************************************************)
(* One iteration of the loop: genUserID, then GetUser, a Take on the      *)
(* account collection.  Found: continue.  Not found: the id is taken.    *)
(* After GenTries iterations the request fails with "gen user id failed". *)
(***************************************************************************)
GenUserID(s) ==
    /\ req[s].pc = "gen"
    /\ \/ /\ req[s].tries < GenTries
          /\ \E id \in UserIDs :
                req' = [req EXCEPT ![s] =
                          IF id \in account
                          THEN [@ EXCEPT !.tries = @ + 1]
                          ELSE [@ EXCEPT !.uid = id, !.pc = "register"]]
       \/ /\ req[s].tries = GenTries
          /\ Done(s)
    /\ UNCHANGED <<register, account, attribute, now, changedAt>>

\* RegisterUser as an upsert: a second registration of an id overwrites it.
RegisterUserUpsert(s) ==
    LET u == req[s].uid
    IN  /\ req[s].pc = "register"
        /\ register' = register \cup {u}
        /\ account' = account \cup {u}
        /\ attribute' = [attribute EXCEPT ![u] =
                           [account |-> req[s].acc, create_time |-> now,
                            change_account_time |-> now]]
        /\ changedAt' = [changedAt EXCEPT ![u] = now]
        /\ Done(s)
        /\ UNCHANGED now

\* RegisterUser with the three Creates made one by one, with no transaction:
\* k of them succeed before one fails, and those k documents stay.
RegisterUserNoTx(s) ==
    LET u == req[s].uid
    IN  /\ req[s].pc = "register"
        /\ u \notin register
        /\ \E k \in 1..3 :
              /\ register' = register \cup {u}
              /\ account' = IF k >= 2 THEN account \cup {u} ELSE account
              /\ attribute' = IF k = 3
                              THEN [attribute EXCEPT ![u] =
                                      [account |-> req[s].acc, create_time |-> now,
                                       change_account_time |-> now]]
                              ELSE attribute
              /\ changedAt' = IF k = 3 THEN [changedAt EXCEPT ![u] = now] ELSE changedAt
        /\ Done(s)
        /\ UNCHANGED now

(***************************************************************************)
(* RegisterUser: one tx.Transaction creating the register, account and   *)
(* attribute documents, all stamped with the same time.Now();            *)
(* change_account_time starts at create_time.  A duplicate key on any of *)
(* the three aborts the transaction and nothing is written.              *)
(***************************************************************************)
RegisterUser(s) ==
    LET u == req[s].uid
    IN  /\ req[s].pc = "register"
        /\ IF u \notin register /\ u \notin account /\ attribute[u] = None
           THEN /\ register' = register \cup {u}
                /\ account' = account \cup {u}
                /\ attribute' = [attribute EXCEPT ![u] =
                                   [account |-> req[s].acc, create_time |-> now,
                                    change_account_time |-> now]]
                /\ changedAt' = [changedAt EXCEPT ![u] = now]
           ELSE UNCHANGED <<register, account, attribute, changedAt>>
        /\ Done(s)
        /\ UNCHANGED now

(***************************************************************************)
(* ChatDatabase.DelUserAccount: one transaction deleting the ids'       *)
(* documents from the three collections.  When a Delete fails the       *)
(* transaction aborts and nothing changes.                              *)
(***************************************************************************)
DeleteUsers(U) ==
    /\ register' = register \ U
    /\ account' = account \ U
    /\ attribute' = [u \in UserIDs |-> IF u \in U THEN None ELSE attribute[u]]

\* The handler: one database call, ErrNoDocuments ignored, nil returned.
DelUserAccount(s, U) ==
    /\ req[s].pc = "idle"
    /\ U # {}
    /\ DeleteUsers(U)
    /\ UNCHANGED <<now, req, changedAt>>

(***************************************************************************)
(* ToDBAttributeUpdate turns the request's optional fields into a $set  *)
(* map: `acc` is the account field, None when left out, and `other`     *)
(* says whether some other field is set (an empty nickname counts as    *)
(* none, since it is refused).  An empty map is refused.  The map never *)
(* holds change_account_time.                                           *)
(***************************************************************************)
ToDBAttributeUpdate(acc, other) == acc # None \/ other

(***************************************************************************)
(* UpdateUserInfo: mctx.Check; an empty UserID is refused; a normal user *)
(* may update only itself, an admin anyone.  Then ToDBAttributeUpdate.   *)
(***************************************************************************)
StartUpdateUserInfo(s, op, uid, acc, other) ==
    /\ req[s].pc = "idle"
    /\ op \in {Admin, uid}
    /\ ToDBAttributeUpdate(acc, other)
    /\ req' = [req EXCEPT ![s] = [pc |-> "take", op |-> "UpdateUserInfo",
                                  uid |-> uid, acc |-> acc, tries |-> 0]]
    /\ UNCHANGED <<register, account, attribute, now, changedAt>>

(***************************************************************************)
(* TakeAttributeByUserID; not found is returned as an error.  A new     *)
(* account is refused while less than 72 hours have passed since the    *)
(* document's change_account_time, and otherwise checked for a holder.  *)
(***************************************************************************)
TakeAttribute(s) ==
    LET doc == attribute[req[s].uid]
        acc == req[s].acc
    IN  /\ req[s].pc = "take"
        /\ CASE doc = None -> Done(s)
             [] acc # None /\ acc # doc.account ->
                  IF now - doc.change_account_time < LockTime
                  THEN Done(s)
                  ELSE Goto(s, "check")
             [] OTHER -> Goto(s, "update")
        /\ UNCHANGED <<register, account, attribute, now, changedAt>>

\* TakeAttributeByAccount: a holder of the account refuses the change.
CheckAccount(s) ==
    /\ req[s].pc = "check"
    /\ IF \E u \in Attributed : attribute[u].account = req[s].acc
       THEN Done(s)
       ELSE Goto(s, "update")
    /\ UNCHANGED <<register, account, attribute, now, changedAt>>

(***************************************************************************)
(* UpdateUseInfo: attribute.Update, an UpdateOne $set of the map on the *)
(* user's document; a document deleted in the meantime matches nothing. *)
(***************************************************************************)
UpdateUseInfo(s) ==
    LET u == req[s].uid
        acc == req[s].acc
    IN  /\ req[s].pc = "update"
        /\ IF attribute[u] # None /\ acc # None /\ acc # attribute[u].account
           THEN /\ attribute' = [attribute EXCEPT ![u].account = acc]
                /\ changedAt' = [changedAt EXCEPT ![u] = now]
           ELSE UNCHANGED <<attribute, changedAt>>
        /\ Done(s)
        /\ UNCHANGED <<register, account, now>>

\* A database call of the slot fails: the handler returns the error.
Fail(s) ==
    /\ req[s].pc \notin {"idle"}
    /\ Done(s)
    /\ UNCHANGED <<register, account, attribute, now, changedAt>>

Tick ==
    /\ now < MaxTime
    /\ now' = now + 1
    /\ UNCHANGED <<register, account, attribute, req, changedAt>>

\* The steps a started request takes until it replies.
Step(s) ==
    \/ GenUserID(s)
    \/ RegisterUser(s)
    \/ TakeAttribute(s)
    \/ CheckAccount(s)
    \/ UpdateUseInfo(s)

Next ==
    \/ \E s \in Slots :
          \/ \E uid \in UserIDs \cup {None}, acc \in Accounts :
                StartAddUserAccount(s, uid, acc)
          \/ \E op \in UserIDs \cup {Admin}, uid \in UserIDs,
                acc \in Accounts \cup {None}, other \in BOOLEAN :
                StartUpdateUserInfo(s, op, uid, acc, other)
          \/ \E U \in SUBSET UserIDs : DelUserAccount(s, U)
          \/ Step(s)
          \/ Fail(s)
    \/ Tick

\* The properties checked of the account handlers are safety properties.
Spec == Init /\ [][Next]_vars

-----------------------------------------------------------------------------

TypeOK ==
    /\ register \subseteq UserIDs
    /\ account \subseteq UserIDs
    /\ attribute \in [UserIDs -> AttributeDoc \cup {None}]
    /\ now \in Time
    /\ changedAt \in [UserIDs -> Time \cup {None}]
    /\ \A s \in Slots : req[s].pc \in Pcs /\ req[s].tries \in 0..GenTries

(***************************************************************************)
(* RegisterUser and DelUserAccount write the register, account and      *)
(* attribute collections together: whatever fails, and however requests *)
(* interleave, a user id has all three documents or none.               *)
(***************************************************************************)
RecordsConsistent ==
    /\ register = account
    /\ account = Attributed

(***************************************************************************)
(* AddUserAccount checks with GetUser that a generated id is free and   *)
(* registers it in a later call.  An existing attribute document is     *)
(* never replaced by another registration: it changes only by the       *)
(* UpdateUseInfo of its own user, which sets the requested account.     *)
(***************************************************************************)
RegistrationNeverOverwrites ==
    [][\A u \in Attributed :
          attribute'[u] \notin {None, attribute[u]} =>
             \E s \in Slots :
                /\ req[s].pc = "update"
                /\ req[s].uid = u
                /\ attribute'[u] = [attribute[u] EXCEPT !.account = req[s].acc]]_vars

(***************************************************************************)
(* The 72-hour lock of UpdateUserInfo: a user's account changes only    *)
(* when LockTime has passed since it was last set, at registration or by *)
(* an earlier change.                                                   *)
(***************************************************************************)
AccountLockHonoured ==
    [][\A u \in Attributed :
          /\ attribute'[u] # None
          /\ attribute'[u].account # attribute[u].account
          => now - changedAt[u] >= LockTime]_vars

=============================================================================
