------------------------------- MODULE Contact -------------------------------
(***************************************************************************)
(* The per-user contact group list: the "contact" collection               *)
(* (db/model/chat/contact.go, one document per user_id under a unique      *)
(* index) and the three gRPC handlers of rpc/chat/group.go that reach it   *)
(* through the ChatDatabase wrappers.  Each handler makes one database     *)
(* call, a single-document UpdateOne or FindOne that MongoDB applies       *)
(* atomically, so each handler is one action.  The user is the one        *)
(* mctx.CheckUser takes from the token.                                    *)
(*                                                                         *)
(* change_time is stamped with time.Now(), stored in milliseconds: `now`   *)
(* is that clock, and Tick lets a millisecond pass.  create_time is never  *)
(* read and is left out.                                                   *)
(***************************************************************************)
EXTENDS Naturals

CONSTANTS
    Users,       \* user ids
    Groups,      \* group ids
    GroupLists,  \* the req.GroupIDs lists a request may carry, as sets
    MaxTime,     \* bound on the millisecond clock
    None

ASSUME GroupLists \subseteq SUBSET Groups

VARIABLES
    contacts,  \* user_id -> the contact document, or None when there is none
    now,       \* the current millisecond
    answer,    \* user -> the GroupIDs of the user's last GetGroupFromContact, or None
    last       \* the reply of the last call: [op, user, err], or None

vars == <<contacts, now, answer, last>>

\* table/chat.Contact, without the unread create_time.
ContactDoc == [groups : SUBSET Groups, change_time : 0..MaxTime]

\* The groups the document holds; a missing document holds none.
GroupsOf(u) == IF contacts[u] = None THEN {} ELSE contacts[u].groups

Reply(op, u, err) == last' = [op |-> op, user |-> u, err |-> err]

\* AddGroup with "$set" in place of "$addToSet": the list is replaced.
AddGroupSet(u, G) ==
    /\ G # {}
    /\ contacts' = [contacts EXCEPT ![u] = [groups |-> G, change_time |-> now]]

(***************************************************************************)
(* AddGroup: UpdateOne with upsert of $setOnInsert create_time,           *)
(* $addToSet groups $each groupIDs and $set change_time.  An empty request *)
(* list is a nil slice, which the driver encodes as null, and MongoDB      *)
(* rejects "$each: null": the call fails and nothing is written.          *)
(***************************************************************************)
AddGroup(u, G) ==
    /\ G # {}
    /\ contacts' = [contacts EXCEPT ![u] = [groups |-> GroupsOf(u) \cup G, change_time |-> now]]

(***************************************************************************)
(* DeleteGroup with a non-empty list: UpdateOne of $pull groups $in        *)
(* groupIDs and $set change_time, no upsert.  ModifiedCount is 0 when no   *)
(* document matched, or when the update leaves the document as it was:    *)
(* nothing pulled and change_time already this millisecond.  Then the      *)
(* call returns "no groups were deleted or user not found".               *)
(***************************************************************************)
DeleteGroup(u, G) ==
    LET doc == [groups |-> GroupsOf(u) \ G, change_time |-> now]
    IN  IF contacts[u] = None \/ contacts[u] = doc
        THEN /\ UNCHANGED contacts
             /\ Reply("Delete", u, TRUE)
        ELSE /\ contacts' = [contacts EXCEPT ![u] = doc]
             /\ Reply("Delete", u, FALSE)

\* SaveGroupToContact -> ChatDatabase.SaveGroupToContact -> AddGroup.
SaveGroupToContact(u, G) ==
    /\ \/ /\ AddGroup(u, G)
          /\ Reply("Save", u, FALSE)
       \/ /\ G = {}
          /\ UNCHANGED contacts
          /\ Reply("Save", u, TRUE)
    /\ UNCHANGED <<now, answer>>

\* DeleteGroupFromContact -> DeleteGroup, which returns nil at once for an
\* empty list.
DeleteGroupFromContact(u, G) ==
    /\ IF G = {}
       THEN /\ UNCHANGED contacts
            /\ Reply("Delete", u, FALSE)
       ELSE DeleteGroup(u, G)
    /\ UNCHANGED <<now, answer>>

(***************************************************************************)
(* GetGroupFromContact: TakeGroups (FindOne); ErrNoDocuments becomes an    *)
(* empty list, and a document without groups a non-nil empty list.        *)
(***************************************************************************)
GetGroupFromContact(u) ==
    /\ answer' = [answer EXCEPT ![u] = GroupsOf(u)]
    /\ Reply("Get", u, FALSE)
    /\ UNCHANGED <<contacts, now>>

\* A millisecond passes.
Tick ==
    /\ now < MaxTime
    /\ now' = now + 1
    /\ UNCHANGED <<contacts, answer, last>>

\* The collection starts empty; NewContact only creates the unique index.
Init ==
    /\ contacts = [u \in Users |-> None]
    /\ now = 0
    /\ answer = [u \in Users |-> None]
    /\ last = None

Next ==
    \/ \E u \in Users, G \in GroupLists :
          \/ SaveGroupToContact(u, G)
          \/ DeleteGroupFromContact(u, G)
    \/ \E u \in Users : GetGroupFromContact(u)
    \/ Tick

Spec == Init /\ [][Next]_vars

-----------------------------------------------------------------------------

\* The group set each user's documents stand for.
ABS == INSTANCE ContactSet WITH groupsOf <- [u \in Users |-> GroupsOf(u)]

(***************************************************************************)
(* The three handlers implement the abstract group set: SaveGroupToContact *)
(* adds to the user's set whether or not the document exists yet (the      *)
(* upsert), DeleteGroupFromContact removes from it, GetGroupFromContact    *)
(* returns it, the empty set for a user without a document included, and   *)
(* a failing call changes nothing.                                         *)
(***************************************************************************)
RefinesContactSet == ABS!AbsSpec

=============================================================================
