------------------------------ MODULE ContactSet ------------------------------
(***************************************************************************)
(* What the contact group list promises (spec section 3, Contact): a       *)
(* mapping from each user to a set of group ids, read with GetGroups and   *)
(* changed by AddGroup (set union) and DeleteGroup (set difference).  A    *)
(* user who never saved a group has the empty set.  A call that fails     *)
(* changes nothing, which is a stuttering step here.                      *)
(***************************************************************************)
CONSTANTS Users, Groups, None

VARIABLES
    groupsOf,  \* the groups each user has saved
    answer     \* what the user's last read returned; None before any read

absVars == <<groupsOf, answer>>

AbsInit ==
    /\ groupsOf = [u \in Users |-> {}]
    /\ answer = [u \in Users |-> None]

Add(u, G) ==
    /\ groupsOf' = [groupsOf EXCEPT ![u] = @ \cup G]
    /\ UNCHANGED answer

Remove(u, G) ==
    /\ groupsOf' = [groupsOf EXCEPT ![u] = @ \ G]
    /\ UNCHANGED answer

Get(u) ==
    /\ answer' = [answer EXCEPT ![u] = groupsOf[u]]
    /\ UNCHANGED groupsOf

AbsNext == \E u \in Users, G \in SUBSET Groups : Add(u, G) \/ Remove(u, G) \/ Get(u)

AbsSpec == AbsInit /\ [][AbsNext]_absVars

=============================================================================
