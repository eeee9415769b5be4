----------------------------- MODULE CursorPager -----------------------------
(***************************************************************************)
(* A client paging through one feed with dbutil.FindPageWithCursor, the    *)
(* way GetPostList, GetPostListByUser and GetCommentPostListByPostID call  *)
(* it: cursor field "CreateTime", sort direction -1, limit = req.Count.    *)
(*                                                                         *)
(* Items are the posts the feed's filter matches.  Post.Create stamps      *)
(* create_time with time.Now(), which MongoDB stores in milliseconds, so   *)
(* a post's time is a millisecond count and two posts may share one.  The  *)
(* cursor handed back is the last result's CreateTime in milliseconds      *)
(* (getFieldValue: UnixMilli, formatted; the handler parses it back), and  *)
(* the next call turns it into time.Unix(0, cursor*ms): on millisecond     *)
(* values the round trip is exact, so a cursor is the millisecond itself.  *)
(* MongoDB's $sort does not order documents with equal sort keys, so a     *)
(* page is any prefix of length limit of an order consistent with the      *)
(* sort.  The client follows the caller contract of the spec: it asks      *)
(* again with the returned cursor until a page is shorter than Count.      *)
(***************************************************************************)
EXTENDS Naturals, FiniteSets

CONSTANTS
    Items,         \* the posts the feed's filter matches (model values)
    CtimeChoices,  \* the create_time assignments [Items -> Nat \ {0}] to try
    PinnedChoices, \* the sets of posts with is_pined = 1 to try
    PinnedSort,    \* TRUE: sortByPinedAndCreateTime (default feed), else sortByCreateTime
    PageSizes,     \* values of req.Count
    MaxPages       \* bound on the number of calls of one paging session

ASSUME /\ PageSizes \subseteq Nat \ {0}
       /\ MaxPages \in Nat

VARIABLES
    ctime,     \* create_time of every post
    pinned,    \* posts with is_pined = 1
    count,     \* req.Count of the session
    cursor,    \* req.NextCursor of the next call; 0 on the first call
    returned,  \* how many times each post has been returned so far
    pages,     \* calls made
    done       \* the client has seen a short page and stopped

vars == <<ctime, pinned, count, cursor, returned, pages, done>>

Before(x, y) ==
    IF PinnedSort /\ ((x \in pinned) # (y \in pinned))
    THEN x \in pinned
    ELSE ctime[x] > ctime[y]

Matching(c) == {i \in Items : c = 0 \/ ctime[i] < c}

(***************************************************************************)
(* The pages $sort then $limit can return: limit posts (or all that        *)
(* match, if fewer) such that no post left out sorts ahead of one taken.   *)
(***************************************************************************)
Pages(c) ==
    LET M == Matching(c)
        n == IF Cardinality(M) < count THEN Cardinality(M) ELSE count
    IN  {S \in SUBSET M :
            /\ Cardinality(S) = n
            /\ \A x \in S, y \in M \ S : ~Before(y, x)}

NextCursor(S) ==
    IF S = {} THEN 0 ELSE ctime[CHOOSE x \in S : \A y \in S : ~Before(x, y)]

Init ==
    /\ ctime \in CtimeChoices
    /\ pinned \in PinnedChoices
    /\ count \in PageSizes
    /\ cursor = 0
    /\ returned = [i \in Items |-> 0]
    /\ pages = 0
    /\ done = FALSE

(***************************************************************************)
(* One call of the feed query and the client's reaction to it.             *)
(***************************************************************************)
FetchPage ==
    /\ ~done
    /\ pages < MaxPages
    /\ \E S \in Pages(cursor) :
          /\ returned' = [i \in Items |-> IF i \in S THEN returned[i] + 1 ELSE returned[i]]
          /\ cursor' = NextCursor(S)
          /\ done' = (Cardinality(S) < count)
    /\ pages' = pages + 1
    /\ UNCHANGED <<ctime, pinned, count>>

Next == FetchPage

\* The client keeps calling while it has not seen a short page.
Spec == Init /\ [][Next]_vars /\ WF_vars(FetchPage)

-----------------------------------------------------------------------------

TypeOK ==
    /\ cursor \in Nat
    /\ returned \in [Items -> 0..MaxPages]
    /\ pages \in 0..MaxPages
    /\ done \in BOOLEAN

=============================================================================
