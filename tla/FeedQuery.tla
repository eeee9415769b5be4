------------------------------- MODULE FeedQuery -------------------------------
(***************************************************************************)
(* Which posts each feed query of rpc/chat/post.go selects, over the store *)
(* PostService evolves: GetPostList's switch on req.Type, GetAllTypePost,  *)
(* GetPostListByUser and GetCommentPostListByPostID, down to the filters   *)
(* of db/model/chat/post.go and the id lists of user_post_relation.go.    *)
(* A feed here is the set of posts its filter matches, the union of the    *)
(* pages a client reads with the cursor; how that set is cut into pages    *)
(* is CursorPager's subject.  The friend_relation collection the follow   *)
(* and subscribe feeds read belongs to the IM server and is a constant.   *)
(***************************************************************************)
EXTENDS FeedView

CONSTANTS
    Following,   \* pairs <<owner, related>> with is_following = 1
    Subscribed,  \* pairs <<owner, related>> with is_subscribed = 1
    Blocked      \* pairs <<owner, related>> with is_blocked = 1

ASSUME {Following, Subscribed, Blocked} \subseteq SUBSET (Users \X Users)

\* The req.Type values of constant.go.
FeedTypes == [Follow |-> 0, Subscribe |-> 1, Reply |-> 2, Like |-> 3, Collect |-> 4]

\* A post whose comment_post_id is set and not empty.
IsComment(p) == posts[p].comment_post_id # None

\* GetFollowedUserIDs / GetSubscriberUserIDs: the related_user_id of the
\* owner's friend_relation documents with the flag set and is_blocked 0.
GetFollowedUserIDs(u) == {v \in Users : <<u, v>> \in Following \ Blocked}
GetSubscriberUserIDs(u) == {v \in Users : <<u, v>> \in Subscribed \ Blocked}

\* GetCommentPostIDsByUser: the post_id of u's posts that comment on one.
GetCommentPostIDsByUser(u) == {p \in Live(posts) : posts[p].user_id = u /\ IsComment(p)}

\* GetLikedPostIDs / GetCollectedPostIDs: the post_id of u's relations
\* with the flag set, the deleted posts' relations included.
GetLikedPostIDs(u) == {p \in PostIDs : rels[<<u, p>>] # None /\ rels[<<u, p>>].is_liked = 1}
GetCollectedPostIDs(u) == {p \in PostIDs : rels[<<u, p>>] # None /\ rels[<<u, p>>].is_collected = 1}

\* The ChatDatabase wrappers GetPostList calls for the relation id lists.
GetPostIDsByLike(u) == GetLikedPostIDs(u)
GetPostIDsByCollect(u) == GetCollectedPostIDs(u)

\* The filters of the cursor queries, over the live posts.
GetPostsByCursorAndUserIDs(U) == {p \in Live(posts) : posts[p].user_id \in U /\ ~IsComment(p)}
GetPostsByCursorAndUser(u) == {p \in Live(posts) : posts[p].user_id = u}
GetPostsByCursorAndPostIDs(I) == Live(posts) \cap I
GetCommentPostsByPostID(q) == {p \in Live(posts) : posts[p].comment_post_id = q}

(***************************************************************************)
(* GetPostList for the authenticated user u: the follow feed is u's own    *)
(* and the followed users' posts; any type outside constant.go's five     *)
(* falls to the default branch, u's own posts.                            *)
(***************************************************************************)
GetPostList(u, t) ==
    CASE t = FeedTypes.Follow    -> GetPostsByCursorAndUserIDs({u} \cup GetFollowedUserIDs(u))
      [] t = FeedTypes.Subscribe -> GetPostsByCursorAndUserIDs(GetSubscriberUserIDs(u))
      [] t = FeedTypes.Reply     -> GetPostsByCursorAndPostIDs(GetCommentPostIDsByUser(u))
      [] t = FeedTypes.Like      -> GetPostsByCursorAndPostIDs(GetPostIDsByLike(u))
      [] t = FeedTypes.Collect   -> GetPostsByCursorAndPostIDs(GetPostIDsByCollect(u))
      [] OTHER                   -> GetPostsByCursorAndUser(u)

\* GetAllTypePost: GetPostList for each of the five types, in order.
GetAllTypePost(u) == [n \in DOMAIN FeedTypes |-> GetPostList(u, FeedTypes[n])]

\* GetPostListByUser: any user's posts, pinned first; no viewer check.
GetPostListByUser(v) == GetPostsByCursorAndUser(v)

\* GetCommentPostListByPostID: the posts that comment on q.
GetCommentPostListByPostID(q) == GetCommentPostsByPostID(q)


=============================================================================
