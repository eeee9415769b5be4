------------------------------- MODULE FeedView -------------------------------
(***************************************************************************)
(* The annotated post view every read returns, over the store PostService  *)
(* evolves: Post.Take and every FindPageWithCursor call run the pipeline   *)
(* of GetAggregationPipeline (db/model/chat/post.go), and the handlers     *)
(* convert its result with convert.PostDB2Pb.                              *)
(*                                                                         *)
(* A view is a record: the annotations the pipeline's $addFields computes  *)
(* for the viewer opUserID, and the forward, comment and referenced posts  *)
(* that lookupPost joins and unwindPost flattens, themselves views, down   *)
(* to the depth GetAggregationPipeline passes.  The user profiles and the  *)
(* @-mention list are joins on another collection and are left out.       *)
(* Reads are single aggregations, so a view is a function of the store at  *)
(* one instant: the properties are invariants of PostService's behaviours. *)
(***************************************************************************)
EXTENDS PostService, Integers

\* The posts a view embeds, by the post field holding the target's id.
Links == [forward_post |-> "forward_post_id", comment_post |-> "comment_post_id",
          ref_post |-> "ref_post_id"]

\* The maxDepth GetAggregationPipeline gives every lookupPost.
PipelineDepth == 2

\* getCountField: $size of the joined relations whose flag f is 1.
RelCount(p, f) == Cardinality({w \in Users : rels[<<w, p>>] # None /\ rels[<<w, p>>][f] = 1})

\* getIsField: 1 when a joined relation of the viewer u has flag f set.
IsFlag(u, p, f) == IF rels[<<u, p>>] # None /\ rels[<<u, p>>][f] = 1 THEN 1 ELSE 0

\* lookupCommentPostsByUserID then getCommentCountField: the posts that
\* comment on p and were written by the viewer u; 0 when there are none.
CommentCountOf(u, p) ==
    Cardinality({q \in Live(posts) : posts[q].comment_post_id = p /\ posts[q].user_id = u})

RECURSIVE CodeView(_, _, _), Resolved(_, _, _)

\* lookupPost with the depth test "maxDepth < 0" in place of "<= 0".
ResolvedDeeper(u, q, d) ==
    IF d < 0 \/ q = None \/ posts[q] = None THEN None ELSE CodeView(u, q, d - 1)

(***************************************************************************)
(* lookupPost(t, opUserID, d) then unwindPost(t): at depth 0 the field is  *)
(* set to null; otherwise the post whose post_id is the link field, run    *)
(* through the same stages with depth d-1, or nothing (the field is        *)
(* dropped by the unwind and decodes as nil) when no live post has it.     *)
(***************************************************************************)
Resolved(u, q, d) ==
    IF d <= 0 \/ q = None \/ posts[q] = None THEN None ELSE CodeView(u, q, d - 1)

(***************************************************************************)
(* One post after the stages of the pipeline, decoded into table/chat.Post *)
(* and converted by PostDB2Pb.  The Post struct reads its pin state from   *)
(* the bson field "is_pinned", which no document has (PinPost sets         *)
(* "is_pined"), so it decodes as 0.                                        *)
(***************************************************************************)
CodeView(u, p, d) ==
    [n \in DOMAIN Links |-> Resolved(u, posts[p][Links[n]], d)] @@
    [post_id       |-> p,
     comment_count |-> CommentCountOf(u, p),
     like_count    |-> RelCount(p, "is_liked"),
     forward_count |-> RelCount(p, "is_forwarded"),
     is_liked      |-> IsFlag(u, p, "is_liked"),
     is_collected  |-> IsFlag(u, p, "is_collected"),
     is_commented  |-> IsFlag(u, p, "is_commented"),
     is_forwarded  |-> IsFlag(u, p, "is_forwarded"),
     is_pinned     |-> 0]

\* What GetPostByID(p) returns to viewer u.
ViewOf(u, p) == CodeView(u, p, PipelineDepth)

-----------------------------------------------------------------------------
(* The view as spec section 4.3 describes it, written independently: the   *)
(* level of a post counts up from the root, and a post at level 2 embeds   *)
(* no further posts.                                                       *)

SpecMaxDepth == 2

RECURSIVE SpecView(_, _, _)
SpecView(u, p, level) ==
    LET target(n) == posts[p][Links[n]]
        embedded(n) ==
            IF level < SpecMaxDepth /\ target(n) \in Live(posts)
            THEN SpecView(u, target(n), level + 1) ELSE None
        flagged(f) == {k \in RelKeys : k[2] = p /\ rels[k] # None /\ rels[k][f] = 1}
    IN
    [n \in DOMAIN Links |-> embedded(n)] @@
    [post_id       |-> p,
     comment_count |-> Cardinality({q \in Live(posts) : posts[q].comment_post_id = p}),
     like_count    |-> Cardinality(flagged("is_liked")),
     forward_count |-> Cardinality(flagged("is_forwarded")),
     is_liked      |-> IF <<u, p>> \in flagged("is_liked") THEN 1 ELSE 0,
     is_collected  |-> IF <<u, p>> \in flagged("is_collected") THEN 1 ELSE 0,
     is_commented  |-> IF <<u, p>> \in flagged("is_commented") THEN 1 ELSE 0,
     is_forwarded  |-> IF <<u, p>> \in flagged("is_forwarded") THEN 1 ELSE 0,
     is_pinned     |-> posts[p].is_pined]

\* Two views agree on the fields F, at every level of embedding.
RECURSIVE Agree(_, _, _)
Agree(cv, sv, F) ==
    IF cv = None \/ sv = None
    THEN cv = sv
    ELSE /\ \A f \in F : cv[f] = sv[f]
         /\ \A n \in DOMAIN Links : Agree(cv[n], sv[n], F)

\* Every viewer's view of every live post agrees with spec 4.3 on F.
ViewsAgreeOn(F) == \A u \in Users, p \in Live(posts) : Agree(ViewOf(u, p), SpecView(u, p, 0), F)

-----------------------------------------------------------------------------

(***************************************************************************)
(* The view GetAggregationPipeline builds for each viewer embeds exactly   *)
(* the posts spec 4.3 says, down to depth 2 and no further, also when the  *)
(* forward, comment and ref links form a cycle, and every embedded post    *)
(* carries the like and forward counts of all users' relations            *)
(* (getCountField) and the flags of this viewer's relation only           *)
(* (getIsField).  comment_count and is_pinned are left out: the code      *)
(* counts only the viewer's own comments and decodes is_pinned from a     *)
(* field no document has, two disagreements the README lists.             *)
(***************************************************************************)
ViewMatchesSpec ==
    ViewsAgreeOn({"post_id", "like_count", "forward_count", "is_liked",
                  "is_collected", "is_commented", "is_forwarded"})

=============================================================================
