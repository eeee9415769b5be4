----------------------------- MODULE PostService -----------------------------
(***************************************************************************)
(* The post mutation handlers of internal/rpc/chat/post.go over the two    *)
(* MongoDB collections "post" and "user_post_relation".                    *)
(*                                                                         *)
(* Every request slot runs one handler at a time, one step per database    *)
(* call, so the handlers of different slots interleave the way concurrent  *)
(* gRPC requests do.  ForwardPost, CommentPost and PinPost run their body  *)
(* inside o.tx.Transaction: a transaction reads a snapshot taken when it   *)
(* starts, and commits its writes at once; a write to a document that      *)
(* another request wrote after the snapshot is a WriteConflict, which the  *)
(* driver's transaction wrapper retries from the start.  Since every read  *)
(* of the body sees the snapshot, the model performs the reads in the step *)
(* that starts the transaction and keeps their results; a document the     *)
(* body writes and nobody wrote since is the same now as in the snapshot.  *)
(* A second insert of a key covered by a unique index (post_id; user_id+post_id) fails     *)
(* with a duplicate-key error that ends the request.                       *)
(*                                                                         *)
(* Post identifiers are a small set of model values: GenPostID draws md5   *)
(* prefixes and keeps the first that is not a live post; the model lets   *)
(* it pick any id that is not live, or fail when every draw hits a live    *)
(* one.  Contents, media, timestamps and the response conversions are not  *)
(* state any handler branches on and are left out.                         *)
(***************************************************************************)
EXTENDS Naturals, FiniteSets, TLC

CONSTANTS
    Users,        \* user ids (model values)
    PostIDs,      \* the post ids GenPostID can produce (model values)
    Slots,        \* concurrent request slots
    Ops,          \* the handlers a client may call in this configuration
    AllowValues,  \* allow_comment / allow_forward values a request may carry
    PinValues,    \* is_pined values a PinPostReq may carry (it has no Check())
    None          \* absent document / unset field

AllOps == {"Publish", "Reference", "Forward", "Comment", "Pin", "Like",
           "Collect", "AllowComment", "AllowForward", "Delete"}

ASSUME /\ Ops \subseteq AllOps
       /\ AllowValues \subseteq {0, 1}
       /\ {0, 1} \subseteq PinValues /\ PinValues \subseteq Nat
       /\ None \notin Users \cup PostIDs

Flags == {"is_liked", "is_collected", "is_forwarded", "is_commented"}
RelKeys == Users \X PostIDs
IdOrNone == PostIDs \cup {None}

\* table/chat/post.go PostDB plus the is_pined field PinPost sets.
PostRec == [user_id: Users, forward_post_id: IdOrNone, comment_post_id: IdOrNone,
            ref_post_id: IdOrNone, allow_comment: {0, 1}, allow_forward: {0, 1},
            is_pined: PinValues]
\* table/chat/user_post_relation.go UserPostRelation, keyed by (user_id, post_id).
RelRec == [Flags -> {0, 1}]

VARIABLES
    posts,    \* the "post" collection, by post_id
    rels,     \* the "user_post_relation" collection, by (user_id, post_id)
    req,      \* per slot: the handler in progress and its local variables
    everIDs   \* history: every post_id ever inserted

vars == <<posts, rels, req, everIDs>>
db == <<posts, rels, everIDs>>

-----------------------------------------------------------------------------
(* Store operations (db/model/chat/post.go, user_post_relation.go).        *)

Live(P) == {i \in PostIDs : P[i] # None}

\* Post.Create: a new document; is_pined is absent, which reads as 0.
NewPost(u, fwd, cmt, ref, ac, af) ==
    [user_id |-> u, forward_post_id |-> fwd, comment_post_id |-> cmt,
     ref_post_id |-> ref, allow_comment |-> ac, allow_forward |-> af,
     is_pined |-> 0]

\* UserPostRelation.Create fills the flags a handler does not name with 0.
EmptyRel == [f \in Flags |-> 0]

\* UpdateByMap: "$set" of exactly the field named in the map.
SetFlag(rel, f, v) == [rel EXCEPT ![f] = v]

\* Post.GetPinnedPostByUserID: the filter of the FindOne.
PinnedPostsOf(P, u) == {i \in Live(P) : P[i].user_id = u /\ P[i].is_pined = 1}

\* Post.GetPostByForwardPostID: the filter of the FindOne.
ForwardPostsOf(P, u, p) ==
    {i \in Live(P) : P[i].user_id = u /\ P[i].forward_post_id = p}

\* GenPostID: up to ten draws, each rejected if Take finds a live post.
\* None stands for "post id gen error" after ten rejected draws.
GenOutcomes(P) ==
    (PostIDs \ Live(P)) \cup (IF Live(P) # {} THEN {None} ELSE {})

-----------------------------------------------------------------------------
(* Request slots.                                                          *)

Idle == [op |-> None, user |-> None, arg |-> None, val |-> 0, pc |-> "idle",
         id |-> None, found |-> FALSE, cur |-> 0,
         mp |-> {}, mr |-> {}]

ReqRec == [op: AllOps \cup {None}, user: Users \cup {None}, arg: IdOrNone,
           val: PinValues, pc: {"idle", "gen", "create", "prerel", "begin",
           "commit", "read", "write"}, id: IdOrNone, found: BOOLEAN,
           cur: {0, 1}, mp: SUBSET PostIDs,
           mr: SUBSET RelKeys]

\* The first database call of each handler.
FirstStep(op) ==
    CASE op \in {"Publish", "Reference", "Comment"} -> "gen"
      [] op = "Forward"                              -> "begin"
      [] OTHER                                       -> "read"

\* A handler returns (with a result or an error) and its slot is free again.
Finish(s) ==
    /\ req' = [req EXCEPT ![s] = Idle]
    /\ UNCHANGED db

\* Writes become visible; every open transaction of another slot now has
\* these documents in its set of writes it did not see.
Touch(R, s, pk, rk) ==
    [t \in Slots |-> IF t # s /\ R[t].pc = "commit"
                     THEN [R[t] EXCEPT !.mp = @ \cup pk, !.mr = @ \cup rk]
                     ELSE R[t]]

\* Apply the writes pw (post_id -> document or None for a delete) and rw
\* (relation key -> document) and return.
Apply(s, pw, rw) ==
    /\ posts' = pw @@ posts
    /\ rels' = rw @@ rels
    /\ everIDs' = everIDs \cup {i \in DOMAIN pw : pw[i] # None}
    /\ req' = [Touch(req, s, DOMAIN pw, DOMAIN rw) EXCEPT ![s] = Idle]

\* o.tx.Transaction: start the session transaction on a snapshot of now,
\* keeping what the body reads from it: a post id and a relation lookup.
Begin(s, id, found) ==
    /\ req[s].pc = "begin"
    /\ req' = [req EXCEPT ![s].id = id, ![s].found = found,
                          ![s].mp = {}, ![s].mr = {}, ![s].pc = "commit"]
    /\ UNCHANGED db

\* Commit of a transaction body whose writes are pw, rw: a write to a
\* document written since the snapshot is a WriteConflict and the wrapper
\* runs the body again; a duplicate key aborts the request.
Commit(s, pw, rw, dupKey) ==
    IF (DOMAIN pw \cap req[s].mp) \cup (DOMAIN rw \cap req[s].mr) # {}
    THEN /\ req' = [req EXCEPT ![s].pc = "begin"]
         /\ UNCHANGED db
    ELSE IF dupKey THEN Finish(s) ELSE Apply(s, pw, rw)

-----------------------------------------------------------------------------
(* Handlers.                                                               *)

\* A client calls a handler; mctx.CheckUser has resolved its user and the
\* request passed its Check().  Publish takes no target; only Forward,
\* Pin, Like and Collect carry a request value: 0/1 for the flags, and
\* for Pin any int32, which PinPost stores as sent (a value of PinValues
\* other than 0 and 1 stands for all the others).
Issue(s) ==
    /\ req[s].pc = "idle"
    /\ \E op \in Ops, u \in Users, p \in PostIDs:
       \E v \in IF op = "Pin" THEN PinValues ELSE {0, 1}:
          req' = [req EXCEPT ![s] =
                    [Idle EXCEPT !.op = op, !.user = u,
                                 !.arg = IF op = "Publish" THEN None ELSE p,
                                 !.val = IF op \in {"Forward", "Pin", "Like", "Collect"}
                                         THEN v ELSE 0,
                                 !.pc = FirstStep(op)]]
    /\ UNCHANGED db

\* GenPostID outside a transaction (PublishPost, ReferencePost, CommentPost).
GenPostID(s) ==
    /\ req[s].pc = "gen"
    /\ \E id \in GenOutcomes(posts):
          IF id = None
          THEN Finish(s)
          ELSE /\ req' = [req EXCEPT ![s].id = id,
                            ![s].pc = IF req[s].op = "Comment" THEN "prerel" ELSE "create"]
               /\ UNCHANGED db

\* Fault-injected variant of CreatePost: the insert is not checked against
\* the unique index on post_id and replaces a document with the same id.
CreatePostNoUniqueIndex(s, fwd, cmt, ref) ==
    /\ req[s].pc = "create"
    /\ \E ac, af \in AllowValues:
          Apply(s, req[s].id :> NewPost(req[s].user, fwd, cmt, ref, ac, af), <<>>)

\* CreatePost of a post with the given relation fields; the unique index
\* on post_id rejects an id inserted since GenPostID looked.
CreatePost(s, fwd, cmt, ref) ==
    /\ req[s].pc = "create"
    /\ IF posts[req[s].id] # None
       THEN Finish(s)
       ELSE \E ac, af \in AllowValues:
              Apply(s, req[s].id :> NewPost(req[s].user, fwd, cmt, ref, ac, af), <<>>)

PublishPost(s) ==
    /\ req[s].op = "Publish"
    /\ CreatePost(s, None, None, None)

ReferencePost(s) ==
    /\ req[s].op = "Reference"
    /\ CreatePost(s, None, None, req[s].arg)

\* ForwardPost: the whole handler body is one transaction.  Turning it on,
\* the body generates an id, creates the forwarding post and inserts or
\* updates the relation; turning it off, it $sets is_forwarded = 0 (a no-op
\* without a relation), finds one forwarding post and deletes it.
ForwardPost(s) ==
    LET r == req[s]
        k == <<r.user, r.arg>>
    IN
    /\ r.op = "Forward"
    /\ \/ /\ r.val = 1
          /\ \E id \in GenOutcomes(posts) : Begin(s, id, rels[k] # None)
       \/ /\ r.val = 0
          /\ \/ /\ ForwardPostsOf(posts, r.user, r.arg) = {}
                /\ Begin(s, None, rels[k] # None)
             \/ \E q \in ForwardPostsOf(posts, r.user, r.arg) : Begin(s, q, rels[k] # None)
       \/ /\ r.pc = "commit"
          /\ r.val = 1
          /\ IF r.id = None
             THEN Finish(s)
             ELSE Commit(s, r.id :> NewPost(r.user, r.arg, None, None, 0, 0),
                         k :> SetFlag(IF r.found THEN rels[k] ELSE EmptyRel, "is_forwarded", 1),
                         FALSE)
       \/ /\ r.pc = "commit"
          /\ r.val = 0
          /\ LET rw == IF r.found THEN k :> SetFlag(rels[k], "is_forwarded", 0) ELSE <<>>
             IN IF r.id = None
                THEN Commit(s, <<>>, rw, TRUE)
                ELSE Commit(s, r.id :> None, rw, FALSE)

\* Fault-injected variant of CommentPost: the comment post and the
\* relation are written without a transaction, so a duplicate-key failure
\* of the relation insert leaves the comment post in place.
CommentPostNoRollback(s) ==
    LET r == req[s]
        k == <<r.user, r.arg>>
    IN
    /\ r.op = "Comment"
    /\ \/ /\ r.pc = "prerel"
          /\ req' = [req EXCEPT ![s].found = (rels[k] # None), ![s].pc = "begin"]
          /\ UNCHANGED db
       \/ /\ Begin(s, r.id, r.found)
       \/ /\ r.pc = "commit"
          /\ \E ac, af \in AllowValues:
               IF ~r.found /\ rels[k] # None /\ posts[r.id] = None
               THEN Apply(s, r.id :> NewPost(r.user, None, r.arg, None, ac, af), <<>>)
               ELSE Commit(s, r.id :> NewPost(r.user, None, r.arg, None, ac, af),
                           k :> SetFlag(IF r.found THEN rels[k] ELSE EmptyRel, "is_commented", 1),
                           posts[r.id] # None \/ (~r.found /\ rels[k] # None))

\* CommentPost: GenPostID and the relation lookup run before the
\* transaction; the transaction body branches on that earlier lookup, and
\* the unique indexes reject a post id or a relation that exists by then.
CommentPost(s) ==
    LET r == req[s]
        k == <<r.user, r.arg>>
    IN
    /\ r.op = "Comment"
    /\ \/ /\ r.pc = "prerel"
          /\ req' = [req EXCEPT ![s].found = (rels[k] # None), ![s].pc = "begin"]
          /\ UNCHANGED db
       \/ /\ Begin(s, r.id, r.found)
       \/ /\ r.pc = "commit"
          /\ \E ac, af \in AllowValues:
               Commit(s, r.id :> NewPost(r.user, None, r.arg, None, ac, af),
                      k :> SetFlag(IF r.found THEN rels[k] ELSE EmptyRel, "is_commented", 1),
                      posts[r.id] # None \/ (~r.found /\ rels[k] # None))

\* Fault-injected variant of PinPost: the transaction never unpins the
\* post that GetPinnedPostByUserID finds.
PinPostNoUnpin(s) ==
    LET r == req[s] IN
    /\ r.op = "Pin"
    /\ \/ /\ r.pc = "read"
          /\ IF posts[r.arg] = None \/ posts[r.arg].user_id # r.user
             THEN Finish(s)
             ELSE /\ req' = [req EXCEPT ![s].pc = "begin"]
                  /\ UNCHANGED db
       \/ Begin(s, None, FALSE)
       \/ /\ r.pc = "commit"
          /\ Commit(s, IF posts[r.arg] = None THEN <<>>
                       ELSE r.arg :> [posts[r.arg] EXCEPT !.is_pined = r.val],
                    <<>>, FALSE)

\* PinPost: the owner check reads outside the transaction; when pinning,
\* the body unpins the post GetPinnedPostByUserID finds, then $sets
\* is_pined of the target (a no-op if it is gone).
PinPost(s) ==
    LET r == req[s]
        pinned == IF r.val = 1 THEN PinnedPostsOf(posts, r.user) ELSE {}
        unpin == IF r.id = None THEN <<>>
                 ELSE r.id :> IF posts[r.id] = None THEN None   \* deleted: a conflict
                              ELSE [posts[r.id] EXCEPT !.is_pined = 0]
        cur == unpin @@ posts
    IN
    /\ r.op = "Pin"
    /\ \/ /\ r.pc = "read"
          /\ IF posts[r.arg] = None \/ posts[r.arg].user_id # r.user
             THEN Finish(s)
             ELSE /\ req' = [req EXCEPT ![s].pc = "begin"]
                  /\ UNCHANGED db
       \/ /\ pinned = {}
          /\ Begin(s, None, FALSE)
       \/ \E o \in pinned : Begin(s, o, FALSE)
       \/ /\ r.pc = "commit"
          /\ Commit(s, IF cur[r.arg] = None THEN unpin
                       ELSE (r.arg :> [cur[r.arg] EXCEPT !.is_pined = r.val]) @@ unpin,
                    <<>>, FALSE)

\* Fault-injected variant of ChangeFlag: an existing relation is replaced
\* by a fresh document carrying only the requested flag.
ChangeFlagWholeRecord(s, op, f) ==
    LET r == req[s]
        k == <<r.user, r.arg>>
    IN
    /\ r.op = op
    /\ \/ /\ r.pc = "read"
          /\ IF posts[r.arg] = None
             THEN Finish(s)
             ELSE /\ req' = [req EXCEPT ![s].found = (rels[k] # None), ![s].pc = "write"]
                  /\ UNCHANGED db
       \/ /\ r.pc = "write"
          /\ IF ~r.found /\ rels[k] # None
             THEN Finish(s)
             ELSE Apply(s, <<>>, k :> SetFlag(EmptyRel, f, r.val))

\* ChangeLikePost / ChangeCollectPost: read the post and the relation,
\* then insert the relation or $set the one flag.
ChangeFlag(s, op, f) ==
    LET r == req[s]
        k == <<r.user, r.arg>>
    IN
    /\ r.op = op
    /\ \/ /\ r.pc = "read"
          /\ IF posts[r.arg] = None
             THEN Finish(s)
             ELSE /\ req' = [req EXCEPT ![s].found = (rels[k] # None), ![s].pc = "write"]
                  /\ UNCHANGED db
       \/ /\ r.pc = "write"
          /\ r.found
          /\ Apply(s, <<>>, k :> SetFlag(rels[k], f, r.val))
       \/ /\ r.pc = "write"
          /\ ~r.found
          /\ IF rels[k] # None
             THEN Finish(s)
             ELSE Apply(s, <<>>, k :> SetFlag(EmptyRel, f, r.val))

ChangeLikePost(s) == ChangeFlag(s, "Like", "is_liked")

ChangeCollectPost(s) == ChangeFlag(s, "Collect", "is_collected")

\* Fault-injected variant of OwnerRead: a toggle remembers the other
\* allow field, as a copy of ChangeAllowForwardPost's code would.
OwnerReadOtherField(s, fld) ==
    LET r == req[s]
        other == IF fld = "allow_comment" THEN "allow_forward" ELSE "allow_comment"
    IN
    /\ r.pc = "read"
    /\ IF posts[r.arg] = None \/ posts[r.arg].user_id # r.user
       THEN Finish(s)
       ELSE /\ req' = [req EXCEPT ![s].cur = IF fld = None THEN 0 ELSE posts[r.arg][other],
                                  ![s].pc = "write"]
            /\ UNCHANGED db

\* The owner check shared by the owner-only handlers, remembering the
\* value of field fld for a toggle.
OwnerRead(s, fld) ==
    LET r == req[s] IN
    /\ r.pc = "read"
    /\ IF posts[r.arg] = None \/ posts[r.arg].user_id # r.user
       THEN Finish(s)
       ELSE /\ req' = [req EXCEPT ![s].cur = IF fld = None THEN 0 ELSE posts[r.arg][fld],
                                  ![s].pc = "write"]
            /\ UNCHANGED db

ToggleAllow(s, op, fld) ==
    LET r == req[s] IN
    /\ r.op = op
    /\ \/ OwnerRead(s, fld)
       \/ /\ r.pc = "write"
          /\ IF posts[r.arg] = None
             THEN Finish(s)
             ELSE Apply(s, r.arg :> [posts[r.arg] EXCEPT ![fld] = IF r.cur = 0 THEN 1 ELSE 0],
                        <<>>)

ChangeAllowCommentPost(s) == ToggleAllow(s, "AllowComment", "allow_comment")

ChangeAllowForwardPost(s) == ToggleAllow(s, "AllowForward", "allow_forward")

DeletePost(s) ==
    LET r == req[s] IN
    /\ r.op = "Delete"
    /\ \/ OwnerRead(s, None)
       \/ /\ r.pc = "write"
          /\ IF posts[r.arg] = None
             THEN Finish(s)
             ELSE Apply(s, r.arg :> None, <<>>)

-----------------------------------------------------------------------------

Init ==
    /\ posts = [i \in PostIDs |-> None]
    /\ rels = [k \in RelKeys |-> None]
    /\ req = [s \in Slots |-> Idle]
    /\ everIDs = {}

Next ==
    \E s \in Slots:
       \/ Issue(s)
       \/ GenPostID(s)
       \/ PublishPost(s)
       \/ ReferencePost(s)
       \/ ForwardPost(s)
       \/ CommentPost(s)
       \/ PinPost(s)
       \/ ChangeLikePost(s)
       \/ ChangeCollectPost(s)
       \/ ChangeAllowCommentPost(s)
       \/ ChangeAllowForwardPost(s)
       \/ DeletePost(s)

Spec == Init /\ [][Next]_vars

-----------------------------------------------------------------------------
(* Properties.                                                             *)

TypeOK ==
    /\ posts \in [PostIDs -> PostRec \cup {None}]
    /\ rels \in [RelKeys -> RelRec \cup {None}]
    /\ req \in [Slots -> ReqRec]
    /\ everIDs \subseteq PostIDs

\* PinPost: at most one post of a user has is_pined = 1 (spec section 3;
\* PinPost unpins the post GetPinnedPostByUserID finds before pinning).
PinnedAtMostOne ==
    \A u \in Users : Cardinality(PinnedPostsOf(posts, u)) <= 1

\* CommentPost: whenever a comment post of u on p exists, u's relation to
\* p exists with is_commented = 1.  CommentPost creates the comment and
\* writes the relation in one transaction, branching on a relation lookup
\* made before the transaction; DeletePost only removes posts.
CommentHasRelation ==
    \A q \in Live(posts) :
        posts[q].comment_post_id # None =>
            LET k == <<posts[q].user_id, posts[q].comment_post_id>>
            IN rels[k] # None /\ rels[k].is_commented = 1

\* The handler, and the flag of the relation it $sets.
OpFlag == [Like |-> "is_liked", Collect |-> "is_collected",
           Forward |-> "is_forwarded", Comment |-> "is_commented"]

FlagOf(R, k, f) == IF R[k] = None THEN 0 ELSE R[k][f]

RequestedFlag(r) == IF r.op = "Comment" THEN 1 ELSE r.val

\* Relation flags are merged, never overwritten wholesale (spec section 5):
\* a step that changes flag f of relation (u, p) is the successful last
\* step of a request by u on p whose handler sets f, and it sets f to the
\* value that request asked for.  Like and Collect read the relation and
\* write it in separate steps, concurrently with the other handlers.
FlagWritesAuthorized ==
    [][\A k \in RelKeys, f \in Flags :
          FlagOf(rels', k, f) # FlagOf(rels, k, f) =>
             \E s \in Slots :
                /\ req[s].op \in DOMAIN OpFlag
                /\ OpFlag[req[s].op] = f
                /\ <<req[s].user, req[s].arg>> = k
                /\ req[s].pc \in {"write", "commit"}
                /\ req'[s].pc = "idle"
                /\ FlagOf(rels', k, f) = RequestedFlag(req[s])]_vars

\* The owner and the forward/comment/ref target of a live post never
\* change (spec section 3): GenPostID checks for a free id in one call and
\* CreatePost inserts in another, and only the unique index on post_id
\* keeps a concurrent insert of the same id from replacing the document.
Identity(d) == <<d.user_id, d.forward_post_id, d.comment_post_id, d.ref_post_id>>

PostIdentityImmutable ==
    [][\A i \in PostIDs :
          posts[i] # None /\ posts'[i] # None => Identity(posts'[i]) = Identity(posts[i])]_posts

\* Post ids are never reused (spec section 3): a post_id inserted now was
\* never the id of an earlier post.  GenPostID only checks the live
\* collection, and DeletePost hard-deletes.
IdNeverReused ==
    [][\A i \in PostIDs : posts[i] = None /\ posts'[i] # None => i \notin everIDs]_<<posts, everIDs>>

\* Forward symmetry (spec section 8): every forwarding post of u that
\* forwards p is matched by u's relation to p having is_forwarded = 1, so
\* that Forward(off) leaves no forwarding post behind.
ForwardPostHasFlag ==
    \A q \in Live(posts) :
        posts[q].forward_post_id # None =>
            FlagOf(rels, <<posts[q].user_id, posts[q].forward_post_id>>, "is_forwarded") = 1

\* The handler and the post field ChangeAllowCommentPost and
\* ChangeAllowForwardPost toggle.
ToggleField == [AllowComment |-> "allow_comment", AllowForward |-> "allow_forward"]

\* A successful ChangeAllowCommentPost / ChangeAllowForwardPost changes
\* the field it toggles: the value it writes, and returns to the client,
\* differs from the stored one.  The handler reads the post, computes the
\* negation and writes it in a later call, with no transaction between.
ToggleFlips ==
    [][\A s \in Slots :
          /\ req[s].op \in DOMAIN ToggleField
          /\ req[s].pc = "write"
          /\ posts[req[s].arg] # None
          /\ req'[s].pc = "idle"
          => LET f == ToggleField[req[s].op]
             IN posts'[req[s].arg][f] # posts[req[s].arg][f]]_vars

=============================================================================
