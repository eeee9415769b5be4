----------------------------- MODULE MCFeedQuery -----------------------------
(* Model-checking instance of FeedQuery (and FeedView) over the           *)
(* MCPostService constants.                                                *)
EXTENDS FeedQuery, MCPostService

\* Every user follows and subscribes to every other user; nobody blocks.
MCFollowing == {uv \in Users \X Users : uv[1] # uv[2]}
MCSubscribed == {uv \in Users \X Users : uv[1] # uv[2]}
MCBlocked == {}
=============================================================================
