---------------------------- MODULE MCCursorPager ----------------------------
(* Instances of CursorPager: four posts of one feed.                       *)
EXTENDS CursorPager

CONSTANTS a, b, c, d

MCItems == {a, b, c, d}

\* create_time assignments with four distinct milliseconds.
DistinctTimes == {t \in [MCItems -> 1..4] : \A x, y \in MCItems : x # y => t[x] # t[y]}

\* create_time assignments over three milliseconds, so two posts may share one.
SharedTimes == [MCItems -> 1..3]

NoPin == {{}}

\* At most one pinned post, as PinPost intends.
OnePin == {{}} \cup {{x} : x \in MCItems}

MCPageSizes == {1, 2, 3}

\* A session of distinct times needs at most one call per post plus the last.
MCMaxPages == 5
====
