---------------------------- MODULE MCMovieFeed ----------------------------
(* Orders, like counts and times of creation for MovieFeed. *)
EXTENDS MovieFeed

By(c, d)    == [col |-> c, dir |-> d]
IdDesc      == {<<By("id", "DESC")>>}

\* each hypothesis of the properties holds of some and fails of others
SixOrders   == {<<By("likeCount", "DESC"), By("id", "DESC")>>, <<By("likeCount", "ASC")>>,
                <<By("createdAt", "DESC"), By("id", "DESC")>>,
                <<By("createdAt", "ASC"), By("id", "ASC")>>,
                <<By("likeCount", "DESC"), By("id", "ASC")>>, <<By("id", "ASC")>>}

Counts      == [m \in Movies |-> m % 2]

\* in microseconds: 1 and 2 lie in one millisecond, 3 at the start of the next
Times       == [m \in Movies |-> m]
===========================================================================
