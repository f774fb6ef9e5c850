------------------------- MODULE AtomicityProofs --------------------------
(***************************************************************************)
(* Two services that write in several statements without a transaction,    *)
(* and the atomic objects they implement all the same or only when alone:  *)
(* the buttons of MovieLike, then the tables of NamedRows.  For every set  *)
(* of rows, users, names and requests.                                     *)
(***************************************************************************)
EXTENDS MovieLike, NamedRows, TLAPS

---------------------------------------------------------------------------
(* MovieLike *)

\* A request past the lookup of its user is on the pair of two rows.
LEMMA FoundPair ==
  ASSUME TypeOK, NEW r \in Requests, req[r].pc \notin Unfound
  PROVE  req[r].pair \in Pairs
BY DEF TypeOK, Request

\* No pair of rows is one without a user.
LEMMA StraysAreNoPairs == \A p \in Pairs : p \notin Strays
BY NoUserIsNobody DEF Pairs, Strays

\* Reading the like record keeps the request typed.
LEMMA LookupTyped ==
  ASSUME TypeOK, NEW r \in Requests, GetLikedRecord(r)
  PROVE  TypeOK'
<1>1. Statement(LikeRecord(r), req[r].want) \in PCs
  BY DEF Statement, PCs
<1>2. LikeRecord(r) \in Lights
  BY FoundPair DEF GetLikedRecord, LikeRecord, Unfound, TypeOK, Lights
<1>3. PICK pc \in PCs, l \in Lights : req' = [req EXCEPT ![r].pc = pc, ![r].seen = l]
  BY <1>1, <1>2 DEF GetLikedRecord
<1>4. req' \in [Requests -> Request]
  <2>1. [req[r] EXCEPT !.pc = pc, !.seen = l] \in Request
    BY <1>3 DEF TypeOK, Request
  <2> QED BY <1>3, <2>1 DEF TypeOK
<1>5. req[r].pair \notin Strays
  BY DEF GetLikedRecord, TypeOK, Unfound
<1> QED BY <1>3, <1>4, <1>5 DEF GetLikedRecord, Rows, TypeOK

\* Ending a request with a well-formed answer keeps the requests typed.
LEMMA FinishTyped ==
  ASSUME TypeOK, NEW r \in Requests, NEW reply \in Lights \cup Refusals \cup {"error"}, Finish(r, reply)
  PROVE  req' \in [Requests -> Request]
<1>1. "done" \in PCs
  BY DEF PCs
<1>2. [req[r] EXCEPT !.pc = "done", !.answer = reply] \in Request
  BY <1>1 DEF TypeOK, Request
<1> QED BY <1>2 DEF Finish, TypeOK

\* So does a failure.
LEMMA FailTyped ==
  ASSUME TypeOK, NEW r \in Requests, QueryFails(r)
  PROVE  TypeOK'
<1>1. "done" \in PCs /\ "none" \in Lights
  BY DEF PCs, Lights
<1>2. [req[r] EXCEPT !.pc = "done", !.answer = "error", !.seen = "none"] \in Request
  BY <1>1 DEF TypeOK, Request
<1>3. req' \in [Requests -> Request]
  BY <1>2 DEF QueryFails, TypeOK
<1>4. \A q \in Requests : /\ req'[q].pair = req[q].pair /\ req'[q].stray = req[q].stray
                          /\ req'[q].pc \in {req[q].pc, "done"}
  BY DEF QueryFails, TypeOK, Request
<1> QED BY <1>3, <1>4 DEF QueryFails, Rows, TypeOK, Unfound

\* Joining a pair keeps the requests typed when the one that joins is.
LEMMA JoinTyped ==
  ASSUME TypeOK, UNCHANGED Rows, NEW r \in Requests, NEW p, NEW new \in Request, Joins(r, p, new),
         new.pair \in Strays => new.stray /\ new.pc \in Unfound
  PROVE  TypeOK'
<1>1. ASSUME NEW q \in Requests
      PROVE  /\ req'[q] \in Request
             /\ req'[q].pair \in Strays => req'[q].stray /\ req'[q].pc \in Unfound
  <2>1. CASE q = r
    BY <2>1 DEF Joins
  <2>2. CASE q # r
    BY <2>2 DEF Joins, TypeOK, Request
  <2> QED BY <2>1, <2>2
<1>2. req' = [q \in Requests |-> req'[q]]
  BY DEF Joins
<1> QED BY <1>1, <1>2 DEF Rows, TypeOK

\* Every variable keeps its type.
LEMMA TypeStep == TypeOK /\ [Next]_vars => TypeOK'
<1> SUFFICES ASSUME TypeOK, [Next]_vars PROVE TypeOK'
  OBVIOUS
<1>1. ASSUME NEW r \in Requests, NEW p \in Pairs \cup Strays, NEW s \in Signs, Press(r, p, s)
      PROVE  TypeOK'
  <2> DEFINE new == [pc |-> "findMovie", pair |-> p, want |-> s, seen |-> "none",
                     answer |-> "none", stray |-> p \in Strays,
                     alone |-> p \in Pairs /\ OnPair(p) = {}]
  <2>1. new \in Request
    BY DEF Request, PCs, Lights
  <2>2. new.pair \in Strays => new.stray /\ new.pc \in Unfound
    BY DEF Unfound
  <2>3. Joins(r, p, new) /\ UNCHANGED Rows
    BY <1>1 DEF Press
  <2> HIDE DEF new
  <2> QED BY <2>1, <2>2, <2>3, JoinTyped
<1>13. ASSUME NEW r \in Requests, FindAnyUser(r) PROVE TypeOK'
  <2>1. PICK u \in users : Joins(r, <<req[r].pair[1], u>>, Found(req[r], <<req[r].pair[1], u>>))
    BY <1>13 DEF FindAnyUser
  <2> DEFINE p == <<req[r].pair[1], u>>
  <2>2. p \in Pairs
    BY DEF TypeOK, Request, Pairs, Strays
  <2> HIDE DEF p
  <2>3. Found(req[r], p) \in Request /\ Found(req[r], p).pair \notin Strays
    BY <2>2, StraysAreNoPairs DEF TypeOK, Request, PCs, Found
  <2>4. Joins(r, p, Found(req[r], p))
    BY <2>1 DEF p
  <2> QED BY <1>13, <2>3, <2>4, JoinTyped DEF FindAnyUser
<1> USE DEF TypeOK, Request, PCs, Signs, Lights, Refusals, Unfound
<1>2. ASSUME NEW r \in Requests, FindMovie(r) PROVE TypeOK'
  <2>1. req' \in [Requests -> Request]
    BY <1>2 DEF FindMovie, Goto, Finish
  <2>2. \A q \in Requests : req'[q].pair = req[q].pair /\ req'[q].stray = req[q].stray
    BY <1>2 DEF FindMovie, Goto, Finish
  <2>3. \A q \in Requests : req'[q].pc = req[q].pc \/ req'[q].pc \in Unfound
    BY <1>2 DEF FindMovie, Goto, Finish
  <2> QED BY <1>2, <2>1, <2>2, <2>3 DEF FindMovie, Rows
<1>3. ASSUME NEW r \in Requests, FindUser(r) PROVE TypeOK'
  <2>1. req' \in [Requests -> Request]
    BY <1>3 DEF FindUser, Goto, Finish
  <2>2. \A q \in Requests : req'[q].pair = req[q].pair /\ req'[q].stray = req[q].stray
    BY <1>3 DEF FindUser, Goto, Finish
  <2>3. \A q \in Requests : req'[q].pc = req[q].pc \/ req'[q].pc \in Unfound \/ req'[q].pair \notin Strays
    <3>1. CASE req[r].pair[2] \in users
      <4>1. req[r].pair \notin Strays
        BY <3>1, NoUserIsNobody DEF Strays
      <4> QED BY <1>3, <4>1, <2>2 DEF FindUser, Goto, Finish
    <3>2. CASE req[r].pair[2] \notin users
      BY <1>3, <3>2 DEF FindUser, Goto, Finish
    <3> QED BY <3>1, <3>2
  <2> QED BY <1>3, <2>1, <2>2, <2>3 DEF FindUser, Rows
<1>4. ASSUME NEW r \in Requests, GetLikedRecord(r) PROVE TypeOK'
  BY <1>4, LookupTyped
<1>5. ASSUME NEW r \in Requests, DeleteLike(r) PROVE TypeOK'
  BY <1>5 DEF DeleteLike, Goto, Write
<1>6. ASSUME NEW r \in Requests, UpdateLike(r) PROVE TypeOK'
  BY <1>6 DEF UpdateLike, Goto, Write
<1>7. ASSUME NEW r \in Requests, SaveSelect(r) PROVE TypeOK'
  BY <1>7 DEF SaveSelect, Goto, Rows
<1>8. ASSUME NEW r \in Requests, SaveInsert(r) PROVE TypeOK'
  BY <1>8 DEF SaveInsert, Goto, Finish, Write
<1>9. ASSUME NEW r \in Requests, ReadBack(r) PROVE TypeOK'
  <2>1. LikeRecord(r) \in Lights \cup Refusals
    BY <1>9, FoundPair DEF ReadBack, LikeRecord
  <2>2. req' \in [Requests -> Request]
    BY <1>9, <2>1, FinishTyped DEF ReadBack
  <2>3. \A q \in Requests : req'[q].pair = req[q].pair /\ req'[q].stray = req[q].stray
    BY <1>9 DEF ReadBack, Finish
  <2>4. \A q \in Requests : req'[q].pc = req[q].pc \/ req'[q].pc = "done"
    BY <1>9 DEF ReadBack, Finish
  <2> QED BY <1>9, <2>2, <2>3, <2>4 DEF ReadBack, Rows
<1>10. ASSUME NEW m \in Movies, RemoveMovie(m) PROVE TypeOK'
  BY <1>10 DEF RemoveMovie
<1>11. ASSUME NEW u \in Users, RemoveUser(u) PROVE TypeOK'
  BY <1>11 DEF RemoveUser
<1>12. CASE UNCHANGED vars
  BY <1>12 DEF vars
<1>14. ASSUME NEW r \in Requests, QueryFails(r) PROVE TypeOK'
  BY <1>14, FailTyped
<1> QED BY <1>1, <1>2, <1>3, <1>4, <1>5, <1>6, <1>7, <1>8, <1>9, <1>10, <1>11, <1>12, <1>13, <1>14
        DEF Next, Step, Query

\* Type correctness of the like handler's state.
THEOREM TypeCorrect == Spec => []TypeOK
<1>1. Init => TypeOK
  <2> SUFFICES ASSUME Init PROVE TypeOK
    OBVIOUS
  <2>1. ASSUME NEW r \in Requests PROVE req[r] \in Request /\ req[r].pair \notin Strays
    BY StraysAreNoPairs DEF Init, Request, PCs, Signs, Lights
  <2> QED BY <2>1 DEF Init, TypeOK, Lights
<1> QED BY <1>1, TypeStep, PTL DEF Spec

---------------------------------------------------------------------------
(* Atomicity of the requests that nothing overlaps *)

\* A query of request r moves r only, keeps its parameters and touches no
\* light but its own.
Frame(r) ==
  /\ InFlight(r)
  /\ \A o \in Requests \ {r} : req'[o] = req[o]
  /\ req'[r].pair = req[r].pair
  /\ req'[r].want = req[r].want
  /\ req'[r].stray = req[r].stray
  /\ req'[r].alone = req[r].alone
  /\ \A p \in Pairs : p # req[r].pair => likes'[p] = likes[p]

LEMMA QueryFrame ==
  ASSUME TypeOK, NEW r \in Requests, Query(r)
  PROVE  Frame(r)
<1> USE DEF TypeOK, Request, InFlight, Frame
<1>1. CASE FindMovie(r)
  BY <1>1 DEF FindMovie, Goto, Finish, Rows
<1>2. CASE FindUser(r)
  BY <1>2 DEF FindUser, Goto, Finish, Rows
<1>3. CASE GetLikedRecord(r)
  BY <1>3 DEF GetLikedRecord, Rows
<1>4. CASE DeleteLike(r)
  BY <1>4 DEF DeleteLike, Goto, Write
<1>5. CASE UpdateLike(r)
  BY <1>5 DEF UpdateLike, Goto, Write
<1>6. CASE SaveSelect(r)
  BY <1>6 DEF SaveSelect, Goto, Rows
<1>7. CASE SaveInsert(r)
  BY <1>7 DEF SaveInsert, Goto, Finish, Write
<1>8. CASE ReadBack(r)
  BY <1>8 DEF ReadBack, Finish, Rows
<1> QED BY <1>1, <1>2, <1>3, <1>4, <1>5, <1>6, <1>7, <1>8 DEF Query

\* So does a failure of r, which moves no light at all.
LEMMA FailFrame ==
  ASSUME TypeOK, NEW r \in Requests, QueryFails(r)
  PROVE  Frame(r) /\ req'[r].pc = "done" /\ req'[r].answer = "error" /\ likes' = likes
  BY DEF QueryFails, Frame, InFlight, Rows, TypeOK, Request

Good(r) ==
  /\ StraysApart(r)
  /\ req[r].alone => Exclusive(r) /\ AtItsStatement(r) /\ ActsAtomically(r)

\* A query of r disturbs no other request that is alone: they are on other pairs.
LEMMA OthersStayGood ==
  ASSUME TypeOK, AloneInductive, NEW r \in Requests, Frame(r), NEW o \in Requests, o # r
  PROVE  Good(o)'
<1>1. req'[o] = req[o]
  BY DEF Frame
<1>2. Good(o)
  BY DEF AloneInductive, Good
<1> SUFFICES ASSUME req[o].alone PROVE Exclusive(o)' /\ AtItsStatement(o)' /\ ActsAtomically(o)'
  BY <1>1, <1>2 DEF Good, StraysApart
<1>3. Exclusive(o)'
  BY <1>1, <1>2 DEF Good, Exclusive, Frame, InFlight
<1>4. AtItsStatement(o)'
  BY <1>1, <1>2 DEF Good, AtItsStatement
<1>5. InFlight(o) => likes'[req[o].pair] = likes[req[o].pair]
  <2>1. req[o].pair \in Pairs
    BY <1>2 DEF Good, StraysApart, TypeOK, Request
  <2> QED BY <1>2, <2>1 DEF Good, Exclusive, Frame
<1>6. ActsAtomically(o)'
  <2>1. ActsAtomically(o)
    BY <1>2 DEF Good
  <2> QED BY <1>1, <1>5, <2>1 DEF ActsAtomically, InFlight
<1> QED BY <1>3, <1>4, <1>6

\* A request that moves while it is alone keeps its pair to itself.
LEMMA SelfStaysExclusive ==
  ASSUME NEW r \in Requests, Frame(r), Exclusive(r)
  PROVE  Exclusive(r)'
  BY DEF Frame, Exclusive, InFlight

\* A query of r keeps r itself at the statement its row calls for.
LEMMA SelfStaysGood ==
  ASSUME TypeOK, NEW r \in Requests, Good(r), Query(r)
  PROVE  Good(r)'
<1>1. Frame(r)
  BY QueryFrame
<1>11. StraysApart(r)'
  <2> SUFFICES ASSUME req[r].stray PROVE req'[r].pc # "delete"
    BY <1>1 DEF Good, StraysApart, Frame
  <2>1. req'[r].pc = req[r].pc \/ req'[r].pc # "delete"
    BY DEF Query, FindMovie, FindUser, GetLikedRecord, LikeRecord, Statement, DeleteLike, UpdateLike,
           SaveSelect, SaveInsert, ReadBack, Goto, Finish, TypeOK, Request, Signs
  <2> QED BY <2>1 DEF Good, StraysApart
<1> SUFFICES ASSUME req[r].alone PROVE AtItsStatement(r)' /\ ActsAtomically(r)'
  BY <1>1, <1>11, SelfStaysExclusive DEF Good, Frame
<1>2. AtItsStatement(r) /\ ActsAtomically(r) /\ LikeRecord(r) = likes[req[r].pair]
  BY DEF Good, StraysApart, LikeRecord
<1>12. req[r].pc \notin Unfound => req[r].pair \in Pairs
  BY FoundPair
<1> USE <1>2 DEF TypeOK, Request, AtItsStatement, ActsAtomically, Toggle
<1>3. CASE FindMovie(r)
  BY <1>3 DEF FindMovie, Goto, Finish, Rows
<1>4. CASE FindUser(r)
  BY <1>4 DEF FindUser, Goto, Finish, Rows
<1>5. CASE GetLikedRecord(r)
  BY <1>5 DEF GetLikedRecord, Statement, Rows, Signs, Lights
<1>6. CASE DeleteLike(r)
  BY <1>6, <1>12 DEF DeleteLike, Goto, Write, Unfound
<1>7. CASE UpdateLike(r)
  BY <1>7, <1>12 DEF UpdateLike, Goto, Write, Unfound
<1>8. CASE SaveSelect(r)
  BY <1>8 DEF SaveSelect, Goto, Rows
<1>9. CASE SaveInsert(r)
  BY <1>9, <1>12 DEF SaveInsert, Goto, Finish, Write, Signs, Unfound
<1>10. CASE ReadBack(r)
  BY <1>10 DEF ReadBack, Finish, Rows
<1> QED BY <1>3, <1>4, <1>5, <1>6, <1>7, <1>8, <1>9, <1>10 DEF Query

\* A request that fails has nothing left to do, and answers nothing.
LEMMA SelfFailsGood ==
  ASSUME TypeOK, NEW r \in Requests, Good(r), QueryFails(r)
  PROVE  Good(r)'
<1>1. Frame(r) /\ req'[r].pc = "done" /\ req'[r].answer = "error"
  BY FailFrame
<1>2. StraysApart(r)'
  BY <1>1 DEF Good, StraysApart, Frame
<1>3. req'[r].alone => Exclusive(r)'
  BY <1>1, SelfStaysExclusive DEF Good, Frame
<1>4. AtItsStatement(r)' /\ ActsAtomically(r)'
  BY <1>1 DEF AtItsStatement, ActsAtomically
<1> QED BY <1>2, <1>3, <1>4 DEF Good

\* Who joins a pair starts alone or takes the others there out of their solitude.
LEMMA JoinKeepsGood ==
  ASSUME TypeOK, AloneInductive, UNCHANGED likes,
         NEW r \in Requests, NEW p, NEW new, Joins(r, p, new), new.pair = p,
         new.pc \in {"findMovie", "getLiked"}, new.stray => ~new.alone,
         new.alone => OnPair(p) = {}
  PROVE  AloneInductive'
<1> SUFFICES ASSUME NEW o \in Requests PROVE Good(o)'
  BY DEF AloneInductive, Good
<1>1. CASE o = r
  <2>1. req'[r] = new
    BY DEF Joins
  <2>2. ASSUME OnPair(p) = {}, NEW x \in Requests \ {r}
        PROVE  InFlight(x)' => req'[x].pair # p
    BY <2>2 DEF Joins, OnPair, InFlight
  <2>3. req'[r].alone => Exclusive(r)'
    BY <2>1, <2>2 DEF Exclusive
  <2>4. StraysApart(r)' /\ AtItsStatement(r)' /\ ActsAtomically(r)'
    BY <2>1 DEF StraysApart, AtItsStatement, ActsAtomically
  <2> QED BY <1>1, <2>3, <2>4 DEF Good
<1>2. CASE o # r /\ o \in OnPair(p)
  <2>1. req'[o] = [req[o] EXCEPT !.alone = FALSE]
    BY <1>2 DEF Joins
  <2>2. req'[o].pc = req[o].pc /\ req'[o].stray = req[o].stray /\ req'[o].alone = FALSE
    BY <2>1 DEF TypeOK, Request
  <2>3. StraysApart(o)
    BY DEF AloneInductive
  <2> QED BY <2>2, <2>3 DEF Good, StraysApart
<1>3. CASE o # r /\ o \notin OnPair(p)
  <2>1. req'[o] = req[o] /\ Good(o)
    BY <1>3 DEF Joins, AloneInductive, Good
  <2>2. ASSUME NEW x \in Requests
        PROVE  req'[x].pair = IF x = r THEN p ELSE req[x].pair
    BY DEF Joins, TypeOK, Request
  <2>3. ASSUME NEW x \in Requests, x # r
        PROVE  InFlight(x)' = InFlight(x)
    BY <2>3 DEF Joins, TypeOK, Request, InFlight
  <2>4. req[o].alone => Exclusive(o)'
    BY <1>3, <2>1, <2>2, <2>3 DEF Exclusive, Good, OnPair, InFlight
  <2> QED BY <2>1, <2>4 DEF Good, StraysApart, AtItsStatement, ActsAtomically
<1> QED BY <1>1, <1>2, <1>3

\* The parameters with which a press, or a request whose user was found, joins.
LEMMA PressJoins ==
  ASSUME NEW r \in Requests, NEW p \in Pairs \cup Strays, NEW s \in Signs, Press(r, p, s)
  PROVE  \E new : /\ Joins(r, p, new) /\ UNCHANGED Rows
                  /\ new = [pc |-> "findMovie", pair |-> p, want |-> s, seen |-> "none",
                            answer |-> "none", stray |-> p \in Strays,
                            alone |-> p \in Pairs /\ OnPair(p) = {}]
BY DEF Press

LEMMA FindJoins ==
  ASSUME TypeOK, NEW r \in Requests, FindAnyUser(r)
  PROVE  \E u \in Users, p \in Pairs :
           /\ p = <<req[r].pair[1], u>>
           /\ Joins(r, p, Found(req[r], p)) /\ UNCHANGED Rows
           /\ req[r].pc = "findUser" /\ req[r].pair \in Strays /\ req[r].stray
<1>1. PICK u \in users : Joins(r, <<req[r].pair[1], u>>, Found(req[r], <<req[r].pair[1], u>>))
  BY DEF FindAnyUser
<1> DEFINE p == <<req[r].pair[1], u>>
<1>2. u \in Users /\ p \in Pairs
  BY DEF TypeOK, Request, Pairs, Strays
<1>3. UNCHANGED Rows /\ req[r].pc = "findUser" /\ req[r].pair \in Strays /\ req[r].stray
  BY DEF FindAnyUser, TypeOK
<1> QED BY <1>1, <1>2, <1>3

LEMMA FoundFields ==
  ASSUME TypeOK, NEW r \in Requests, NEW p
  PROVE  /\ Found(req[r], p).pc = "getLiked" /\ Found(req[r], p).pair = p
         /\ Found(req[r], p).want = req[r].want /\ Found(req[r], p).stray = req[r].stray
         /\ Found(req[r], p).alone = req[r].alone
BY DEF Found, TypeOK, Request

\* A press keeps the solitude of the requests it does not meet.
LEMMA PressKeepsGood ==
  ASSUME TypeOK, AloneInductive,
         NEW r \in Requests, NEW p \in Pairs \cup Strays, NEW s \in Signs, Press(r, p, s)
  PROVE  AloneInductive'
<1>1. PICK new : /\ Joins(r, p, new) /\ UNCHANGED Rows
                 /\ new = [pc |-> "findMovie", pair |-> p, want |-> s, seen |-> "none",
                           answer |-> "none", stray |-> p \in Strays,
                           alone |-> p \in Pairs /\ OnPair(p) = {}]
  BY PressJoins
<1>2. /\ new.pair = p /\ new.pc = "findMovie"
      /\ new.stray => ~new.alone
      /\ new.alone => OnPair(p) = {}
  BY <1>1, StraysAreNoPairs
<1> QED BY <1>1, <1>2, JoinKeepsGood DEF Rows

\* So does a request that lands on the pair of any user.
LEMMA FindAnyKeepsGood ==
  ASSUME TypeOK, AloneInductive, NEW r \in Requests, FindAnyUser(r)
  PROVE  AloneInductive'
<1>1. PICK u \in Users, p \in Pairs :
        Joins(r, p, Found(req[r], p)) /\ UNCHANGED Rows /\ req[r].stray
  BY FindJoins
<1>2. /\ Found(req[r], p).pair = p /\ Found(req[r], p).pc = "getLiked"
      /\ Found(req[r], p).alone = req[r].alone
  BY FoundFields
<1>3. ~req[r].alone
  BY <1>1 DEF AloneInductive, StraysApart
<1> QED BY <1>1, <1>2, <1>3, JoinKeepsGood DEF Rows

\* Solitude and the statement it leads to are kept by every step.
LEMMA AloneInductiveHolds == Spec => []AloneInductive
<1>1. Init => AloneInductive
  BY DEF Init, AloneInductive, StraysApart, Exclusive, AtItsStatement, ActsAtomically, InFlight
<1>2. TypeOK /\ AloneInductive /\ [Next]_vars => AloneInductive'
  <2> SUFFICES ASSUME TypeOK, AloneInductive, [Next]_vars PROVE AloneInductive'
    OBVIOUS
  <2>1. ASSUME NEW r \in Requests, Query(r) PROVE AloneInductive'
    <3>1. ASSUME NEW o \in Requests PROVE Good(o)'
      BY <2>1, QueryFrame, OthersStayGood, SelfStaysGood DEF AloneInductive, Good
    <3> QED BY <3>1 DEF AloneInductive, Good
  <2>3. ASSUME NEW r \in Requests, QueryFails(r) PROVE AloneInductive'
    <3>1. ASSUME NEW o \in Requests PROVE Good(o)'
      BY <2>3, FailFrame, OthersStayGood, SelfFailsGood DEF AloneInductive, Good
    <3> QED BY <3>1 DEF AloneInductive, Good
  <2>2. CASE UNCHANGED <<req, likes>>
    BY <2>2 DEF AloneInductive, StraysApart, Exclusive, AtItsStatement, ActsAtomically, InFlight
  <2> QED BY <2>1, <2>2, <2>3, PressKeepsGood, FindAnyKeepsGood DEF Next, Step, vars, RemoveMovie, RemoveUser
<1> QED BY <1>1, <1>2, TypeCorrect, PTL DEF Spec

\* Whatever the interleaving, a request nothing overlapped is one toggle.
THEOREM AloneAtomic == Spec => []AloneIsAtomic
<1>1. AloneInductive => AloneIsAtomic
  BY DEF AloneInductive, AloneIsAtomic
<1> QED BY <1>1, AloneInductiveHolds, PTL

---------------------------------------------------------------------------
(* The rows *)

\* The foreign keys hold although movie and user are looked up long before.
THEOREM NoDangling == Spec => []NoDanglingLike
<1>1. Init => NoDanglingLike
  BY DEF Init, NoDanglingLike, Pairs
<1>2. TypeOK /\ NoDanglingLike /\ [Next]_vars => NoDanglingLike'
  <2> SUFFICES ASSUME TypeOK, NoDanglingLike, [Next]_vars PROVE NoDanglingLike'
    OBVIOUS
  <2> USE DEF NoDanglingLike
  <2>1. ASSUME NEW r \in Requests, DeleteLike(r) PROVE NoDanglingLike'
    BY <2>1 DEF DeleteLike, Write, TypeOK, Request
  <2>2. ASSUME NEW r \in Requests, UpdateLike(r) PROVE NoDanglingLike'
    BY <2>2 DEF UpdateLike, Write, TypeOK, Request
  <2>3. ASSUME NEW r \in Requests, SaveInsert(r) PROVE NoDanglingLike'
    BY <2>3 DEF SaveInsert, Write, TypeOK, Request
  <2>4. ASSUME NEW m \in Movies, RemoveMovie(m) PROVE NoDanglingLike'
    BY <2>4 DEF RemoveMovie, Pairs
  <2>5. ASSUME NEW u \in Users, RemoveUser(u) PROVE NoDanglingLike'
    BY <2>5 DEF RemoveUser, Pairs
  <2>6. CASE UNCHANGED Rows
    BY <2>6 DEF Rows
  <2>7. ASSUME NEW r \in Requests, NEW p \in Pairs \cup Strays, NEW s \in Signs, Press(r, p, s)
        PROVE  UNCHANGED Rows
    BY <2>7 DEF Press
  <2>8. ASSUME NEW r \in Requests, QueryFails(r) PROVE UNCHANGED Rows
    BY <2>8 DEF QueryFails
  <2>9. ASSUME NEW r \in Requests, Step(r) PROVE NoDanglingLike'
    BY <2>1, <2>2, <2>3, <2>6, <2>9
       DEF Step, Query, FindMovie, FindUser, FindAnyUser, GetLikedRecord, SaveSelect, ReadBack
  <2>10. UNCHANGED vars => UNCHANGED Rows
    BY DEF vars, Rows
  <2> HIDE DEF NoDanglingLike
  <2> QED BY <2>4, <2>5, <2>6, <2>7, <2>8, <2>9, <2>10 DEF Next
<1> QED BY <1>1, <1>2, TypeCorrect, PTL DEF Spec

\* Only requests that stand on the light's own movie and user move it.
THEOREM OnlyThePresser == Spec => OnlyThePresserMovesTheLight
<1> DEFINE Moved == \A p \in Pairs : likes'[p] # likes[p] =>
                      \E r \in OnPair(p) : likes'[p] \in {"none", req[r].want}
<1>1. TypeOK /\ [Next]_vars => [Moved]_vars
  <2> SUFFICES ASSUME TypeOK, [Next]_vars PROVE Moved
    OBVIOUS
  <2>1. ASSUME NEW r \in Requests, Query(r) PROVE Moved
    <3>1. Frame(r)
      BY <2>1, QueryFrame
    <3>2. likes'[req[r].pair] \in {likes[req[r].pair], "none", req[r].want}
      BY <2>1 DEF Query, FindMovie, FindUser, GetLikedRecord, DeleteLike, UpdateLike, SaveSelect,
                  SaveInsert, ReadBack, Rows, Write, TypeOK, Request
    <3> QED BY <3>1, <3>2 DEF Frame, OnPair
  <2>2. CASE UNCHANGED likes
    BY <2>2
  <2>3. ASSUME NEW r \in Requests, FindAnyUser(r) \/ QueryFails(r) PROVE UNCHANGED likes
    BY <2>3 DEF FindAnyUser, QueryFails, Rows
  <2>4. ASSUME NEW r \in Requests, NEW p \in Pairs \cup Strays, NEW s \in Signs, Press(r, p, s)
        PROVE  UNCHANGED likes
    BY <2>4 DEF Press, Rows
  <2> HIDE DEF Moved
  <2> QED BY <2>1, <2>2, <2>3, <2>4 DEF Next, Step, RemoveMovie, RemoveUser, vars
<1>2. Spec => [][Moved]_vars
  BY <1>1, TypeCorrect, PTL DEF Spec
<1> QED BY <1>2 DEF OnlyThePresserMovesTheLight

---------------------------------------------------------------------------
(* The queries implement the buttons *)

Pending == {"findMovie", "findUser", "getLiked", "delete", "update", "save", "insert"}

\* what the buttons show of request q in phase f with light l
View(q, f, l) == [phase |-> f, pair |-> q.pair, want |-> q.want, lit |-> l,
                  stray |-> q.stray, alone |-> q.alone]

\* The abstract view of a request by how far its handler got.
LEMMA Views ==
  ASSUME NEW q
  PROVE  /\ q.pc = "idle" => PressOf(q) = View(q, "idle", "none")
         /\ q.pc \in Pending => PressOf(q) = View(q, "pending", "none")
         /\ q.pc = "readBack"
              => PressOf(q) = View(q, "taken", IF q.alone THEN Toggle(q.seen, q.want) ELSE "none")
         /\ q.pc = "done" /\ q.answer \in Refusals => PressOf(q) = View(q, "refused", "none")
         /\ q.pc = "done" /\ q.answer = "error" => PressOf(q) = View(q, "failed", "none")
         /\ q.pc = "done" /\ q.answer \in Lights => PressOf(q) = View(q, "answered", q.answer)
<1> USE DEF PressOf, PhaseOf, LitOf, Pending, View, Lights, Signs, Refusals
<1>1. CASE q.pc # "done"
  BY <1>1
<1>2. CASE q.pc = "done" /\ q.answer \in Lights
  BY <1>2
<1>3. CASE q.pc = "done" /\ q.answer \notin Lights
  BY <1>3
<1> QED BY <1>1, <1>2, <1>3

\* A request is in flight when its button is open.
LEMMA Opens ==
  ASSUME TypeOK, NEW r \in Requests
  PROVE  Buttons!Open(r) <=> InFlight(r)
<1>1. /\ req[r].pc \in PCs
      /\ req[r].answer \in Lights \cup Refusals \cup {"error"}
  BY DEF TypeOK, Request
<1> QED BY <1>1, Views DEF Buttons!Open, InFlight, PCs, Pending, View

LEMMA ViewFields ==
  ASSUME NEW q, NEW f, NEW l
  PROVE  /\ View(q, f, l).phase = f /\ View(q, f, l).pair = q.pair
         /\ View(q, f, l).want = q.want /\ View(q, f, l).lit = l
         /\ View(q, f, l).stray = q.stray /\ View(q, f, l).alone = q.alone
  BY DEF View

\* When a handler moves, its press becomes what its new place shows.
LEMMA Moves ==
  ASSUME NEW r \in Requests, Frame(r),
         NEW f, NEW l, PressOf(req[r]) = View(req[r], f, l),
         NEW g, NEW m, PressOf(req'[r]) = View(req'[r], g, m)
  PROVE  Buttons!Becomes(r, g, m)
<1> DEFINE press == [o \in Requests |-> PressOf(req[o])]
           b == [phase |-> g, pair |-> press[r].pair, want |-> press[r].want,
                 lit |-> m, stray |-> press[r].stray, alone |-> press[r].alone]
<1>1. /\ req'[r].pair = req[r].pair /\ req'[r].want = req[r].want
      /\ req'[r].stray = req[r].stray /\ req'[r].alone = req[r].alone
      /\ \A o \in Requests \ {r} : req'[o] = req[o]
  BY DEF Frame
<1>2. /\ press[r].pair = req[r].pair /\ press[r].want = req[r].want
      /\ press[r].stray = req[r].stray /\ press[r].alone = req[r].alone
  BY ViewFields
<1>3. PressOf(req'[r]) = b
  BY <1>1, <1>2 DEF View
<1> HIDE DEF b
<1>4. press' = [press EXCEPT ![r] = b]
  BY <1>1, <1>3
<1> QED BY <1>4 DEF Buttons!Becomes, b

\* A query of a request is a step of the abstract button, or none.
LEMMA QueryRefines ==
  ASSUME TypeOK, NEW r \in Requests, Query(r), Good(r)
  PROVE  [Buttons!Next]_(Buttons!vars)
<1> DEFINE press == [o \in Requests |-> PressOf(req[o])]
           p == req[r].pair
           now == Toggle(likes[p], req[r].want)
<1>1. /\ StraysApart(r)
      /\ req[r].alone => /\ AtItsStatement(r) /\ ActsAtomically(r)
                         /\ LikeRecord(r) = likes[p]
  BY DEF Good, StraysApart, LikeRecord
<1>2. Frame(r)
  BY QueryFrame
<1>3. /\ req'[r].pair = p /\ req'[r].want = req[r].want
      /\ req'[r].stray = req[r].stray /\ req'[r].alone = req[r].alone
      /\ \A o \in Requests \ {r} : req'[o] = req[o]
  BY <1>2 DEF Frame
<1> SUFFICES \/ UNCHANGED <<likes, press>>
             \/ Buttons!Take(r) \/ Buttons!Clash(r) \/ Buttons!Answer(r) \/ Buttons!Refuse(r)
  BY DEF Buttons!Next, Buttons!vars
<1>17. ASSUME req[r].pc \in Pending
       PROVE  /\ PressOf(req[r]) = View(req[r], "pending", "none")
              /\ press[r].phase = "pending" /\ press[r].pair = p
              /\ press[r].want = req[r].want
              /\ press[r].stray = req[r].stray /\ press[r].alone = req[r].alone
  BY <1>17, Views, ViewFields
<1>4. CASE /\ likes' = likes
           /\ req[r].pc \in Pending /\ req'[r].pc \in Pending
  <2>1. PressOf(req'[r]) = PressOf(req[r])
    BY <1>3, <1>4, Views DEF View
  <2>2. press' = press
    BY <1>3, <2>1
  <2> QED BY <1>4, <2>2
<1>5. CASE /\ likes' = likes
           /\ req[r].pc \in Pending
           /\ req'[r].pc = "done" /\ req'[r].answer \in Refusals
  <2>1. PressOf(req'[r]) = View(req'[r], "refused", "none")
    BY <1>5, Views
  <2>2. Buttons!Becomes(r, "refused", "none")
    BY <1>2, <1>5, <1>17, <2>1, Moves
  <2> QED BY <1>5, <1>17, <2>2 DEF Buttons!Refuse
<1>6. CASE /\ req[r].alone
           /\ likes' = [likes EXCEPT ![p] = now]
           /\ req[r].pc \in Pending
           /\ req'[r].pc = "readBack" /\ Toggle(req'[r].seen, req'[r].want) = now
  <2> HIDE DEF now
  <2>1. PressOf(req'[r]) = View(req'[r], "taken", now)
    BY <1>3, <1>6, Views
  <2>2. Buttons!Becomes(r, "taken", now)
    BY <1>2, <1>6, <1>17, <2>1, Moves
  <2>3. Buttons!Toggle(likes[press[r].pair], press[r].want) = now
    BY <1>6, <1>17 DEF Buttons!Toggle, Toggle, now
  <2> QED BY <1>6, <1>17, <2>2, <2>3 DEF Buttons!Take
<1>7. CASE /\ ~req[r].alone /\ p \in Pairs
           /\ \E l \in {likes[p], "none", req[r].want} :
                /\ req[r].stray => l \in {likes[p], req[r].want}
                /\ likes' = [likes EXCEPT ![p] = l]
           /\ req[r].pc \in Pending /\ req'[r].pc = "readBack"
  <2>1. PressOf(req'[r]) = View(req'[r], "taken", "none")
    BY <1>3, <1>7, Views
  <2>4. PressOf(req[r]) = View(req[r], "pending", "none")
    BY <1>7, <1>17
  <2>2. Buttons!Becomes(r, "taken", "none")
    BY <1>2, <2>1, <2>4, Moves
  <2>3. p \in Buttons!Pairs
    BY <1>7 DEF Pairs, Buttons!Pairs
  <2> QED BY <1>7, <1>17, <2>2, <2>3 DEF Buttons!Clash
<1>8. CASE /\ likes' = likes
           /\ req[r].pc = "readBack" /\ req'[r].pc = "done" /\ req'[r].answer \in Lights
           /\ req[r].alone => req'[r].answer = Toggle(req[r].seen, req[r].want)
           /\ req[r].stray => req'[r].answer = "none"
  <2> DEFINE lit == IF req[r].alone THEN Toggle(req[r].seen, req[r].want) ELSE "none"
             a == req'[r].answer
  <2>2. PressOf(req[r]) = View(req[r], "taken", lit)
    BY <1>8, Views
  <2>3. PressOf(req'[r]) = View(req'[r], "answered", a)
    BY <1>8, Views
  <2>4. /\ press[r].phase = "taken" /\ press[r].lit = lit
        /\ press[r].stray = req[r].stray /\ press[r].alone = req[r].alone
    BY <2>2, ViewFields
  <2>5. /\ a \in Buttons!Lights /\ (press[r].alone => a = press[r].lit)
        /\ press[r].stray => a = "none"
    BY <1>8, <2>4 DEF Buttons!Lights, Lights, Buttons!Signs, Signs
  <2> HIDE DEF lit, a
  <2>6. Buttons!Becomes(r, "answered", a)
    BY <1>2, <2>2, <2>3, Moves
  <2> QED BY <1>8, <2>4, <2>5, <2>6 DEF Buttons!Answer
<1>18. ASSUME req[r].pc \notin Unfound PROVE p \in Pairs
  BY <1>18, FoundPair
<1> USE DEF TypeOK, Request, Pending
<1>9. CASE FindMovie(r)
  BY <1>4, <1>5, <1>9 DEF FindMovie, Goto, Finish, Rows, Refusals
<1>10. CASE FindUser(r)
  BY <1>4, <1>5, <1>10 DEF FindUser, Goto, Finish, Rows, Refusals
<1>11. CASE GetLikedRecord(r)
  BY <1>4, <1>11 DEF GetLikedRecord, Statement, Rows
<1>12. CASE DeleteLike(r)
  <2>1. likes' = [likes EXCEPT ![p] = "none"] /\ req' = [req EXCEPT ![r].pc = "readBack"]
    BY <1>12 DEF DeleteLike, Goto, Write
  <2>2. ASSUME req[r].alone PROVE now = "none" /\ Toggle(req[r].seen, req[r].want) = now
    BY <1>1, <1>12, <2>2 DEF DeleteLike, AtItsStatement, ActsAtomically, Toggle
  <2>3. p \in Pairs /\ ~req[r].stray
    BY <1>1, <1>12, <1>18 DEF DeleteLike, StraysApart, Unfound
  <2> QED BY <1>6, <1>7, <1>12, <2>1, <2>2, <2>3 DEF DeleteLike
<1>13. CASE UpdateLike(r)
  <2>1. /\ likes' = [likes EXCEPT ![p] = IF likes[p] = "none" THEN "none" ELSE req[r].want]
        /\ req' = [req EXCEPT ![r].pc = "readBack"]
    BY <1>13 DEF UpdateLike, Goto, Write
  <2>2. ASSUME req[r].alone
        PROVE  now = req[r].want /\ Toggle(req[r].seen, req[r].want) = now /\ likes[p] # "none"
    BY <1>1, <1>13, <2>2 DEF UpdateLike, AtItsStatement, ActsAtomically, Toggle
  <2>3. p \in Pairs
    BY <1>13, <1>18 DEF UpdateLike, Unfound
  <2> QED BY <1>6, <1>7, <1>13, <2>1, <2>2, <2>3 DEF UpdateLike
<1>14. CASE SaveSelect(r)
  <2>1. likes' = likes /\ req[r].pc = "save"
    BY <1>14 DEF SaveSelect, Rows
  <2>2. CASE req'[r].pc \in {"insert", "update"}
    BY <1>4, <2>1, <2>2
  <2>3. CASE req'[r].pc \notin {"insert", "update"}
    <3>1. likes[p] = req[r].want /\ req'[r].pc = "readBack"
      BY <1>14, <2>3 DEF SaveSelect, Goto
    <3>2. likes[p] # "none"
      BY <3>1 DEF Signs
    <3>3. ~req[r].alone
      BY <1>1, <2>1, <3>2 DEF AtItsStatement, ActsAtomically
    <3>4. likes' = [likes EXCEPT ![p] = likes[p]]
      BY <2>1
    <3>5. p \in Pairs
      BY <1>18, <2>1 DEF Unfound
    <3> QED BY <1>7, <2>1, <3>1, <3>3, <3>4, <3>5
  <2> QED BY <2>2, <2>3
<1>15. CASE SaveInsert(r)
  <2>1. CASE req'[r].pc = "done"
    BY <1>5, <1>15, <2>1 DEF SaveInsert, Goto, Finish, Refusals
  <2>2. CASE req'[r].pc # "done"
    <3>1. likes' = [likes EXCEPT ![p] = req[r].want] /\ req' = [req EXCEPT ![r].pc = "readBack"]
      BY <1>15, <2>2 DEF SaveInsert, Goto, Finish, Write
    <3>2. req[r].pc = "insert" /\ likes[p] = "none"
      BY <1>15, <2>2 DEF SaveInsert, Finish
    <3>3. ASSUME req[r].alone PROVE now = req[r].want /\ Toggle(req[r].seen, req[r].want) = now
      BY <1>1, <3>2, <3>3 DEF AtItsStatement, ActsAtomically, Toggle, Signs
    <3>4. p \in Pairs
      BY <1>18, <3>2 DEF Unfound
    <3> QED BY <1>6, <1>7, <3>1, <3>2, <3>3, <3>4
  <2> QED BY <2>1, <2>2
<1>16. CASE ReadBack(r)
  <2>1. LikeRecord(r) \in Lights /\ (req[r].stray => LikeRecord(r) = "none")
    BY <1>16, <1>18 DEF ReadBack, Unfound, LikeRecord, Lights
  <2> QED BY <1>1, <1>8, <1>16, <2>1 DEF ReadBack, Finish, Rows, ActsAtomically
<1> QED BY <1>9, <1>10, <1>11, <1>12, <1>13, <1>14, <1>15, <1>16 DEF Query

\* A request that fails breaks its press, whatever it has done.
LEMMA FailRefines ==
  ASSUME TypeOK, NEW r \in Requests, QueryFails(r)
  PROVE  Buttons!Next
<1>1. Frame(r) /\ req'[r].pc = "done" /\ req'[r].answer = "error" /\ likes' = likes
  BY FailFrame
<1>2. Buttons!Open(r)
  BY Opens DEF QueryFails
<1>3. PressOf(req'[r]) = View(req'[r], "failed", "none")
  BY <1>1, Views
<1>4. PICK f, l : PressOf(req[r]) = View(req[r], f, l)
  <2>1. req[r].pc \in Pending \cup {"readBack"}
    BY DEF QueryFails, InFlight, TypeOK, Request, PCs, Pending
  <2> QED BY <2>1, Views
<1>5. Buttons!Becomes(r, "failed", "none")
  BY <1>1, <1>3, <1>4, Moves
<1>6. Buttons!Break(r)
  BY <1>1, <1>2, <1>5 DEF Buttons!Break
<1> QED BY <1>6 DEF Buttons!Next

\* Who joins a pair meets the same requests in the handler and on the buttons.
LEMMA JoinRefines ==
  ASSUME TypeOK, NEW r \in Requests, NEW p, NEW new, Joins(r, p, new),
         new.pair = p, new.pc \in {"findMovie", "getLiked"}
  PROVE  /\ Buttons!OpenOn(p) = OnPair(p)
         /\ Buttons!Joins(r, p, Buttons!Pending(p, new.want, new.stray, new.alone))
<1> DEFINE press == [o \in Requests |-> PressOf(req[o])]
           b == Buttons!Pending(p, new.want, new.stray, new.alone)
           next == [o \in Requests |-> IF o = r THEN b
                                       ELSE IF o \in OnPair(p) THEN Buttons!Met(press[o])
                                       ELSE press[o]]
<1>1. ASSUME NEW o \in Requests
      PROVE  InFlight(o) => PressOf(req[o]).pair = req[o].pair
  <2>1. req[o].pc \in PCs
    BY DEF TypeOK, Request
  <2> QED BY <2>1, Views, ViewFields DEF InFlight, PCs, Pending
<1>2. Buttons!OpenOn(p) = OnPair(p)
  BY <1>1, Opens DEF Buttons!OpenOn, OnPair
<1>3. ASSUME NEW o \in Requests PROVE PressOf(req'[o]) = next[o]
  <2>1. CASE o = r
    <3>1. req'[r] = new
      BY DEF Joins
    <3>2. PressOf(new) = View(new, "pending", "none")
      BY Views DEF Pending
    <3> QED BY <2>1, <3>1, <3>2 DEF View, Buttons!Pending
  <2>2. CASE o # r /\ o \in OnPair(p)
    <3>1. req'[o] = [req[o] EXCEPT !.alone = FALSE]
      BY <2>2 DEF Joins
    <3>2. req[o] \in Request /\ req[o].pc \in Pending \cup {"readBack"}
      BY <2>2 DEF OnPair, InFlight, TypeOK, Request, PCs, Pending
    <3>3. /\ req'[o].pc = req[o].pc /\ req'[o].pair = req[o].pair
          /\ req'[o].want = req[o].want /\ req'[o].stray = req[o].stray
          /\ req'[o].alone = FALSE
      BY <3>1, <3>2 DEF Request
    <3>4. PICK f, l : PressOf(req[o]) = View(req[o], f, l) /\ PressOf(req'[o]) = View(req'[o], f, "none")
      BY <3>2, <3>3, Views
    <3>5. /\ press[o].phase = f /\ press[o].pair = req[o].pair
          /\ press[o].want = req[o].want /\ press[o].stray = req[o].stray
      BY <3>4, ViewFields
    <3>6. Buttons!Met(press[o]) = View(req'[o], f, "none")
      BY <3>3, <3>5 DEF Buttons!Met, View
    <3> QED BY <2>2, <3>4, <3>6
  <2>3. CASE o # r /\ o \notin OnPair(p)
    BY <2>3 DEF Joins
  <2> QED BY <2>1, <2>2, <2>3
<1> HIDE DEF b
<1>4. press' = next
  BY <1>3
<1> QED BY <1>2, <1>4 DEF Buttons!Joins, b

\* A press of the like button is a press of the abstract one.
LEMMA PressRefines ==
  ASSUME TypeOK, NEW r \in Requests, NEW p \in Pairs \cup Strays, NEW s \in Signs, Press(r, p, s)
  PROVE  Buttons!Press(r)
<1>1. PICK new : /\ Joins(r, p, new) /\ UNCHANGED Rows
                 /\ new = [pc |-> "findMovie", pair |-> p, want |-> s, seen |-> "none",
                           answer |-> "none", stray |-> p \in Strays,
                           alone |-> p \in Pairs /\ OnPair(p) = {}]
  BY PressJoins
<1>2. /\ new.pc = "findMovie" /\ new.pair = p /\ new.want = s
      /\ new.stray = (p \in Strays) /\ new.alone = (p \in Pairs /\ OnPair(p) = {})
  BY <1>1
<1>3. /\ Buttons!OpenOn(p) = OnPair(p)
      /\ Buttons!Joins(r, p, Buttons!Pending(p, new.want, new.stray, new.alone))
  BY <1>1, <1>2, JoinRefines
<1>4. ~Buttons!Open(r)
  BY Opens DEF Press
<1>5. Buttons!Pairs = Pairs /\ Buttons!Strays = Strays
  BY DEF Pairs, Buttons!Pairs, Strays, Buttons!Strays
<1>6. Buttons!Pending(p, new.want, new.stray, new.alone)
        = Buttons!Pending(p, s, p \in Buttons!Strays, p \in Buttons!Pairs /\ Buttons!OpenOn(p) = {})
  BY <1>2, <1>3, <1>5, Zenon
<1>7. /\ p \in Buttons!Pairs \cup Buttons!Strays /\ s \in Buttons!Signs
      /\ Buttons!Joins(r, p, Buttons!Pending(p, s, p \in Buttons!Strays,
                                            p \in Buttons!Pairs /\ Buttons!OpenOn(p) = {}))
  <2>1. p \in Buttons!Pairs \cup Buttons!Strays /\ s \in Buttons!Signs
    BY <1>5 DEF Signs, Buttons!Signs
  <2> QED BY <1>3, <1>6, <2>1, Zenon
<1> QED BY <1>1, <1>4, <1>7 DEF Buttons!Press, Rows

\* The user found for a request without one is where its press lands.
LEMMA FindAnyRefines ==
  ASSUME TypeOK, AloneInductive, NEW r \in Requests, FindAnyUser(r)
  PROVE  Buttons!Next
<1> DEFINE press == [o \in Requests |-> PressOf(req[o])]
<1>1. PICK u \in Users, p \in Pairs :
        /\ p = <<req[r].pair[1], u>>
        /\ Joins(r, p, Found(req[r], p)) /\ UNCHANGED Rows
        /\ req[r].pc = "findUser" /\ req[r].pair \in Strays /\ req[r].stray
  BY FindJoins
<1>2. /\ Found(req[r], p).pair = p /\ Found(req[r], p).pc = "getLiked"
      /\ Found(req[r], p).want = req[r].want /\ Found(req[r], p).stray = req[r].stray
      /\ Found(req[r], p).alone = req[r].alone
  BY FoundFields
<1>5. req[r].stray = TRUE /\ req[r].alone = FALSE
  BY <1>1 DEF AloneInductive, StraysApart, TypeOK, Request
<1>3. Buttons!Joins(r, p, Buttons!Pending(p, req[r].want, TRUE, FALSE))
  BY <1>1, <1>2, <1>5, JoinRefines
<1>4. /\ press[r].phase = "pending"
      /\ press[r].pair = req[r].pair /\ press[r].want = req[r].want
  BY <1>1, Views, ViewFields DEF Pending
<1>6. press[r].pair \in Buttons!Strays /\ p = <<press[r].pair[1], u>> /\ likes' = likes
  BY <1>1, <1>4 DEF Strays, Buttons!Strays, Rows
<1>7. Buttons!Land(r)
  BY <1>3, <1>4, <1>6 DEF Buttons!Land
<1> QED BY <1>7 DEF Buttons!Next

\* toggleMovieLike implements the Like and Dislike buttons: a press that meets no
\* other is one toggle, one that does writes its own button or none, at most once;
\* one answered with an error took effect once or not at all.
THEOREM Refinement == Spec => ButtonsSpec
<1>1. Init => Buttons!Init
  <2> SUFFICES ASSUME Init PROVE Buttons!Init
    OBVIOUS
  <2>1. ASSUME NEW r \in Requests
        PROVE  PressOf(req[r]) \in [phase: {"idle"}, pair: Pairs, want: Signs, lit: {"none"},
                                   stray: {FALSE}, alone: {TRUE}]
    <3>1. req[r] \in [pc: {"idle"}, pair: Pairs, want: Signs, seen: {"none"},
                      answer: {"none"}, stray: {FALSE}, alone: {TRUE}]
      BY DEF Init
    <3>2. PressOf(req[r]) = View(req[r], "idle", "none")
      BY <3>1, Views
    <3>3. req[r].pair \in Pairs /\ req[r].want \in Signs /\ req[r].stray = FALSE /\ req[r].alone = TRUE
      BY <3>1
    <3>4. [phase |-> "idle", pair |-> req[r].pair, want |-> req[r].want, lit |-> "none",
           stray |-> FALSE, alone |-> TRUE]
            \in [phase: {"idle"}, pair: Pairs, want: Signs, lit: {"none"}, stray: {FALSE}, alone: {TRUE}]
      BY <3>3
    <3>5. View(req[r], "idle", "none")
            = [phase |-> "idle", pair |-> req[r].pair, want |-> req[r].want, lit |-> "none",
           stray |-> FALSE, alone |-> TRUE]
      BY <3>3 DEF View
    <3> QED BY <3>2, <3>4, <3>5
  <2> QED BY <2>1 DEF Init, Buttons!Init, Signs, Buttons!Signs, Pairs, Buttons!Pairs
<1>2. TypeOK /\ AloneInductive /\ [Next]_vars => [Buttons!Next]_(Buttons!vars)
  <2> SUFFICES ASSUME TypeOK, AloneInductive, [Next]_vars
               PROVE  [Buttons!Next]_(Buttons!vars)
    OBVIOUS
  <2>1. ASSUME NEW r \in Requests, Query(r) PROVE [Buttons!Next]_(Buttons!vars)
    BY <2>1, QueryRefines DEF AloneInductive, Good
  <2>2. ASSUME NEW r \in Requests, NEW p \in Pairs \cup Strays, NEW s \in Signs, Press(r, p, s)
        PROVE  [Buttons!Next]_(Buttons!vars)
    BY <2>2, PressRefines DEF Buttons!Next
  <2>5. ASSUME NEW r \in Requests, QueryFails(r) PROVE [Buttons!Next]_(Buttons!vars)
    BY <2>5, FailRefines
  <2>4. ASSUME NEW r \in Requests, FindAnyUser(r) PROVE [Buttons!Next]_(Buttons!vars)
    BY <2>4, FindAnyRefines
  <2>3. CASE UNCHANGED <<likes, req>>
    BY <2>3 DEF Buttons!vars
  <2> QED BY <2>1, <2>2, <2>3, <2>4, <2>5 DEF Next, Step, vars, RemoveMovie, RemoveUser
<1> QED BY <1>1, <1>2, AloneInductiveHolds, TypeCorrect, PTL DEF Spec, ButtonsSpec, Buttons!Spec

---------------------------------------------------------------------------
(* NamedRows *)

\* What is left after each of the statements that may come first.
LEMMA CreatingLeaves ==
  ASSUME NEW t \in Creating
  PROVE  \/ Head(t) = "findName" /\ Tail(t) \in Creating /\ Len(t) # 1 /\ Head(Tail(t)) = "insert"
         \/ Head(t) = "insert" /\ Tail(t) = IF Len(t) = 1 THEN <<>> ELSE <<"read">>
<1> USE DEF Creating
<1>1. CASE t = <<"findName", "insert", "read">>
  BY <1>1
<1>2. CASE t = <<"findName", "insert">>
  BY <1>2
<1>3. CASE t = <<"insert", "read">>
  BY <1>3
<1>4. CASE t = <<"insert">>
  BY <1>4
<1> QED BY <1>1, <1>2, <1>3, <1>4

LEMMA UpdatingLeaves ==
  ASSUME NEW t \in Updating
  PROVE  \/ Head(t) = "findId" /\ Tail(t) \in Updating /\ Len(t) # 1
         \/ Head(t) = "update" /\ Tail(t) = <<"read">> /\ Len(t) # 1
<1> USE DEF Updating
<1>1. CASE t = <<"findId", "update", "read">>
  BY <1>1
<1>2. CASE t = <<"update", "read">>
  BY <1>2
<1> QED BY <1>1, <1>2

LEMMA RemovingLeaves ==
  ASSUME NEW t \in Removing
  PROVE  \/ Head(t) = "findId" /\ Tail(t) \in Removing /\ Len(t) # 1
         \/ Head(t) = "delete" /\ Tail(t) = <<>> /\ Len(t) = 1
<1> USE DEF Removing
<1>1. CASE t = <<"findId", "delete">>
  BY <1>1
<1>2. CASE t = <<"delete">>
  BY <1>2
<1> QED BY <1>1, <1>2

\* A statement that is due, and what its call has left to do after it.
LEMMA DueTodo ==
  ASSUME NEW q \in Call, CallInPlace(q), q.state = "busy"
  PROVE  /\ Head(q.todo) = "findName" =>
              /\ q.op = "create" /\ q.did = "none" /\ Unique
              /\ Tail(q.todo) \in Creating /\ Len(q.todo) # 1 /\ Head(Tail(q.todo)) = "insert"
         /\ Head(q.todo) = "findId" =>
              /\ q.op # "create" /\ q.did = "none" /\ Len(q.todo) # 1
              /\ Tail(q.todo) \in IF q.op = "update" THEN Updating ELSE Removing
         /\ Head(q.todo) \in {"insert", "update", "delete"} =>
              /\ q.did = "none"
              /\ Tail(q.todo) = IF Len(q.todo) = 1 THEN <<>> ELSE <<"read">>
         /\ Head(q.todo) = "insert" => q.op = "create"
         /\ Head(q.todo) = "update" => q.op = "update"
         /\ Head(q.todo) = "delete" => q.op = "remove"
         /\ Head(q.todo) = "read" => q.did # "none" /\ Len(q.todo) = 1 /\ Tail(q.todo) = <<>>
<1>1. CASE q.todo = <<"read">> /\ q.did # "none"
  BY <1>1
<1>2. CASE Unwritten(q)
  <2>1. q.did = "none" /\ (q.op = "create" /\ Head(q.todo) = "findName" => Unique)
    BY <1>2 DEF Unwritten
  <2>2. CASE q.op = "create"
    <3>1. q.todo \in Creating
      BY <1>2, <2>2 DEF Unwritten
    <3> QED BY <2>1, <2>2, <3>1, CreatingLeaves
  <2>3. CASE q.op = "update"
    <3>1. q.todo \in Updating
      BY <1>2, <2>3 DEF Unwritten
    <3> QED BY <2>1, <2>3, <3>1, UpdatingLeaves
  <2>4. CASE q.op = "remove"
    <3>1. q.todo \in Removing
      BY <1>2, <2>4 DEF Unwritten
    <3> QED BY <2>1, <2>4, <3>1, RemovingLeaves
  <2> QED BY <2>2, <2>3, <2>4 DEF Ops, Call
<1> QED BY <1>1, <1>2 DEF CallInPlace

\* A call goes on: only its own record changes, in three fields.
LEMMA Proceeds ==
  ASSUME RowsTypeOK, NEW c \in Calls, NEW did \in {"none", "applied", "void"}, Proceed(c, did)
  PROVE  /\ \A d \in Calls \ {c} : call'[d] = call[d]
         /\ call' = [d \in Calls |-> call'[d]]
         /\ call'[c].op = call[c].op /\ call'[c].id = call[c].id /\ call'[c].name = call[c].name
         /\ call'[c].todo = Tail(call[c].todo) /\ call'[c].did = did
         /\ call'[c].state = IF Len(call[c].todo) = 1 THEN "ok" ELSE "busy"
         /\ Tail(call[c].todo) \in Todos => call'[c] \in Call
<1> DEFINE q == call[c]
           t == Tail(q.todo)
           s == IF Len(q.todo) = 1 THEN "ok" ELSE "busy"
<1>1. q \in Call /\ call \in [Calls -> Call] /\ s \in {"busy", "ok"}
  BY DEF RowsTypeOK
<1>2. call'[c] = [[[q EXCEPT !.todo = t] EXCEPT !.did = did] EXCEPT !.state = s]
  BY <1>1 DEF Proceed
<1>3. call' = [d \in Calls |-> call'[d]] /\ \A d \in Calls \ {c} : call'[d] = call[d]
  BY <1>1 DEF Proceed
<1> HIDE DEF q, t, s
<1>4. /\ call'[c].op = q.op /\ call'[c].id = q.id /\ call'[c].name = q.name
      /\ call'[c].todo = t /\ call'[c].state = s /\ call'[c].did = did
      /\ t \in Todos => call'[c] \in Call
  BY <1>1, <1>2 DEF Call
<1> QED BY <1>3, <1>4 DEF q, t, s

\* A call is refused or fails: only its state changes.
LEMMA Stops ==
  ASSUME RowsTypeOK, NEW c \in Calls, NEW s \in {"refused", "failed"}, 
         call' = [call EXCEPT ![c].state = s]
  PROVE  /\ \A d \in Calls \ {c} : call'[d] = call[d]
         /\ call'[c] = [op |-> call[c].op, id |-> call[c].id, name |-> call[c].name, 
                        todo |-> call[c].todo, state |-> s, did |-> call[c].did]
         /\ DOMAIN call' = Calls /\ call' = [d \in Calls |-> call'[d]]
BY DEF RowsTypeOK, Call

\* What a call may become keeps the calls in their places.
LEMMA Becoming ==
  ASSUME RowsTypeOK, \A d \in Calls : CallInPlace(call[d]), NEW c \in Calls, kind' = kind,
         \A d \in Calls \ {c} : call'[d] = call[d], call' = [d \in Calls |-> call'[d]],
         call'[c] \in Call, CallInPlace(call'[c])
  PROVE  call' \in [Calls -> Call] /\ (\A d \in Calls : CallInPlace(call[d]))'
<1>1. call' \in [Calls -> Call]
  <2>1. \A d \in Calls : call'[d] \in Call
    BY DEF RowsTypeOK
  <2> QED BY <2>1
<1>2. ASSUME NEW d \in Calls PROVE CallInPlace(call[d])'
  <2>1. CallInPlace(call'[d])
    BY DEF RowsTypeOK
  <2> QED BY <2>1 DEF CallInPlace, Unwritten, Unique
<1> QED BY <1>1, <1>2

\* A statement leaves its call with what is still to do.
LEMMA StepInPlace ==
  ASSUME RowsTypeOK, \A d \in Calls : CallInPlace(call[d]), NEW c \in Calls, CallStep(c)
  PROVE  call' \in [Calls -> Call] /\ (\A d \in Calls : CallInPlace(call[d]))'
<1> DEFINE q == call[c]
<1>1. q \in Call /\ CallInPlace(q) /\ q.state = "busy"
  BY DEF RowsTypeOK, CallStep, FindName, FindId, Insert, Update, Delete, Read, Due
<1>2. kind' = kind
  BY DEF CallStep, FindName, FindId, Insert, Update, Delete, Read, Refuse, table
<1>3. CASE Refuse(c) /\ Head(q.todo) # "read"
  <2>1. q.did = "none"
    BY <1>1, <1>3 DEF CallInPlace, Unwritten
  <2>2. call'[c].state = "refused" /\ call'[c].did = "none" /\ call'[c] \in Call
    BY <1>1, <1>3, <2>1, Stops DEF Refuse, Call
  <2> QED BY <1>2, <1>3, <2>2, Stops, Becoming DEF Refuse, CallInPlace
<1>4. ASSUME Proceed(c, "none"), Head(q.todo) \in {"findName", "findId"}
      PROVE  call' \in [Calls -> Call] /\ (\A d \in Calls : CallInPlace(call[d]))'
  <2>1. call'[c].op = q.op /\ call'[c].todo = Tail(q.todo) /\ call'[c].state = "busy" /\ call'[c].did = "none"
    BY <1>1, <1>4, DueTodo, Proceeds
  <2>2. Tail(q.todo) \in CASE q.op = "create" -> Creating
                           [] q.op = "update" -> Updating
                           [] q.op = "remove" -> Removing
    BY <1>1, <1>4, DueTodo DEF Call, Ops
  <2>3. q.op = "create" => Head(Tail(q.todo)) # "findName"
    BY <1>1, <1>4, DueTodo
  <2>4. Tail(q.todo) \in Todos
    BY <1>1, <2>2 DEF Todos, Call, Ops
  <2>5. call'[c] \in Call
    BY <1>4, <2>4, Proceeds
  <2>6. Unwritten(call'[c])
    BY <2>1, <2>2, <2>3 DEF Unwritten
  <2>7. CallInPlace(call'[c])
    BY <2>1, <2>6 DEF CallInPlace
  <2> QED BY <1>2, <1>4, <2>5, <2>7, Proceeds, Becoming
<1>5. ASSUME NEW did \in {"applied", "void"}, Proceed(c, did),
             Head(q.todo) \in {"insert", "update", "delete", "read"}
      PROVE  call' \in [Calls -> Call] /\ (\A d \in Calls : CallInPlace(call[d]))'
  <2>1. /\ call'[c].op = q.op /\ call'[c].todo = Tail(q.todo) /\ call'[c].did = did
        /\ call'[c].state = IF Len(q.todo) = 1 THEN "ok" ELSE "busy"
    BY <1>5, Proceeds
  <2>2. Tail(q.todo) = IF Len(q.todo) = 1 THEN <<>> ELSE <<"read">>
    BY <1>1, <1>5, DueTodo
  <2>3. call'[c] \in Call
    <3>1. Tail(q.todo) \in Todos
      BY <2>2 DEF Todos
    <3> QED BY <1>5, <3>1, Proceeds
  <2>4. CallInPlace(call'[c])
    <3>1. CASE Len(q.todo) = 1
      BY <2>1, <3>1 DEF CallInPlace
    <3>2. CASE Len(q.todo) # 1
      BY <2>1, <2>2, <3>2 DEF CallInPlace
    <3> QED BY <3>1, <3>2
  <2> QED BY <1>2, <1>5, <2>3, <2>4, Proceeds, Becoming
<1>6. CASE Read(c)
  <2>1. q.did \in {"applied", "void"}
    BY <1>1, <1>6, DueTodo DEF Read, Due, Call
  <2> QED BY <1>5, <1>6, <2>1 DEF Read, Due
<1>7. CASE FindName(c) \/ FindId(c)
  BY <1>3, <1>4, <1>7 DEF FindName, FindId, Due
<1>8. CASE Insert(c) \/ Update(c) \/ Delete(c)
  BY <1>3, <1>5, <1>8 DEF Insert, Update, Delete, Due
<1> QED BY <1>6, <1>7, <1>8 DEF CallStep

\* The methods of the three services begin with what is to do before their writes.
LEMMA ServicePrograms ==
  ASSUME RowsTypeOK, NEW op \in Ops
  PROVE  /\ Service[op] \in CASE op = "create" -> Creating
                              [] op = "update" -> Updating
                              [] op = "remove" -> Removing
         /\ op = "create" /\ Head(Service[op]) = "findName" => Unique
         /\ Service[op] \in Todos
<1>1. CASE kind = "user"
  BY <1>1 DEF Service, UserService, Unique, Ops, Creating, Updating, Removing, Todos
<1>2. CASE kind = "genre"
  BY <1>2 DEF Service, GenreService, Unique, Ops, Creating, Updating, Removing, Todos
<1>3. CASE kind = "director"
  <2>1. Service = DirectorService /\ Head(<<"insert">>) # "findName"
    BY <1>3 DEF Service
  <2> QED BY <2>1 DEF DirectorService, Ops, Creating, Updating, Removing, Todos
<1> QED BY <1>1, <1>2, <1>3 DEF RowsTypeOK

\* A call starts with its method's statements.
LEMMA StartInPlace ==
  ASSUME RowsTypeOK, \A d \in Calls : CallInPlace(call[d]), NEW c \in Calls, StartCall(c)
  PROVE  call' \in [Calls -> Call] /\ (\A d \in Calls : CallInPlace(call[d]))'
<1>1. PICK op \in Ops, i \in Ids, n \in Names \cup {NoName} :
        call' = [call EXCEPT ![c] = [op |-> op, id |-> i, name |-> n, todo |-> Service[op],
                                     state |-> "busy", did |-> "none"]]
  BY DEF StartCall
<1>2. call'[c] = [op |-> op, id |-> i, name |-> n, todo |-> Service[op], state |-> "busy", did |-> "none"]
  BY <1>1 DEF RowsTypeOK
<1>3. call'[c] \in Call
  BY <1>2, ServicePrograms DEF Call
<1>4. Unwritten(call'[c])
  <2>1. call'[c].op = op /\ call'[c].todo = Service[op] /\ call'[c].did = "none"
    BY <1>2
  <2>2. /\ Service[op] \in CASE op = "create" -> Creating
                              [] op = "update" -> Updating
                              [] op = "remove" -> Removing
        /\ op = "create" /\ Head(Service[op]) = "findName" => Unique
    BY ServicePrograms
  <2> QED BY <2>1, <2>2 DEF Unwritten
<1>5. CallInPlace(call'[c])
  BY <1>2, <1>4 DEF CallInPlace
<1>6. call' = [d \in Calls |-> call'[d]] /\ (\A d \in Calls \ {c} : call'[d] = call[d]) /\ kind' = kind
  BY <1>1 DEF RowsTypeOK, StartCall, table
<1> QED BY <1>3, <1>5, <1>6, Becoming

\* A call that fails has nothing more to do.
LEMMA FailInPlace ==
  ASSUME RowsTypeOK, \A d \in Calls : CallInPlace(call[d]), NEW c \in Calls, Fail(c)
  PROVE  call' \in [Calls -> Call] /\ (\A d \in Calls : CallInPlace(call[d]))'
<1>1. call'[c].state = "failed" /\ call'[c] \in Call
  <2>1. call[c] \in Call
    BY DEF RowsTypeOK
  <2> QED BY <2>1, Stops DEF Fail, Call
<1>2. CallInPlace(call'[c])
  BY <1>1 DEF CallInPlace
<1> QED BY <1>1, <1>2, Stops, Becoming DEF Fail, table

RowsInv == RowsTypeOK /\ RowsInductive /\ UniqueNames /\ ReferencesHold

\* The first rows, of which there are none.
LEMMA RowsInitInv == RowsInit => RowsInv
<1> SUFFICES ASSUME RowsInit PROVE RowsInv
  OBVIOUS
<1>1. RowsTypeOK
  <2>1. 1 \in Ids /\ 1 \in 1..MaxId + 1
    BY RowsAssumption DEF Ids
  <2>2. Nothing \in Call
    BY <2>1 DEF Nothing, Call, Ops, Todos
  <2> QED BY <2>1, <2>2 DEF RowsInit, RowsTypeOK
<1>2. \A c \in Calls : CallInPlace(call[c])
  BY DEF RowsInit, Nothing, CallInPlace
<1>3. DrawnOnly /\ UniqueNames /\ ReferencesHold
  BY DEF RowsInit, DrawnOnly, UniqueNames, ReferencesHold, Missing
<1> QED BY <1>1, <1>2, <1>3 DEF RowsInv, RowsInductive

\* The table itself, statement by statement.
LEMMA TableStep ==
  ASSUME RowsInv, NEW c \in Calls, CallStep(c)
  PROVE  /\ kind' = kind /\ rows' \in [Ids -> Names \cup {NoName}] /\ nextId' \in 1..MaxId + 1
         /\ pinned' \subseteq Ids
         /\ DrawnOnly' /\ UniqueNames' /\ ReferencesHold'
<1> USE RowsAssumption DEF RowsInv, RowsTypeOK, RowsInductive, DrawnOnly, UniqueNames, ReferencesHold, Missing, Ids
<1>1. call[c].id \in Ids /\ call[c].name \in Names \cup {NoName}
  BY DEF Call, RowsTypeOK
<1>2. CASE UNCHANGED table
  BY <1>2 DEF table
<1>3. CASE Insert(c) /\ ~UNCHANGED table
  <2>1. /\ rows' = [rows EXCEPT ![nextId] = call[c].name] /\ nextId' = nextId + 1
        /\ nextId \in Ids /\ kind' = kind /\ pinned' = pinned
        /\ ~(Unique /\ Taken(call[c].name, 0))
    BY <1>3 DEF Insert, Refuse
  <2>2. rows[nextId] = NoName
    BY <2>1
  <2> QED BY <1>1, <2>1, <2>2 DEF Unique, Taken
<1>4. CASE Update(c) /\ ~UNCHANGED table
  <2>1. /\ rows' = IF call[c].name = NoName THEN rows ELSE [rows EXCEPT ![call[c].id] = call[c].name]
        /\ nextId' = nextId /\ kind' = kind /\ pinned' = pinned
        /\ ~Missing(call[c].id) /\ ~(Unique /\ Taken(call[c].name, call[c].id))
    BY <1>4 DEF Update, Refuse
  <2> QED BY <1>1, <2>1 DEF Unique, Taken
<1>5. CASE Delete(c) /\ ~UNCHANGED table
  <2>1. /\ rows' = [rows EXCEPT ![call[c].id] = NoName] /\ call[c].id \notin pinned
        /\ nextId' = nextId /\ kind' = kind /\ pinned' = pinned
    BY <1>5 DEF Delete, Refuse
  <2> QED BY <1>1, <2>1
<1> QED BY <1>2, <1>3, <1>4, <1>5 DEF CallStep, FindName, FindId, Read, Refuse

\* Every step keeps the invariants.
LEMMA RowsNextInv == RowsInv /\ [RowsNext]_rowsVars => RowsInv'
<1> SUFFICES ASSUME RowsInv, [RowsNext]_rowsVars PROVE RowsInv'
  OBVIOUS
<1> USE DEF RowsInv, RowsInductive
<1>1. ASSUME NEW c \in Calls, StartCall(c) PROVE RowsInv'
  BY <1>1, StartInPlace DEF StartCall, table, RowsTypeOK, DrawnOnly, UniqueNames, ReferencesHold, Missing
<1>2. ASSUME NEW c \in Calls, Fail(c) PROVE RowsInv'
  BY <1>2, FailInPlace DEF Fail, table, RowsTypeOK, DrawnOnly, UniqueNames, ReferencesHold, Missing
<1>3. ASSUME NEW c \in Calls, CallStep(c) PROVE RowsInv'
  BY <1>3, StepInPlace, TableStep DEF RowsTypeOK
<1>4. ASSUME NEW i \in Ids, Refer(i) PROVE RowsInv'
  BY <1>4 DEF Refer, RowsTypeOK, DrawnOnly, UniqueNames, ReferencesHold, Missing, CallInPlace, Unwritten, Unique
<1>5. CASE UNCHANGED rowsVars
  BY <1>5 DEF rowsVars, table, RowsTypeOK, DrawnOnly, UniqueNames, ReferencesHold, Missing, CallInPlace,
              Unwritten, Unique
<1> QED BY <1>1, <1>2, <1>3, <1>4, <1>5 DEF RowsNext

LEMMA RowsInvHolds == RowsSpec => []RowsInv
BY RowsInitInv, RowsNextInv, PTL DEF RowsSpec

---------------------------------------------------------------------------
(* The refinement of UniqueTable *)

Fates    == [d \in Calls |-> Fate(call[d])]
Askings  == [d \in Calls |-> Asked(call[d])]

\* The fate of the call that takes a step changes, and no other.
LEMMA FateBecomes ==
  ASSUME NEW c \in Calls, NEW f, \A d \in Calls \ {c} : call'[d] = call[d],
         Asked(call'[c]) = Asked(call[c]), Fate(call[c]) = "pending", Fate(call'[c]) = f
  PROVE  Table!Becomes(c, f)
<1>1. Askings' = Askings
  BY DEF Askings
<1>2. Fates' = [Fates EXCEPT ![c] = f] /\ Fates[c] = "pending"
  BY DEF Fates
<1> QED BY <1>1, <1>2 DEF Table!Becomes, Fates, Askings

\* A call that has not written yet, or not any more, looks the same after its step.
LEMMA FateStays ==
  ASSUME NEW c \in Calls, \A d \in Calls \ {c} : call'[d] = call[d],
         Asked(call'[c]) = Asked(call[c]), Fate(call'[c]) = Fate(call[c]), UNCHANGED table
  PROVE  UNCHANGED Table!vars
BY DEF Table!vars, table, Unique

\* What is asked in the table is what the call has in it, once it has started.
LEMMA AskedIs ==
  ASSUME NEW c \in Calls, call[c].state # "idle"
  PROVE  Askings[c] = [op |-> call[c].op, id |-> call[c].id, name |-> call[c].name]
BY DEF Askings, Asked

\* Refusals and failures of a call that has not written.
LEMMA StopsRefine ==
  ASSUME RowsInv, NEW c \in Calls, call[c].state = "busy", call[c].did = "none", UNCHANGED table,
         NEW s \in {"refused", "failed"}, call' = [call EXCEPT ![c].state = s]
  PROVE  /\ Table!Becomes(c, s) /\ UNCHANGED <<rows, pinned, 1..(nextId - 1), Unique>>
<1>1. /\ \A d \in Calls \ {c} : call'[d] = call[d]
      /\ call'[c] = [op |-> call[c].op, id |-> call[c].id, name |-> call[c].name, 
                     todo |-> call[c].todo, state |-> s, did |-> call[c].did]
  BY Stops DEF RowsInv
<1>2. Asked(call'[c]) = Asked(call[c])
  BY <1>1 DEF Asked
<1>3. Fate(call[c]) = "pending" /\ Fate(call'[c]) = s
  BY <1>1 DEF Fate
<1> QED BY <1>1, <1>2, <1>3, FateBecomes DEF table, Unique

\* A statement that writes decides the fate of its call.
LEMMA WriteRefines ==
  ASSUME RowsInv, NEW c \in Calls, call[c].state = "busy", call[c].did = "none",
         NEW did \in {"applied", "void"}, Proceed(c, did)
  PROVE  Table!Becomes(c, did)
<1>1. Asked(call'[c]) = Asked(call[c])
  BY Proceeds DEF Asked, RowsInv
<1>2. Fate(call[c]) = "pending" /\ Fate(call'[c]) = did
  BY Proceeds DEF Fate, RowsInv
<1> QED BY <1>1, <1>2, FateBecomes, Proceeds DEF RowsInv

\* What a statement that is due knows of its call.
LEMMA DueCall ==
  ASSUME RowsInv, NEW c \in Calls, NEW s, Due(c, s)
  PROVE  /\ call[c].state = "busy" /\ call[c].id \in Ids /\ call[c].name \in Names \cup {NoName}
         /\ s \in {"findName", "findId", "insert", "update", "delete"} => call[c].did = "none"
         /\ s \in {"findName", "insert"} => call[c].op = "create"
         /\ s = "findName" => Unique
         /\ s = "findId" => call[c].op \in {"update", "remove"}
         /\ s = "update" => call[c].op = "update"
         /\ s = "delete" => call[c].op = "remove"
         /\ s = "read" => call[c].did \in {"applied", "void"}
         /\ Askings[c] = [op |-> call[c].op, id |-> call[c].id, name |-> call[c].name]
<1>1. call[c] \in Call /\ CallInPlace(call[c]) /\ call[c].state = "busy" /\ Head(call[c].todo) = s
  BY DEF RowsInv, RowsTypeOK, RowsInductive, Due
<1>2. call[c].id \in Ids /\ call[c].name \in Names \cup {NoName} /\ call[c].op \in Ops
      /\ call[c].did \in {"none", "applied", "void"}
  BY <1>1 DEF Call
<1> QED BY <1>1, <1>2, DueTodo, AskedIs DEF Ops

\* A call that starts is asked of the table.
LEMMA StartRefines ==
  ASSUME RowsInv, NEW c \in Calls, StartCall(c)
  PROVE  Table!Ask(c) /\ UNCHANGED Unique
<1>1. PICK op \in Ops, i \in Ids, n \in Names \cup {NoName} :
        call' = [call EXCEPT ![c] = [op |-> op, id |-> i, name |-> n, todo |-> Service[op],
                                     state |-> "busy", did |-> "none"]]
  BY DEF StartCall
<1>2. /\ call'[c] = [op |-> op, id |-> i, name |-> n, todo |-> Service[op], state |-> "busy", did |-> "none"]
      /\ \A d \in Calls \ {c} : call'[d] = call[d]
  BY <1>1 DEF RowsInv, RowsTypeOK
<1>3. Fate(call[c]) = "idle" /\ Fate(call'[c]) = "pending"
  BY <1>2 DEF StartCall, Fate, RowsInv, RowsInductive, CallInPlace
<1>4. Asked(call'[c]) = [op |-> op, id |-> i, name |-> n]
  BY <1>2 DEF Asked
<1>5. Fates[c] = "idle" /\ Fates' = [Fates EXCEPT ![c] = "pending"]
  BY <1>2, <1>3 DEF Fates
<1>6. Askings' = [Askings EXCEPT ![c] = [op |-> op, id |-> i, name |-> n]]
  BY <1>2, <1>4 DEF Askings
<1>7. [op |-> op, id |-> i, name |-> n] \in Table!Requests
  BY DEF Table!Requests, Ops
<1> QED BY <1>5, <1>6, <1>7 DEF Table!Ask, Fates, Askings, StartCall, table, Unique

\* The abstract table speaks of names as the services do.
LEMMA SameNames ==
  ASSUME NEW n, NEW i
  PROVE  Table!Taken(n, i) = Taken(n, i) /\ Table!Missing(i) = Missing(i)
BY DEF Table!Taken, Taken, Table!Missing, Missing

\* The looks beforehand refuse, or do nothing yet.
LEMMA FindRefines ==
  ASSUME RowsInv, NEW c \in Calls, FindName(c) \/ FindId(c)
  PROVE  (Table!Refuse(c) /\ UNCHANGED Unique) \/ UNCHANGED Table!vars
<1>1. CASE /\ Refuse(c)
           /\ (Due(c, "findName") /\ Taken(call[c].name, 0)) \/ (Due(c, "findId") /\ Missing(call[c].id))
  <2>1. call[c].state = "busy" /\ call[c].did = "none"
    BY <1>1, DueCall
  <2>2. Table!Becomes(c, "refused") /\ UNCHANGED <<rows, pinned, 1..(nextId - 1), Unique>>
    BY <1>1, <2>1, StopsRefine DEF Refuse
  <2>3. \/ Askings[c].op = "create" /\ Unique /\ \E j \in Ids : rows[j] = Askings[c].name
        \/ Askings[c].op \in {"update", "remove"} /\ Missing(Askings[c].id)
    <3>1. CASE Due(c, "findName") /\ Taken(call[c].name, 0)
      <4>1. call[c].op = "create" /\ Unique
        BY <3>1, DueCall
      <4>2. Askings[c] = [op |-> call[c].op, id |-> call[c].id, name |-> call[c].name]
        BY <3>1, DueCall
      <4> QED BY <3>1, <4>1, <4>2 DEF Taken
    <3>2. CASE Due(c, "findId") /\ Missing(call[c].id)
      <4>1. call[c].op \in {"update", "remove"}
        BY <3>2, DueCall
      <4>2. Askings[c] = [op |-> call[c].op, id |-> call[c].id, name |-> call[c].name]
        BY <3>2, DueCall
      <4> QED BY <3>2, <4>1, <4>2
    <3> QED BY <1>1, <3>1, <3>2
  <2> QED BY <2>2, <2>3, SameNames DEF Table!Refuse, Askings
<1>2. CASE Proceed(c, "none") /\ UNCHANGED table /\ (Due(c, "findName") \/ Due(c, "findId"))
  <2>2. call[c].state = "busy" /\ call[c].did = "none"
    BY <1>2, DueCall
  <2>3. Fate(call[c]) = "pending" /\ Fate(call'[c]) = "pending"
    <3>1. Len(call[c].todo) # 1
      BY <1>2, DueTodo DEF Due, RowsInv, RowsInductive, RowsTypeOK
    <3> QED BY <1>2, <2>2, <3>1, Proceeds DEF Fate, RowsInv
  <2>4. Asked(call'[c]) = Asked(call[c])
    <3>1. call'[c].state \in {"ok", "busy"}
      BY <1>2, Proceeds DEF RowsInv
    <3> QED BY <1>2, <2>2, <3>1, Proceeds DEF Asked, RowsInv
  <2> QED BY <1>2, <2>3, <2>4, Proceeds, FateStays DEF RowsInv
<1> QED BY <1>1, <1>2 DEF FindName, FindId

\* The table's view of a call whose statement is due.
LEMMA DueAsked ==
  ASSUME RowsInv, NEW c \in Calls, NEW s, Due(c, s)
  PROVE  /\ Askings[c].op = call[c].op /\ Askings[c].id = call[c].id /\ Askings[c].name = call[c].name
<1>1. Askings[c] = [op |-> call[c].op, id |-> call[c].id, name |-> call[c].name]
  BY DueCall
<1> QED BY <1>1

\* The INSERT of create.
LEMMA InsertRefines ==
  ASSUME RowsInv, NEW c \in Calls, Insert(c)
  PROVE  (Table!Refuse(c) \/ Table!Create(c)) /\ UNCHANGED Unique
<1>1. /\ Due(c, "insert") /\ nextId \in Ids /\ nextId \notin 1..(nextId - 1)
      /\ nextId \in Nat
    BY RowsAssumption DEF Insert, RowsInv, RowsTypeOK, Ids
<1>2. call[c].state = "busy" /\ call[c].did = "none" /\ call[c].op = "create"
  BY <1>1, DueCall
<1>3. Askings[c].op = "create" /\ Askings[c].name = call[c].name
  BY <1>1, <1>2, DueAsked
<1>4. CASE Unique /\ Taken(call[c].name, 0) /\ Refuse(c)
  <2>1. Table!Becomes(c, "refused") /\ UNCHANGED <<rows, pinned, 1..(nextId - 1), Unique>>
    BY <1>2, <1>4, StopsRefine DEF Refuse
  <2>2. \E j \in Ids : rows[j] = Askings[c].name
    BY <1>3, <1>4 DEF Taken
  <2> QED BY <1>3, <1>4, <2>1, <2>2 DEF Table!Refuse, Askings
<1>5. CASE /\ ~(Unique /\ Taken(call[c].name, 0))
           /\ rows' = [rows EXCEPT ![nextId] = call[c].name] /\ nextId' = nextId + 1
           /\ Proceed(c, "applied") /\ UNCHANGED <<kind, pinned>>
  <2>1. Table!Becomes(c, "applied")
    BY <1>2, <1>5, WriteRefines
  <2>2. ~(Unique /\ Taken(call[c].name, nextId))
    BY <1>5 DEF Taken, Ids
  <2>3. 1..(nextId' - 1) = (1..(nextId - 1)) \cup {nextId}
    <3>1. nextId \in Nat /\ nextId >= 1 /\ nextId' - 1 = nextId
      BY <1>1, <1>5 DEF Ids
    <3>2. 1..nextId = (1..(nextId - 1)) \cup {nextId}
      BY <3>1
    <3> QED BY <3>1, <3>2
  <2>4. /\ nextId \in Ids \ (1..(nextId - 1)) /\ ~(Unique /\ Table!Taken(Askings[c].name, nextId))
        /\ rows' = [rows EXCEPT ![nextId] = Askings[c].name]
    BY <1>1, <1>3, <1>5, <2>2, SameNames
  <2>5. \E i \in Ids \ (1..(nextId - 1)) :
          /\ ~(Unique /\ Table!Taken(Askings[c].name, i))
          /\ rows' = [rows EXCEPT ![i] = Askings[c].name]
          /\ (1..(nextId' - 1)) = (1..(nextId - 1)) \cup {i}
    BY <2>3, <2>4
  <2> QED BY <1>3, <1>5, <2>1, <2>5 DEF Table!Create, Askings, Unique
<1> QED BY <1>4, <1>5 DEF Insert

\* The UPDATE of update.
LEMMA UpdateRefines ==
  ASSUME RowsInv, NEW c \in Calls, Update(c)
  PROVE  (Table!Refuse(c) \/ Table!Miss(c) \/ Table!Rename(c)) /\ UNCHANGED Unique
<1> DEFINE i == call[c].id
           n == call[c].name
<1>1. call[c].state = "busy" /\ call[c].did = "none" /\ call[c].op = "update"
  BY DueCall DEF Update
<1>2. Askings[c].op = "update" /\ Askings[c].id = i /\ Askings[c].name = n
  BY <1>1, DueAsked DEF Update
<1>3. CASE Missing(i) /\ Proceed(c, "void") /\ UNCHANGED table
  <2>1. Table!Becomes(c, "void")
    BY <1>1, <1>3, WriteRefines
  <2> QED BY <1>2, <1>3, <2>1, SameNames DEF Table!Miss, Askings, table, Unique
<1>4. CASE ~Missing(i) /\ Unique /\ Taken(n, i) /\ Refuse(c)
  <2>1. Table!Becomes(c, "refused") /\ UNCHANGED <<rows, pinned, 1..(nextId - 1), Unique>>
    BY <1>1, <1>4, StopsRefine DEF Refuse
  <2> QED BY <1>2, <1>4, <2>1, SameNames DEF Table!Refuse, Askings
<1>5. CASE /\ ~Missing(i) /\ ~(Unique /\ Taken(n, i))
           /\ rows' = IF n = NoName THEN rows ELSE [rows EXCEPT ![i] = n]
           /\ Proceed(c, "applied") /\ UNCHANGED <<kind, nextId, pinned>>
  <2>1. Table!Becomes(c, "applied")
    BY <1>1, <1>5, WriteRefines
  <2> QED BY <1>2, <1>5, <2>1, SameNames DEF Table!Rename, Askings, Unique
<1> QED BY <1>3, <1>4, <1>5 DEF Update

\* The DELETE of remove.
LEMMA DeleteRefines ==
  ASSUME RowsInv, NEW c \in Calls, Delete(c)
  PROVE  (Table!Refuse(c) \/ Table!Miss(c) \/ Table!Remove(c)) /\ UNCHANGED Unique
<1> DEFINE i == call[c].id
<1>1. call[c].state = "busy" /\ call[c].did = "none" /\ call[c].op = "remove"
  BY DueCall DEF Delete
<1>2. Askings[c].op = "remove" /\ Askings[c].id = i
  BY <1>1, DueAsked DEF Delete
<1>3. CASE Missing(i) /\ Proceed(c, "void") /\ UNCHANGED table
  <2>1. Table!Becomes(c, "void")
    BY <1>1, <1>3, WriteRefines
  <2> QED BY <1>2, <1>3, <2>1, SameNames DEF Table!Miss, Askings, table, Unique
<1>4. CASE ~Missing(i) /\ i \in pinned /\ Refuse(c)
  <2>1. Table!Becomes(c, "refused") /\ UNCHANGED <<rows, pinned, 1..(nextId - 1), Unique>>
    BY <1>1, <1>4, StopsRefine DEF Refuse
  <2> QED BY <1>2, <1>4, <2>1 DEF Table!Refuse, Askings
<1>5. CASE /\ ~Missing(i) /\ i \notin pinned
           /\ rows' = [rows EXCEPT ![i] = NoName]
           /\ Proceed(c, "applied") /\ UNCHANGED <<kind, nextId, pinned>>
  <2>1. Table!Becomes(c, "applied")
    BY <1>1, <1>5, WriteRefines
  <2> QED BY <1>2, <1>5, <2>1, SameNames DEF Table!Remove, Askings, Unique
<1> QED BY <1>3, <1>4, <1>5 DEF Delete

\* The answer is read, or the call fails, when its fate is decided or nothing was done.
LEMMA EndRefines ==
  ASSUME RowsInv, NEW c \in Calls, Read(c) \/ Fail(c)
  PROVE  (Table!Fail(c) /\ UNCHANGED Unique) \/ UNCHANGED Table!vars
<1>1. CASE Read(c)
  <2>1. call[c].did \in {"applied", "void"} /\ call[c].state = "busy"
    BY <1>1, DueCall DEF Read
  <2>2. Proceed(c, call[c].did) /\ UNCHANGED table
    BY <1>1 DEF Read
  <2>3. Asked(call'[c]) = Asked(call[c]) /\ Fate(call'[c]) = Fate(call[c])
    BY <2>1, <2>2, Proceeds DEF Asked, Fate, RowsInv
  <2> QED BY <2>1, <2>2, <2>3, Proceeds, FateStays DEF RowsInv
<1>2. CASE Fail(c) /\ call[c].did = "none"
  BY <1>2, StopsRefine DEF Fail, Table!Fail
<1>3. CASE Fail(c) /\ call[c].did # "none"
  <2>1. /\ \A d \in Calls \ {c} : call'[d] = call[d]
        /\ call'[c] = [op |-> call[c].op, id |-> call[c].id, name |-> call[c].name,
                       todo |-> call[c].todo, state |-> "failed", did |-> call[c].did]
        /\ call[c].state = "busy" /\ UNCHANGED table
    BY <1>3, Stops DEF Fail, RowsInv
  <2>2. Asked(call'[c]) = Asked(call[c]) /\ Fate(call'[c]) = Fate(call[c])
    BY <1>3, <2>1 DEF Asked, Fate
  <2> QED BY <2>1, <2>2, FateStays
<1> QED BY <1>1, <1>2, <1>3

\* Every step of the services is one of the table, or none.
LEMMA RowsRefine ==
  RowsInv /\ [RowsNext]_rowsVars => [Table!Next /\ UNCHANGED Unique]_(Table!vars)
<1> SUFFICES ASSUME RowsInv, [RowsNext]_rowsVars
             PROVE  (Table!Next /\ UNCHANGED Unique) \/ UNCHANGED Table!vars
  OBVIOUS
<1>1. ASSUME NEW c \in Calls, StartCall(c) \/ CallStep(c) \/ Fail(c)
      PROVE  (Table!Next /\ UNCHANGED Unique) \/ UNCHANGED Table!vars
  BY <1>1, StartRefines, FindRefines, InsertRefines, UpdateRefines, DeleteRefines, EndRefines
     DEF CallStep, Table!Next
<1>2. ASSUME NEW i \in Ids, Refer(i) PROVE Table!Next /\ UNCHANGED Unique
  <2>1. Table!Refer(i)
    BY <1>2, SameNames DEF Refer, Table!Refer
  <2> QED BY <1>2, <2>1 DEF Table!Next, Refer, Unique
<1>3. CASE UNCHANGED rowsVars
  BY <1>3 DEF rowsVars, table, Table!vars, Unique
<1> QED BY <1>1, <1>2, <1>3 DEF RowsNext

\* The table of the services is well-formed in every reachable state.
THEOREM RowsTypeCorrect == RowsSpec => []RowsTypeOK
<1>1. RowsInv => RowsTypeOK
  BY DEF RowsInv
<1> QED BY <1>1, RowsInvHolds, PTL

\* No two users have one email and no two genres one name, however the statements of
\* create, update and remove interleave.
THEOREM NamesAreUnique == RowsSpec => []UniqueNames
<1>1. RowsInv => UniqueNames
  BY DEF RowsInv
<1> QED BY <1>1, RowsInvHolds, PTL

\* No row goes that movies, likes or messages refer to.
THEOREM ReferencesAreHeld == RowsSpec => []ReferencesHold
<1>1. RowsInv => ReferencesHold
  BY DEF RowsInv
<1> QED BY <1>1, RowsInvHolds, PTL

\* The services implement a table on which every call takes effect at one instant: their
\* statements map to its operations, the looks before and the reads after to none.
THEOREM RowsAreATable == RowsSpec => TakesEffectAtOnce
<1>1. RowsInit => Table!Init
  BY DEF RowsInit, Table!Init, Nothing, Asked, Fate, Unique
<1> QED BY <1>1, RowsRefine, RowsInvHolds, PTL DEF RowsSpec, TakesEffectAtOnce, Table!Spec
===========================================================================
