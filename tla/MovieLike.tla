---------------------------- MODULE MovieLike -----------------------------
(***************************************************************************)
(* MovieService.toggleMovieLike, one action per awaited query, for any     *)
(* number of requests interleaved by the Node event loop, over the         *)
(* movie_user_like table and the movie and user rows it refers to.  Every  *)
(* query of the method runs on its own pooled connection and commits by    *)
(* itself: nothing holds the row between the read and the write.           *)
(***************************************************************************)
EXTENDS Naturals

CONSTANTS Movies, Users, Requests,
          NoUser   \* the sub of an access token that was rotated: undefined

ASSUME NoUserIsNobody == NoUser \notin Users

Signs  == {"like", "dislike"}
Lights == Signs \cup {"none"}
Pairs  == Movies \X Users
Strays == Movies \X {NoUser}   \* a movie, and a token that names no user

VARIABLES movies,   \* ids with a row in table movie
          users,    \* ids with a row in table user
          likes,    \* likes[p]: the isLike column of row p, "none" without a row
          req       \* req[r]: the request r and the local variables of its handler

vars == <<movies, users, likes, req>>

Refusals == {"noMovie", "noUser", "duplicateKey", "foreignKey"}
PCs == {"idle", "findMovie", "findUser", "getLiked", "delete", "update", "save",
        "insert", "readBack", "done"}

Request == [pc: PCs, pair: Pairs \cup Strays, want: Signs, seen: Lights,
            answer: Lights \cup Refusals \cup {"error"},
            stray: BOOLEAN,  \* userId is undefined
            alone: BOOLEAN]  \* history: no other request overlapped it on its pair

\* before the user is found; later the pair is that of the two rows found
Unfound == {"findMovie", "findUser", "done"}

TypeOK == /\ movies \subseteq Movies
          /\ users \subseteq Users
          /\ likes \in [Pairs -> Lights]
          /\ req \in [Requests -> Request]
          /\ \A r \in Requests : req[r].pair \in Strays => req[r].stray /\ req[r].pc \in Unfound

\* `isLike === likeRecord.isLike` : the second press of a button removes the row
Toggle(l, s) == IF l = s THEN "none" ELSE s

InFlight(r) == req[r].pc \notin {"idle", "done"}
OnPair(p)   == {r \in Requests : InFlight(r) /\ req[r].pair = p}

Init == /\ movies = Movies
        /\ users = Users
        /\ likes = [p \in Pairs |-> "none"]
        /\ req \in [Requests -> [pc: {"idle"}, pair: Pairs, want: Signs, seen: {"none"},
                                 answer: {"none"}, stray: {FALSE}, alone: {TRUE}]]

Goto(r, pc)      == req' = [req EXCEPT ![r].pc = pc]
Finish(r, reply) == req' = [req EXCEPT ![r].pc = "done", ![r].answer = reply]
Write(p, l)      == likes' = [likes EXCEPT ![p] = l]
\* the caches, sessions and other tables are not touched by a like request
Rows             == <<movies, users, likes>>

\* request r is on pair p from now on, and every other there has met it
Joins(r, p, new) ==
  LET met == OnPair(p)
  IN  req' = [q \in Requests |-> IF q = r THEN new
                                 ELSE IF q \in met THEN [req[q] EXCEPT !.alone = FALSE]
                                 ELSE req[q]]

\* POST /movie/:id/like (or /dislike) reaches the service
Press(r, p, s) ==
  /\ ~InFlight(r)
  /\ Joins(r, p, [pc |-> "findMovie", pair |-> p, want |-> s, seen |-> "none",
                  answer |-> "none", stray |-> p \in Strays,
                  alone |-> p \in Pairs /\ OnPair(p) = {}])
  /\ UNCHANGED Rows

FindMovie(r) ==
  /\ req[r].pc = "findMovie"
  /\ \/ req[r].pair[1] \in movies /\ Goto(r, "findUser")
     \/ req[r].pair[1] \notin movies /\ Finish(r, "noMovie")
  /\ UNCHANGED Rows

FindUser(r) ==
  /\ req[r].pc = "findUser"
  /\ \/ req[r].pair[2] \in users /\ Goto(r, "getLiked")
     \/ /\ req[r].pair[2] \notin users
        /\ req[r].stray => users = {}
        /\ Finish(r, "noUser")
  /\ UNCHANGED Rows

Found(q, p) == [q EXCEPT !.pc = "getLiked", !.pair = p]

\* findOne drops a condition that is undefined: any user is found for no user
FindAnyUser(r) ==
  /\ req[r].pc = "findUser" /\ req[r].pair \in Strays
  /\ \E u \in users :
       LET p == <<req[r].pair[1], u>> IN Joins(r, p, Found(req[r], p))
  /\ UNCHANGED Rows

\* the like record read: none has a user id that is undefined
LikeRecord(r) == IF req[r].stray THEN "none" ELSE likes[req[r].pair]

\* the statement the record read asks for
Statement(l, s) == CASE l = "none" -> "save"
                     [] l = s      -> "delete"
                     [] OTHER      -> "update"

GetLikedRecord(r) ==
  LET l == LikeRecord(r)
  IN  /\ req[r].pc = "getLiked"
      /\ req' = [req EXCEPT ![r].pc = Statement(l, req[r].want), ![r].seen = l]
      /\ UNCHANGED Rows

\* DELETE ... WHERE movieId AND userId: whatever the row holds by now
DeleteLike(r) ==
  /\ req[r].pc = "delete"
  /\ Write(req[r].pair, "none")
  /\ Goto(r, "readBack")
  /\ UNCHANGED <<movies, users>>

\* UPDATE ... WHERE movieId AND userId: no row, no effect and no error
UpdateLike(r) ==
  LET p == req[r].pair
  IN  /\ req[r].pc = "update"
      /\ Write(p, IF likes[p] = "none" THEN "none" ELSE req[r].want)
      /\ Goto(r, "readBack")
      /\ UNCHANGED <<movies, users>>

\* mutant: save() of a row that is there already selects it again and again
SaveSelectOfNewRow(r) ==
  /\ req[r].pc = "save"
  /\ \/ likes[req[r].pair] = "none" /\ Goto(r, "insert")
     \/ likes[req[r].pair] # "none" /\ UNCHANGED req
  /\ UNCHANGED Rows

\* save() first selects the row by primary key; when it finds one it writes
\* the difference, which is nothing when the row already says so
SaveSelect(r) ==
  LET l == likes[req[r].pair]
  IN  /\ req[r].pc = "save"
      /\ \/ l = "none" /\ Goto(r, "insert")
         \/ l = req[r].want /\ Goto(r, "readBack")
         \/ l \notin {"none", req[r].want} /\ Goto(r, "update")
      /\ UNCHANGED Rows

\* the INSERT of save(): the primary key and the two foreign keys are checked
SaveInsert(r) ==
  LET p == req[r].pair
  IN  /\ req[r].pc = "insert"
      /\ \/ /\ likes[p] # "none"
            /\ Finish(r, "duplicateKey")
            /\ UNCHANGED likes
         \/ /\ likes[p] = "none"
            /\ ~(p[1] \in movies /\ p[2] \in users)
            /\ Finish(r, "foreignKey")
            /\ UNCHANGED likes
         \/ /\ likes[p] = "none"
            /\ p[1] \in movies /\ p[2] \in users
            /\ Write(p, req[r].want)
            /\ Goto(r, "readBack")
      /\ UNCHANGED <<movies, users>>

\* mutant: the button pressed is answered, not the row
ReadBackWanted(r) == req[r].pc = "readBack" /\ Finish(r, req[r].want) /\ UNCHANGED Rows

\* `isLike: result && result.isLike`
ReadBack(r) ==
  /\ req[r].pc = "readBack"
  /\ Finish(r, LikeRecord(r))
  /\ UNCHANGED Rows

\* The query awaited is rejected (a lost connection, a deadlock, a time-out of the
\* database), or the answer is discarded by ResponseTimeInterceptor's late 500: the
\* request ends with an error, and what it had written stays written.  A write
\* whose acknowledgement is lost is the write followed by this step.
QueryFails(r) ==
  /\ InFlight(r)
  /\ req' = [req EXCEPT ![r].pc = "done", ![r].answer = "error", ![r].seen = "none"]
  /\ UNCHANGED Rows

\* mutant: no foreign key from movie_user_like to movie
RemoveMovieUnchecked(m) ==
  m \in movies /\ movies' = movies \ {m} /\ UNCHANGED <<users, likes, req>>

\* the DELETE of MovieService.remove: the foreign key of movie_user_like has
\* no cascade, so a movie with a like or dislike stays (the request gets 400)
RemoveMovie(m) ==
  /\ m \in movies
  /\ \A u \in Users : likes[<<m, u>>] = "none"
  /\ movies' = movies \ {m}
  /\ UNCHANGED <<users, likes, req>>

\* the DELETE of UserService.remove, under the same foreign key
RemoveUser(u) ==
  /\ u \in users
  /\ \A m \in Movies : likes[<<m, u>>] = "none"
  /\ users' = users \ {u}
  /\ UNCHANGED <<movies, likes, req>>

Query(r) == \/ FindMovie(r) \/ FindUser(r) \/ GetLikedRecord(r)
            \/ DeleteLike(r) \/ UpdateLike(r) \/ SaveSelect(r) \/ SaveInsert(r)
            \/ ReadBack(r)

Step(r) == Query(r) \/ FindAnyUser(r)

Next == \/ \E r \in Requests : \/ \E p \in Pairs \cup Strays, s \in Signs : Press(r, p, s)
                               \/ Step(r)
                               \/ QueryFails(r)
        \/ \E m \in Movies : RemoveMovie(m)
        \/ \E u \in Users : RemoveUser(u)

\* the database answers every query it is sent, if only with an error; nobody
\* has to press anything, and nothing has to fail
Fairness == \A r \in Requests : WF_vars(Step(r))

Spec == Init /\ [][Next]_vars /\ Fairness

---------------------------------------------------------------------------
(* Properties *)

\* Every like row belongs to a movie and a user that still exist, though both
\* were looked up several awaits before the row is written.
NoDanglingLike ==
  \A p \in Pairs : likes[p] # "none" => p[1] \in movies /\ p[2] \in users

\* A request no other request overlapped on its pair acts as if it were one
\* step: it is never refused for a duplicate key, its write is still to come
\* or has left exactly the toggled light, and it answers that light, or fails.
ActsAtomically(r) ==
  LET q == req[r]
  IN  /\ q.pc \in {"delete", "update", "save", "insert"} => likes[q.pair] = q.seen
      /\ q.pc = "readBack" => likes[q.pair] = Toggle(q.seen, q.want)
      /\ q.pc = "done" => q.answer \in {Toggle(q.seen, q.want), "noMovie", "noUser", "foreignKey",
                                         "error"}

AloneIsAtomic == \A r \in Requests : req[r].alone => ActsAtomically(r)

\* What makes AloneIsAtomic inductive: a request still alone has its pair to
\* itself, and stands at the statement the row it saw calls for.
Exclusive(r) ==
  InFlight(r) => \A o \in Requests \ {r} : InFlight(o) => req[o].pair # req[r].pair

AtItsStatement(r) ==
  LET q == req[r]
  IN  /\ q.pc = "delete" => q.seen = q.want
      /\ q.pc = "update" => q.seen \notin {"none", q.want}
      /\ q.pc \in {"save", "insert"} => q.seen = "none"

\* A request without a user is promised nothing of that, and reads no record.
StraysApart(r) == req[r].stray => ~req[r].alone /\ req[r].pc # "delete"

AloneInductive ==
  \A r \in Requests :
    /\ StraysApart(r)
    /\ req[r].alone => Exclusive(r) /\ AtItsStatement(r) /\ ActsAtomically(r)

\* A user's light changes only while a request that has looked that user up for
\* that movie is in flight, and a light that comes on is one it asked for.
OnlyThePresserMovesTheLight ==
  [][\A p \in Pairs : likes'[p] # likes[p] =>
       \E r \in OnPair(p) : likes'[p] \in {"none", req[r].want}]_vars


\* Every press is eventually answered or refused.
EveryPressEnds == \A r \in Requests : InFlight(r) ~> ~InFlight(r)

---------------------------------------------------------------------------
(* The abstract buttons the table implements *)

PhaseOf(q) == CASE q.pc = "idle" -> "idle"
                [] q.pc = "readBack" -> "taken"
                [] q.pc = "done" -> CASE q.answer \in Refusals -> "refused"
                                      [] q.answer = "error"    -> "failed"
                                      [] OTHER                 -> "answered"
                [] OTHER -> "pending"

LitOf(q) == CASE q.pc = "readBack" /\ q.alone         -> Toggle(q.seen, q.want)
              [] q.pc = "done" /\ q.answer \in Lights -> q.answer
              [] OTHER                                -> "none"

PressOf(q) == [phase |-> PhaseOf(q), pair |-> q.pair, want |-> q.want,
               lit |-> LitOf(q), stray |-> q.stray, alone |-> q.alone]

Buttons == INSTANCE LikeButton WITH light <- likes,
                                    press <- [r \in Requests |-> PressOf(req[r])]

\* Every request is a press of the buttons: one indivisible toggle, answered with
\* the light it left, unless it met another of its pair; and one write even then.
\* One answered with an error took effect once or not at all, refused ones never.
\* One without a user lands on any user's buttons, and never puts a light out.
ButtonsSpec == Buttons!Spec
===========================================================================
