-------------------------- MODULE RequestPipeline --------------------------
(***************************************************************************)
(* The public routes GET /movie and GET /movie/:id within what main.ts and *)
(* app.module.ts put around every handler: the express session, which a    *)
(* request reads when it comes in and writes back when it is answered, and *)
(* ResponseTimeInterceptor around ThrottleInterceptor.                     *)
(* The store of the sessions is in memory, and reading a session, the      *)
(* guards, the throttle and the start of the handler are not interleaved   *)
(* with other requests; the handler's queries are.                         *)
(***************************************************************************)
EXTENDS Throttle

CONSTANTS Sessions,  \* the cookies of the browsers
          Movies,    \* the ids asked for in GET /movie/:id, of a movie or not
          NoMovie,   \* GET /movie asks for none
          MaxViews   \* bound: views of a movie that a session asks for

ASSUME PipelineAssumption == NoMovie \notin Movies /\ MaxViews \in Nat

VARIABLES movieCount, \* movieCount[s]: the views in the stored session
          session,    \* session[r]: the session of the request, and its copy of the views
          views,      \* history: views[s][m], the requests for the movie so far
          overlapped, \* history: the sessions that had two requests in progress
          given,      \* history: given[k], the pages of a key's user and minute answered with 200
          late        \* history: late[k], those answered with 500 although the handler succeeded

pipeline     == <<movieCount, session, views, overlapped, given, late>>
pipelineVars == <<vars, pipeline>>

Counts     == [Movies -> Nat]
NoViews    == [m \in Movies |-> 0]
InUse(s)   == {r \in Requests : req[r].pc = "handling" /\ session[r].id = s}
Counted(c, m) == IF m = NoMovie THEN c ELSE [c EXCEPT ![m] = @ + 1]

PipelineInit ==
  /\ Init
  /\ movieCount = [s \in Sessions |-> NoViews] /\ views = movieCount
  /\ session \in [Requests -> [id: Sessions, views: {NoViews}]]
  /\ overlapped = {}
  /\ given = [k \in Keys |-> 0] /\ late = given

\* The request reads its session, passes the throttle and starts the handler: getMovie
\* counts the view, of a movie that is there or not, before it looks for the movie.
\* Only GET /movie is throttled.  A refused one writes back the session it read.
Open(r, s, u, m) ==
  /\ m \in Movies => u = NoUser /\ views[s][m] < MaxViews
  /\ Arrive(r, u)
  /\ session' = [session EXCEPT ![r] = [id |-> s, views |-> Counted(movieCount[s], m)]]
  /\ views' = [views EXCEPT ![s] = Counted(@, m)]
  /\ overlapped' = IF Admitted(u) /\ InUse(s) # {} THEN overlapped \cup {s} ELSE overlapped
  /\ UNCHANGED <<movieCount, given, late>>

\* mutant: the session is saved in the throttle's tap, which only counted requests reach
CloseIfCounted(r) ==
  /\ movieCount' = IF count' = count THEN movieCount
                   ELSE [movieCount EXCEPT ![session[r].id] = session[r].views]
  /\ session' = [session EXCEPT ![r].views = NoViews]
  /\ UNCHANGED <<views, overlapped>>

\* the end of every answer: `resave` is on by default, so that a request that has not
\* touched the views writes them back, too
Close(r) ==
  /\ movieCount' = [movieCount EXCEPT ![session[r].id] = session[r].views]
  /\ session' = [session EXCEPT ![r].views = NoViews]
  /\ UNCHANGED <<views, overlapped>>

OneMore(f, k) == IF k \in Keys THEN [f EXCEPT ![k] = @ + 1] ELSE f

AnswerInTime(r) ==
  /\ Succeed(r) /\ Close(r)
  /\ given' = OneMore(given, req[r].key)
  /\ UNCHANGED late

\* more than 3 s after it came in: ResponseTimeInterceptor throws in its tap, around the
\* tap of the throttle, which has counted the request
AnswerLate(r) ==
  /\ Succeed(r) /\ Close(r)
  /\ late' = OneMore(late, req[r].key)
  /\ UNCHANGED given

\* mutant: the throttle counts in finalize what it counts in tap
AnswerErrorCounted(r) ==
  /\ req[r].pc = "handling"
  /\ count' = OneMore(count, req[r].key)
  /\ req' = [req EXCEPT ![r].pc = "idle"]
  /\ Close(r)
  /\ UNCHANGED <<minute, given, late>>

AnswerError(r) ==
  /\ Throw(r) /\ Close(r)
  /\ UNCHANGED <<given, late>>

PipelineNext ==
  \/ \E r \in Requests :
       \/ \E s \in Sessions, u \in Users \cup {NoUser}, m \in Movies \cup {NoMovie} : Open(r, s, u, m)
       \/ AnswerInTime(r) \/ AnswerLate(r) \/ AnswerError(r)
  \/ Tick /\ UNCHANGED pipeline

PipelineSpec == PipelineInit /\ [][PipelineNext]_pipelineVars

---------------------------------------------------------------------------
(* Properties *)

PipelineTypeOK == /\ movieCount \in [Sessions -> Counts] /\ views \in [Sessions -> Counts]
                  /\ session \in [Requests -> [id: Sessions, views: Counts]]
                  /\ overlapped \subseteq Sessions
                  /\ given \in [Keys -> Nat] /\ late \in [Keys -> Nat]

\* A user is refused a page only after his requests of that minute have been handled as
\* often as the limit says; those he was told failed for being late are among them, those
\* that really failed are not.
RefusedAfterLimit ==
  \A r \in Requests, k \in Keys :
    req[r] = [pc |-> "refused", key |-> k] => given[k] + late[k] >= Limit

\* The session's view counter counts no view twice, and loses one only if two requests of
\* the session were in progress together, whatever becomes of the requests.
ViewsLostByOverlapOnly ==
  \A s \in Sessions, m \in Movies :
    /\ movieCount[s][m] <= views[s][m]
    /\ s \notin overlapped /\ InUse(s) = {} => movieCount[s][m] = views[s][m]

\* What makes them inductive: the copies count nothing twice; without overlap a session
\* has one request at a time, whose copy is up to date; the throttle counts what it answers.
CopiesCounted ==
  \A s \in Sessions : \A r \in InUse(s) :
    /\ \A m \in Movies : session[r].views[m] <= views[s][m]
    /\ s \notin overlapped => InUse(s) = {r} /\ session[r].views = views[s]

CountIsAnswered == \A k \in Keys : count[k] = given[k] + late[k]
===========================================================================
