------------------------ MODULE InterceptorProofs -------------------------
(***************************************************************************)
(* What the interceptors keep between requests: the counts of the throttle *)
(* and the views of a session, in RequestPipeline, and the list of recent  *)
(* movies, in RecentMovies.  For every limit and TTL and every number of   *)
(* requests, sessions and clients.                                         *)
(***************************************************************************)
EXTENDS RequestPipeline, RecentMovies, FiniteSetTheorems, TLAPS

---------------------------------------------------------------------------
(* RequestPipeline *)

\* Every variable keeps its type.
LEMMA TypeStep == TypeOK /\ [Next]_vars => TypeOK'
<1> SUFFICES ASSUME TypeOK, [Next]_vars PROVE TypeOK'
  OBVIOUS
<1> USE ThrottleAssumption DEF TypeOK, Minutes
<1>1. ASSUME NEW r \in Requests, NEW u \in Users \cup {NoUser}, Arrive(r, u) PROVE TypeOK'
  BY <1>1 DEF Arrive
<1>2. ASSUME NEW r \in Requests, Succeed(r) PROVE TypeOK'
  BY <1>2 DEF Succeed
<1>3. ASSUME NEW r \in Requests, Throw(r) PROVE TypeOK'
  BY <1>3 DEF Throw
<1>4. CASE Tick
  BY <1>4 DEF Tick
<1>5. CASE UNCHANGED vars
  BY <1>5 DEF vars
<1> QED BY <1>1, <1>2, <1>3, <1>4, <1>5 DEF Next

\* Type correctness of the throttle.
THEOREM TypeCorrect == Spec => []TypeOK
<1>1. Init => TypeOK
  BY ThrottleAssumption DEF Init, TypeOK, Minutes
<1> QED BY <1>1, TypeStep, PTL DEF Spec

Overrun(k) == count[k] + Cardinality(InFlight(k))

\* Requests in flight under one key are some of the requests.
LEMMA InFlightFinite ==
  ASSUME NEW k
  PROVE  /\ IsFiniteSet(InFlight(k)) /\ IsFiniteSet(InFlight(k)')
         /\ Cardinality(InFlight(k)) \in Nat /\ Cardinality(InFlight(k)') \in Nat
         /\ Cardinality(Requests) \in Nat
         /\ Cardinality(InFlight(k)') <= Cardinality(Requests)
  BY ThrottleAssumption, FS_Subset, FS_CardinalityType DEF InFlight

\* With no request more in flight the sum does not grow unless the count does.
LEMMA FewerInFlight ==
  ASSUME TypeOK, NEW k \in Keys, InFlight(k)' \subseteq InFlight(k), count'[k] = count[k]
  PROVE  Overrun(k)' <= Overrun(k)
<1>1. Cardinality(InFlight(k)') <= Cardinality(InFlight(k))
  BY InFlightFinite, FS_Subset
<1> QED BY <1>1, InFlightFinite DEF Overrun, TypeOK

\* The successes of a user in a minute stay under the limit plus the requests
\* that are handled at once, whatever the interleaving.
THEOREM Overrun_Bounded == Spec => []OverrunBounded
<1>1. Init => OverrunBounded
  <2> SUFFICES ASSUME Init, NEW k \in Keys
               PROVE  count[k] + Cardinality(InFlight(k)) < Limit + Cardinality(Requests)
    BY DEF OverrunBounded
  <2>1. InFlight(k) = {} /\ count[k] = 0
    BY DEF Init, InFlight
  <2> QED BY <2>1, FS_EmptySet, FS_CardinalityType, ThrottleAssumption
<1>2. TypeOK /\ OverrunBounded /\ [Next]_vars => OverrunBounded'
  <2> SUFFICES ASSUME TypeOK, OverrunBounded, [Next]_vars, NEW k \in Keys
               PROVE  Overrun(k)' < Limit + Cardinality(Requests)
    BY DEF OverrunBounded, Overrun
  <2>1. /\ Overrun(k) < Limit + Cardinality(Requests) /\ Overrun(k) \in Nat
        /\ Limit + Cardinality(Requests) \in Nat
    BY InFlightFinite, ThrottleAssumption DEF OverrunBounded, Overrun, TypeOK
  <2>2. count'[k] \in Nat /\ Overrun(k)' \in Nat
    BY TypeStep, InFlightFinite DEF TypeOK, Overrun
  <2>3. ASSUME InFlight(k)' \subseteq InFlight(k), count'[k] = count[k]
        PROVE  Overrun(k)' < Limit + Cardinality(Requests)
    BY <2>1, <2>2, <2>3, FewerInFlight
  <2>4. ASSUME NEW r \in Requests, NEW u \in Users \cup {NoUser}, Arrive(r, u)
        PROVE  Overrun(k)' < Limit + Cardinality(Requests)
    <3>1. CASE k = <<u, minute>> /\ Admitted(u)
      <4>1. count[k] < Limit /\ count'[k] = count[k] /\ count[k] \in Nat
        BY <2>4, <3>1, ThrottleAssumption DEF Admitted, Arrive, Keys, TypeOK
      <4> QED BY <4>1, InFlightFinite, ThrottleAssumption DEF Overrun
    <3>2. CASE ~(k = <<u, minute>> /\ Admitted(u))
      BY <2>3, <2>4, <3>2 DEF Arrive, InFlight, TypeOK
    <3> QED BY <3>1, <3>2
  <2>5. ASSUME NEW r \in Requests, Succeed(r)
        PROVE  Overrun(k)' < Limit + Cardinality(Requests)
    <3>1. CASE req[r].key = k
      <4>1. InFlight(k)' = InFlight(k) \ {r} /\ r \in InFlight(k)
        BY <2>5, <3>1 DEF Succeed, InFlight, TypeOK
      <4>2. Cardinality(InFlight(k)') = Cardinality(InFlight(k)) - 1
        BY <4>1, InFlightFinite, FS_RemoveElement
      <4>3. count'[k] = count[k] + 1
        BY <2>5, <3>1 DEF Succeed, TypeOK
      <4> QED BY <2>1, <4>2, <4>3, InFlightFinite DEF Overrun, TypeOK
    <3>2. CASE req[r].key # k
      BY <2>3, <2>5, <3>2 DEF Succeed, InFlight, TypeOK
    <3> QED BY <3>1, <3>2
  <2>6. ASSUME NEW r \in Requests, Throw(r)
        PROVE  Overrun(k)' < Limit + Cardinality(Requests)
    BY <2>3, <2>6 DEF Throw, InFlight, TypeOK
  <2>7. CASE Tick \/ UNCHANGED vars
    BY <2>3, <2>7 DEF Tick, vars, InFlight
  <2> QED BY <2>4, <2>5, <2>6, <2>7 DEF Next
<1> QED BY <1>1, <1>2, TypeCorrect, PTL DEF Spec

---------------------------------------------------------------------------

\* The pipeline takes no step that the throttle does not.
LEMMA PipelineStep == [PipelineNext]_pipelineVars => [Next]_vars
BY DEF PipelineNext, pipelineVars, Open, AnswerInTime, AnswerLate, AnswerError, Next

\* So what holds of the throttle alone holds of it in the pipeline.
THEOREM PipelineOverrun == PipelineSpec => []TypeOK /\ []OverrunBounded
<1>1. PipelineSpec => Spec
  BY PipelineStep, PTL DEF PipelineSpec, PipelineInit, Spec
<1> QED BY <1>1, TypeCorrect, Overrun_Bounded, PTL

---------------------------------------------------------------------------

IInv == TypeOK /\ PipelineTypeOK /\ CopiesCounted /\ ViewsLostByOverlapOnly
               /\ CountIsAnswered /\ RefusedAfterLimit

LEMMA CountedViews ==
  ASSUME NEW c \in Counts, NEW m \in Movies \cup {NoMovie}
  PROVE  Counted(c, m) \in Counts /\ \A n \in Movies : c[n] <= Counted(c, m)[n]
BY DEF Counted, Counts

\* Counting a view of both keeps the order of the counts, and their equality.
LEMMA CountedBoth ==
  ASSUME NEW c \in Counts, NEW d \in Counts, NEW m \in Movies \cup {NoMovie},
         \A n \in Movies : c[n] <= d[n]
  PROVE  \A n \in Movies : Counted(c, m)[n] <= Counted(d, m)[n]
BY DEF Counted, Counts

LEMMA InitIInv == PipelineInit => IInv
<1> SUFFICES ASSUME PipelineInit PROVE IInv
  OBVIOUS
<1>1. TypeOK /\ NoViews \in Counts
  BY ThrottleAssumption DEF PipelineInit, Init, TypeOK, Minutes, Keys, NoViews, Counts
<1>2. PipelineTypeOK /\ CountIsAnswered
  BY <1>1 DEF PipelineInit, Init, PipelineTypeOK, CountIsAnswered
<1>3. \A s \in Sessions : InUse(s) = {}
  BY DEF PipelineInit, Init, InUse
<1>4. CopiesCounted /\ ViewsLostByOverlapOnly
  BY <1>2, <1>3 DEF PipelineInit, CopiesCounted, ViewsLostByOverlapOnly, PipelineTypeOK, Counts
<1>5. RefusedAfterLimit
  BY DEF PipelineInit, Init, RefusedAfterLimit
<1> QED BY <1>1, <1>2, <1>4, <1>5 DEF IInv

LEMMA OpenIInv ==
  ASSUME IInv, NEW r \in Requests, NEW s \in Sessions, NEW u \in Users \cup {NoUser},
         NEW m \in Movies \cup {NoMovie}, Open(r, s, u, m)
  PROVE  IInv'
<1> USE DEF IInv
<1>1. TypeOK'
  BY TypeStep DEF Open, Next
<1>2. PipelineTypeOK'
  BY CountedViews DEF Open, PipelineTypeOK
<1>3. CountIsAnswered'
  BY DEF Open, Arrive, CountIsAnswered
<1>4. RefusedAfterLimit'
  <2> SUFFICES ASSUME NEW q \in Requests, NEW k \in Keys, req'[q] = [pc |-> "refused", key |-> k]
               PROVE  given[k] + late[k] >= Limit
    BY DEF RefusedAfterLimit, Open
  <2>1. CASE q # r
    BY <2>1 DEF Open, Arrive, TypeOK, RefusedAfterLimit
  <2>2. CASE q = r
    <3>1. ~Admitted(u) /\ k = <<u, minute>>
      BY <2>2 DEF Open, Arrive, TypeOK
    <3>2. ~(count[k] < Limit)
      BY <3>1 DEF Admitted, Keys, TypeOK
    <3> QED BY <3>2, ThrottleAssumption DEF CountIsAnswered, TypeOK
  <2> QED BY <2>1, <2>2
<1>5. CASE ~Admitted(u)
  <2>1. u # NoUser /\ m = NoMovie /\ views' = views
    BY <1>5 DEF Admitted, Open, Counted, PipelineTypeOK
  <2>2. /\ \A q \in Requests : req'[q].pc = "handling" => /\ req[q].pc = "handling" /\ q # r
                                                         /\ session'[q] = session[q]
        /\ \A q \in Requests : req[q].pc = "handling" => req'[q].pc = "handling"
    BY <1>5 DEF Open, Arrive, TypeOK, PipelineTypeOK
  <2>3. \A t \in Sessions : InUse(t)' = InUse(t)
    BY <2>2 DEF InUse
  <2>4. overlapped' = overlapped /\ movieCount' = movieCount
    BY <1>5 DEF Open
  <2>5. CopiesCounted'
    <3> SUFFICES ASSUME NEW t \in Sessions, NEW q \in InUse(t)
                 PROVE  /\ \A n \in Movies : session'[q].views[n] <= views[t][n]
                        /\ t \notin overlapped => InUse(t) = {q} /\ session'[q].views = views[t]
      BY <2>1, <2>3, <2>4 DEF CopiesCounted
    <3>1. session'[q] = session[q]
      BY <2>2, <2>3 DEF InUse
    <3> QED BY <3>1 DEF CopiesCounted
  <2>6. ViewsLostByOverlapOnly'
    BY <2>1, <2>3, <2>4 DEF ViewsLostByOverlapOnly
  <2> QED BY <1>1, <1>2, <1>3, <1>4, <2>5, <2>6
<1>6. CASE Admitted(u)
  <2>1. /\ session'[r] = [id |-> s, views |-> Counted(movieCount[s], m)]
        /\ req'[r].pc = "handling" /\ req[r].pc # "handling"
        /\ \A q \in Requests \ {r} : req'[q] = req[q] /\ session'[q] = session[q]
    BY <1>6 DEF Open, Arrive, TypeOK, PipelineTypeOK
  <2>2. /\ \A t \in Sessions \ {s} : InUse(t)' = InUse(t)
        /\ InUse(s)' = InUse(s) \cup {r}
    BY <2>1 DEF InUse
  <2>3. /\ \A t \in Sessions : t # s => views'[t] = views[t]
        /\ views'[s] = Counted(views[s], m) /\ movieCount' = movieCount
        /\ overlapped' = IF InUse(s) # {} THEN overlapped \cup {s} ELSE overlapped
    BY <1>6 DEF Open, PipelineTypeOK
  <2>4. /\ movieCount[s] \in Counts /\ views[s] \in Counts
        /\ \A n \in Movies : movieCount[s][n] <= views[s][n]
    BY DEF PipelineTypeOK, ViewsLostByOverlapOnly
  <2>5. /\ \A n \in Movies : views[s][n] <= views'[s][n]
        /\ \A n \in Movies : Counted(movieCount[s], m)[n] <= views'[s][n]
        /\ views'[s] \in Counts /\ Counted(movieCount[s], m) \in Counts
    BY <2>3, <2>4, CountedViews, CountedBoth
  <2>6. ASSUME NEW t \in Sessions, NEW q \in InUse(t)'
        PROVE  /\ \A n \in Movies : session'[q].views[n] <= views'[t][n]
               /\ t \notin overlapped' => InUse(t)' = {q} /\ session'[q].views = views'[t]
    <3>1. CASE q = r
      <4>1. t = s /\ session'[q].views = Counted(movieCount[s], m)
        BY <2>1, <3>1, <2>6 DEF InUse
      <4>2. s \notin overlapped' => s \notin overlapped /\ InUse(s) = {}
        BY <2>3
      <4>3. s \notin overlapped' => movieCount[s] = views[s]
        BY <2>4, <4>2 DEF ViewsLostByOverlapOnly, Counts
      <4> QED BY <2>2, <2>3, <2>5, <3>1, <4>1, <4>2, <4>3
    <3>2. CASE q # r /\ t = s
      <4>1. session'[q] = session[q] /\ q \in InUse(s) /\ session[q].views \in Counts
        BY <2>1, <2>2, <2>6, <3>2 DEF InUse, PipelineTypeOK
      <4>2. s \in overlapped'
        BY <2>3, <4>1
      <4>3. \A n \in Movies : session[q].views[n] <= views[s][n]
        BY <4>1 DEF CopiesCounted
      <4> QED BY <2>4, <2>5, <3>2, <4>1, <4>2, <4>3 DEF Counts
    <3>3. CASE q # r /\ t # s
      <4>1. session'[q] = session[q] /\ q \in InUse(t) /\ views'[t] = views[t]
        BY <2>1, <2>2, <2>3, <2>6, <3>3 DEF InUse
      <4> QED BY <2>2, <2>3, <3>3, <4>1 DEF CopiesCounted
    <3> QED BY <3>1, <3>2, <3>3
  <2>7. CopiesCounted'
    BY <2>6 DEF CopiesCounted
  <2>8. ViewsLostByOverlapOnly'
    <3> SUFFICES ASSUME NEW t \in Sessions, NEW n \in Movies
                 PROVE  /\ movieCount[t][n] <= views'[t][n]
                        /\ t \notin overlapped' /\ InUse(t)' = {} => movieCount[t][n] = views'[t][n]
      BY <2>3 DEF ViewsLostByOverlapOnly
    <3>1. CASE t = s
      <4>1. InUse(t)' # {}
        BY <2>2, <3>1
      <4>2. movieCount[s][n] \in Nat /\ views[s][n] \in Nat /\ views'[s][n] \in Nat
        BY <2>4, <2>5 DEF Counts
      <4> QED BY <2>4, <2>5, <3>1, <4>1, <4>2
    <3>2. CASE t # s
      BY <2>2, <2>3, <3>2 DEF ViewsLostByOverlapOnly
    <3> QED BY <3>1, <3>2
  <2> QED BY <1>1, <1>2, <1>3, <1>4, <2>7, <2>8
<1> QED BY <1>5, <1>6

\* The end of a request, with whatever answer.
LEMMA CloseIInv ==
  ASSUME IInv, NEW r \in Requests, Close(r), Succeed(r) \/ Throw(r)
  PROVE  CopiesCounted' /\ ViewsLostByOverlapOnly'
<1> USE DEF IInv
<1> DEFINE s == session[r].id
<1>1. /\ s \in Sessions /\ req[r].pc = "handling" /\ req'[r].pc = "idle"
      /\ \A q \in Requests \ {r} : req'[q] = req[q] /\ session'[q] = session[q]
      /\ session'[r].id = s
  BY DEF Close, Succeed, Throw, TypeOK, PipelineTypeOK
<1>2. \A t \in Sessions : InUse(t)' = InUse(t) \ {r}
  BY <1>1 DEF InUse
<1>3. /\ views' = views /\ overlapped' = overlapped
      /\ movieCount'[s] = session[r].views
      /\ \A t \in Sessions \ {s} : movieCount'[t] = movieCount[t]
  BY <1>1 DEF Close, PipelineTypeOK
<1>4. CopiesCounted'
  <2> SUFFICES ASSUME NEW t \in Sessions, NEW q \in InUse(t)'
               PROVE  /\ \A m \in Movies : session'[q].views[m] <= views[t][m]
                      /\ t \notin overlapped => InUse(t)' = {q} /\ session'[q].views = views[t]
    BY <1>3 DEF CopiesCounted
  <2>1. q # r /\ q \in InUse(t) /\ session'[q] = session[q]
    BY <1>1, <1>2 DEF InUse
  <2> QED BY <1>2, <2>1 DEF CopiesCounted
<1>5. ViewsLostByOverlapOnly'
  <2> SUFFICES ASSUME NEW t \in Sessions, NEW m \in Movies
               PROVE  /\ movieCount'[t][m] <= views[t][m]
                      /\ t \notin overlapped /\ InUse(t)' = {} => movieCount'[t][m] = views[t][m]
    BY <1>3 DEF ViewsLostByOverlapOnly
  <2>1. CASE t = s
    <3>1. r \in InUse(s)
      BY <1>1 DEF InUse
    <3> QED BY <1>3, <2>1, <3>1 DEF CopiesCounted
  <2>2. CASE t # s
    <3>1. InUse(t)' = InUse(t)
      BY <1>2, <2>2 DEF InUse
    <3> QED BY <1>3, <2>2, <3>1 DEF ViewsLostByOverlapOnly
  <2> QED BY <2>1, <2>2
<1> QED BY <1>4, <1>5

LEMMA AnswerIInv ==
  ASSUME IInv, NEW r \in Requests, AnswerInTime(r) \/ AnswerLate(r) \/ AnswerError(r)
  PROVE  IInv'
<1> USE DEF IInv
<1>1. TypeOK'
  BY TypeStep DEF AnswerInTime, AnswerLate, AnswerError, Next
<1>2. CopiesCounted' /\ ViewsLostByOverlapOnly'
  BY CloseIInv DEF AnswerInTime, AnswerLate, AnswerError
<1>3. PipelineTypeOK'
  <2>1. \A k : OneMore(given, k) \in [Keys -> Nat] /\ OneMore(late, k) \in [Keys -> Nat]
    BY DEF OneMore, PipelineTypeOK
  <2>2. given' \in [Keys -> Nat] /\ late' \in [Keys -> Nat]
    BY <2>1 DEF AnswerInTime, AnswerLate, AnswerError, PipelineTypeOK
  <2>3. NoViews \in Counts /\ session[r].id \in Sessions /\ session[r].views \in Counts
    BY DEF NoViews, Counts, PipelineTypeOK
  <2>4. Close(r)
    BY DEF AnswerInTime, AnswerLate, AnswerError
  <2> QED BY <2>2, <2>3, <2>4 DEF Close, PipelineTypeOK
<1>4. /\ \A k \in Keys : given[k] <= given'[k] /\ late[k] <= late'[k]
      /\ CountIsAnswered'
  BY DEF AnswerInTime, AnswerLate, AnswerError, Succeed, Throw, OneMore, CountIsAnswered,
         PipelineTypeOK, TypeOK
<1>5. RefusedAfterLimit'
  <2> SUFFICES ASSUME NEW q \in Requests, NEW k \in Keys, req'[q] = [pc |-> "refused", key |-> k]
               PROVE  given'[k] + late'[k] >= Limit
    BY DEF RefusedAfterLimit
  <2>1. req'[q] = req[q]
    BY DEF AnswerInTime, AnswerLate, AnswerError, Succeed, Throw, TypeOK
  <2>2. given[k] + late[k] >= Limit
    BY <2>1 DEF RefusedAfterLimit
  <2> QED BY <1>3, <1>4, <2>2, ThrottleAssumption DEF PipelineTypeOK
<1> QED BY <1>1, <1>2, <1>3, <1>4, <1>5

LEMMA NextIInv == IInv /\ [PipelineNext]_pipelineVars => IInv'
<1> SUFFICES ASSUME IInv, [PipelineNext]_pipelineVars PROVE IInv'
  OBVIOUS
<1>1. CASE Tick /\ UNCHANGED pipeline
  <2>1. TypeOK'
    BY <1>1, TypeStep DEF Next, IInv
  <2> QED BY <1>1, <2>1
          DEF Tick, pipeline, IInv, PipelineTypeOK, CopiesCounted, ViewsLostByOverlapOnly,
              CountIsAnswered, RefusedAfterLimit, InUse
<1>2. CASE UNCHANGED pipelineVars
  <2>1. TypeOK'
    BY <1>2, TypeStep DEF pipelineVars, IInv
  <2> QED BY <1>2, <2>1
          DEF pipelineVars, vars, pipeline, IInv, PipelineTypeOK, CopiesCounted,
              ViewsLostByOverlapOnly, CountIsAnswered, RefusedAfterLimit, InUse
<1> QED BY <1>1, <1>2, OpenIInv, AnswerIInv DEF PipelineNext

\* No request, late, failed or refused, makes the session lose a view by itself.
THEOREM PipelineInvariant == PipelineSpec => []ViewsLostByOverlapOnly
<1>1. IInv => ViewsLostByOverlapOnly
  BY DEF IInv
<1> QED BY <1>1, InitIInv, NextIInv, PTL DEF PipelineSpec

\* A user is refused for what was handled only.
THEOREM RefusalsEarned == PipelineSpec => []RefusedAfterLimit
<1>1. IInv => RefusedAfterLimit
  BY DEF IInv
<1> QED BY <1>1, InitIInv, NextIInv, PTL DEF PipelineSpec

---------------------------------------------------------------------------
(* RecentMovies *)

\* Every action leaves the variables typed and the two entries, live or not, equal.
LEMMA RecentStep ==
  RecentTypeOK /\ EntriesAgree /\ [RecentNext]_recentVars => RecentTypeOK' /\ EntriesAgree'
<1> SUFFICES ASSUME RecentTypeOK, EntriesAgree, [RecentNext]_recentVars
             PROVE  RecentTypeOK' /\ EntriesAgree'
  OBVIOUS
<1> USE RecentAssumption DEF RecentTypeOK, EntriesAgree, List, NoneOr, cache, clients
<1>1. CASE Elapse
  BY <1>1 DEF Elapse
<1>2. CASE Change
  BY <1>2 DEF Change
<1>3. ASSUME NEW r \in Clients, HitPage(r) PROVE RecentTypeOK' /\ EntriesAgree'
  BY <1>3 DEF HitPage, Answered
<1>4. ASSUME NEW r \in Clients, HitRecent(r) PROVE RecentTypeOK' /\ EntriesAgree'
  BY <1>4 DEF HitRecent, StorePage, Answered
<1>5. ASSUME NEW r \in Clients, Miss(r) \/ Query(r) \/ Reject(r) \/ Again(r)
      PROVE  RecentTypeOK' /\ EntriesAgree'
  BY <1>5 DEF Miss, Query, Reject, Again
<1>6. ASSUME NEW r \in Clients, StoreRecent(r) PROVE RecentTypeOK' /\ EntriesAgree'
  BY <1>6 DEF StoreRecent, StorePage, Answered
<1>7. CASE UNCHANGED recentVars
  BY <1>7 DEF recentVars
<1> QED BY <1>1, <1>2, <1>3, <1>4, <1>5, <1>6, <1>7 DEF RecentNext

LEMMA RecentInvHolds == RecentSpec => [](RecentTypeOK /\ EntriesAgree)
<1>1. RecentInit => RecentTypeOK /\ EntriesAgree
  BY RecentAssumption DEF RecentInit, RecentTypeOK, EntriesAgree, List, NoneOr
<1> QED BY <1>1, RecentStep, PTL DEF RecentSpec

\* The clock, the caches and the requests of GET /movie/recent are well-formed: no entry
\* is of a version of the table that is still to come.
THEOREM RecentTypeCorrect == RecentSpec => []RecentTypeOK
BY RecentInvHolds, PTL

\* Whichever of the two caches answers, the list is the same.
THEOREM TheCachesAgree == RecentSpec => []CachesAgree
<1>1. EntriesAgree => CachesAgree
  BY DEF EntriesAgree, CachesAgree, Live
<1> QED BY <1>1, RecentInvHolds, PTL
===========================================================================
