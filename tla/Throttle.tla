----------------------------- MODULE Throttle -----------------------------
(***************************************************************************)
(* ThrottleInterceptor on one annotated route.  The counter of a user and  *)
(* a minute is read when a request comes in and incremented when its       *)
(* handler has succeeded, so requests in flight are not counted yet.  The  *)
(* store is in memory: a get or a get-and-set is not interleaved with      *)
(* other requests.                                                         *)
(***************************************************************************)
EXTENDS Naturals, FiniteSets

CONSTANTS Users, NoUser,  \* a request without a user id is not throttled
          Requests,
          Limit,          \* `count` of the Throttle decorator
          MaxMinute       \* bound: minutes the clock runs through

Minutes == 0..MaxMinute
Keys    == Users \X Minutes   \* `METHOD_path_user_minute` of one route

ASSUME ThrottleAssumption ==
  /\ Limit \in Nat \ {0} /\ MaxMinute \in Nat
  /\ IsFiniteSet(Requests) /\ NoUser \notin Users

VARIABLES minute,   \* the minute of the clock
          count,    \* count[k]: the cached counter, 0 without an entry
          req       \* req[r]: its state, and the key it was checked against

vars == <<minute, count, req>>

TypeOK == /\ minute \in Minutes
          /\ count \in [Keys -> Nat]
          /\ req \in [Requests -> [pc: {"idle", "handling", "refused"},
                                   key: (Users \cup {NoUser}) \X Minutes]]

InFlight(k) == {r \in Requests : req[r].pc = "handling" /\ req[r].key = k}

Init == /\ minute = 0
        /\ count = [k \in Keys |-> 0]
        /\ req \in [Requests -> [pc: {"idle"}, key: {<<NoUser, 0>>}]]

\* mutant: count > limit instead of count >= limit
AdmittedOneMore(u) == u = NoUser \/ count[<<u, minute>>] <= Limit

Admitted(u) == u = NoUser \/ count[<<u, minute>>] < Limit

Arrive(r, u) ==
  /\ req[r].pc # "handling"
  /\ req' = [req EXCEPT ![r] = [pc  |-> IF Admitted(u) THEN "handling" ELSE "refused",
                                key |-> <<u, minute>>]]
  /\ UNCHANGED <<minute, count>>

\* tap: the counter of the key computed on arrival, whatever the minute is now
Succeed(r) ==
  LET k == req[r].key
  IN  /\ req[r].pc = "handling"
      /\ count' = IF k \in Keys THEN [count EXCEPT ![k] = @ + 1] ELSE count
      /\ req' = [req EXCEPT ![r].pc = "idle"]
      /\ UNCHANGED minute

\* the handler throws: tap is not reached
Throw(r) ==
  /\ req[r].pc = "handling"
  /\ req' = [req EXCEPT ![r].pc = "idle"]
  /\ UNCHANGED <<minute, count>>

\* entries live 60 s after their last write: longer than their minute, and
\* gone when the minute comes round again an hour later
Tick == /\ minute < MaxMinute
        /\ minute' = minute + 1
        /\ UNCHANGED <<count, req>>

Next == \/ \E r \in Requests : \/ \E u \in Users \cup {NoUser} : Arrive(r, u)
                               \/ Succeed(r)
                               \/ Throw(r)
        \/ Tick

Spec == Init /\ [][Next]_vars

---------------------------------------------------------------------------
(* Properties *)

\* A user's successes in a minute, and those still to come from requests let in
\* already, exceed the limit by less than the requests handled at once.
OverrunBounded ==
  \A k \in Keys : count[k] + Cardinality(InFlight(k)) < Limit + Cardinality(Requests)
===========================================================================
