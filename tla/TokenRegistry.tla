--------------------------- MODULE TokenRegistry ---------------------------
(***************************************************************************)
(* What a token is good for, as if each request asked a registry: it is    *)
(* served until the token expires or is revoked, on the routes its kind    *)
(* and its holders are entitled to.  No caches, and nothing in a token.    *)
(* What the documents and the code do not agree on is left open: README.md *)
(* calls auth/login/passport public, and speaks of refresh tokens without  *)
(* saying what serves one.                                                 *)
(***************************************************************************)
EXTENDS Integers

CONSTANTS Users, roleOf, Tokens, Second, AccessTTL, RefreshTTL, NoToken

VARIABLES now, kind, holders, expiry, revoked, last

vars == <<now, kind, holders, expiry, revoked, last>>

Init == /\ now = 1 /\ revoked = {}
        /\ kind = [t \in Tokens |-> "none"] /\ expiry = [t \in Tokens |-> 0]
        /\ holders = [t \in Tokens |-> {}]
        /\ last = [route |-> "public", tok |-> NoToken, ok |-> TRUE]

Held == {t \in Tokens : kind[t] # "none"}

\* what is enough on a route: but for the public ones an access token; on an
\* administrator's, one that only administrators hold
Entitled(t, route) ==
  \/ route = "public"
  \/ /\ t # NoToken /\ kind[t] = "access"
     /\ route = "admin" => \A u \in holders[t] : roleOf[u] = 0

\* where more may be asked for, or less be enough
LeftOpen(t, route) ==
  \/ route = "passport"
  \/ route = "rotate" /\ t # NoToken /\ kind[t] = "refresh"

\* a request with token t, if it has one, is good up to the given time
Good(t, time) == t # NoToken => t \notin revoked /\ time <= expiry[t]

\* in the very millisecond of its expiry a token may be taken for either
Answers(t, route) ==
  /\ last' \in [route: {route}, tok: {t}, ok: BOOLEAN]
  /\ last'.ok => (Entitled(t, route) \/ LeftOpen(t, route)) /\ Good(t, now)
  /\ Entitled(t, route) /\ Good(t, now + 1) => last'.ok

\* users get the tokens R to refresh with and A for access, each new or one of their
\* equals' of the same second; a token lives its whole seconds, the one begun included
Lives(t, ttl) == now + (ttl - 1) * Second < expiry'[t] /\ expiry'[t] <= now + ttl * Second

Issue(R, A, users) ==
  /\ \A t \in R : kind[t] \in {"none", "refresh"} /\ Lives(t, RefreshTTL)
  /\ \A t \in A : kind[t] \in {"none", "access"} /\ Lives(t, AccessTTL)
  /\ kind' = [t \in Tokens |-> IF t \in R THEN "refresh" ELSE IF t \in A THEN "access" ELSE kind[t]]
  /\ holders' = [t \in Tokens |-> IF t \in R \cup A THEN holders[t] \cup users ELSE holders[t]]
  /\ \A t \in R \cup A : \A u, v \in holders'[t] : roleOf[u] = roleOf[v]
  /\ \A t \in Tokens : ~(t \in R \cup A /\ kind[t] = "none") => expiry'[t] = expiry[t]

Keep == UNCHANGED <<kind, holders, expiry>>

SignIn(t, route, u) ==
  /\ Answers(t, route) /\ UNCHANGED <<now, revoked>>
  /\ IF last'.ok THEN \E r, a \in Tokens : r # a /\ Issue({r}, {a}, {u}) ELSE Keep

Rotate(t) ==
  /\ Answers(t, "rotate") /\ UNCHANGED <<now, revoked>>
  /\ IF last'.ok THEN \E a \in Tokens : Issue({}, {a}, holders[t]) ELSE Keep

Revoke(t, b) ==
  /\ Answers(t, "user") /\ Keep /\ UNCHANGED now
  /\ revoked' = IF last'.ok THEN revoked \cup {b} ELSE revoked

Ask(t, route) == Answers(t, route) /\ Keep /\ UNCHANGED <<now, revoked>>

\* the chat does not ask whether the token was revoked
EnterChat(t) == /\ last' = [route |-> "chat", tok |-> t,
                            ok |-> kind[t] = "access" /\ now < expiry[t]]
                /\ Keep /\ UNCHANGED <<now, revoked>>

Pass == now' = now + 1 /\ Keep /\ UNCHANGED <<revoked, last>>

\* the registry is in memory
Forget == revoked' = {} /\ Keep /\ UNCHANGED <<now, last>>

Next == \/ \E t \in Held \cup {NoToken} :
             \/ \E route \in {"public", "user", "admin"} : Ask(t, route)
             \/ \E b \in Held : Revoke(t, b)
             \/ Rotate(t)
             \/ \E u \in Users : SignIn(t, "passport", u)
        \/ \E t \in Held : EnterChat(t)
        \/ \E u \in Users : SignIn(NoToken, "public", u)
        \/ Pass \/ Forget

Spec == Init /\ [][Next]_vars
===========================================================================
