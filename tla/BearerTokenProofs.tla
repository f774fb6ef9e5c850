------------------------- MODULE BearerTokenProofs -------------------------
(* The theorems about BearerToken: which tokens are admitted, and until when. *)
EXTENDS BearerToken, TLAPS

\* A number of seconds after the second begun is that many after now, or less than
\* a second short of it.
LEMMA DivWindow ==
  ASSUME NEW n \in Nat, NEW s \in Nat \ {0}, NEW ttl \in Nat
  PROVE  /\ ((n \div s) + ttl) * s \in Nat
         /\ n + (ttl - 1) * s < ((n \div s) + ttl) * s
         /\ ((n \div s) + ttl) * s <= n + ttl * s
<1> DEFINE d == n \div s
<1>1. d \in Nat /\ s * d <= n /\ n < s * d + s
  BY SMT
<1> HIDE DEF d
<1>2. (d + ttl) * s = s * d + ttl * s /\ (ttl - 1) * s = ttl * s - s
  BY <1>1, SMT
<1>3. s * d \in Nat /\ ttl * s \in Nat
  BY <1>1, SMT
<1>4. /\ (d + ttl) * s \in Nat
      /\ n + (ttl - 1) * s < (d + ttl) * s
      /\ (d + ttl) * s <= n + ttl * s
  BY <1>1, <1>2, <1>3
<1> QED
  BY <1>4 DEF d

\* What `exp` an issued token carries.
LEMMA ExpiryNat ==
  ASSUME TypeOK, NEW ttl \in Nat
  PROVE  /\ Expiry(ttl) \in Nat
         /\ now + (ttl - 1) * Second < Expiry(ttl) /\ Expiry(ttl) <= now + ttl * Second
BY DivWindow, BearerAssumption DEF TypeOK, Expiry

\* A token signed for a user, or for no one, is a token.
LEMMA IssueTokenType ==
  ASSUME TypeOK, NEW u \in Users \cup {NoUser}, NEW role \in 0..2, NEW refresh \in BOOLEAN
  PROVE  IssueToken(u, role, refresh) \in Token
BY ExpiryNat, BearerAssumption DEF IssueToken, Token, Kinds

\* An entry TOKEN_ ends in the future and no later than the token does.
LEMMA CachedUntilFits ==
  ASSUME TypeOK, NEW t \in Tokens, Verified(t)
  PROVE  CachedUntil(t) \in Nat /\ CachedUntil(t) <= token[t].exp
BY BearerAssumption DEF TypeOK, Token, Verified, CachedUntil, AtLeastOne

\* An entry BLOCK_TOKEN_ ends no sooner than the token does.
LEMMA BlockUntilCovers ==
  ASSUME TypeOK, NEW t \in Tokens
  PROVE  BlockUntil(t) \in Nat /\ BlockUntil(t) >= token[t].exp
BY BearerAssumption DEF TypeOK, Token, BlockUntil, AtLeastOne

\* What the arrival of a request leaves: an answer, and a cache that fits.
LEMMA ArriveFits ==
  ASSUME TypeOK, NEW t \in Tokens \cup {NoToken}, NEW route \in Routes, Arrive(t, route)
  PROVE  /\ last' \in [route: Routes, tok: Tokens \cup {NoToken}, ok: BOOLEAN]
         /\ cached' \in [Tokens -> Nat]
         /\ \A s \in Tokens : cached'[s] = cached[s] \/ cached'[s] <= token[s].exp
<1>1. Served(t, route) \in BOOLEAN
  BY DEF Served, Passes
<1>2. last' \in [route: Routes, tok: Tokens \cup {NoToken}, ok: BOOLEAN]
  BY <1>1 DEF Arrive, Answer
<1>3. CASE cached' = cached
  BY <1>2, <1>3 DEF TypeOK
<1>4. CASE cached' # cached
  <2>1. t \in Tokens /\ Verified(t) /\ cached' = [cached EXCEPT ![t] = CachedUntil(t)]
    BY <1>4 DEF Arrive, Remember
  <2> QED
    BY <1>2, <2>1, CachedUntilFits DEF TypeOK
<1> QED
  BY <1>3, <1>4

\* What an action that issues tokens leaves: tokens are as they were, or fresh.
Grown == /\ token' \in [Tokens -> Token] /\ origin' \in [Tokens -> SUBSET Users]
         /\ \A s \in Tokens : token'[s] = token[s] \/ (s \notin Issued /\ token'[s].type # "none")

\* Two tokens are written where they were already, or where none was.
LEMMA LoginFits ==
  ASSUME TypeOK, NEW u \in Users, IssueBoth(u)
  PROVE  Grown
<1>1. roleOf[u] \in 0..2
  BY BearerAssumption
<1>2. IssueToken(u, roleOf[u], TRUE) \in Token /\ IssueToken(u, roleOf[u], FALSE) \in Token
  BY <1>1, IssueTokenType
<1>3. PICK r, a \in Tokens :
        /\ r # a /\ Signs(r, IssueToken(u, roleOf[u], TRUE)) /\ Signs(a, IssueToken(u, roleOf[u], FALSE))
        /\ token' = [token EXCEPT ![r] = IssueToken(u, roleOf[u], TRUE),
                                  ![a] = IssueToken(u, roleOf[u], FALSE)]
        /\ origin' = [origin EXCEPT ![r] = @ \cup {u}, ![a] = @ \cup {u}]
  BY DEF IssueBoth
<1>4. token' \in [Tokens -> Token] /\ origin' \in [Tokens -> SUBSET Users]
  BY <1>2, <1>3 DEF TypeOK
<1>5. ASSUME NEW s \in Tokens
      PROVE  token'[s] = token[s] \/ (s \notin Issued /\ token'[s].type # "none")
  BY <1>3, <1>5 DEF TypeOK, Signs, IssueToken
<1> QED
  BY <1>4, <1>5 DEF Grown

\* A next token is written where it was already, or where none was.
LEMMA RotateFits ==
  ASSUME TypeOK, NEW t \in Tokens, IssueNext(t, IssueToken(NoUser, token[t].role, FALSE))
  PROVE  Grown
<1>1. token[t].role \in 0..2
  BY DEF TypeOK, Token
<1>2. IssueToken(NoUser, token[t].role, FALSE) \in Token
  BY <1>1, IssueTokenType
<1>3. PICK a \in Tokens :
        /\ Signs(a, IssueToken(NoUser, token[t].role, FALSE))
        /\ token' = [token EXCEPT ![a] = IssueToken(NoUser, token[t].role, FALSE)]
        /\ origin' = [origin EXCEPT ![a] = @ \cup origin[t]]
  BY DEF IssueNext
<1>4. token' \in [Tokens -> Token] /\ origin' \in [Tokens -> SUBSET Users]
  BY <1>2, <1>3 DEF TypeOK
<1>5. ASSUME NEW s \in Tokens
      PROVE  token'[s] = token[s] \/ (s \notin Issued /\ token'[s].type # "none")
  BY <1>3, <1>5 DEF TypeOK, Signs, IssueToken
<1> QED
  BY <1>4, <1>5 DEF Grown

Inv == TypeOK /\ EntriesMatch

\* Tokens that grow, a cache that fits and an unchanged block list keep the
\* invariant.
LEMMA GrowingKeeps ==
  ASSUME Inv, now' = now, Grown,
         cached' \in [Tokens -> Nat],
         \A s \in Tokens : cached'[s] = cached[s] \/ cached'[s] <= token[s].exp,
         last' \in [route: Routes, tok: Tokens \cup {NoToken}, ok: BOOLEAN],
         UNCHANGED <<block, blocked>>
  PROVE  Inv'
<1>1. TypeOK'
  BY DEF Inv, TypeOK, Grown
<1>2. ASSUME NEW s \in Tokens
      PROVE  token'[s] = token[s] \/ (token[s].exp = 0 /\ s \notin blocked)
  BY <1>2 DEF Inv, EntriesMatch, Grown
<1>3. ASSUME NEW s \in Tokens
      PROVE  cached'[s] <= token'[s].exp
  <2>1. cached'[s] <= token[s].exp
    BY <1>3 DEF Inv, EntriesMatch
  <2>2. token[s].exp <= token'[s].exp
    BY <1>1, <1>2, <1>3 DEF Inv, TypeOK, Token
  <2> QED
    BY <2>1, <2>2, <1>1, <1>3 DEF Inv, TypeOK, Token
<1>4. ASSUME NEW s \in blocked
      PROVE  block[s] >= token'[s].exp
  BY <1>2, <1>4 DEF Inv, EntriesMatch, TypeOK
<1>5. ASSUME NEW s \in Tokens \ Issued'
      PROVE  token'[s].exp = 0 /\ s \notin blocked
  <2>1. token'[s] = token[s] /\ s \notin Issued
    BY <1>5 DEF Grown, Issued
  <2> QED
    BY <1>5, <2>1 DEF Inv, EntriesMatch
<1> QED
  BY <1>1, <1>3, <1>4, <1>5 DEF Inv, EntriesMatch

LEMMA TickKeeps ==
  ASSUME Inv, Tick
  PROVE  Inv'
BY DEF Inv, TypeOK, EntriesMatch, Issued, Tick

LEMMA RestartKeeps ==
  ASSUME Inv, Restart
  PROVE  Inv'
BY DEF Inv, TypeOK, EntriesMatch, Issued, Restart, Token

LEMMA LoginKeeps ==
  ASSUME Inv, NEW u \in Users, Login(u)
  PROVE  Inv'
<1>1. Grown
  BY LoginFits DEF Inv, Login
<1>2. last' \in [route: Routes, tok: Tokens \cup {NoToken}, ok: BOOLEAN]
  BY DEF Login, Answer, Routes
<1>3. UNCHANGED <<now, cached, block, blocked>>
  BY DEF Login
<1> QED
  BY <1>1, <1>2, <1>3, GrowingKeeps DEF Inv, TypeOK

LEMMA LoginPassportKeeps ==
  ASSUME Inv, NEW t \in Tokens \cup {NoToken}, NEW u \in Users, LoginPassport(t, u)
  PROVE  Inv'
<1>1. Grown
  <2>1. CASE Served(t, "passport")
    BY <2>1, LoginFits DEF Inv, LoginPassport
  <2>2. CASE ~Served(t, "passport")
    BY <2>2 DEF Inv, TypeOK, LoginPassport, Grown
  <2> QED
    BY <2>1, <2>2
<1>2. Arrive(t, "passport") /\ "passport" \in Routes /\ UNCHANGED <<now, block, blocked>>
  BY DEF LoginPassport, Routes
<1> QED
  BY <1>1, <1>2, ArriveFits, GrowingKeeps DEF Inv

LEMMA RotateKeeps ==
  ASSUME Inv, NEW t \in Tokens \cup {NoToken}, RotateAccessToken(t)
  PROVE  Inv'
<1>1. Grown
  <2>1. CASE Served(t, "rotate")
    <3>1. t \in Tokens
      BY <2>1 DEF Served, Passes
    <3> QED
      BY <2>1, <3>1, RotateFits DEF Inv, RotateAccessToken
  <2>2. CASE ~Served(t, "rotate")
    BY <2>2 DEF Inv, TypeOK, RotateAccessToken, Grown
  <2> QED
    BY <2>1, <2>2
<1>2. Arrive(t, "rotate") /\ "rotate" \in Routes /\ UNCHANGED <<now, block, blocked>>
  BY DEF RotateAccessToken, Routes
<1> QED
  BY <1>1, <1>2, ArriveFits, GrowingKeeps DEF Inv

LEMMA RequestKeeps ==
  ASSUME Inv, NEW t \in Tokens \cup {NoToken}, NEW route \in Routes, Request(t, route)
  PROVE  Inv'
<1>1. Grown
  BY DEF Inv, TypeOK, Request, Grown
<1> QED
  BY <1>1, ArriveFits, GrowingKeeps DEF Inv, Request

LEMMA TokenBlockKeeps ==
  ASSUME Inv, NEW t \in Tokens \cup {NoToken}, NEW b \in Issued, TokenBlock(t, b)
  PROVE  Inv'
<1>1. b \in Tokens /\ "user" \in Routes /\ Arrive(t, "user") /\ UNCHANGED <<now, token, origin>>
  BY DEF Issued, Routes, TokenBlock
<1>2. BlockUntil(b) \in Nat /\ BlockUntil(b) >= token[b].exp
  BY <1>1, BlockUntilCovers DEF Inv
<1>3. /\ block' \in [Tokens -> Nat] /\ blocked' \subseteq Issued \cup blocked
      /\ \A s \in blocked' : block'[s] >= token[s].exp
      /\ \A s \in Tokens \ blocked' : block'[s] = 0
  <2>1. CASE Served(t, "user")
    BY <1>1, <1>2, <2>1 DEF TokenBlock, Inv, TypeOK, EntriesMatch
  <2>2. CASE ~Served(t, "user")
    BY <2>2 DEF TokenBlock, Inv, TypeOK, EntriesMatch
  <2> QED
    BY <2>1, <2>2
<1>4. /\ last' \in [route: Routes, tok: Tokens \cup {NoToken}, ok: BOOLEAN]
      /\ cached' \in [Tokens -> Nat]
      /\ \A s \in Tokens : cached'[s] = cached[s] \/ cached'[s] <= token[s].exp
  BY <1>1, ArriveFits DEF Inv
<1>5. TypeOK'
  BY <1>1, <1>3, <1>4 DEF Inv, TypeOK, Issued
<1>6. EntriesMatch'
  BY <1>1, <1>3, <1>4 DEF Inv, EntriesMatch, Issued
<1> QED
  BY <1>5, <1>6 DEF Inv

LEMMA ConnectChatKeeps ==
  ASSUME Inv, NEW t \in Issued, ConnectChat(t)
  PROVE  Inv'
<1>1. last' \in [route: Routes, tok: Tokens \cup {NoToken}, ok: BOOLEAN]
  BY DEF ConnectChat, Answer, Issued, Routes
<1> QED
  BY <1>1 DEF ConnectChat, Inv, TypeOK, EntriesMatch, Issued

LEMMA InitInv == Init => Inv
BY DEF Init, Inv, TypeOK, EntriesMatch, Token, Kinds, Routes, Issued

LEMMA NextInv == Inv /\ [Next]_vars => Inv'
<1> SUFFICES ASSUME Inv, [Next]_vars PROVE Inv'
  OBVIOUS
<1>0. Issued \subseteq Tokens
  BY DEF Issued
<1>1. CASE Tick
  BY <1>1, TickKeeps
<1>2. CASE Restart
  BY <1>2, RestartKeeps
<1>3. ASSUME NEW u \in Users, Login(u) PROVE Inv'
  BY <1>3, LoginKeeps
<1>4. ASSUME NEW t \in Issued \cup {NoToken}, NEW u \in Users, LoginPassport(t, u) PROVE Inv'
  BY <1>0, <1>4, LoginPassportKeeps
<1>5. ASSUME NEW t \in Issued \cup {NoToken}, RotateAccessToken(t) PROVE Inv'
  BY <1>0, <1>5, RotateKeeps
<1>6. ASSUME NEW t \in Issued \cup {NoToken}, NEW b \in Issued, TokenBlock(t, b) PROVE Inv'
  BY <1>0, <1>6, TokenBlockKeeps
<1>7. ASSUME NEW t \in Issued \cup {NoToken}, NEW route \in {"public", "user", "admin"},
             Request(t, route)
      PROVE  Inv'
  BY <1>0, <1>7, RequestKeeps DEF Routes
<1>8. ASSUME NEW t \in Issued, ConnectChat(t) PROVE Inv'
  BY <1>8, ConnectChatKeeps
<1>9. CASE UNCHANGED vars
  BY <1>9 DEF vars, Inv, TypeOK, EntriesMatch, Issued
<1> QED
  BY <1>1, <1>2, <1>3, <1>4, <1>5, <1>6, <1>7, <1>8, <1>9 DEF Next

LEMMA InvHolds == Spec => []Inv
BY InitInv, NextInv, PTL DEF Spec

\* The state stays well-typed.
THEOREM TypeCorrect == Spec => []TypeOK
BY InvHolds, PTL DEF Inv

\* Every entry TOKEN_ ends with its token at the latest and every entry
\* BLOCK_TOKEN_ at the earliest.
THEOREM EntriesFit == Spec => []EntriesMatch
BY InvHolds, PTL DEF Inv

\* A token the process was asked to block is not admitted again before a restart.
THEOREM BlockingHolds == Spec => []BlockedStaysOut
<1>1. Inv => BlockedStaysOut
  BY DEF Inv, TypeOK, EntriesMatch, BlockedStaysOut, Admitted, Blocked, Cached, Verified, Token
<1> QED
  BY <1>1, InvHolds, PTL

\* No token is admitted after the millisecond of its expiry.
THEOREM ExpiryHolds == Spec => []NoneOutlivesExpiry
<1>1. Inv => NoneOutlivesExpiry
  BY DEF Inv, TypeOK, EntriesMatch, NoneOutlivesExpiry, Issued, Admitted, Cached, Verified, Token
<1> QED
  BY <1>1, InvHolds, PTL

---------------------------------------------------------------------------
(* What a guard decides goes back to a password *)

\* A request is served on an administrator's handler with an administrator's token.
LEMMA ArriveServesOwn ==
  ASSUME Inv, RolesDescend, NEW t \in Issued \cup {NoToken}, NEW route \in Routes, Arrive(t, route)
  PROVE  /\ last'.route = route /\ last'.tok = t
         /\ last'.route = "admin" /\ last'.ok =>
              /\ t \in Issued /\ token[t].type = "access"
              /\ origin[t] # {} /\ \A u \in origin[t] : roleOf[u] = 0
<1>1. last' = [route |-> route, tok |-> t, ok |-> Served(t, route)]
  BY DEF Arrive, Answer
<1>2. ASSUME route = "admin", Served(t, route)
      PROVE  /\ t \in Issued /\ token[t].type = "access"
             /\ origin[t] # {} /\ \A u \in origin[t] : roleOf[u] = 0
  <2>1. t \in Issued /\ token[t].type = "access" /\ token[t].role <= 0
    BY <1>2 DEF Served, Passes
  <2>2. token[t].role \in 0..2
    BY <2>1 DEF Inv, TypeOK, Token, Issued
  <2> QED
    BY <2>1, <2>2 DEF RolesDescend
<1> QED
  BY <1>1, <1>2

\* What an action hands on: tokens and their origins are as they were, or those of a
\* token that is issued now, or was before, have its role.
Handed ==
  \A s \in Tokens :
    \/ token'[s] = token[s] /\ origin'[s] = origin[s]
    \/ /\ s \in Issued' /\ (s \in Issued => token'[s] = token[s])
       /\ origin'[s] # {} /\ \A u \in origin'[s] : token'[s].role = roleOf[u]
       /\ token'[s].sub # NoUser => origin'[s] = {token'[s].sub}

LEMMA DescentKept ==
  ASSUME RolesDescend, Handed, AdminsOnly', last'.tok # NoToken => last'.tok \in Issued
  PROVE  RolesDescend'
<1>1. ASSUME NEW s \in Issued PROVE s \in Issued'
  BY <1>1 DEF Handed, Issued
<1>2. ASSUME NEW s \in Issued'
      PROVE  /\ origin'[s] # {} /\ \A u \in origin'[s] : token'[s].role = roleOf[u]
             /\ token'[s].sub # NoUser => origin'[s] = {token'[s].sub}
  <2>1. s \in Tokens
    BY <1>2 DEF Issued
  <2>2. CASE token'[s] = token[s] /\ origin'[s] = origin[s]
    <3>1. s \in Issued
      BY <2>2, <1>2, <2>1 DEF Issued
    <3> QED
      BY <2>2, <3>1 DEF RolesDescend
  <2> QED
    BY <2>1, <2>2, <1>2 DEF Handed
<1>3. ASSUME NEW s \in Tokens \ Issued' PROVE origin'[s] = {}
  <2>1. token'[s] = token[s] /\ origin'[s] = origin[s]
    BY <1>3 DEF Handed
  <2> QED
    BY <1>3, <2>1 DEF RolesDescend, Issued
<1> QED
  BY <1>1, <1>2, <1>3 DEF RolesDescend

LEMMA IssueBothDescends ==
  ASSUME Inv, RolesDescend, NEW u \in Users, IssueBoth(u)
  PROVE  Handed
<1>1. PICK r, a \in Tokens :
        /\ r # a /\ Signs(r, IssueToken(u, roleOf[u], TRUE)) /\ Signs(a, IssueToken(u, roleOf[u], FALSE))
        /\ token' = [token EXCEPT ![r] = IssueToken(u, roleOf[u], TRUE),
                                  ![a] = IssueToken(u, roleOf[u], FALSE)]
        /\ origin' = [origin EXCEPT ![r] = @ \cup {u}, ![a] = @ \cup {u}]
  BY DEF IssueBoth
<1>2. ASSUME NEW s \in Tokens, s # r, s # a
      PROVE  token'[s] = token[s] /\ origin'[s] = origin[s]
  BY <1>1, <1>2 DEF Inv, TypeOK
<1>3. ASSUME NEW s \in {r, a}
      PROVE  /\ origin'[s] = {u} /\ token'[s].role = roleOf[u] /\ token'[s].sub = u
             /\ s \in Issued' /\ (s \in Issued => token'[s] = token[s])
  <2>1. PICK refresh \in BOOLEAN : /\ Signs(s, IssueToken(u, roleOf[u], refresh))
                                   /\ token'[s] = IssueToken(u, roleOf[u], refresh)
    BY <1>1 DEF Inv, TypeOK
  <2>2. /\ token'[s].role = roleOf[u] /\ token'[s].sub = u /\ token'[s].type # "none"
        /\ s \in Issued => token'[s] = token[s]
    BY <2>1 DEF IssueToken, Signs
  <2>3. origin'[s] = origin[s] \cup {u}
    BY <1>1 DEF Inv, TypeOK
  <2>4. origin[s] \subseteq {u}
    <3>1. u # NoUser
      BY BearerAssumption
    <3>2. CASE s \in Issued
      BY <2>2, <3>1, <3>2 DEF RolesDescend
    <3>3. CASE s \notin Issued
      BY <3>3 DEF RolesDescend
    <3> QED
      BY <3>2, <3>3
  <2> QED
    BY <2>2, <2>3, <2>4 DEF Issued
<1> QED
  BY <1>2, <1>3 DEF Handed

LEMMA RotationDescends ==
  ASSUME Inv, RolesDescend, NEW t \in Issued,
         IssueNext(t, IssueToken(NoUser, token[t].role, FALSE))
  PROVE  Handed
<1>1. PICK a \in Tokens :
        /\ Signs(a, IssueToken(NoUser, token[t].role, FALSE))
        /\ token' = [token EXCEPT ![a] = IssueToken(NoUser, token[t].role, FALSE)]
        /\ origin' = [origin EXCEPT ![a] = @ \cup origin[t]]
  BY DEF IssueNext
<1>2. ASSUME NEW s \in Tokens, s # a
      PROVE  token'[s] = token[s] /\ origin'[s] = origin[s]
  BY <1>1, <1>2 DEF Inv, TypeOK
<1>3. token'[a] = IssueToken(NoUser, token[t].role, FALSE) /\ origin'[a] = origin[a] \cup origin[t]
  BY <1>1 DEF Inv, TypeOK
<1>4. /\ token'[a].role = token[t].role /\ token'[a].sub = NoUser /\ token'[a].type # "none"
      /\ a \in Issued => token'[a] = token[a]
  BY <1>1, <1>3 DEF IssueToken, Signs
<1>5. origin[t] # {} /\ \A u \in origin[t] : token[t].role = roleOf[u]
  BY DEF RolesDescend
<1>6. \A u \in origin[a] : token'[a].role = roleOf[u]
  BY <1>4 DEF RolesDescend
<1> QED
  BY <1>2, <1>3, <1>4, <1>5, <1>6 DEF Handed, Issued

LEMMA DescentInit == Init => RolesDescend
BY DEF Init, RolesDescend, AdminsOnly, Issued

LEMMA DescentNext == Inv /\ RolesDescend /\ [Next]_vars => RolesDescend'
<1> SUFFICES ASSUME Inv, RolesDescend, [Next]_vars PROVE RolesDescend'
  OBVIOUS
<1>1. UNCHANGED <<token, origin>> => Handed
  BY DEF Handed
<1>2. CASE UNCHANGED <<token, origin, last>>
  BY <1>2 DEF RolesDescend, AdminsOnly, Issued
<1>3. ASSUME NEW t \in Issued \cup {NoToken}, NEW route \in Routes, Arrive(t, route),
             UNCHANGED <<token, origin>>
      PROVE  RolesDescend'
  <2>1. AdminsOnly'
    BY <1>3, ArriveServesOwn DEF AdminsOnly
  <2> QED
    BY <1>1, <1>3, <2>1, ArriveServesOwn, DescentKept
<1>4. ASSUME NEW u \in Users, Login(u) PROVE RolesDescend'
  <2>1. last' = [route |-> "public", tok |-> NoToken, ok |-> TRUE] /\ IssueBoth(u)
    BY <1>4 DEF Login, Answer
  <2>2. AdminsOnly'
    BY <2>1 DEF AdminsOnly
  <2> QED
    BY <2>1, <2>2, IssueBothDescends, DescentKept
<1>5. ASSUME NEW t \in Issued \cup {NoToken}, NEW u \in Users, LoginPassport(t, u)
      PROVE  RolesDescend'
  <2>1. Arrive(t, "passport") /\ "passport" \in Routes
    BY <1>5 DEF LoginPassport, Routes
  <2>2. CASE Served(t, "passport")
    <3>1. IssueBoth(u)
      BY <1>5, <2>2 DEF LoginPassport
    <3>2. last'.route = "passport" /\ last'.tok = t
      BY <2>1, ArriveServesOwn
    <3>3. AdminsOnly'
      BY <3>2 DEF AdminsOnly
    <3> QED
      BY <3>1, <3>2, <3>3, IssueBothDescends, DescentKept
  <2>3. CASE ~Served(t, "passport")
    BY <1>3, <1>5, <2>1, <2>3 DEF LoginPassport
  <2> QED
    BY <2>2, <2>3
<1>6. ASSUME NEW t \in Issued \cup {NoToken}, RotateAccessToken(t) PROVE RolesDescend'
  <2>1. Arrive(t, "rotate") /\ "rotate" \in Routes
    BY <1>6 DEF RotateAccessToken, Routes
  <2>2. CASE Served(t, "rotate")
    <3>1. t \in Issued
      BY <2>2 DEF Served, Passes
    <3>2. IssueNext(t, IssueToken(NoUser, token[t].role, FALSE))
      BY <1>6, <2>2 DEF RotateAccessToken
    <3>3. last'.route = "rotate" /\ last'.tok = t
      BY <2>1, ArriveServesOwn
    <3>4. AdminsOnly'
      BY <3>3 DEF AdminsOnly
    <3> QED
      BY <3>1, <3>2, <3>3, <3>4, RotationDescends, DescentKept
  <2>3. CASE ~Served(t, "rotate")
    BY <1>3, <1>6, <2>1, <2>3 DEF RotateAccessToken
  <2> QED
    BY <2>2, <2>3
<1>7. ASSUME NEW t \in Issued \cup {NoToken}, NEW b \in Issued, TokenBlock(t, b)
      PROVE  RolesDescend'
  BY <1>3, <1>7 DEF TokenBlock, Routes
<1>8. ASSUME NEW t \in Issued \cup {NoToken}, NEW route \in {"public", "user", "admin"},
             Request(t, route)
      PROVE  RolesDescend'
  BY <1>3, <1>8 DEF Request, Routes
<1>9. ASSUME NEW t \in Issued, ConnectChat(t) PROVE RolesDescend'
  <2>1. last'.tok = t /\ last'.route = "chat" /\ UNCHANGED <<token, origin>>
    BY <1>9 DEF ConnectChat, Answer
  <2>2. AdminsOnly'
    BY <2>1 DEF AdminsOnly
  <2> QED
    BY <1>1, <2>1, <2>2, DescentKept
<1>10. Tick \/ Restart \/ UNCHANGED vars => UNCHANGED <<token, origin, last>>
  BY DEF Tick, Restart, vars
<1> QED
  BY <1>2, <1>4, <1>5, <1>6, <1>7, <1>8, <1>9, <1>10 DEF Next

LEMMA DescentHolds == Spec => []RolesDescend
BY DescentInit, DescentNext, InvHolds, PTL DEF Spec

\* A request is served on an administrator's handler only with an access token that
\* descends, along any chain of rotations, from the login of an administrator.
THEOREM AdminsHold == Spec => []AdminsOnly
<1>1. Spec => []RolesDescend
  BY DescentHolds
<1>2. RolesDescend => AdminsOnly
  BY DEF RolesDescend
<1> QED
  BY <1>1, <1>2, PTL

---------------------------------------------------------------------------
(* Requests are answered as the registry answers them *)

\* Until a token expires its entry BLOCK_TOKEN_ is there exactly if it was blocked.
LEMMA BlockedIff ==
  ASSUME Inv, NEW t \in Tokens, now <= token[t].exp
  PROVE  Blocked(t) <=> t \in blocked
<1>1. now \in Nat \ {0} /\ token[t].exp \in Nat /\ block[t] \in Nat
  BY DEF Inv, TypeOK, Token
<1>2. CASE t \in blocked
  BY <1>1, <1>2 DEF Inv, EntriesMatch, Blocked
<1>3. CASE t \notin blocked
  BY <1>1, <1>3 DEF Inv, EntriesMatch, Blocked
<1> QED
  BY <1>2, <1>3

\* The middleware admits what is good at this millisecond, and what is good at the next.
LEMMA AdmittedIfGood ==
  ASSUME Inv, NEW t \in Tokens
  PROVE  /\ Admitted(t) => t \notin blocked /\ now <= token[t].exp
         /\ t \notin blocked /\ now + 1 <= token[t].exp => Admitted(t)
<1>1. now \in Nat \ {0} /\ token[t].exp \in Nat /\ cached[t] \in Nat /\ cached[t] <= token[t].exp
  BY DEF Inv, TypeOK, EntriesMatch, Token
<1>2. Admitted(t) => now <= token[t].exp
  BY <1>1 DEF Admitted, Cached, Verified
<1>3. now + 1 <= token[t].exp => now <= token[t].exp /\ Verified(t)
  BY <1>1 DEF Verified
<1> QED
  BY <1>2, <1>3, BlockedIff DEF Admitted

\* The guards judge the payload as the registry judges kind and holders.
LEMMA PassesIfEntitled ==
  ASSUME Inv, RolesDescend, NEW t \in Issued \cup {NoToken}, NEW route \in Routes
  PROVE  Passes(t, route) <=> Registry!Entitled(t, route)
<1>1. CASE t = NoToken
  BY <1>1 DEF Passes, Registry!Entitled
<1>2. CASE t \in Issued
  <2>1. t \in Tokens /\ t # NoToken
    BY <1>2, BearerAssumption DEF Issued
  <2>2. token[t].role \in 0..2
    BY <2>1 DEF Inv, TypeOK, Token
  <2>3. origin[t] # {} /\ \A u \in origin[t] : token[t].role = roleOf[u]
    BY <1>2 DEF RolesDescend
  <2>4. token[t].role <= 0 <=> \A u \in origin[t] : roleOf[u] = 0
    BY <2>2, <2>3
  <2> QED
    BY <2>1, <2>4 DEF Passes, Registry!Entitled
<1> QED
  BY <1>1, <1>2

LEMMA ArriveAnswers ==
  ASSUME Inv, RolesDescend, NEW t \in Issued \cup {NoToken}, NEW route \in Routes, Arrive(t, route)
  PROVE  Registry!Answers(t, route) /\ (last'.ok <=> Served(t, route))
<1>1. last' = [route |-> route, tok |-> t, ok |-> Served(t, route)]
  BY DEF Arrive, Answer
<1>2. Served(t, route) \in BOOLEAN
  BY DEF Served, Passes
<1>3. last' \in [route: {route}, tok: {t}, ok: BOOLEAN] /\ (last'.ok <=> Served(t, route))
  BY <1>1, <1>2
<1>4. Passes(t, route) <=> Registry!Entitled(t, route)
  BY PassesIfEntitled
<1>5. /\ Served(t, route) => Registry!Good(t, now)
      /\ Passes(t, route) /\ Registry!Good(t, now + 1) => Served(t, route)
  <2>1. CASE t = NoToken
    BY <2>1 DEF Served, Registry!Good
  <2>2. CASE t # NoToken
    <3>1. t \in Tokens
      BY <2>2 DEF Issued
    <3> QED
      BY <2>2, <3>1, AdmittedIfGood DEF Served, Registry!Good
  <2> QED
    BY <2>1, <2>2
<1> QED
  BY <1>3, <1>4, <1>5 DEF Served, Registry!Answers

\* What is signed lives as long as the registry lets it.
LEMMA IssuedLives ==
  ASSUME Inv, now' = now, NEW t \in Tokens, NEW u, NEW role, NEW refresh \in BOOLEAN,
         token'[t] = IssueToken(u, role, refresh)
  PROVE  Registry!Lives(t, IF refresh THEN RefreshTTL ELSE AccessTTL)
<1>1. token'[t].exp = Expiry(IF refresh THEN RefreshTTL ELSE AccessTTL)
  BY DEF IssueToken
<1>2. (IF refresh THEN RefreshTTL ELSE AccessTTL) \in Nat
  BY BearerAssumption
<1> QED
  BY <1>1, <1>2, ExpiryNat DEF Inv, Registry!Lives

LEMMA IssueBothIssues ==
  ASSUME Inv, RolesDescend', now' = now, NEW u \in Users, IssueBoth(u)
  PROVE  \E r, a \in Tokens : r # a /\ Registry!Issue({r}, {a}, {u})
<1>1. PICK r, a \in Tokens :
        /\ r # a /\ Signs(r, IssueToken(u, roleOf[u], TRUE)) /\ Signs(a, IssueToken(u, roleOf[u], FALSE))
        /\ token' = [token EXCEPT ![r] = IssueToken(u, roleOf[u], TRUE),
                                  ![a] = IssueToken(u, roleOf[u], FALSE)]
        /\ origin' = [origin EXCEPT ![r] = @ \cup {u}, ![a] = @ \cup {u}]
  BY DEF IssueBoth
<1>2. ASSUME NEW s \in Tokens, s # r, s # a
      PROVE  token'[s] = token[s] /\ origin'[s] = origin[s]
  BY <1>1, <1>2 DEF Inv, TypeOK
<1>3. /\ token'[r] = IssueToken(u, roleOf[u], TRUE) /\ token'[a] = IssueToken(u, roleOf[u], FALSE)
      /\ origin'[r] = origin[r] \cup {u} /\ origin'[a] = origin[a] \cup {u}
      /\ origin' \in [Tokens -> SUBSET Users]
  BY <1>1 DEF Inv, TypeOK
<1>4. Registry!Lives(r, RefreshTTL) /\ Registry!Lives(a, AccessTTL)
  BY <1>3, IssuedLives
<1>5. /\ token'[r].type = "refresh" /\ token'[a].type = "access"
      /\ token[r].type = "none" \/ token'[r] = token[r]
      /\ token[a].type = "none" \/ token'[a] = token[a]
  BY <1>1, <1>3 DEF Signs, Issued, IssueToken
<1>6. ASSUME NEW t \in {r, a}, NEW v \in origin'[t], NEW w \in origin'[t]
      PROVE  roleOf[v] = roleOf[w]
  BY <1>5, <1>6 DEF RolesDescend, Issued
<1>7. [t \in Tokens |-> token'[t].type] =
        [t \in Tokens |-> IF t \in {r} THEN "refresh" ELSE IF t \in {a} THEN "access" ELSE token[t].type]
  <2>1. r # a
    BY <1>1
  <2>2. ASSUME NEW t \in Tokens
        PROVE  token'[t].type = IF t \in {r} THEN "refresh" ELSE IF t \in {a} THEN "access"
                                ELSE token[t].type
    BY <1>2, <1>5, <2>1
  <2> QED
    BY <2>2
<1>8. origin' = [t \in Tokens |-> IF t \in {r} \cup {a} THEN origin[t] \cup {u} ELSE origin[t]]
  BY <1>2, <1>3
<1>9. /\ token[r].type \in {"none", "refresh"} /\ token[a].type \in {"none", "access"}
      /\ \A t \in Tokens : ~(t \in {r} \cup {a} /\ token[t].type = "none") => token'[t].exp = token[t].exp
  BY <1>2, <1>5
<1>10. Registry!Issue({r}, {a}, {u})
  BY <1>4, <1>6, <1>7, <1>8, <1>9 DEF Registry!Issue
<1> QED
  BY <1>1, <1>10

LEMMA IssueNextIssues ==
  ASSUME Inv, RolesDescend', now' = now, NEW t \in Issued,
         IssueNext(t, IssueToken(NoUser, token[t].role, FALSE))
  PROVE  \E a \in Tokens : Registry!Issue({}, {a}, origin[t])
<1>1. PICK a \in Tokens :
        /\ Signs(a, IssueToken(NoUser, token[t].role, FALSE))
        /\ token' = [token EXCEPT ![a] = IssueToken(NoUser, token[t].role, FALSE)]
        /\ origin' = [origin EXCEPT ![a] = @ \cup origin[t]]
  BY DEF IssueNext
<1>2. ASSUME NEW s \in Tokens, s # a
      PROVE  token'[s] = token[s] /\ origin'[s] = origin[s]
  BY <1>1, <1>2 DEF Inv, TypeOK
<1>3. /\ token'[a] = IssueToken(NoUser, token[t].role, FALSE)
      /\ origin'[a] = origin[a] \cup origin[t] /\ origin' \in [Tokens -> SUBSET Users]
  BY <1>1 DEF Inv, TypeOK, Issued
<1>4. Registry!Lives(a, AccessTTL)
  BY <1>3, IssuedLives
<1>5. token'[a].type = "access" /\ (token[a].type = "none" \/ token'[a] = token[a])
  BY <1>1, <1>3 DEF Signs, Issued, IssueToken
<1>6. ASSUME NEW v \in origin'[a], NEW w \in origin'[a]
      PROVE  roleOf[v] = roleOf[w]
  BY <1>5, <1>6 DEF RolesDescend, Issued
<1>7. [s \in Tokens |-> token'[s].type] =
        [s \in Tokens |-> IF s \in {} THEN "refresh" ELSE IF s \in {a} THEN "access" ELSE token[s].type]
  BY <1>2, <1>5
<1>8. origin' = [s \in Tokens |-> IF s \in {} \cup {a} THEN origin[s] \cup origin[t] ELSE origin[s]]
  BY <1>2, <1>3
<1>9. Registry!Issue({}, {a}, origin[t])
  BY <1>2, <1>4, <1>5, <1>6, <1>7, <1>8 DEF Registry!Issue
<1> QED
  BY <1>1, <1>9

LEMMA InitRegisters == Init => Registry!Init
BY DEF Init, Registry!Init

LEMMA StepRegisters == Inv /\ RolesDescend /\ RolesDescend' /\ [Next]_vars => [Registry!Next]_(Registry!vars)
<1> SUFFICES ASSUME Inv, RolesDescend, RolesDescend', [Next]_vars
             PROVE  Registry!Next \/ UNCHANGED Registry!vars
  OBVIOUS
<1>0. Registry!Held = Issued
  BY DEF Registry!Held, Issued
<1>1. UNCHANGED <<token, origin>> => Registry!Keep
  BY DEF Registry!Keep
<1>2. CASE Tick
  BY <1>1, <1>2 DEF Tick, Registry!Pass, Registry!Next
<1>3. CASE Restart
  BY <1>1, <1>3 DEF Restart, Registry!Forget, Registry!Next
<1>4. ASSUME NEW u \in Users, Login(u) PROVE Registry!Next
  <2>1. Registry!Answers(NoToken, "public") /\ last'.ok
    BY <1>4 DEF Login, Answer, Registry!Answers, Registry!Entitled, Registry!Good
  <2>2. Registry!SignIn(NoToken, "public", u)
    BY <1>4, <2>1, IssueBothIssues DEF Login, Registry!SignIn
  <2> QED
    BY <2>2 DEF Registry!Next
<1>5. ASSUME NEW t \in Issued \cup {NoToken}, NEW u \in Users, LoginPassport(t, u)
      PROVE  Registry!Next
  <2>1. Arrive(t, "passport") /\ "passport" \in Routes /\ UNCHANGED <<now, blocked>>
    BY <1>5 DEF LoginPassport, Routes
  <2>2. Registry!Answers(t, "passport") /\ (last'.ok <=> Served(t, "passport"))
    BY <2>1, ArriveAnswers
  <2>3. IF last'.ok THEN IssueBoth(u) ELSE UNCHANGED <<token, origin>>
    BY <1>5, <2>2 DEF LoginPassport
  <2>4. Registry!SignIn(t, "passport", u)
    BY <1>1, <2>1, <2>2, <2>3, IssueBothIssues DEF Registry!SignIn
  <2> QED
    BY <1>0, <2>4 DEF Registry!Next
<1>6. ASSUME NEW t \in Issued \cup {NoToken}, RotateAccessToken(t) PROVE Registry!Next
  <2>1. Arrive(t, "rotate") /\ "rotate" \in Routes /\ UNCHANGED <<now, blocked>>
    BY <1>6 DEF RotateAccessToken, Routes
  <2>2. Registry!Answers(t, "rotate") /\ (last'.ok <=> Served(t, "rotate"))
    BY <2>1, ArriveAnswers
  <2>3. IF last'.ok THEN \E a \in Tokens : Registry!Issue({}, {a}, origin[t])
                    ELSE UNCHANGED <<token, origin>>
    <3>1. CASE Served(t, "rotate")
      <4>1. t \in Issued
        BY <3>1 DEF Served, Passes
      <4> QED
        BY <1>6, <2>1, <2>2, <3>1, <4>1, IssueNextIssues DEF RotateAccessToken
    <3>2. CASE ~Served(t, "rotate")
      BY <1>6, <2>2, <3>2 DEF RotateAccessToken
    <3> QED
      BY <3>1, <3>2
  <2>4. Registry!Rotate(t)
    BY <1>1, <2>1, <2>2, <2>3 DEF Registry!Rotate
  <2> QED
    BY <1>0, <2>4 DEF Registry!Next
<1>7. ASSUME NEW t \in Issued \cup {NoToken}, NEW b \in Issued, TokenBlock(t, b)
      PROVE  Registry!Next
  <2>1. Arrive(t, "user") /\ "user" \in Routes /\ UNCHANGED <<now, token, origin>>
    BY <1>7 DEF TokenBlock, Routes
  <2>2. Registry!Answers(t, "user") /\ (last'.ok <=> Served(t, "user"))
    BY <2>1, ArriveAnswers
  <2>3. blocked' = IF last'.ok THEN blocked \cup {b} ELSE blocked
    BY <1>7, <2>2 DEF TokenBlock
  <2>4. Registry!Revoke(t, b)
    BY <1>1, <2>1, <2>2, <2>3 DEF Registry!Revoke
  <2> QED
    BY <1>0, <2>4 DEF Registry!Next
<1>8. ASSUME NEW t \in Issued \cup {NoToken}, NEW route \in {"public", "user", "admin"},
             Request(t, route)
      PROVE  Registry!Next
  <2>1. Arrive(t, route) /\ route \in Routes /\ UNCHANGED <<now, token, blocked, origin>>
    BY <1>8 DEF Request, Routes
  <2>2. Registry!Ask(t, route)
    BY <1>1, <2>1, ArriveAnswers DEF Registry!Ask
  <2> QED
    BY <1>0, <2>2 DEF Registry!Next
<1>9. ASSUME NEW t \in Issued, ConnectChat(t) PROVE Registry!Next
  <2>1. t \in Tokens
    BY DEF Issued
  <2>2. (Verified(t) /\ token[t].type = "access") = (token[t].type = "access" /\ now < token[t].exp)
    BY DEF Verified
  <2>3. Registry!EnterChat(t)
    BY <1>1, <1>9, <2>1, <2>2 DEF ConnectChat, Answer, Registry!EnterChat
  <2> QED
    BY <1>0, <2>3 DEF Registry!Next
<1>10. CASE UNCHANGED vars
  BY <1>10 DEF vars, Registry!vars
<1> QED
  BY <1>2, <1>3, <1>4, <1>5, <1>6, <1>7, <1>8, <1>9, <1>10 DEF Next

\* The middleware with its two kinds of cache entry, the payloads and the guards
\* implement the registry: a request is served until its token expires or is blocked,
\* on the routes its kind and holders are entitled to, and then no more.
THEOREM RegistryKept == Spec => AnswersAsRegistry
<1>1. Inv /\ RolesDescend /\ RolesDescend' /\ [Next]_vars => [Registry!Next]_(Registry!vars)
  BY StepRegisters
<1> QED
  BY <1>1, InitRegisters, InvHolds, DescentHolds, PTL DEF Spec, AnswersAsRegistry, Registry!Spec
===========================================================================
