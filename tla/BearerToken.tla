---------------------------- MODULE BearerToken ----------------------------
(***************************************************************************)
(* Tokens from login to expiry: AuthService issues and blocks them,        *)
(* BearerTokenMiddleware admits them with two entries of the in-memory     *)
(* cache, TOKEN_<token> (a payload verified before) and BLOCK_TOKEN_<token>,*)
(* and AuthGuard and RBACGuard judge the payload by route.  The clock is   *)
(* in milliseconds; an entry of the cache lives through its deadline, a    *)
(* token is expired from its exp on.  Between the reads and the write of   *)
(* the middleware run only microtasks: a request is judged in one step.    *)
(* Signing is deterministic: two payloads that agree, iat in seconds and   *)
(* all, are one token, whoever they are signed for.                        *)
(***************************************************************************)
EXTENDS Integers, FiniteSets

CONSTANTS Users, roleOf,           \* roleOf[u]: 0 admin, 1 paidUser, 2 user
          Tokens,                  \* bound: the tokens that can be issued
          Second,                  \* milliseconds of a second
          AccessTTL, RefreshTTL,   \* 300 and 24 * 3600 seconds
          Margin,                  \* milliseconds an entry TOKEN_ ends before the token
          MaxTime,                 \* bound of the clock
          NoUser, NoToken

ASSUME BearerAssumption ==
  /\ roleOf \in [Users -> 0..2] /\ NoUser \notin Users /\ NoToken \notin Tokens
  /\ Second \in Nat \ {0} /\ AccessTTL \in Nat /\ RefreshTTL \in Nat
  /\ Margin \in Nat /\ MaxTime \in Nat

Routes  == {"public", "user", "admin", "rotate", "passport", "chat"}
Kinds   == {"none", "access", "refresh"}
Token   == [type: Kinds, sub: Users \cup {NoUser}, role: 0..2, exp: Nat]

VARIABLES now,       \* Date.now()
          token,     \* token[t]: the payload signed into t
          cached,    \* cached[t]: the deadline of the entry TOKEN_t
          block,     \* block[t]: the deadline of the entry BLOCK_TOKEN_t
          blocked,   \* history: the tokens this process was asked to block
          origin,    \* history: origin[t] are the users whose logins t goes back to
          last       \* the last request: route, token, and whether it was served

vars == <<now, token, cached, block, blocked, origin, last>>

TypeOK == /\ now \in Nat \ {0} /\ token \in [Tokens -> Token]
          /\ cached \in [Tokens -> Nat] /\ block \in [Tokens -> Nat]
          /\ blocked \subseteq Tokens /\ origin \in [Tokens -> SUBSET Users]
          /\ last \in [route: Routes, tok: Tokens \cup {NoToken}, ok: BOOLEAN]

AtLeastOne(x) == IF x > 1 THEN x ELSE 1
Issued        == {t \in Tokens : token[t].type # "none"}

Init == /\ now = 1
        /\ token = [t \in Tokens |-> [type |-> "none", sub |-> NoUser, role |-> 2, exp |-> 0]]
        /\ cached = [t \in Tokens |-> 0] /\ block = [t \in Tokens |-> 0]
        /\ blocked = {} /\ origin = [t \in Tokens |-> {}]
        /\ last = [route |-> "public", tok |-> NoToken, ok |-> TRUE]

---------------------------------------------------------------------------
(* The middleware and the guards *)

Blocked(t)  == now <= block[t]
Cached(t)   == now <= cached[t]
Verified(t) == now < token[t].exp

\* mutant: an entry TOKEN_ is looked at first
AdmittedCachedFirst(t) == Cached(t) \/ (~Blocked(t) /\ Verified(t))

\* use() puts a payload on the request; it answers 401 itself if it does not
Admitted(t) == ~Blocked(t) /\ (Cached(t) \/ Verified(t))

\* mutant: the deadline is that of the whole second, not of the margin before
CachedUntilPlain(t) == token[t].exp + Second

CachedUntil(t) == now + AtLeastOne(token[t].exp - now - Margin)

\* use() caches what it has verified
Remember(t) ==
  cached' = IF Blocked(t) \/ Cached(t) \/ ~Verified(t) THEN cached
            ELSE [cached EXCEPT ![t] = CachedUntil(t)]

\* mutant: AuthGuard is content with a user on the request
PassesAnyKind(t, route) ==
  route = "public" \/ (t # NoToken /\ (route = "admin" => token[t].role <= 0))

\* AuthGuard and RBACGuard: a handler that is not @Public needs an access token,
\* one with @RBAC a role as strong
Passes(t, route) ==
  \/ route = "public"
  \/ t # NoToken /\ token[t].type = "access" /\ (route = "admin" => token[t].role <= 0)

\* a request without a token goes through to the guards, one whose token is not
\* admitted does not
Served(t, route) == (t # NoToken => Admitted(t)) /\ Passes(t, route)

Answer(t, route, ok) == last' = [route |-> route, tok |-> t, ok |-> ok]

\* a request with token t reaches the middleware, and the guards if admitted
Arrive(t, route) ==
  /\ Answer(t, route, Served(t, route))
  /\ IF t = NoToken THEN UNCHANGED cached ELSE Remember(t)

---------------------------------------------------------------------------
(* Issuing and blocking *)

\* jsonwebtoken: iat is the second begun, exp counts seconds from there
Expiry(ttl) == ((now \div Second) + ttl) * Second

IssueToken(u, role, refresh) ==
  [type |-> IF refresh THEN "refresh" ELSE "access", sub |-> u, role |-> role,
   exp |-> Expiry(IF refresh THEN RefreshTTL ELSE AccessTTL)]

\* payload p is signed: the token that it is already, or else a new one
Signs(t, p) == IF \E s \in Tokens : token[s] = p THEN token[t] = p ELSE t \notin Issued

\* user u gets a refresh token and an access token
IssueBoth(u) ==
  LET Refresh == IssueToken(u, roleOf[u], TRUE)
      Access  == IssueToken(u, roleOf[u], FALSE)
  IN  \E r, a \in Tokens :
        /\ r # a /\ Signs(r, Refresh) /\ Signs(a, Access)
        /\ token' = [token EXCEPT ![r] = Refresh, ![a] = Access]
        /\ origin' = [origin EXCEPT ![r] = @ \cup {u}, ![a] = @ \cup {u}]

\* the user of token t gets one for the payload p
IssueNext(t, p) ==
  \E a \in Tokens : /\ Signs(a, p)
                    /\ token' = [token EXCEPT ![a] = p]
                    /\ origin' = [origin EXCEPT ![a] = @ \cup origin[t]]

\* login: the user exists and the password is right
Login(u) ==
  /\ IssueBoth(u)
  /\ Answer(NoToken, "public", TRUE)
  /\ UNCHANGED <<now, cached, block, blocked>>

\* login/passport: no @Public, so AuthGuard wants an access token first; then
\* LocalAuthGuard authenticates u
LoginPassport(t, u) ==
  /\ Arrive(t, "passport")
  /\ IF Served(t, "passport") THEN IssueBoth(u) ELSE UNCHANGED <<token, origin>>
  /\ UNCHANGED <<now, block, blocked>>

\* mutant: the next token is given the role of a row, which a payload is not
RotateAccessTokenRoleless(t) ==
  /\ Arrive(t, "rotate")
  /\ IF Served(t, "rotate") THEN IssueNext(t, IssueToken(NoUser, 0, FALSE))
                            ELSE UNCHANGED <<token, origin>>
  /\ UNCHANGED <<now, block, blocked>>

\* token/access: issueToken reads `id` of the payload, which has `sub`
RotateAccessToken(t) ==
  /\ Arrive(t, "rotate")
  /\ IF Served(t, "rotate") THEN IssueNext(t, IssueToken(NoUser, token[t].role, FALSE))
                            ELSE UNCHANGED <<token, origin>>
  /\ UNCHANGED <<now, block, blocked>>

BlockUntil(t) == now + AtLeastOne(token[t].exp - now)

\* token/block: the request carries token t, its body any token b
TokenBlock(t, b) ==
  /\ Arrive(t, "user")
  /\ IF Served(t, "user")
     THEN /\ block' = [block EXCEPT ![b] = BlockUntil(b)]
          /\ blocked' = blocked \cup {b}
     ELSE UNCHANGED <<block, blocked>>
  /\ UNCHANGED <<now, token, origin>>

\* any other request
Request(t, route) == Arrive(t, route) /\ UNCHANGED <<now, token, block, blocked, origin>>

\* the chat gateway: parseBearerToken looks at the token alone
ConnectChat(t) ==
  /\ Answer(t, "chat", Verified(t) /\ token[t].type = "access")
  /\ UNCHANGED <<now, token, cached, block, blocked, origin>>

Tick == /\ now < MaxTime /\ now' = now + 1
        /\ UNCHANGED <<token, cached, block, blocked, origin, last>>

\* the process starts again with an empty cache
Restart == /\ cached' = [t \in Tokens |-> 0] /\ block' = [t \in Tokens |-> 0]
           /\ blocked' = {}
           /\ UNCHANGED <<now, token, origin, last>>

Next == \/ Tick \/ Restart
        \/ \E u \in Users : Login(u)
        \/ \E t \in Issued \cup {NoToken}, u \in Users : LoginPassport(t, u)
        \/ \E t \in Issued \cup {NoToken} : RotateAccessToken(t)
        \/ \E t \in Issued \cup {NoToken}, b \in Issued : TokenBlock(t, b)
        \/ \E t \in Issued \cup {NoToken}, route \in {"public", "user", "admin"} : Request(t, route)
        \/ \E t \in Issued : ConnectChat(t)

Spec == Init /\ [][Next]_vars

---------------------------------------------------------------------------
(* Properties *)

\* A token this process was asked to block is not admitted again, whatever was
\* cached for it: the entry BLOCK_TOKEN_ ends no sooner than the token does.
BlockedStaysOut == \A t \in blocked : ~Admitted(t)

\* No token is admitted after its expiry, except, through an entry TOKEN_ written
\* in its last millisecond, at that very millisecond.
NoneOutlivesExpiry == \A t \in Issued : Admitted(t) => now <= token[t].exp

\* Why: an entry TOKEN_ ends with the token at the latest, BLOCK_TOKEN_ at the
\* earliest, none is there without a request for it, and only issued tokens have any.
EntriesMatch == /\ \A t \in Tokens : cached[t] <= token[t].exp
                /\ \A t \in Tokens \ blocked : block[t] = 0
                /\ \A t \in blocked : block[t] >= token[t].exp
                /\ \A t \in Tokens \ Issued : token[t].exp = 0 /\ t \notin blocked

\* Along any chain of rotations, which carry the role of a payload on and lose its
\* user, through the cache and across restarts, what a guard decides goes back to a
\* password: a request is served on an administrator's handler only with an access
\* token that descends from logins of administrators and of nobody else.
AdminsOnly ==
  last.route = "admin" /\ last.ok =>
    /\ token[last.tok].type = "access" /\ origin[last.tok] # {}
    /\ \A u \in origin[last.tok] : roleOf[u] = 0

\* Why: the role of a token is that of the users it descends from, if it has a user
\* at all it is he, and the token of the last request is an issued one.
RolesDescend ==
  /\ \A t \in Issued : /\ origin[t] # {} /\ \A u \in origin[t] : token[t].role = roleOf[u]
                       /\ token[t].sub # NoUser => origin[t] = {token[t].sub}
  /\ \A t \in Tokens \ Issued : origin[t] = {}
  /\ last.tok # NoToken => last.tok \in Issued
  /\ AdminsOnly

\* The caches and the payloads are the code's own affair: every request is answered as
\* if the registry of tokens had been asked itself, neither refused on account of an
\* entry nor served on account of one.  Whether login/passport asks for a token, and
\* whether a refresh token gets a new access token, the registry does not say.
Registry == INSTANCE TokenRegistry WITH
              kind    <- [t \in Tokens |-> token[t].type],
              expiry  <- [t \in Tokens |-> token[t].exp],
              holders <- origin,
              revoked <- blocked

AnswersAsRegistry == Registry!Spec
===========================================================================
