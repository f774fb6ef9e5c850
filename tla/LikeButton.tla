---------------------------- MODULE LikeButton ----------------------------
(***************************************************************************)
(* What the Like and Dislike buttons of a movie promise.  A press that     *)
(* meets no other press of its pair does what the comment over the two     *)
(* like routes says: it lights its button, the same press again puts it    *)
(* out, the opposite press moves the light; it takes effect in one         *)
(* indivisible step and is answered with the light it left, or is refused  *)
(* and changes nothing, or is answered with an error, which tells nothing: *)
(* it took effect once or not at all.  Presses that meet on a pair are     *)
(* promised less: each writes at most once, its own button or none.  A     *)
(* press that names no user lands on any user's pair, where it lights its  *)
(* own button or changes nothing, and is answered that no button is lit.   *)
(***************************************************************************)
CONSTANTS Movies, Users,
          NoUser,    \* who presses with a token that names no user
          Requests   \* the HTTP requests that may be in flight

Pairs  == Movies \X Users        \* a movie and a user: the owner of one pair of buttons
Strays == Movies \X {NoUser}
Signs  == {"like", "dislike"}
Lights == Signs \cup {"none"}

VARIABLES light,   \* light[p]: the button that is lit for pair p
          press    \* press[r]: the press request r carries and how far it got

vars == <<light, press>>

\* the light after a press of button s when l is lit
Toggle(l, s) == IF l = s THEN "none" ELSE s

Init == /\ light = [p \in Pairs |-> "none"]
        /\ press \in [Requests -> [phase: {"idle"}, pair: Pairs, want: Signs, lit: {"none"},
                                   stray: {FALSE}, alone: {TRUE}]]

Open(r)   == press[r].phase \in {"pending", "taken"}
OpenOn(p) == {r \in Requests : Open(r) /\ press[r].pair = p}

\* a press that has met another: what it was told before counts no more
Met(b) == [phase |-> b.phase, pair |-> b.pair, want |-> b.want, lit |-> "none",
           stray |-> b.stray, alone |-> FALSE]

\* press r meets those that are open on its pair
Joins(r, p, new) ==
  LET met == OpenOn(p)
  IN  press' = [q \in Requests |-> IF q = r THEN new
                                   ELSE IF q \in met THEN Met(press[q]) ELSE press[q]]

Pending(p, s, stray, alone) == [phase |-> "pending", pair |-> p, want |-> s, lit |-> "none",
                                stray |-> stray, alone |-> alone]

Press(r) ==
  /\ ~Open(r)
  /\ UNCHANGED light
  /\ \E p \in Pairs \cup Strays, s \in Signs :
       Joins(r, p, Pending(p, s, p \in Strays, p \in Pairs /\ OpenOn(p) = {}))

Land(r) ==
  /\ press[r].phase = "pending" /\ press[r].pair \in Strays
  /\ UNCHANGED light
  /\ \E u \in Users :
       LET p == <<press[r].pair[1], u>>
       IN  Joins(r, p, Pending(p, press[r].want, TRUE, FALSE))

Becomes(r, f, l) ==
  press' = [press EXCEPT ![r] = [phase |-> f, pair |-> press[r].pair, want |-> press[r].want,
                                 lit |-> l, stray |-> press[r].stray, alone |-> press[r].alone]]

Take(r) ==
  LET p   == press[r].pair
      now == Toggle(light[p], press[r].want)
  IN  /\ press[r].phase = "pending" /\ press[r].alone
      /\ light' = [light EXCEPT ![p] = now]
      /\ Becomes(r, "taken", now)

Clash(r) ==
  LET p == press[r].pair
  IN  /\ press[r].phase = "pending" /\ ~press[r].alone /\ p \in Pairs
      /\ \E l \in {light[p], "none", press[r].want} :
           /\ press[r].stray => l \in {light[p], press[r].want}
           /\ light' = [light EXCEPT ![p] = l]
      /\ Becomes(r, "taken", "none")

Answer(r) ==
  /\ press[r].phase = "taken"
  /\ UNCHANGED light
  /\ \E l \in Lights : /\ press[r].alone => l = press[r].lit
                       /\ press[r].stray => l = "none"
                       /\ Becomes(r, "answered", l)

\* a query of the press fails, before it took effect or after
Break(r) == Open(r) /\ UNCHANGED light /\ Becomes(r, "failed", "none")

Refuse(r) == press[r].phase = "pending" /\ UNCHANGED light /\ Becomes(r, "refused", "none")

Next == \E r \in Requests :
          \/ Press(r)
          \/ Land(r)
          \/ Take(r) \/ Clash(r)
          \/ Answer(r)
          \/ Refuse(r)
          \/ Break(r)

Spec == Init /\ [][Next]_vars
===========================================================================
