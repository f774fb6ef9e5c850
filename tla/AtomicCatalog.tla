--------------------------- MODULE AtomicCatalog ---------------------------
(***************************************************************************)
(* What the administrator's requests do to the catalogue that can be seen: *)
(* a creation and a patch take effect as a whole, at an instant at which   *)
(* the constraints hold for them, or not at all; a removal takes the movie *)
(* and then its detail, and may be cut off between the two.  Its answer may *)
(* fail after it has acted, and is a refusal only if it has not.           *)
(***************************************************************************)
CONSTANTS Genres, Directors, Ids, Row, Posts, Patches, Requests,
          NoRow, None

VARIABLES prod,      \* files are kept where two movies may come to share one
          movies, row, details, genres, directors,
          used,      \* ids that have been given away, to a movie or to none
          request,   \* request[r]: what r asks for, None when it asks for nothing
          fate       \* fate[r]: what has become of it; "half": a movie gone without its detail,
                     \* "acted": a patch made and not answered

tables == <<movies, row, details, genres, directors>>
vars   == <<prod, tables, used, request, fate>>
Open   == {"pending", "half", "acted"}

Asked == [op: {"create"}, id: {0}, body: Posts]
           \cup [op: {"update"}, id: Ids, body: Patches]
           \cup [op: {"remove"}, id: Ids, body: {None}]

Init == /\ prod \in BOOLEAN
        /\ movies \subseteq Ids /\ details = movies /\ used = movies
        /\ row \in [Ids -> Row] /\ \A i, j \in movies : row[i].title = row[j].title => i = j
        /\ genres = Genres /\ directors = Directors
        /\ request = [r \in Requests |-> None] /\ fate = [r \in Requests |-> "idle"]

Ask(r) == /\ fate[r] \notin Open /\ fate' = [fate EXCEPT ![r] = "pending"]
          /\ request'[r] \in Asked /\ request' = [request EXCEPT ![r] = request'[r]]
          /\ UNCHANGED tables

Ends(r, from, how) == /\ fate[r] = from /\ fate' = [fate EXCEPT ![r] = how]
                      /\ request' = [request EXCEPT ![r] = None]

\* the constraints of the database hold for movie i with what b says of it
Fits(i, b) == /\ "title" \in DOMAIN b => \A j \in movies \ {i} : row[j].title # b.title
              /\ "director" \in DOMAIN b => b.director \in directors
              /\ "genres" \in DOMAIN b => b.genres \subseteq genres

Create(r) ==
  LET b == request[r].body
  IN  /\ request[r].op = "create"
      /\ \E i \in used' \ used :
           /\ Fits(i, b) /\ (prod \/ \A j \in movies : row[j].file # b.file)
           /\ movies' = movies \cup {i} /\ details' = details \cup {i}
           /\ row' = [row EXCEPT ![i] = b]
      /\ UNCHANGED <<genres, directors>>

\* Which genres go is open: those the movie had when the request read it.
Patched(w, b, unlinked) ==
  [f \in DOMAIN w |-> IF f \notin DOMAIN b THEN w[f]
                      ELSE IF f = "genres" THEN (w.genres \ unlinked) \cup b.genres
                      ELSE b[f]]

Patch(r) ==
  LET i == request[r].id
      b == request[r].body
  IN  /\ request[r].op = "update"
      /\ i \in movies /\ Fits(i, b) /\ "file" \notin DOMAIN b
      /\ \E unlinked \in SUBSET Genres : row' = [row EXCEPT ![i] = Patched(@, b, unlinked)]
      /\ UNCHANGED <<movies, details, genres, directors>>

\* the movie went away meanwhile: nothing happens, and that is no error
Miss(r) == /\ request[r].op = "update" /\ request[r].id \notin movies
           /\ UNCHANGED tables

Remove(r) ==
  LET i == request[r].id
  IN  /\ fate[r] = "pending" /\ request[r].op = "remove"
      /\ fate' = [fate EXCEPT ![r] = "half"] /\ UNCHANGED request
      /\ movies' = movies \ {i} /\ row' = [row EXCEPT ![i] = NoRow]
      /\ UNCHANGED <<details, genres, directors>>

RemoveDetail(r) == /\ request[r].id \notin movies
                   /\ details' = details \ {request[r].id}
                   /\ UNCHANGED <<movies, row, genres, directors>>

\* for a reason that holds now: the movie is not there, or has likes; what the body says
\* does not fit; or a genre it asks for has come to the movie meanwhile
Refuse(r) ==
  LET q == request[r]
  IN  /\ Ends(r, "pending", "refused")
      /\ \/ q.op = "update" /\ q.id \notin movies
         \/ q.op = "remove"
         \/ q.op # "remove" /\ ~Fits(q.id, q.body)
         \/ q.op = "update" /\ "genres" \in DOMAIN q.body /\ row[q.id].genres \cap q.body.genres # {}
      /\ UNCHANGED tables

Fail(r) == (\E from \in Open : Ends(r, from, "failed")) /\ UNCHANGED tables

Answer(r) == Ends(r, "acted", "done") /\ UNCHANGED tables

\* takes effect and is answered with what it did, or with the error of a late answer
Act(r) ==
  \/ \E how \in {"done", "failed"} :
       (Ends(r, "pending", how) /\ Create(r)) \/ (Ends(r, "half", how) /\ RemoveDetail(r))
  \/ Ends(r, "pending", "acted") /\ (Patch(r) \/ Miss(r))

\* the process dies: a creation may have been answered, and is lost all the same
Crash ==
  LET lost == {r \in Requests : fate[r] \in Open}
  IN  /\ \E answered \in SUBSET {r \in lost : fate[r] = "pending" /\ request[r].op = "create"} :
           fate' = [r \in Requests |-> IF r \in answered THEN "done"
                                       ELSE IF r \in lost THEN "failed" ELSE fate[r]]
      /\ request' = [r \in Requests |-> IF r \in lost THEN None ELSE request[r]]
      /\ UNCHANGED tables

RemoveGenre(g) == /\ \A i \in movies : g \notin row[i].genres
                  /\ genres' = genres \ {g}
                  /\ UNCHANGED <<movies, row, details, directors, request, fate>>

RemoveDirector(d) == /\ \A i \in movies : row[i].director # d
                     /\ directors' = directors \ {d}
                     /\ UNCHANGED <<movies, row, details, genres, request, fate>>

\* an id is lost with a transaction that is rolled back
Skip == UNCHANGED <<fate, request, tables>>

Next == \/ Skip
        \/ \E r \in Requests : \/ Ask(r)
                               \/ Act(r) \/ Remove(r) \/ Answer(r) \/ Refuse(r) \/ Fail(r)
        \/ \E g \in Genres : RemoveGenre(g)
        \/ \E d \in Directors : RemoveDirector(d)
        \/ Crash

Spec == Init /\ [][Next /\ used \subseteq used' /\ UNCHANGED prod]_vars
===========================================================================
