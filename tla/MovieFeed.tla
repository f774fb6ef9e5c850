----------------------------- MODULE MovieFeed -----------------------------
(***************************************************************************)
(* A client that walks through GET /movie page by page, following          *)
(* nextCursor, while movies are created and removed.                       *)
(* applyCursorPaginationParamsToQb runs the page query once for the cursor *)
(* and findAll runs it again for the data.  Because of its joins and its   *)
(* limit, TypeORM makes two statements of it, one for the ids of the page  *)
(* and one for the rows that have them: four snapshots for a page.  Rows   *)
(* equal in every order column come in any order.                          *)
(***************************************************************************)
EXTENDS Naturals, Sequences, FiniteSets

CONSTANTS Movies,      \* ids a row of table movie may have
          likeCount,   \* likeCount[m]: no running code writes this column
          createdAt,   \* createdAt[m], in microseconds
          Millisecond, \* microseconds of a millisecond
          Matching,    \* the movies whose title is LIKE the title asked for
          Titled,      \* TRUE: the first request gives a title
          Orders,      \* the values of `order` a client may give: sequences of [col, dir]
          Take         \* `take`

Columns == {"id", "likeCount", "createdAt"}

ASSUME FeedAssumption ==
  /\ IsFiniteSet(Movies) /\ Movies \subseteq Nat
  /\ likeCount \in [Movies -> Nat] /\ createdAt \in [Movies -> Nat]
  /\ Millisecond \in Nat \ {0}
  /\ Matching \subseteq Movies /\ Titled \in BOOLEAN
  /\ Orders \subseteq Seq([col: Columns, dir: {"ASC", "DESC"}]) \ {<<>>}
  /\ Take \in Nat \ {0}

VARIABLES movies,    \* the ids with a row in table movie
          used,      \* the ids handed out so far
          pc,        \* where the walk is
          order,     \* the order of the page: the client's, then the cursor's
          cursor,    \* the values in the cursor of the request
          page,      \* the ids that the page query has found last
          next,      \* nextCursor of the answer, known before the data is read
          seen,      \* history: the movies listed by the pages so far
          again,     \* history: those listed more than once
          stayed,    \* history: the movies there since the first query of the walk
          torn       \* history: a movie came or went between two statements of a page

walk == <<pc, order, cursor, page, next, seen, again>>
vars == <<movies, used, walk, stayed, torn>>

PCs == {"client", "cursorRows", "dataIds", "dataRows", "end"}

Value(m, c) == CASE c = "id" -> m [] c = "likeCount" -> likeCount[m] [] OTHER -> createdAt[m]

\* what is left of a value in the cursor: JSON.stringify writes a Date, which
\* has milliseconds only
Written(x, c) == IF c = "createdAt" THEN x - (x % Millisecond) ELSE x

Values(m)   == [i \in DOMAIN order |-> Value(m, order[i].col)]
CursorOf(m) == [i \in DOMAIN order |-> Written(Value(m, order[i].col), order[i].col)]
NoCursor    == <<>>

\* the row comparison of SQL: the first column that differs decides
Less(v, w) == \E i \in DOMAIN order : /\ \A j \in 1..(i - 1) : v[j] = w[j]
                                      /\ v[i] < w[i]

\* ORDER BY, where each column has its own direction
Before(m, n) ==
  \E i \in DOMAIN order :
    /\ \A j \in 1..(i - 1) : Values(m)[j] = Values(n)[j]
    /\ IF order[i].dir = "DESC" THEN Values(n)[i] < Values(m)[i] ELSE Values(m)[i] < Values(n)[i]

\* `order.some(o => o.endsWith('DESC')) ? '<' : '>'`
Descending == \E i \in DOMAIN order : order[i].dir = "DESC"

\* mutants: columns compared one by one; the row of the cursor let in again
PastInEach(v, w) == \A i \in DOMAIN order : IF Descending THEN v[i] < w[i] ELSE w[i] < v[i]
PastOrAt(v, w)   == v = w \/ IF Descending THEN Less(v, w) ELSE Less(w, v)

\* one operator for all columns, whatever their directions
Past(v, w) == IF Descending THEN Less(v, w) ELSE Less(w, v)

\* WHERE: qb.where of the cursor takes the place of qb.where of the title
Selected(m) == IF cursor = NoCursor THEN Titled => m \in Matching ELSE Past(Values(m), cursor)
Rows        == {m \in movies : Selected(m)}

Pages ==
  {S \in SUBSET Rows : /\ Cardinality(S) = IF Cardinality(Rows) < Take THEN Cardinality(Rows) ELSE Take
                       /\ \A m \in S, n \in Rows \ S : ~Before(n, m)}

\* mutant: results[0] instead of results[results.length - 1]
Firsts(S) == {m \in S : \A n \in S : ~Before(n, m)}

Lasts(S) == {m \in S : \A n \in S : ~Before(m, n)}

Init == /\ movies \in SUBSET Movies /\ used = movies
        /\ pc = "client" /\ order \in Orders /\ cursor = NoCursor /\ next = NoCursor
        /\ page = {} /\ seen = {} /\ again = {} /\ stayed = movies /\ torn = FALSE

\* a request without a cursor has the order the client gives, one with a cursor
\* that of the cursor, which `order` keeps; getMany of the pagination asks for ids
CursorIds ==
  /\ pc = "client"
  /\ page' \in Pages
  /\ pc' = "cursorRows"
  /\ stayed' = IF cursor = NoCursor THEN movies ELSE stayed
  /\ UNCHANGED <<movies, used, order, cursor, next, seen, again, torn>>

\* and for the rows that have them; generateNextCursor takes the last
CursorRows ==
  LET results == page \cap movies
  IN  /\ pc = "cursorRows"
      /\ \/ results = {} /\ next' = NoCursor
         \/ \E m \in Lasts(results) : next' = CursorOf(m)
      /\ pc' = "dataIds"
      /\ UNCHANGED <<movies, used, order, cursor, page, seen, again, stayed, torn>>

\* getManyAndCount of findAll, the ids
DataIds ==
  /\ pc = "dataIds"
  /\ page' \in Pages
  /\ pc' = "dataRows"
  /\ UNCHANGED <<movies, used, order, cursor, next, seen, again, stayed, torn>>

\* and the rows: the answer.  The client asks for the next page until it is told
\* that there is none.
DataRows ==
  LET data == page \cap movies
  IN  /\ pc = "dataRows"
      /\ seen' = seen \cup data /\ again' = again \cup (seen \cap data)
      /\ cursor' = next
      /\ pc' = IF next = NoCursor THEN "end" ELSE "client"
      /\ UNCHANGED <<movies, used, order, page, next, stayed, torn>>

\* the client starts over
Restart ==
  /\ pc = "end"
  /\ pc' = "client" /\ order' \in Orders /\ cursor' = NoCursor /\ next' = NoCursor
  /\ page' = {} /\ seen' = {} /\ again' = {} /\ stayed' = movies /\ torn' = FALSE
  /\ UNCHANGED <<movies, used>>

Torn == torn \/ pc \notin {"client", "end"}

\* a movie created elsewhere commits; ids are not reused, and a smaller one may
\* commit after a greater one
Add(m) ==
  /\ m \notin used
  /\ movies' = movies \cup {m} /\ used' = used \cup {m}
  /\ torn' = Torn
  /\ UNCHANGED <<walk, stayed>>

Remove(m) ==
  /\ m \in movies
  /\ movies' = movies \ {m} /\ stayed' = stayed \ {m}
  /\ torn' = Torn
  /\ UNCHANGED <<used, walk>>

Next == \/ CursorIds \/ CursorRows \/ DataIds \/ DataRows \/ Restart
        \/ \E m \in Movies : Add(m) \/ Remove(m)

Spec == Init /\ [][Next]_vars

---------------------------------------------------------------------------
(* Properties *)

\* What an order may be: its columns all in one direction, as the one comparison
\* operator wants it; without a column that the cursor truncates; with the id, so
\* that no two rows are equal.
OneDirection == \A i, j \in DOMAIN order : order[i].dir = order[j].dir
Exact        == \A i \in DOMAIN order : order[i].col # "createdAt"
ById         == \E i \in DOMAIN order : order[i].col = "id"

TypeOK == /\ movies \subseteq used /\ used \subseteq Movies
          /\ pc \in PCs /\ order \in Orders
          /\ cursor \in {NoCursor} \cup {CursorOf(m) : m \in Movies}
          /\ next \in {NoCursor} \cup {CursorOf(m) : m \in Movies}
          /\ page \subseteq used
          /\ seen \subseteq used /\ again \subseteq seen /\ stayed \subseteq movies
          /\ torn \in BOOLEAN

\* No movie that was there all the time is missed by a walk to the end, without a
\* title, in one direction by the id and other columns, unless the statements of a page saw
\* different tables.  In descending order the cursor, which has lost the
\* microseconds of createdAt, would skip movies of its millisecond.
NothingMissed ==
  pc = "end" /\ ~torn /\ ~Titled /\ OneDirection /\ ById /\ (Descending => Exact)
    => stayed \subseteq seen

\* No movie is listed by two pages of a walk in one direction, by the id or not,
\* unless the statements of a page saw different tables: movies that come and go
\* between the pages do no harm.  In ascending order the truncated cursor would let
\* its own row in again.
NothingRepeated ==
  ~torn /\ OneDirection /\ (~Descending => Exact) => again = {}

\* What a cursor of truncated times still orders: the columns up to createdAt.
UpToTime(i) == \A j \in 1..(i - 1) : order[j].col # "createdAt"
NotBehind(w, v) ==
  \A i \in DOMAIN order : UpToTime(i) /\ (\A j \in 1..(i - 1) : v[j] = w[j]) => v[i] <= w[i]

\* Each page's cursor lies strictly past the one before, mixed directions and torn
\* pages included, which is why a walk ends: for every order but the ascending
\* ones with createdAt.  There the cursor, cut to its millisecond, lets its own row
\* in again: it never goes back to an earlier millisecond, but it may stand still
\* or turn back within one, and such a walk need not end.
CursorMoves ==
  [][DataRows /\ cursor # NoCursor /\ next # NoCursor =>
       IF Descending \/ Exact THEN Past(next, cursor) /\ next # cursor
                              ELSE NotBehind(next, cursor)]_vars

\* A walk with a title lists no movie whose title does not match.
PagesFiltered == Titled => seen \subseteq Matching

\* What makes them inductive: the cursor has every listed movie behind it, and every
\* unlisted one that stayed before it; the next one is that of a selected movie.
Behind(v, S) == (~Descending => Exact) => \A m \in S : ~Past(Values(m), v)
Ahead(v, S)  == ~Titled /\ ById /\ (Descending => Exact) => \A m \in stayed \ S : Past(Values(m), v)
Divides(v)   == IF v = NoCursor THEN seen = {} ELSE Behind(v, seen) /\ Ahead(v, seen)

NextOfPage == \E S \in Pages : IF S = {} THEN next = NoCursor
                               ELSE \E m \in Lasts(S) : next = CursorOf(m)

WalkInductive ==
  ~torn /\ OneDirection =>
    /\ pc # "end" => Divides(cursor)
    /\ pc \in {"cursorRows", "dataRows"} => page \in Pages
    /\ pc \in {"dataIds", "dataRows"} => NextOfPage

NextIsSelected ==
  /\ pc = "cursorRows" /\ cursor # NoCursor => \A m \in page : Past(Values(m), cursor)
  /\ pc \in {"dataIds", "dataRows"} /\ next # NoCursor =>
       \E m \in Movies : next = CursorOf(m) /\ (cursor # NoCursor => Past(Values(m), cursor))
===========================================================================
