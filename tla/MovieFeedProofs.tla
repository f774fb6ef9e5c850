-------------------------- MODULE MovieFeedProofs --------------------------
(***************************************************************************)
(* For every table, page size and set of orders: a walk whose pages are    *)
(* not torn misses nothing that stayed and lists nothing twice, for the    *)
(* orders of which the property speaks; and every page's cursor lies past  *)
(* the one before, or, ascending by createdAt, not behind its millisecond. *)
(***************************************************************************)
EXTENDS MovieFeed, FiniteSetTheorems, WellFoundedInduction, TLAPS

\* A non-empty set of numbers has a least element.
LEMMA LeastIndex ==
  ASSUME NEW T, T \subseteq Nat, T # {}
  PROVE  \E k \in T : \A j \in T : ~(j < k)
<1>1. PICK k \in T : \A j \in T : ~(<<j, k>> \in OpToRel(<, Nat))
  BY NatLessThanWellFounded, WFMin
<1>2. \A j \in T : <<j, k>> \in OpToRel(<, Nat) <=> j < k
  BY DEF OpToRel
<1> QED BY <1>1, <1>2

\* A time cut to its millisecond is no later.
LEMMA CutIsLess ==
  ASSUME NEW x \in Nat
  PROVE  x - (x % Millisecond) \in Nat /\ x - (x % Millisecond) <= x
<1>1. x % Millisecond \in Nat /\ x % Millisecond <= x
  BY FeedAssumption
<1> QED BY <1>1

\* A time no earlier than the start of a millisecond is cut to no earlier one.
LEMMA CutKeepsOrder ==
  ASSUME NEW a \in Nat, NEW x \in Nat, a - (a % Millisecond) <= x
  PROVE  a - (a % Millisecond) <= x - (x % Millisecond)
<1> DEFINE M == Millisecond
           p == x \div M
           q == a \div M
<1>1. M \in Nat /\ M > 0
  BY FeedAssumption
<1>2. /\ p \in Nat /\ q \in Nat /\ x % M \in Nat /\ a % M \in Nat
      /\ x = M * p + (x % M) /\ a = M * q + (a % M) /\ x % M < M
  BY <1>1
<1>3. M * p \in Nat /\ M * q \in Nat
  BY <1>1, <1>2
<1> HIDE DEF M, p, q
<1>4. q <= p
  <2>1. ASSUME p + 1 <= q PROVE FALSE
    <3>1. M * (p + 1) <= M * q
      BY <1>1, <1>2, <2>1
    <3>2. M * (p + 1) = M * p + M
      BY <1>1, <1>2
    <3>3. M * q <= x
      BY <1>2, <1>3 DEF M
    <3> QED BY <1>1, <1>2, <1>3, <3>1, <3>2, <3>3
  <2> QED BY <1>2, <2>1
<1>5. M * q <= M * p
  BY <1>1, <1>2, <1>4
<1> QED BY <1>2, <1>3, <1>5 DEF M

---------------------------------------------------------------------------
(* The row comparison *)

Vectors == [DOMAIN order -> Nat]

\* The values of a row are numbers, one for each order column; the cursor made from
\* them is no greater in any column, and the same if no column is truncated.
LEMMA ValuesType ==
  ASSUME order \in Orders, NEW m \in Movies
  PROVE  /\ DOMAIN order = 1..Len(order) /\ Len(order) \in Nat \ {0}
         /\ Values(m) \in Vectors /\ CursorOf(m) \in Vectors /\ CursorOf(m) # NoCursor
         /\ \A i \in DOMAIN order : CursorOf(m)[i] <= Values(m)[i]
         /\ Exact => CursorOf(m) = Values(m)
<1>1. DOMAIN order = 1..Len(order) /\ Len(order) \in Nat \ {0}
  BY FeedAssumption
<1>2. \A i \in DOMAIN order : Value(m, order[i].col) \in Nat
  BY FeedAssumption, <1>1 DEF Value, Columns
<1>3. \A i \in DOMAIN order : /\ Written(Value(m, order[i].col), order[i].col) \in Nat
                              /\ Written(Value(m, order[i].col), order[i].col) <= Value(m, order[i].col)
  BY <1>2, CutIsLess DEF Written
<1>4. Values(m) \in Vectors /\ CursorOf(m) \in Vectors
  BY <1>2, <1>3 DEF Values, CursorOf, Vectors
<1>5. \A i \in DOMAIN order : CursorOf(m)[i] <= Values(m)[i]
  BY <1>3 DEF Values, CursorOf
<1>6. CursorOf(m) # NoCursor
  BY <1>1 DEF CursorOf, NoCursor
<1>7. Exact => CursorOf(m) = Values(m)
  BY DEF Exact, CursorOf, Values, Written
<1> QED BY <1>1, <1>4, <1>5, <1>6, <1>7

LEMMA LessTransitive ==
  ASSUME order \in Orders, NEW v \in Vectors, NEW w \in Vectors, NEW u \in Vectors,
         Less(v, w), Less(w, u)
  PROVE  Less(v, u)
<1>1. PICK i \in DOMAIN order : (\A j \in 1..(i - 1) : v[j] = w[j]) /\ v[i] < w[i]
  BY DEF Less
<1>2. PICK k \in DOMAIN order : (\A j \in 1..(k - 1) : w[j] = u[j]) /\ w[k] < u[k]
  BY DEF Less
<1>3. DOMAIN order = 1..Len(order) /\ Len(order) \in Nat
  BY FeedAssumption
<1>4. \A x \in DOMAIN order : v[x] \in Nat /\ w[x] \in Nat /\ u[x] \in Nat
  BY DEF Vectors
<1>5. CASE i < k
  <2>1. (\A j \in 1..(i - 1) : v[j] = u[j]) /\ w[i] = u[i]
    BY <1>1, <1>2, <1>3, <1>5
  <2> QED BY <1>1, <2>1 DEF Less
<1>6. CASE k < i
  <2>1. (\A j \in 1..(k - 1) : v[j] = u[j]) /\ v[k] = w[k]
    BY <1>1, <1>2, <1>3, <1>6
  <2> QED BY <1>2, <2>1 DEF Less
<1>7. CASE i = k
  <2>1. (\A j \in 1..(i - 1) : v[j] = u[j]) /\ v[i] < u[i]
    BY <1>1, <1>2, <1>4, <1>7
  <2> QED BY <2>1 DEF Less
<1> QED BY <1>3, <1>5, <1>6, <1>7

LEMMA LessTotal ==
  ASSUME order \in Orders, NEW v \in Vectors, NEW w \in Vectors, v # w
  PROVE  Less(v, w) \/ Less(w, v)
<1> DEFINE T == {i \in DOMAIN order : v[i] # w[i]}
<1>1. DOMAIN order = 1..Len(order) /\ Len(order) \in Nat
  BY FeedAssumption
<1>2. T \subseteq Nat /\ T # {}
  BY <1>1 DEF Vectors
<1>3. PICK k \in T : \A j \in T : ~(j < k)
  <2> HIDE DEF T
  <2> QED BY <1>2, LeastIndex
<1>4. \A j \in 1..(k - 1) : v[j] = w[j] /\ w[j] = v[j]
  BY <1>1, <1>3
<1>5. v[k] < w[k] \/ w[k] < v[k]
  BY <1>3 DEF Vectors
<1> QED BY <1>4, <1>5 DEF Less

LEMMA NoneLessThanItself ==
  ASSUME order \in Orders, NEW v \in Vectors
  PROVE  ~Less(v, v)
BY DEF Less, Vectors

\* Values no greater in any column are no greater.
LEMMA NotGreater ==
  ASSUME order \in Orders, NEW v \in Vectors, NEW w \in Vectors, \A i \in DOMAIN order : v[i] <= w[i]
  PROVE  v = w \/ Less(v, w)
<1>1. ~Less(w, v)
  BY DEF Less, Vectors
<1> QED BY <1>1, LessTotal

LEMMA PastTransitive ==
  ASSUME order \in Orders, NEW v \in Vectors, NEW w \in Vectors, NEW u \in Vectors,
         Past(v, w), Past(w, u)
  PROVE  Past(v, u)
BY LessTransitive DEF Past

\* With one direction, ORDER BY and the comparison are each other's converse.
LEMMA BeforeIsPast ==
  ASSUME order \in Orders, OneDirection, NEW m \in Movies, NEW n \in Movies
  PROVE  Before(m, n) <=> Past(Values(n), Values(m))
<1>1. \A i \in DOMAIN order : (order[i].dir = "DESC") <=> Descending
  BY DEF OneDirection, Descending
<1>2. \A i \in DOMAIN order : (\A j \in 1..(i - 1) : Values(m)[j] = Values(n)[j])
                                <=> (\A j \in 1..(i - 1) : Values(n)[j] = Values(m)[j])
  OBVIOUS
<1> QED BY <1>1, <1>2 DEF Before, Past, Less

\* The three ways in which the truncated cursor of a row stands for the row.
LEMMA PastTheCursor ==
  ASSUME order \in Orders, NEW l \in Movies, NEW v \in Vectors
  PROVE  /\ (~Descending => Exact) /\ Past(v, CursorOf(l)) => Past(v, Values(l))
         /\ (Descending => Exact) /\ Past(v, Values(l)) => Past(v, CursorOf(l))
         /\ (~Descending => Exact) /\ Past(Values(l), v) => Past(CursorOf(l), v)
<1>1. /\ CursorOf(l) \in Vectors /\ Values(l) \in Vectors
      /\ CursorOf(l) = Values(l) \/ Less(CursorOf(l), Values(l))
      /\ Exact => CursorOf(l) = Values(l)
  BY ValuesType, NotGreater
<1>2. CASE Descending
  BY <1>1, <1>2, LessTransitive DEF Past
<1>3. CASE ~Descending
  BY <1>1, <1>3, LessTransitive DEF Past
<1> QED BY <1>2, <1>3

---------------------------------------------------------------------------
(* The pages of one query *)

\* What a page is made of does not depend on where the walk is.
LEMMA SameOrder ==
  ASSUME order' = order
  PROVE  /\ \A m : Values(m)' = Values(m) /\ CursorOf(m)' = CursorOf(m)
         /\ \A v, w : Past(v, w)' <=> Past(v, w)
         /\ \A m, n : Before(m, n)' <=> Before(m, n)
         /\ OneDirection' <=> OneDirection
         /\ Descending' <=> Descending
         /\ Exact' <=> Exact
         /\ ById' <=> ById
<1>1. Descending' <=> Descending
  BY DEF Descending
<1>2. \A m : Values(m)' = Values(m) /\ CursorOf(m)' = CursorOf(m)
  BY DEF Values, CursorOf
<1>3. \A v, w : Past(v, w)' <=> Past(v, w)
  BY <1>1 DEF Past, Less
<1>4. \A m, n : Before(m, n)' <=> Before(m, n)
  BY <1>2 DEF Before
<1> QED BY <1>1, <1>2, <1>3, <1>4 DEF OneDirection, Exact, ById

LEMMA SamePages ==
  ASSUME order' = order, movies' = movies, cursor' = cursor
  PROVE  Pages' = Pages /\ \A S : Lasts(S)' = Lasts(S)
<1>1. Rows' = Rows
  BY SameOrder DEF Rows, Selected
<1>2. Pages' = Pages
  BY SameOrder, <1>1 DEF Pages
<1> QED BY <1>2, SameOrder DEF Lasts

LEMMA PageRows ==
  ASSUME TypeOK, NEW S \in Pages
  PROVE  /\ S \subseteq Rows /\ S \subseteq movies /\ S \subseteq Movies /\ IsFiniteSet(S)
         /\ \A m \in S : cursor # NoCursor => Past(Values(m), cursor)
<1>1. S \subseteq Rows /\ Rows \subseteq movies /\ movies \subseteq Movies
  BY DEF Pages, Rows, TypeOK
<1>2. IsFiniteSet(S)
  BY <1>1, FS_Subset, FeedAssumption
<1> QED BY <1>1, <1>2 DEF Rows, Selected

\* Pages of one table are as long as each other: one within the other is the other.
LEMMA PagesAreEqual ==
  ASSUME TypeOK, NEW S \in Pages, NEW U \in Pages, S \subseteq U
  PROVE  S = U
<1>1. IsFiniteSet(U) /\ Cardinality(S) = Cardinality(U)
  BY PageRows DEF Pages
<1> QED BY <1>1, FS_Subset

\* A page is empty only if no row is selected.
LEMMA EmptyPage ==
  ASSUME TypeOK, {} \in Pages
  PROVE  Rows = {}
<1>1. IsFiniteSet(Rows)
  BY FS_Subset, FeedAssumption DEF Rows, TypeOK
<1>2. Cardinality(Rows) \in Nat /\ Cardinality({}) = 0
  BY <1>1, FS_CardinalityType, FS_EmptySet
<1>3. Cardinality(Rows) = 0
  BY <1>2, FeedAssumption DEF Pages
<1> QED BY <1>1, <1>3, FS_EmptySet

\* No row that some page lists comes after the last row of another page of the query,
\* even if several rows are equal.
LEMMA NoneAfterTheLast ==
  ASSUME TypeOK, OneDirection, NEW S \in Pages, NEW U \in Pages, NEW l \in Lasts(S), NEW m \in U
  PROVE  ~Past(Values(m), Values(l))
<1> SUFFICES ASSUME Past(Values(m), Values(l)) PROVE FALSE
  OBVIOUS
<1>1. /\ l \in S /\ S \subseteq Rows /\ S \subseteq Movies /\ m \in Movies /\ order \in Orders
      /\ \A s \in S : ~Before(l, s)
  BY PageRows DEF Lasts, TypeOK
<1>2. \A s \in S : Past(Values(m), Values(s))
  <2> TAKE s \in S
  <2>1. /\ Values(s) \in Vectors /\ Values(l) \in Vectors /\ Values(m) \in Vectors
        /\ ~Past(Values(s), Values(l))
    BY <1>1, ValuesType, BeforeIsPast
  <2>2. Values(s) = Values(l) \/ Past(Values(l), Values(s))
    BY <1>1, <2>1, LessTotal DEF Past
  <2> QED BY <1>1, <2>1, <2>2, PastTransitive
<1>3. S \subseteq U
  <2> SUFFICES ASSUME NEW s \in S, s \notin U PROVE FALSE
    OBVIOUS
  <2>1. ~Before(s, m)
    BY <1>1 DEF Pages
  <2> QED BY <1>1, <1>2, <2>1, BeforeIsPast
<1>4. m \in S
  BY <1>3, PagesAreEqual
<1> QED BY <1>1, <1>4, BeforeIsPast

\* Two movies differ in the id: with the id, one of them comes first.
LEMMA BeforeTotal ==
  ASSUME order \in Orders, OneDirection, ById, NEW m \in Movies, NEW n \in Movies, m # n
  PROVE  Before(m, n) \/ Before(n, m)
<1>1. PICK i \in DOMAIN order : order[i].col = "id"
  BY DEF ById
<1>2. Values(m)[i] # Values(n)[i]
  BY <1>1 DEF Values, Value
<1>3. Values(m) \in Vectors /\ Values(n) \in Vectors
  BY ValuesType
<1> QED BY <1>2, <1>3, LessTotal, BeforeIsPast DEF Past

\* With the id, the query has one page only.
LEMMA OnePage ==
  ASSUME TypeOK, OneDirection, ById, NEW S \in Pages, NEW U \in Pages
  PROVE  S = U
<1> SUFFICES ASSUME NEW x \in S, x \notin U PROVE FALSE
  BY PagesAreEqual
<1>1. S \subseteq Rows /\ U \subseteq Rows /\ S \subseteq Movies /\ U \subseteq Movies
  BY PageRows
<1>2. PICK y \in U : y \notin S
  BY PagesAreEqual
<1>3. ~Before(x, y) /\ ~Before(y, x)
  BY <1>1, <1>2 DEF Pages
<1> QED BY <1>1, <1>2, <1>3, BeforeTotal DEF TypeOK

---------------------------------------------------------------------------
(* The walk *)

IInv == TypeOK /\ WalkInductive /\ NothingMissed /\ NothingRepeated

LEMMA InitIInv == Init => IInv
BY FeedAssumption DEF Init, IInv, TypeOK, PCs, WalkInductive, NothingMissed, NothingRepeated,
                      Divides, NoCursor

LEMMA TypeStep == TypeOK /\ [Next]_vars => TypeOK'
<1> SUFFICES ASSUME TypeOK, [Next]_vars PROVE TypeOK'
  OBVIOUS
<1> USE DEF TypeOK, PCs, NoCursor
<1>1. order' = order => {CursorOf(m) : m \in Movies}' = {CursorOf(m) : m \in Movies}
  BY SameOrder
<1>2. CASE CursorIds
  BY <1>1, <1>2, PageRows DEF CursorIds
<1>3. CASE CursorRows
  BY <1>1, <1>3 DEF CursorRows, Lasts
<1>4. CASE DataIds
  BY <1>1, <1>4, PageRows DEF DataIds
<1>5. CASE DataRows
  BY <1>1, <1>5 DEF DataRows
<1>6. CASE Restart
  BY <1>6 DEF Restart
<1>7. CASE \E m \in Movies : Add(m) \/ Remove(m)
  BY <1>1, <1>7 DEF Add, Remove, Torn, walk
<1>8. CASE UNCHANGED vars
  BY <1>1, <1>8 DEF vars, walk
<1> QED BY <1>2, <1>3, <1>4, <1>5, <1>6, <1>7, <1>8 DEF Next

\* A statement that is read leaves the listed movies and the cursor as they were.
LEMMA SameDivides ==
  ASSUME order' = order, cursor' = cursor, seen' = seen,
         stayed' = stayed \/ cursor = NoCursor,
         Divides(cursor)
  PROVE  Divides(cursor)'
BY SameOrder DEF Divides, Behind, Ahead

LEMMA CursorIdsIInv ==
  ASSUME IInv, CursorIds
  PROVE  IInv'
<1>1. TypeOK'
  BY TypeStep DEF IInv, Next
<1>2. Pages' = Pages /\ page' \in Pages /\ pc' = "cursorRows" /\ pc = "client"
  BY SamePages DEF CursorIds
<1>3. ~torn' /\ OneDirection' => Divides(cursor)'
  BY SameDivides, SameOrder DEF CursorIds, IInv, WalkInductive
<1> QED BY <1>1, <1>2, <1>3, SameOrder
        DEF IInv, WalkInductive, NothingMissed, NothingRepeated, CursorIds

LEMMA CursorRowsIInv ==
  ASSUME IInv, CursorRows
  PROVE  IInv'
<1>1. TypeOK'
  BY TypeStep DEF IInv, Next
<1>2. /\ Pages' = Pages /\ \A S : Lasts(S)' = Lasts(S)
      /\ \A m : CursorOf(m)' = CursorOf(m)
  BY SamePages, SameOrder DEF CursorRows
<1>3. ~torn' /\ OneDirection' => Divides(cursor)'
  BY SameDivides, SameOrder DEF CursorRows, IInv, WalkInductive
<1>4. ~torn' /\ OneDirection' => NextOfPage'
  <2> SUFFICES ASSUME ~torn', OneDirection' PROVE NextOfPage'
    OBVIOUS
  <2>1. page \in Pages
    BY SameOrder DEF IInv, WalkInductive, CursorRows
  <2>2. page \cap movies = page
    BY <2>1, PageRows DEF IInv
  <2>3. IF page = {} THEN next' = NoCursor ELSE \E m \in Lasts(page) : next' = CursorOf(m)
    BY <2>2 DEF CursorRows, Lasts
  <2> QED BY <1>2, <2>1, <2>3 DEF NextOfPage
<1> QED BY <1>1, <1>3, <1>4, SameOrder
        DEF IInv, WalkInductive, NothingMissed, NothingRepeated, CursorRows

LEMMA DataIdsIInv ==
  ASSUME IInv, DataIds
  PROVE  IInv'
<1>1. TypeOK'
  BY TypeStep DEF IInv, Next
<1>2. /\ Pages' = Pages /\ \A S : Lasts(S)' = Lasts(S)
      /\ \A m : CursorOf(m)' = CursorOf(m)
  BY SamePages, SameOrder DEF DataIds
<1>3. ~torn' /\ OneDirection' => Divides(cursor)'
  BY SameDivides, SameOrder DEF DataIds, IInv, WalkInductive
<1>4. ~torn' /\ OneDirection' => NextOfPage'
  BY <1>2, SameOrder DEF NextOfPage, DataIds, IInv, WalkInductive
<1> QED BY <1>1, <1>2, <1>3, <1>4, SameOrder
        DEF IInv, WalkInductive, NothingMissed, NothingRepeated, DataIds

\* A movie that stayed, and that no page lists, is selected by the query.
LEMMA StayedIsSelected ==
  ASSUME IInv, ~torn, ~Titled, OneDirection, ById, Descending => Exact, pc # "end",
         NEW m \in stayed \ seen
  PROVE  m \in Rows
<1>1. Divides(cursor) /\ m \in movies
  BY DEF IInv, WalkInductive, TypeOK
<1> QED BY <1>1 DEF Divides, Ahead, Rows, Selected

\* The answer: the heart of the proof.
LEMMA DataRowsIInv ==
  ASSUME IInv, DataRows
  PROVE  IInv'
<1>1. TypeOK'
  BY TypeStep DEF IInv, Next
<1> SUFFICES ASSUME ~torn, OneDirection
             PROVE  (WalkInductive /\ NothingMissed /\ NothingRepeated)'
  BY <1>1, SameOrder DEF IInv, WalkInductive, NothingMissed, NothingRepeated, DataRows
<1>2. /\ TypeOK /\ page \in Pages /\ Divides(cursor) /\ pc = "dataRows" /\ order \in Orders
      /\ cursor \in {NoCursor} \cup Vectors
  BY ValuesType DEF IInv, WalkInductive, DataRows, TypeOK
<1>3. PICK S \in Pages : IF S = {} THEN next = NoCursor ELSE \E m \in Lasts(S) : next = CursorOf(m)
  BY DEF IInv, WalkInductive, DataRows, NextOfPage
<1>4. page \cap movies = page /\ page \subseteq Movies /\ seen \subseteq Movies /\ stayed \subseteq Movies
  BY <1>2, PageRows DEF TypeOK
<1>5. seen' = seen \cup page /\ again' = again \cup (seen \cap page) /\ cursor' = next
  BY <1>4 DEF DataRows
<1>6. (~Descending => Exact) => again' = {}
  <2> SUFFICES ASSUME ~Descending => Exact, NEW m \in seen \cap page PROVE FALSE
    BY <1>5 DEF IInv, NothingRepeated
  <2>1. cursor # NoCursor /\ ~Past(Values(m), cursor)
    BY <1>2 DEF Divides, Behind
  <2> QED BY <1>2, <2>1, PageRows
<1>7. CASE next = NoCursor
  <2>1. S = {}
    BY <1>2, <1>3, <1>7, ValuesType, PageRows DEF Lasts
  <2>2. Rows = {}
    BY <1>2, <1>3, <2>1, EmptyPage
  <2>3. ~Titled /\ ById /\ (Descending => Exact) => stayed \subseteq seen
    BY <1>2, <2>2, StayedIsSelected
  <2>4. pc' = "end" /\ stayed' = stayed
    BY <1>7 DEF DataRows
  <2> QED BY <1>5, <1>6, <2>3, <2>4, SameOrder
          DEF WalkInductive, NothingMissed, NothingRepeated, DataRows
<1>8. CASE next # NoCursor
  <2>1. PICK l \in Lasts(S) : next = CursorOf(l)
    BY <1>3, <1>8
  <2>2. /\ l \in S /\ l \in Movies /\ Values(l) \in Vectors /\ CursorOf(l) \in Vectors
        /\ cursor # NoCursor => Past(Values(l), cursor)
        /\ \A m \in Movies : Values(m) \in Vectors
    BY <1>2, <1>3, <2>1, PageRows, ValuesType DEF Lasts
  <2>3. Behind(next, seen \cup page)
    <3> SUFFICES ASSUME ~Descending => Exact, NEW m \in seen \cup page,
                        Past(Values(m), CursorOf(l))
                 PROVE  FALSE
      BY <2>1 DEF Behind
    <3>1. Values(m) \in Vectors /\ Past(Values(m), Values(l))
      BY <1>2, <1>4, <2>2, PastTheCursor
    <3>2. CASE m \in page
      BY <1>2, <1>3, <2>1, <3>1, <3>2, NoneAfterTheLast
    <3>3. CASE m \in seen
      <4>1. cursor # NoCursor /\ ~Past(Values(m), cursor)
        BY <1>2, <3>3 DEF Divides, Behind
      <4> QED BY <1>2, <2>2, <3>1, <4>1, PastTransitive
    <3> QED BY <3>2, <3>3
  <2>4. Ahead(next, seen \cup page)
    <3> SUFFICES ASSUME ~Titled, ById, Descending => Exact, NEW m \in stayed \ (seen \cup page)
                 PROVE  Past(Values(m), CursorOf(l))
      BY <2>1 DEF Ahead
    <3>1. m \in Rows /\ m \in Movies
      BY <1>2, <1>4, StayedIsSelected
    <3>2. m \notin S
      BY <1>2, <1>3, OnePage
    <3>3. Before(l, m)
      BY <1>2, <1>3, <2>2, <3>1, <3>2, BeforeTotal DEF Pages
    <3> QED BY <1>2, <2>2, <3>1, <3>3, BeforeIsPast, PastTheCursor
  <2>5. Divides(cursor)'
    BY <1>5, <1>8, <2>3, <2>4, SameOrder DEF Divides, Behind, Ahead, DataRows
  <2> QED BY <1>5, <1>6, <1>8, <2>5, SameOrder
          DEF WalkInductive, NothingMissed, NothingRepeated, DataRows
<1> QED BY <1>7, <1>8

LEMMA OthersIInv ==
  ASSUME IInv, Restart \/ (\E m \in Movies : Add(m) \/ Remove(m)) \/ UNCHANGED vars
  PROVE  IInv'
<1>1. TypeOK'
  BY TypeStep DEF IInv, Next
<1>2. CASE Restart
  BY <1>1, <1>2 DEF Restart, IInv, WalkInductive, NothingMissed, NothingRepeated, Divides
<1>3. CASE (\E m \in Movies : Add(m) \/ Remove(m)) /\ pc \notin {"client", "end"}
  BY <1>1, <1>3 DEF Add, Remove, Torn, walk, IInv, WalkInductive, NothingMissed, NothingRepeated
<1>4. CASE /\ \E m \in Movies : Add(m) \/ Remove(m)
           /\ pc \in {"client", "end"}
  <2>1. /\ order' = order /\ cursor' = cursor /\ seen' = seen /\ pc' = pc /\ again' = again
        /\ stayed' \subseteq stayed /\ (torn' <=> torn)
    BY <1>4 DEF Add, Remove, Torn, walk
  <2>2. ~torn' /\ OneDirection' => (pc' # "end" => Divides(cursor)')
    BY <2>1, SameOrder DEF IInv, WalkInductive, Divides, Behind, Ahead
  <2> QED BY <1>1, <1>4, <2>1, <2>2, SameOrder
          DEF IInv, WalkInductive, NothingMissed, NothingRepeated
<1>5. CASE UNCHANGED vars
  <2>1. order' = order /\ movies' = movies /\ cursor' = cursor /\ next' = next /\ seen' = seen /\ pc' = pc
        /\ stayed' = stayed /\ torn' = torn /\ page' = page /\ again' = again
    BY <1>5 DEF vars, walk
  <2>2. ~torn' /\ OneDirection' => (pc' # "end" => Divides(cursor)')
    BY <2>1, SameOrder DEF IInv, WalkInductive, Divides, Behind, Ahead
  <2>3. NextOfPage' <=> NextOfPage
    BY <2>1, SamePages, SameOrder DEF NextOfPage
  <2> QED BY <1>1, <2>1, <2>2, <2>3, SamePages, SameOrder
          DEF IInv, WalkInductive, NothingMissed, NothingRepeated
<1> QED BY <1>2, <1>3, <1>4, <1>5

LEMMA NextIInv == IInv /\ [Next]_vars => IInv'
BY CursorIdsIInv, CursorRowsIInv, DataIdsIInv, DataRowsIInv, OthersIInv DEF Next

THEOREM InvariantCorrect == Spec => []IInv
BY InitIInv, NextIInv, PTL DEF Spec

\* Of every table, whoever adds and removes movies between the pages: a walk in one
\* direction with the id in its order lists all that stayed.
THEOREM WalkMissesNothing == Spec => []NothingMissed
BY InvariantCorrect, PTL DEF IInv

\* And nothing twice, with or without the id.
THEOREM WalkRepeatsNothing == Spec => []NothingRepeated
BY InvariantCorrect, PTL DEF IInv

---------------------------------------------------------------------------
(* The cursors *)

LEMMA NextIsSelectedStep ==
  ASSUME TypeOK, NextIsSelected, [Next]_vars
  PROVE  NextIsSelected'
<1>1. CASE CursorIds
  BY <1>1, PageRows, SameOrder DEF CursorIds, NextIsSelected
<1>2. CASE CursorRows
  <2>1. next' # NoCursor => \E m \in page \cap movies : next' = CursorOf(m)
    BY <1>2 DEF CursorRows, Lasts
  <2>2. page \subseteq Movies
    BY DEF TypeOK
  <2>3. /\ pc = "cursorRows" /\ pc' = "dataIds" /\ cursor' = cursor /\ order' = order
    BY <1>2 DEF CursorRows
  <2> QED BY <2>1, <2>2, <2>3, SameOrder DEF NextIsSelected
<1>3. CASE DataIds
  BY <1>3, SameOrder DEF DataIds, NextIsSelected
<1>4. CASE DataRows
  BY <1>4 DEF DataRows, NextIsSelected
<1>5. CASE Restart
  BY <1>5 DEF Restart, NextIsSelected
<1>6. CASE \E m \in Movies : Add(m) \/ Remove(m)
  BY <1>6, SameOrder DEF Add, Remove, walk, NextIsSelected
<1>7. CASE UNCHANGED vars
  BY <1>7, SameOrder DEF vars, walk, NextIsSelected
<1> QED BY <1>1, <1>2, <1>3, <1>4, <1>5, <1>6, <1>7 DEF Next

\* Ascending, the cursor of a row past the one before is not behind its millisecond.
LEMMA NotBehindTheCursor ==
  ASSUME order \in Orders, ~Descending, NEW l \in Movies, NEW m \in Movies,
         Past(Values(m), CursorOf(l))
  PROVE  NotBehind(CursorOf(m), CursorOf(l))
<1> DEFINE v == CursorOf(l)
           w == CursorOf(m)
           x == Values(m)
<1>1. /\ DOMAIN order = 1..Len(order) /\ Len(order) \in Nat
      /\ v \in Vectors /\ w \in Vectors /\ x \in Vectors
  BY ValuesType
<1>2. PICK i \in DOMAIN order : (\A j \in 1..(i - 1) : v[j] = x[j]) /\ v[i] < x[i]
  BY DEF Past, Less
<1>3. ASSUME NEW k \in DOMAIN order, v[k] <= x[k]
      PROVE  v[k] <= w[k]
  <2>1. CASE order[k].col = "createdAt"
    <3>1. createdAt[l] \in Nat /\ createdAt[m] \in Nat
      BY FeedAssumption
    <3>2. /\ v[k] = createdAt[l] - (createdAt[l] % Millisecond)
          /\ w[k] = createdAt[m] - (createdAt[m] % Millisecond)
          /\ x[k] = createdAt[m]
      BY <2>1 DEF CursorOf, Values, Value, Written
    <3> QED BY <1>3, <3>1, <3>2, CutKeepsOrder
  <2>2. CASE order[k].col # "createdAt"
    BY <1>3, <2>2 DEF CursorOf, Values, Written
  <2> QED BY <2>1, <2>2
<1>4. ASSUME NEW k \in DOMAIN order, order[k].col # "createdAt" PROVE w[k] = x[k]
  BY <1>4 DEF CursorOf, Values, Written
<1> SUFFICES ASSUME NEW k \in DOMAIN order, UpToTime(k), \A j \in 1..(k - 1) : v[j] = w[j]
             PROVE  v[k] <= w[k]
  BY DEF NotBehind
<1>5. \A j \in DOMAIN order : v[j] \in Nat /\ x[j] \in Nat /\ w[j] \in Nat
  BY <1>1 DEF Vectors
<1> HIDE DEF v, w, x
<1>6. CASE k <= i
  <2>1. v[k] <= x[k]
    BY <1>1, <1>2, <1>5, <1>6
  <2> QED BY <1>3, <2>1
<1>7. CASE i < k
  <2>1. i \in 1..(k - 1)
    BY <1>1, <1>7
  <2>2. v[i] = w[i] /\ w[i] = x[i]
    BY <1>4, <2>1 DEF UpToTime
  <2> QED BY <1>2, <1>5, <2>2
<1> QED BY <1>1, <1>6, <1>7

\* Every page moves the cursor on, except that in ascending orders with createdAt it
\* may stand or turn within a millisecond, and only there.
THEOREM WalkMoves == Spec => CursorMoves
<1> DEFINE Moved == IF Descending \/ Exact THEN Past(next, cursor) /\ next # cursor
                                           ELSE NotBehind(next, cursor)
<1>1. Init => TypeOK /\ NextIsSelected
  BY InitIInv DEF IInv, Init, NextIsSelected
<1>2. TypeOK /\ NextIsSelected /\ [Next]_vars => (TypeOK /\ NextIsSelected)'
  BY TypeStep, NextIsSelectedStep
<1>3. ASSUME TypeOK, NextIsSelected
      PROVE  [DataRows /\ cursor # NoCursor /\ next # NoCursor => Moved]_vars
  <2> SUFFICES ASSUME DataRows, cursor # NoCursor, next # NoCursor PROVE Moved
    OBVIOUS
  <2>1. PICK m \in Movies : next = CursorOf(m) /\ Past(Values(m), cursor)
    BY <1>3 DEF NextIsSelected, DataRows
  <2>2. PICK l \in Movies : cursor = CursorOf(l)
    BY <1>3 DEF TypeOK
  <2>3. cursor \in Vectors /\ order \in Orders
    BY <1>3, <2>2, ValuesType DEF TypeOK
  <2>4. CASE Descending \/ Exact
    <3>1. Past(next, cursor)
      BY <2>1, <2>3, <2>4, PastTheCursor
    <3> QED BY <2>3, <2>4, <3>1, NoneLessThanItself DEF Past
  <2>5. CASE ~(Descending \/ Exact)
    BY <2>1, <2>2, <2>3, <2>5, NotBehindTheCursor
  <2> QED BY <2>4, <2>5
<1> QED BY <1>1, <1>2, <1>3, PTL DEF Spec, CursorMoves
===========================================================================
