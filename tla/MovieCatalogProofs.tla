------------------------ MODULE MovieCatalogProofs ------------------------
(* The theorems about MovieCatalog: what transactions, row locks and unique *)
(* titles make of the catalogue, for any movies, requests and bodies.       *)
EXTENDS MovieCatalog, FiniteSetTheorems, TLAPS

USE DEF Inserted, Updated

(* A row may be put together field by field. *)
LEMMA RowOfFields ==
  ASSUME NEW p, p = [f \in RowFields |-> p[f]],
         p.title \in Titles, p.detail \in Titles, p.director \in Directors,
         p.genres \in SUBSET Genres, p.file \in Files
  PROVE  p \in Row
BY DEF Row, RowFields

LEMMA PatchTyped ==
  ASSUME NEW b \in Patches
  PROVE  /\ "title" \in DOMAIN b => b.title \in Titles
         /\ "detail" \in DOMAIN b => b.detail \in Titles
         /\ "director" \in DOMAIN b => b.director \in Directors
         /\ "genres" \in DOMAIN b => b.genres \in SUBSET Genres
         /\ "file" \in DOMAIN b => b.file \in Files
<1>1. PICK w \in Row, F \in SUBSET RowFields : b = [f \in F |-> w[f]]
  BY CatalogAssumption
<1>2. /\ w.title \in Titles /\ w.detail \in Titles /\ w.director \in Directors
      /\ w.genres \in SUBSET Genres /\ w.file \in Files
  BY DEF Row
<1>3. \A f \in DOMAIN b : b[f] = w[f]
  BY <1>1
<1> QED BY <1>2, <1>3

LEMMA PostTyped ==
  ASSUME NEW b \in Posts
  PROVE  /\ DOMAIN b = RowFields /\ b \in Row
         /\ b.title \in Titles /\ b.detail \in Titles /\ b.director \in Directors
         /\ b.genres \in SUBSET Genres /\ b.file \in Files
BY CatalogAssumption DEF Row, RowFields

LEMMA PatchedTyped ==
  ASSUME TypeOK, NEW r \in Requests, req[r].body \in Patches, req[r].id \in Ids
  PROVE  Patched(r) \in Row
<1> DEFINE p == Patched(r)
<1>1. /\ row[req[r].id].title \in Titles /\ row[req[r].id].detail \in Titles
      /\ row[req[r].id].director \in Directors
      /\ row[req[r].id].genres \in SUBSET Genres /\ row[req[r].id].file \in Files
  BY DEF TypeOK, Row
<1>2. p.title \in Titles
  BY <1>1, PatchTyped DEF Patched, RowFields, Given
<1>3. p.detail \in Titles
  BY <1>1, PatchTyped DEF Patched, RowFields, Given
<1>4. p.director \in Directors
  BY <1>1, PatchTyped DEF Patched, RowFields, Given
<1>5. p.genres \in SUBSET Genres
  BY <1>1, PatchTyped DEF Patched, RowFields, Given, Kept
<1>6. p.file \in Files
  BY <1>1, PatchTyped DEF Patched, RowFields, Given
<1>7. p = [f \in RowFields |-> p[f]]
  BY DEF Patched
<1> HIDE DEF p
<1>8. p \in Row
  BY <1>2, <1>3, <1>4, <1>5, <1>6, <1>7, RowOfFields
<1> QED BY <1>8 DEF p

---------------------------------------------------------------------------
(* Types *)

LEMMA EndedTyped ==
  ASSUME TypeOK, NEW r \in Requests, NEW how \in Answers
  PROVE  Ended(req[r], how) \in Request
<1>1. req[r] \in Request
  BY DEF TypeOK
<1> QED BY <1>1 DEF Ended, Request, PCs, Answers

LEMMA EndTyped ==
  ASSUME TypeOK, NEW r \in Requests, NEW how \in Answers, End(r, how)
  PROVE  req' \in [Requests -> Request]
BY EndedTyped DEF End, TypeOK

LEMMA CommittedTyped ==
  ASSUME TypeOK, NEW r \in Requests
  PROVE  Committed(req[r]) \in Request
<1>1. Ended(req[r], "none") \in Request
  BY EndedTyped DEF Answers
<1> QED BY <1>1 DEF Committed, Request, PCs

LEMMA GotoTyped ==
  ASSUME TypeOK, NEW r \in Requests, NEW pc \in PCs, Goto(r, pc)
  PROVE  req' \in [Requests -> Request]
BY DEF Goto, TypeOK, Request

LEMMA WriteMovieTyped ==
  ASSUME TypeOK, NEW r \in Requests, NEW pc \in PCs, WriteMovie(r, pc)
  PROVE  req' \in [Requests -> Request]
<1>1. CASE End(r, "conflict")
  BY <1>1, EndTyped DEF Answers
<1>2. CASE req' = [req EXCEPT ![r].pc = pc, ![r].hit = TRUE]
  <2> DEFINE q == [req[r] EXCEPT !.pc = pc, !.hit = TRUE]
  <2>1. req[r] \in Request
    BY DEF TypeOK
  <2>2. q \in Request
    BY <2>1 DEF Request
  <2>3. req' = [req EXCEPT ![r] = q]
    BY <1>2 DEF TypeOK
  <2> QED BY <2>2, <2>3 DEF TypeOK
<1> QED BY <1>1, <1>2 DEF WriteMovie

(* What the steps of one request do to the requests. *)
LEMMA ReqTyped ==
  ASSUME TypeOK, nextId \in Ids \/ Undrawn = {}, RequestsInPlace, NEW r \in Requests,
         StartCreate(r) \/ StartUpdate(r) \/ StartRemove(r) \/ Step(r) \/ Fail(r)
  PROVE  req' \in [Requests -> Request]
<1>1. CASE StartCreate(r) \/ StartUpdate(r) \/ StartRemove(r)
  <2>1. PICK op \in {"create", "update", "remove"}, pc \in {"findDirector", "findMovie"}, i \in 0..MaxId,
             b \in Posts \cup Patches \cup {NoBody} : Start(r, op, pc, i, b)
    BY <1>1, CatalogAssumption DEF StartCreate, StartUpdate, StartRemove, Ids
  <2> QED BY <2>1 DEF Start, TypeOK, Request, PCs, Answers
<1>2. CASE FindMovie(r)
  <2>1. row[req[r].id].genres \in SUBSET Genres \/ req[r].id \notin movies
    BY DEF TypeOK, Row
  <2>2. CASE req[r].id \in movies /\ req' = [req EXCEPT ![r].pc = "findDirector", ![r].old = row[req[r].id].genres]
    <3> DEFINE q == [req[r] EXCEPT !.pc = "findDirector", !.old = row[req[r].id].genres]
    <3>1. req[r] \in Request
      BY DEF TypeOK
    <3>2. q \in Request
      BY <2>1, <2>2, <3>1 DEF Request, PCs
    <3>3. req' = [req EXCEPT ![r] = q]
      BY <2>2 DEF TypeOK
    <3> QED BY <3>2, <3>3 DEF TypeOK
  <2> QED BY <1>2, <2>2, EndTyped, GotoTyped DEF FindMovie, PCs, Answers
<1>3. CASE \/ FindDirector(r) \/ FindGenres(r) \/ InsertLinks(r) \/ MoveFile(r) \/ DeleteTemp(r)
           \/ UpdateDetail(r) \/ Unlink(r) \/ Link(r) \/ ReadUpdated(r) \/ DeleteMovie(r) \/ DeleteDetail(r)
  <2>1. ASSUME Reply(r) PROVE req' \in [Requests -> Request]
    BY <2>1, EndTyped DEF Reply, Answers
  <2>2. AfterDetail(r) \in PCs
    BY DEF AfterDetail, PCs
  <2> QED BY <1>3, <2>1, <2>2, EndTyped, GotoTyped
          DEF FindDirector, FindGenres, InsertLinks, MoveFile, DeleteTemp, UpdateDetail, Unlink, Link, ReadUpdated,
              DeleteMovie, DeleteDetail, PCs, Answers
<1>4. CASE InsertDetail(r)
  <2>1. r \in Undrawn
    BY <1>4 DEF InsertDetail, Undrawn, RequestsInPlace, InPlace, InFlight, CreateInPlace, UpdateInPlace, RemoveInPlace
  <2>2. nextId \in 0..MaxId
    BY <2>1, CatalogAssumption DEF Ids
  <2> DEFINE q == [req[r] EXCEPT !.pc = "insertMovie", !.id = nextId]
  <2>3. req[r] \in Request
    BY DEF TypeOK
  <2>4. q \in Request
    BY <2>2, <2>3 DEF Request, PCs
  <2>5. req' = [req EXCEPT ![r] = q]
    BY <1>4 DEF InsertDetail, TypeOK
  <2> QED BY <2>4, <2>5 DEF TypeOK
<1>5. CASE InsertMovie(r) \/ UpdateMovie(r)
  BY <1>5, WriteMovieTyped, EndTyped, GotoTyped DEF InsertMovie, UpdateMovie, AfterUpdate, AfterDetail, PCs, Answers
<1>6. CASE ReadMovie(r)
  <2>1. PICK answer \in {"ok", "late"} : req' = [req EXCEPT ![r].pc = "commit", ![r].answer = answer]
    BY <1>6 DEF ReadMovie
  <2> DEFINE q == [req[r] EXCEPT !.pc = "commit", !.answer = answer]
  <2>2. req[r] \in Request
    BY DEF TypeOK
  <2>3. q \in Request
    BY <2>2 DEF Request, PCs, Answers
  <2>4. req' = [req EXCEPT ![r] = q]
    BY <2>1 DEF TypeOK
  <2> QED BY <2>3, <2>4 DEF TypeOK
<1>7. CASE CommitCreate(r) \/ Fail(r)
  <2>1. req[r].answer \in Answers
    BY DEF TypeOK, Request
  <2> QED BY <1>7, <2>1, EndTyped DEF CommitCreate, Fail, Answers
<1>8. CASE CommitUpdate(r)
  BY <1>8, CommittedTyped DEF CommitUpdate, TypeOK
<1> QED BY <1>1, <1>2, <1>3, <1>4, <1>5, <1>6, <1>7, <1>8 DEF Step

(* The sequence of ids lasts for the creations that have begun. *)
IdsSuffice == nextId + Cardinality(Undrawn) <= MaxId + 1

LEMMA UndrawnCount ==
  ASSUME TypeOK, IdsSuffice
  PROVE  /\ IsFiniteSet(Undrawn) /\ Cardinality(Undrawn) \in Nat
         /\ Undrawn # {} => nextId \in Ids
<1>1. IsFiniteSet(Undrawn) /\ Cardinality(Undrawn) \in Nat
  BY CatalogAssumption, FS_Subset, FS_CardinalityType DEF Undrawn
<1>2. Undrawn # {} => Cardinality(Undrawn) > 0
  BY <1>1, FS_EmptySet
<1> QED BY <1>1, <1>2, CatalogAssumption DEF IdsSuffice, TypeOK, Ids

Inv == /\ TypeOK /\ IdsSuffice /\ CatalogInductive
       /\ DetailsOwned /\ RowsWhole /\ FilesInPlace /\ TitlesUnique /\ RemovedStaysRemoved /\ AnswerIsKept

Begin(r) == StartCreate(r) \/ StartUpdate(r) \/ StartRemove(r)
Act(r)   == Begin(r) \/ Step(r) \/ Fail(r)

Removal(g) == RemoveGenre(g) \/ AwaitLinks(g) \/ SpareGenre(g) \/ RemoveDirector(g)

LEMMA Places ==
  ASSUME Inv, NEW r \in Requests, InFlight(r)
  PROVE  /\ req[r] \in Request /\ InPlace(req[r])
         /\ req[r].op = "create" /\ req[r].pc \notin {"findDirector", "findGenres", "insertDetail"}
              => req[r].id \in Ids
         /\ req[r].op = "update" /\ req[r].pc # "findMovie" => req[r].id \in Ids
         /\ req[r].pc \in {"deleteMovie", "deleteDetail"} => req[r].id \in Ids
<1>1. req[r] \in Request /\ InPlace(req[r])
  BY DEF Inv, TypeOK, CatalogInductive, RequestsInPlace
<1>2. \A i : Settled(i) => i \in Ids
  BY CatalogAssumption DEF Settled, Inv, TypeOK, Ids
<1>3. req[r].pc \in {"deleteMovie", "deleteDetail"} => req[r].op = "remove"
  BY <1>1 DEF InPlace, CreateInPlace, UpdateInPlace, RemoveInPlace
<1>4. req[r].op = "create" /\ req[r].pc \notin {"findDirector", "findGenres", "insertDetail"}
        => req[r].id # 0 /\ req[r].id \in 0..MaxId
  BY <1>1 DEF InPlace, CreateInPlace, UpdateInPlace, RemoveInPlace, Request
<1> QED BY <1>1, <1>2, <1>3, <1>4, CatalogAssumption DEF Inv, CatalogInductive, TargetsSettled, Ids

LEMMA TypeStep ==
  ASSUME Inv, [Next]_vars
  PROVE  TypeOK'
<1>1. TypeOK
  BY DEF Inv
<1>2. ASSUME NEW r \in Requests, Act(r) PROVE TypeOK'
  <2>1. req' \in [Requests -> Request]
    BY <1>1, <1>2, ReqTyped, UndrawnCount DEF Inv, CatalogInductive, Act, Begin
  <2>2. CASE UNCHANGED <<tables, disk, nextId, past>>
    BY <1>1, <2>1, <2>2 DEF TypeOK, tables, disk, past
  <2>3. CASE InsertDetail(r)
    <3>1. r \in Undrawn
      BY <1>2, <2>3, Places DEF InsertDetail, Undrawn, InFlight, InPlace, CreateInPlace, UpdateInPlace, RemoveInPlace
    <3>2. nextId \in Ids
      BY <1>1, <3>1, UndrawnCount DEF Inv
    <3> QED BY <1>1, <2>1, <2>3, <3>2, CatalogAssumption DEF InsertDetail, TypeOK, tables, disk, past, Ids
  <2>4. CASE MoveFile(r)
    <3>1. req[r].body \in Posts
      BY <2>4, Places DEF MoveFile, InFlight, InPlace, CreateInPlace, UpdateInPlace, RemoveInPlace
    <3>2. req[r].body.file \in Files
      BY <3>1, PostTyped
    <3> QED BY <1>1, <2>1, <2>4, <3>2 DEF MoveFile, TypeOK, tables, past
  <2>5. CASE CommitCreate(r)
    <3>1. req[r].body \in Posts /\ req[r].id \in Ids
      BY <2>5, Places DEF CommitCreate, InFlight, InPlace, CreateInPlace, UpdateInPlace, RemoveInPlace
    <3>2. req[r].body \in Row
      BY <3>1, PostTyped
    <3> QED BY <1>1, <2>1, <2>5, <3>1, <3>2 DEF CommitCreate, TypeOK, disk, past
  <2>6. CASE CommitUpdate(r)
    <3>1. req[r].body \in Patches /\ req[r].id \in Ids
      BY <2>6, Places DEF CommitUpdate, InFlight, InPlace, CreateInPlace, UpdateInPlace, RemoveInPlace
    <3>2. Patched(r) \in Row
      BY <1>1, <3>1, PatchedTyped
    <3>3. row' \in [Ids -> Row]
      BY <1>1, <2>6, <3>2 DEF CommitUpdate, TypeOK
    <3> QED BY <1>1, <2>1, <2>6, <3>3 DEF CommitUpdate, TypeOK, disk, past
  <2>7. CASE DeleteMovie(r)
    <3>1. NoRow \in Row
      BY CatalogAssumption DEF NoRow
    <3>2. row' \in [Ids -> Row] /\ movies' \subseteq movies /\ gone' \subseteq gone \cup movies
      BY <1>1, <2>7, <3>1 DEF DeleteMovie, TypeOK
    <3> QED BY <1>1, <2>1, <2>7, <3>2 DEF DeleteMovie, TypeOK, disk
  <2>8. CASE DeleteDetail(r)
    BY <1>1, <2>1, <2>8 DEF DeleteDetail, TypeOK, disk, past
  <2>9. CASE Fail(r)
    BY <1>1, <2>1, <2>9, Places DEF Fail, TypeOK, tables, disk
  <2>10. CASE DeleteTemp(r)
    BY <1>1, <2>1, <2>10 DEF DeleteTemp, TypeOK, tables, past
  <2> QED
    BY <1>2, <2>2, <2>3, <2>4, <2>5, <2>6, <2>7, <2>8, <2>9, <2>10
       DEF Act, Begin, Step, StartCreate, StartUpdate, StartRemove, Start, FindMovie, FindDirector, FindGenres,
           InsertMovie, WriteMovie, InsertLinks, ReadMovie, UpdateMovie, UpdateDetail, Unlink, Link, ReadUpdated
<1>3. ASSUME NEW g, Removal(g) PROVE TypeOK'
  BY <1>1, <1>3 DEF Removal, RemoveGenre, AwaitLinks, SpareGenre, RemoveDirector, TypeOK, disk, past
<1>4. CASE Crash
  <2>1. \A r \in Requests : req[r].answer \in Answers /\ req[r] \in Request
    BY <1>1 DEF TypeOK, Request
  <2>2. req' \in [Requests -> Request]
    BY <1>1, <1>4, <2>1, EndedTyped DEF Crash
  <2>3. \A r \in HalfRemoved \cup {req[r].id : r \in Committing} : r \in Ids
    BY Places DEF HalfRemoved, Committing, InFlight
  <2> QED BY <1>1, <1>4, <2>2, <2>3 DEF Crash, TypeOK, tables, disk
<1>5. CASE UNCHANGED vars
  BY <1>1, <1>5 DEF vars, TypeOK, tables, disk, past
<1> QED BY <1>2, <1>3, <1>4, <1>5 DEF Next, Act, Begin, Removal

---------------------------------------------------------------------------
(* What one step does to its request *)

LEMMA OthersStay ==
  ASSUME TypeOK, NEW r \in Requests, Act(r)
  PROVE  \A n \in Requests \ {r} : req'[n] = req[n]
BY DEF TypeOK, Act, Begin, Step, Fail, StartCreate, StartUpdate, StartRemove, Start, FindMovie, FindDirector, FindGenres,
       InsertDetail, InsertMovie, WriteMovie, InsertLinks, MoveFile, DeleteTemp, ReadMovie, CommitCreate, UpdateMovie,
       UpdateDetail, Unlink, Link, CommitUpdate, ReadUpdated, DeleteMovie, DeleteDetail, Goto, End, Reply

Over(r, how) == /\ req'[r].pc = "done" /\ req'[r].op = req[r].op /\ req'[r].id = req[r].id
                /\ req'[r].body = NoBody /\ req'[r].answer = how /\ ~req'[r].hit

LEMMA EndedOver ==
  ASSUME TypeOK, NEW r \in Requests, NEW how, req'[r] = Ended(req[r], how)
  PROVE  Over(r, how)
<1>1. req[r] \in Request
  BY DEF TypeOK
<1> QED BY <1>1 DEF Ended, Over, Request

LEMMA EndOver ==
  ASSUME TypeOK, NEW r \in Requests, NEW how, End(r, how)
  PROVE  Over(r, how)
BY EndedOver DEF TypeOK, End

LEMMA ReplyOver ==
  ASSUME TypeOK, NEW r \in Requests, Reply(r)
  PROVE  \E how \in {"ok", "late"} : Over(r, how)
BY EndOver DEF Reply

LEMMA CrashOver ==
  ASSUME TypeOK, Crash, NEW r \in Requests
  PROVE  IF InFlight(r) THEN Over(r, req[r].answer) ELSE req'[r] = req[r]
BY EndedOver DEF Crash

On(r, pc) == /\ req'[r].pc = pc /\ req'[r].op = req[r].op /\ req'[r].body = req[r].body

LEMMA GotoOn ==
  ASSUME TypeOK, NEW r \in Requests, NEW pc, Goto(r, pc)
  PROVE  On(r, pc) /\ req'[r].id = req[r].id /\ req'[r].answer = req[r].answer /\ req'[r].hit = req[r].hit
<1>1. req[r] \in Request /\ req'[r] = [req[r] EXCEPT !.pc = pc]
  BY DEF TypeOK, Goto
<1> QED BY <1>1 DEF On, Request

\* a patch that is committed has nothing left but to be answered
LEMMA CommittedOn ==
  ASSUME TypeOK, NEW r \in Requests, CommitUpdate(r)
  PROVE  /\ req'[r].pc = "readUpdated" /\ req'[r].op = req[r].op /\ req'[r].id = req[r].id
         /\ req'[r].body = NoBody /\ req'[r].answer = "none" /\ ~req'[r].hit
<1>1. req[r] \in Request /\ req'[r] = Committed(req[r])
  BY DEF TypeOK, CommitUpdate
<1> QED BY <1>1 DEF Committed, Ended, Request

LEMMA WriteOn ==
  ASSUME TypeOK, NEW r \in Requests, NEW pc, WriteMovie(r, pc)
  PROVE  \/ Over(r, "conflict")
         \/ /\ On(r, pc) /\ req'[r].id = req[r].id /\ req'[r].answer = req[r].answer /\ req'[r].hit
            /\ Given(r, "title") => ~TitleContended(req[r].id, req[r].body.title)
            /\ Given(r, "title") => ~TitleTaken(req[r].id, req[r].body.title)
            /\ Given(r, "director") => req[r].body.director \in directors
<1>1. CASE End(r, "conflict")
  BY <1>1, EndOver
<1>2. CASE /\ req' = [req EXCEPT ![r].pc = pc, ![r].hit = TRUE]
           /\ Given(r, "title") => ~TitleTaken(req[r].id, req[r].body.title)
           /\ Given(r, "director") => req[r].body.director \in directors
  <2>1. req[r] \in Request /\ req'[r] = [req[r] EXCEPT !.pc = pc, !.hit = TRUE]
    BY <1>2 DEF TypeOK
  <2>2. On(r, pc) /\ req'[r].id = req[r].id /\ req'[r].answer = req[r].answer /\ req'[r].hit
    BY <2>1 DEF On, Request
  <2> QED BY <1>2, <2>2 DEF WriteMovie
<1> QED BY <1>1, <1>2 DEF WriteMovie

LEMMA DrawOn ==
  ASSUME TypeOK, NEW r \in Requests, InsertDetail(r)
  PROVE  On(r, "insertMovie") /\ req'[r].id = nextId /\ req'[r].answer = req[r].answer
<1>1. req[r] \in Request /\ req'[r] = [req[r] EXCEPT !.pc = "insertMovie", !.id = nextId]
  BY DEF TypeOK, InsertDetail
<1> QED BY <1>1 DEF On, Request

LEMMA ReadOn ==
  ASSUME TypeOK, NEW r \in Requests, ReadMovie(r)
  PROVE  On(r, "commit") /\ req'[r].id = req[r].id /\ req'[r].answer \in {"ok", "late"}
<1>1. PICK answer \in {"ok", "late"} : req' = [req EXCEPT ![r].pc = "commit", ![r].answer = answer]
  BY DEF ReadMovie
<1>2. req[r] \in Request /\ req'[r] = [req[r] EXCEPT !.pc = "commit", !.answer = answer]
  BY <1>1 DEF TypeOK
<1> QED BY <1>2 DEF On, Request

LEMMA FoundOn ==
  ASSUME TypeOK, NEW r \in Requests, FindMovie(r)
  PROVE  \/ Over(r, "notFound")
         \/ /\ req[r].id \in movies
            /\ req'[r].id = req[r].id /\ req'[r].answer = req[r].answer /\ req'[r].hit = req[r].hit
            /\ \/ req[r].op = "remove" /\ On(r, "deleteMovie")
               \/ req[r].op = "update" /\ On(r, "findDirector")
<1>1. CASE /\ req[r].op = "update" /\ req[r].id \in movies
           /\ req' = [req EXCEPT ![r].pc = "findDirector", ![r].old = row[req[r].id].genres]
  <2>1. req[r] \in Request /\ req'[r] = [req[r] EXCEPT !.pc = "findDirector", !.old = row[req[r].id].genres]
    BY <1>1 DEF TypeOK
  <2>2. /\ On(r, "findDirector") /\ req'[r].id = req[r].id
        /\ req'[r].answer = req[r].answer /\ req'[r].hit = req[r].hit
    BY <2>1 DEF On, Request
  <2> QED BY <1>1, <2>2
<1> QED BY <1>1, EndOver, GotoOn DEF FindMovie

Began(r, op, pc, i, b) ==
  /\ ~InFlight(r) /\ req'[r].pc = pc /\ req'[r].op = op /\ req'[r].id = i /\ req'[r].body = b
  /\ ~req'[r].hit /\ req'[r].answer = "none"

LEMMA BeginOn ==
  ASSUME TypeOK, NEW r \in Requests, Begin(r)
  PROVE  \/ \E b \in Posts : Began(r, "create", "findDirector", 0, b)
         \/ \E i \in Ids, b \in Patches : Began(r, "update", "findMovie", i, b)
         \/ \E i \in Ids : Began(r, "remove", "findMovie", i, NoBody)
BY DEF TypeOK, Begin, StartCreate, StartUpdate, StartRemove, Start, Began

(* A statement keeps what its request is about, until it ends. *)
LEMMA StepFields ==
  ASSUME TypeOK, NEW r \in Requests, Step(r) \/ Fail(r)
  PROVE  /\ InFlight(r) /\ req'[r].op = req[r].op
         /\ req'[r].id = req[r].id \/ InsertDetail(r)
         /\ req'[r].pc \in {"idle", "readUpdated", "done"} \/ req'[r].body = req[r].body
<1> USE DEF Over, On
<1>1. CASE FindMovie(r) \/ InsertDetail(r) \/ ReadMovie(r)
  BY <1>1, FoundOn, DrawOn, ReadOn DEF FindMovie, InsertDetail, ReadMovie, InFlight
<1>2. CASE \/ FindDirector(r) \/ FindGenres(r) \/ InsertLinks(r) \/ MoveFile(r) \/ DeleteTemp(r)
           \/ UpdateDetail(r) \/ Unlink(r) \/ Link(r)
  BY <1>2, EndOver, GotoOn
     DEF FindDirector, FindGenres, InsertLinks, MoveFile, DeleteTemp, UpdateDetail, Unlink, Link, InFlight
<1>3. CASE InsertMovie(r) \/ UpdateMovie(r)
  BY <1>3, EndOver, GotoOn, WriteOn DEF InsertMovie, UpdateMovie, InFlight
<1>4. CASE CommitCreate(r) \/ CommitUpdate(r) \/ ReadUpdated(r) \/ DeleteMovie(r) \/ DeleteDetail(r) \/ Fail(r)
  BY <1>4, EndOver, ReplyOver, CommittedOn, GotoOn
     DEF CommitCreate, CommitUpdate, ReadUpdated, DeleteMovie, DeleteDetail, Fail, InFlight
<1> QED BY <1>1, <1>2, <1>3, <1>4 DEF Step

(* Which statement leads to a place. *)
LEMMA Entered ==
  ASSUME Inv, NEW r \in Requests, Step(r) \/ Fail(r)
  PROVE  LET pc == req'[r].pc
         IN  /\ pc = "insertMovie" => InsertDetail(r)
             /\ pc = "insertLinks" => InsertMovie(r)
             /\ pc = "moveFile" => InsertLinks(r) /\ req[r].body.genres \subseteq genres
             /\ pc = "deleteTemp" => MoveFile(r) /\ req[r].body.file \in temp
             /\ pc = "readMovie" => DeleteTemp(r) \/ (MoveFile(r) /\ req[r].body.file \in temp)
             /\ pc = "updateDetail" => UpdateMovie(r)
             /\ pc = "unlink" => UpdateMovie(r) \/ UpdateDetail(r)
             /\ pc = "link" => Unlink(r)
             /\ pc = "commit" => \/ ReadMovie(r) \/ (Link(r) /\ req[r].body.genres \subseteq genres)
                                 \/ (UpdateMovie(r) \/ UpdateDetail(r)) /\ ~Given(r, "genres")
             /\ pc = "readUpdated" => CommitUpdate(r)
             /\ pc = "deleteMovie" => FindMovie(r) /\ req[r].id \in movies
             /\ pc = "deleteDetail" => DeleteMovie(r)
             /\ pc = "findDirector" => FindMovie(r) /\ req[r].op = "update" /\ req[r].id \in movies
             /\ pc \notin {"idle", "findMovie"}
             /\ pc \in {"findGenres", "insertDetail", "updateMovie"} => FindDirector(r) \/ FindGenres(r)
<1> USE DEF Over, On
<1>1. TypeOK
  BY DEF Inv
<1>2. CASE FindMovie(r)
  BY <1>1, <1>2, FoundOn
<1>3. CASE InsertDetail(r) \/ ReadMovie(r)
  BY <1>1, <1>3, DrawOn, ReadOn
<1>4. CASE \/ FindDirector(r) \/ FindGenres(r) \/ InsertLinks(r) \/ MoveFile(r) \/ DeleteTemp(r)
           \/ UpdateDetail(r) \/ Unlink(r) \/ Link(r)
  BY <1>1, <1>4, EndOver, GotoOn
     DEF FindDirector, FindGenres, InsertLinks, MoveFile, DeleteTemp, UpdateDetail, AfterDetail, Unlink, Link
<1>5. CASE InsertMovie(r) \/ UpdateMovie(r)
  BY <1>1, <1>5, EndOver, GotoOn, WriteOn DEF InsertMovie, UpdateMovie, AfterUpdate, AfterDetail
<1>6. CASE CommitCreate(r) \/ CommitUpdate(r) \/ ReadUpdated(r) \/ DeleteMovie(r) \/ DeleteDetail(r) \/ Fail(r)
  BY <1>1, <1>6, EndOver, ReplyOver, CommittedOn, GotoOn
     DEF CommitCreate, ReadUpdated, DeleteMovie, DeleteDetail, Fail
<1> QED BY <1>2, <1>3, <1>4, <1>5, <1>6 DEF Step

(* Which statement changes which table. *)
LEMMA TablesChange ==
  ASSUME NEW r \in Requests, Act(r)
  PROVE  /\ genres' = genres /\ directors' = directors /\ prod' = prod
         /\ movies' = movies \/ CommitCreate(r) \/ DeleteMovie(r)
         /\ details' = details \/ CommitCreate(r) \/ DeleteDetail(r)
         /\ row' = row \/ CommitCreate(r) \/ CommitUpdate(r) \/ DeleteMovie(r)
         /\ UNCHANGED disk \/ MoveFile(r) \/ DeleteTemp(r)
         /\ nextId' = nextId \/ InsertDetail(r)
         /\ cut' = cut \/ Fail(r)
         /\ gone' = gone \/ DeleteMovie(r)
BY DEF Act, Begin, Step, Fail, StartCreate, StartUpdate, StartRemove, Start, FindMovie, FindDirector, FindGenres,
       InsertDetail, InsertMovie, WriteMovie, InsertLinks, MoveFile, DeleteTemp, ReadMovie, CommitCreate, UpdateMovie,
       UpdateDetail, Unlink, Link, CommitUpdate, ReadUpdated, DeleteMovie, DeleteDetail, tables, disk, past

---------------------------------------------------------------------------
(* Requests in their places *)

LEMMA PlaceStep ==
  ASSUME Inv, [Next]_vars
  PROVE  RequestsInPlace'
<1> USE DEF InPlace, CreateInPlace, UpdateInPlace, RemoveInPlace, Over, On
<1>1. TypeOK /\ \A n \in Requests : InFlight(n) => InPlace(req[n])
  BY DEF Inv, CatalogInductive, RequestsInPlace
<1>2. ASSUME NEW r \in Requests, Act(r) PROVE RequestsInPlace'
  <2>1. \A n \in Requests \ {r} : req'[n] = req[n]
    BY <1>1, <1>2, OthersStay
  <2> SUFFICES ASSUME InFlight(r)' PROVE InPlace(req'[r])
    BY <1>1, <2>1 DEF RequestsInPlace, InFlight
  <2>2. ~Over(r, "ok") /\ \A how : ~Over(r, how)
    BY DEF InFlight
  <2>3. CASE Begin(r)
    BY <1>1, <2>3, BeginOn DEF Began
  <2>4. CASE FindMovie(r)
    <3>1. InPlace(req[r])
      BY <1>1, <2>4 DEF FindMovie, InFlight
    <3> QED BY <1>1, <2>2, <2>4, <3>1, FoundOn DEF FindMovie
  <2>5. CASE FindDirector(r)
    <3>1. InPlace(req[r]) /\ req[r].pc = "findDirector"
      BY <1>1, <2>5 DEF FindDirector, InFlight
    <3>2. On(r, "findGenres") /\ req'[r].id = req[r].id /\ req'[r].answer = req[r].answer /\ req'[r].hit = req[r].hit
      BY <1>1, <2>2, <2>5, EndOver, GotoOn DEF FindDirector
    <3> QED BY <3>1, <3>2
  <2>6. CASE FindGenres(r)
    <3>1. InPlace(req[r]) /\ req[r].pc = "findGenres"
      BY <1>1, <2>6 DEF FindGenres, InFlight
    <3>2. /\ On(r, IF req[r].op = "create" THEN "insertDetail" ELSE "updateMovie")
          /\ req'[r].id = req[r].id /\ req'[r].answer = req[r].answer /\ req'[r].hit = req[r].hit
      BY <1>1, <2>2, <2>6, EndOver, GotoOn DEF FindGenres
    <3> QED BY <3>1, <3>2
  <2>7. CASE InsertDetail(r)
    <3>1. InPlace(req[r]) /\ req[r].pc = "insertDetail" /\ nextId # 0
      BY <1>1, <2>7, CatalogAssumption DEF InsertDetail, InFlight, TypeOK
    <3> QED BY <1>1, <2>7, <3>1, DrawOn
  <2>8. CASE InsertMovie(r)
    <3>1. InPlace(req[r]) /\ req[r].pc = "insertMovie"
      BY <1>1, <2>8 DEF InsertMovie, InFlight
    <3> QED BY <1>1, <2>2, <2>8, <3>1, WriteOn DEF InsertMovie
  <2>9. CASE InsertLinks(r)
    <3>1. InPlace(req[r]) /\ req[r].pc = "insertLinks"
      BY <1>1, <2>9 DEF InsertLinks, InFlight
    <3> QED BY <1>1, <2>2, <2>9, <3>1, EndOver, GotoOn DEF InsertLinks
  <2>10. CASE MoveFile(r) \/ DeleteTemp(r)
    <3>1. InPlace(req[r]) /\ req[r].pc \in {"moveFile", "deleteTemp"}
      BY <1>1, <2>10 DEF MoveFile, DeleteTemp, InFlight
    <3> QED BY <1>1, <2>2, <2>10, <3>1, EndOver, GotoOn DEF MoveFile, DeleteTemp
  <2>11. CASE ReadMovie(r)
    <3>1. InPlace(req[r]) /\ req[r].pc = "readMovie"
      BY <1>1, <2>11 DEF ReadMovie, InFlight
    <3> QED BY <1>1, <2>11, <3>1, ReadOn
  <2>12. CASE UpdateMovie(r)
    <3>1. InPlace(req[r]) /\ req[r].pc = "updateMovie"
      BY <1>1, <2>12 DEF UpdateMovie, InFlight
    <3>2. On(r, AfterUpdate(r)) /\ req'[r].id = req[r].id /\ req'[r].answer = req[r].answer /\ ~Given(r, "file")
      BY <1>1, <2>2, <2>12, EndOver, GotoOn, WriteOn DEF UpdateMovie
    <3> QED BY <3>1, <3>2 DEF AfterUpdate, AfterDetail, Given
  <2>13. CASE UpdateDetail(r) \/ Unlink(r) \/ Link(r)
    <3>1. InPlace(req[r]) /\ req[r].pc \in {"updateDetail", "unlink", "link"}
      BY <1>1, <2>13 DEF UpdateDetail, Unlink, Link, InFlight
    <3>2. /\ req'[r].op = req[r].op /\ req'[r].body = req[r].body /\ req'[r].answer = req[r].answer
          /\ req'[r].pc \in {AfterDetail(r), "link", "commit"} /\ (req'[r].pc = "link" => req[r].pc = "unlink")
      BY <1>1, <2>2, <2>13, EndOver, GotoOn DEF UpdateDetail, Unlink, Link, AfterDetail
    <3> QED BY <3>1, <3>2 DEF AfterDetail, Given
  <2>14. CASE DeleteMovie(r)
    <3>1. InPlace(req[r]) /\ req[r].pc = "deleteMovie"
      BY <1>1, <2>14 DEF DeleteMovie, InFlight
    <3> QED BY <1>1, <2>2, <2>14, <3>1, EndOver, GotoOn DEF DeleteMovie
  <2>15. CASE CommitCreate(r) \/ ReadUpdated(r) \/ DeleteDetail(r) \/ Fail(r)
    BY <1>1, <2>2, <2>15, EndOver, ReplyOver DEF CommitCreate, ReadUpdated, DeleteDetail, Fail
  <2>16. CASE CommitUpdate(r)
    BY <1>1, <2>16, CommittedOn DEF CommitUpdate
  <2> QED
    BY <1>2, <2>3, <2>4, <2>5, <2>6, <2>7, <2>8, <2>9, <2>10, <2>11, <2>12, <2>13, <2>14, <2>15, <2>16 DEF Act, Step
<1>3. ASSUME NEW g, Removal(g) PROVE RequestsInPlace'
  BY <1>1, <1>3 DEF Removal, RemoveGenre, AwaitLinks, SpareGenre, RemoveDirector, RequestsInPlace, InFlight
<1>4. CASE Crash
  <2>1. \A n \in Requests : ~InFlight(n)'
    BY <1>1, <1>4, CrashOver DEF InFlight
  <2> QED BY <2>1 DEF RequestsInPlace
<1>5. CASE UNCHANGED vars
  BY <1>1, <1>5 DEF vars, RequestsInPlace, InFlight
<1> QED BY <1>2, <1>3, <1>4, <1>5 DEF Next, Act, Begin, Removal

---------------------------------------------------------------------------
(* Ids *)

LEMMA SufficeFrame ==
  ASSUME TypeOK, IdsSuffice, nextId' = nextId, Undrawn' \subseteq Undrawn
  PROVE  IdsSuffice'
<1>1. IsFiniteSet(Undrawn) /\ Cardinality(Undrawn) \in Nat
  BY UndrawnCount
<1>2. Cardinality(Undrawn') \in Nat /\ Cardinality(Undrawn') <= Cardinality(Undrawn)
  BY <1>1, FS_Subset, FS_CardinalityType
<1> QED BY <1>1, <1>2, CatalogAssumption DEF IdsSuffice, TypeOK

LEMMA SufficeStep ==
  ASSUME Inv, [Next]_vars
  PROVE  IdsSuffice'
<1>1. TypeOK /\ IdsSuffice
  BY DEF Inv
<1>2. IsFiniteSet(Undrawn) /\ Cardinality(Undrawn) \in Nat
  BY <1>1, UndrawnCount
<1>3. ASSUME NEW r \in Requests, Act(r) PROVE IdsSuffice'
  <2>1. \A n \in Requests \ {r} : req'[n] = req[n]
    BY <1>1, <1>3, OthersStay
  <2>2. CASE StartCreate(r)
    <3>1. Undrawn' \subseteq Undrawn \cup {r}
      BY <2>1 DEF Undrawn, InFlight
    <3>2. IsFiniteSet(Undrawn \cup {r}) /\ Cardinality(Undrawn \cup {r}) <= Cardinality(Undrawn) + 1
      BY <1>2, FS_AddElement
    <3>3. /\ Cardinality(Undrawn') \in Nat /\ Cardinality(Undrawn \cup {r}) \in Nat
          /\ Cardinality(Undrawn') <= Cardinality(Undrawn \cup {r})
      BY <3>1, <3>2, FS_Subset, FS_CardinalityType
    <3>4. nextId' = nextId /\ nextId + Cardinality(Undrawn) <= MaxId
      BY <2>2 DEF StartCreate, Start
    <3> QED BY <1>1, <1>2, <3>2, <3>3, <3>4, CatalogAssumption DEF IdsSuffice, TypeOK
  <2>3. CASE StartUpdate(r) \/ StartRemove(r)
    <3>1. req'[r].op # "create" /\ nextId' = nextId
      BY <1>1, <2>3 DEF StartUpdate, StartRemove, Start, TypeOK
    <3>2. Undrawn' \subseteq Undrawn
      BY <2>1, <3>1 DEF Undrawn, InFlight
    <3> QED BY <1>1, <3>1, <3>2, SufficeFrame
  <2>4. CASE InsertDetail(r)
    <3>1. r \in Undrawn
      BY <2>4, Places DEF InsertDetail, Undrawn, InFlight, InPlace, CreateInPlace, UpdateInPlace, RemoveInPlace
    <3>2. req'[r].id # 0
      BY <1>1, <2>4, DrawOn, CatalogAssumption DEF TypeOK
    <3>3. Undrawn' \subseteq Undrawn \ {r}
      BY <2>1, <3>2 DEF Undrawn, InFlight
    <3>4. IsFiniteSet(Undrawn \ {r}) /\ Cardinality(Undrawn \ {r}) = Cardinality(Undrawn) - 1
      BY <1>2, <3>1, FS_RemoveElement
    <3>5. /\ Cardinality(Undrawn') \in Nat /\ Cardinality(Undrawn \ {r}) \in Nat
          /\ Cardinality(Undrawn') <= Cardinality(Undrawn \ {r})
      BY <3>3, <3>4, FS_Subset, FS_CardinalityType
    <3>6. nextId' = nextId + 1
      BY <2>4 DEF InsertDetail
    <3> QED BY <1>1, <1>2, <3>4, <3>5, <3>6, CatalogAssumption DEF IdsSuffice, TypeOK
  <2>5. CASE (Step(r) \/ Fail(r)) /\ ~InsertDetail(r)
    <3>1. InFlight(r) /\ req'[r].op = req[r].op /\ req'[r].id = req[r].id
      BY <1>1, <2>5, StepFields
    <3>2. Undrawn' \subseteq Undrawn
      BY <2>1, <3>1 DEF Undrawn, InFlight
    <3>3. nextId' = nextId
      BY <2>5 DEF Step, Fail, FindMovie, FindDirector, FindGenres, InsertMovie, WriteMovie, InsertLinks, MoveFile, DeleteTemp,
                  ReadMovie, CommitCreate, UpdateMovie, UpdateDetail, Unlink, Link, CommitUpdate, ReadUpdated, DeleteMovie,
                  DeleteDetail
    <3> QED BY <1>1, <3>2, <3>3, SufficeFrame
  <2> QED BY <1>3, <2>2, <2>3, <2>4, <2>5 DEF Act, Begin
<1>4. ASSUME NEW g, Removal(g) PROVE IdsSuffice'
  BY <1>1, <1>4, SufficeFrame DEF Removal, RemoveGenre, AwaitLinks, SpareGenre, RemoveDirector, Undrawn, InFlight
<1>5. CASE Crash
  <2>1. \A n \in Requests : ~InFlight(n)'
    BY <1>1, <1>5, CrashOver DEF InFlight, Over
  <2>2. Undrawn' = {}
    BY <2>1 DEF Undrawn
  <2> QED BY <1>1, <1>5, <2>2, SufficeFrame DEF Crash
<1>6. CASE UNCHANGED vars
  BY <1>1, <1>6, SufficeFrame DEF vars, Undrawn, InFlight
<1> QED BY <1>3, <1>4, <1>5, <1>6 DEF Next, Act, Begin, Removal

LEMMA IdsFrame ==
  ASSUME Inv, nextId' = nextId, movies' \subseteq movies, details' \subseteq details,
         \A n \in Requests : /\ req'[n].id \in Nat
                             /\ req'[n].op = "create" =>
                                  req'[n].id = 0 \/ /\ req[n].op = "create" /\ req'[n].id = req[n].id
                                                    /\ InFlight(n)' => InFlight(n)
  PROVE  IdsDrawn'
<1>1. IdsDrawn /\ TypeOK
  BY DEF Inv, CatalogInductive
<1>2. movies' \cup details' \subseteq 1..(nextId' - 1) /\ nextId' \in Nat /\ nextId' > 0
  BY <1>1, CatalogAssumption DEF IdsDrawn, TypeOK
<1>3. ASSUME NEW n \in Requests, req'[n].op = "create"
      PROVE  req'[n].id < nextId' /\ (InFlight(n)' => req'[n].id \notin movies' \cup details')
  <2>1. CASE req'[n].id = 0
    BY <1>2, <2>1
  <2>2. CASE req[n].op = "create" /\ req'[n].id = req[n].id /\ (InFlight(n)' => InFlight(n))
    <3>1. req[n].id < nextId /\ (InFlight(n) => req[n].id \notin movies \cup details)
      BY <1>1, <2>2 DEF IdsDrawn
    <3> QED BY <2>2, <3>1
  <2> QED BY <1>3, <2>1, <2>2
<1>4. ASSUME NEW n \in Requests, NEW q \in Requests \ {n},
             req'[n].op = "create", req'[q].op = "create", req'[n].id # 0
      PROVE  req'[q].id # req'[n].id
  BY <1>1, <1>4 DEF IdsDrawn
<1> QED BY <1>2, <1>3, <1>4 DEF IdsDrawn

LEMMA IdsStep ==
  ASSUME Inv, [Next]_vars
  PROVE  IdsDrawn'
<1>1. TypeOK /\ IdsDrawn /\ TypeOK'
  BY TypeStep DEF Inv, CatalogInductive
<1>2. \A n \in Requests : req'[n].id \in Nat
  BY <1>1 DEF TypeOK, Request
<1>3. ASSUME NEW r \in Requests, Act(r) PROVE IdsDrawn'
  <2>1. \A n \in Requests \ {r} : req'[n] = req[n]
    BY <1>1, <1>3, OthersStay
  <2>2. CASE Begin(r)
    <3>1. req'[r].op = "create" => req'[r].id = 0
      BY <1>1, <2>2, BeginOn DEF Began
    <3>2. nextId' = nextId /\ movies' = movies /\ details' = details
      BY <2>2 DEF Begin, StartCreate, StartUpdate, StartRemove, Start, tables
    <3> QED BY <1>2, <2>1, <3>1, <3>2, IdsFrame DEF InFlight
  <2>3. CASE InsertDetail(r)
    <3>a. nextId' = nextId + 1 /\ movies' = movies /\ details' = details
      BY <2>3 DEF InsertDetail, tables
    <3>b. req'[r].id = nextId /\ req'[r].op = req[r].op /\ nextId \in Nat
      BY <1>1, <2>3, DrawOn, CatalogAssumption DEF On, TypeOK
    <3>1. /\ nextId' = nextId + 1 /\ movies' = movies /\ details' = details /\ nextId \in Nat
          /\ req'[r].id = nextId /\ req'[r].op = req[r].op
      BY <3>a, <3>b
    <3>2. \A n \in Requests \ {r} : InFlight(n)' = InFlight(n)
      BY <2>1 DEF InFlight
    <3>3. \A n \in Requests : req'[n].op = "create" => req'[n].id < nextId' /\ (n # r => req'[n].id # nextId)
      BY <1>1, <1>2, <2>1, <3>1 DEF IdsDrawn
    <3>4. movies' \cup details' \subseteq 1..(nextId' - 1)
      BY <1>1, <3>1 DEF IdsDrawn
    <3>5. ASSUME NEW n \in Requests, req'[n].op = "create", InFlight(n)'
          PROVE  req'[n].id \notin movies' \cup details'
      BY <1>1, <2>1, <3>1, <3>2, <3>5 DEF IdsDrawn
    <3>6. ASSUME NEW n \in Requests, NEW q \in Requests \ {n},
                 req'[n].op = "create", req'[q].op = "create", req'[n].id # 0
          PROVE  req'[q].id # req'[n].id
      BY <1>1, <2>1, <3>1, <3>3, <3>6 DEF IdsDrawn
    <3> QED BY <3>3, <3>4, <3>5, <3>6 DEF IdsDrawn
  <2>4. CASE CommitCreate(r)
    <3>1. /\ nextId' = nextId /\ movies' = movies \cup {req[r].id} /\ details' = details \cup {req[r].id}
          /\ req[r].op = "create" /\ req'[r].op = "create" /\ req'[r].id = req[r].id /\ ~InFlight(r)'
      BY <1>1, <2>4, EndOver DEF CommitCreate, Over, InFlight
    <3>2. req[r].id \in Ids
      BY <2>4, Places DEF CommitCreate, InFlight
    <3>3. \A n \in Requests \ {r} : InFlight(n)' = InFlight(n)
      BY <2>1 DEF InFlight
    <3>4. req[r].id \in 1..(nextId - 1)
      BY <1>1, <3>1, <3>2, CatalogAssumption DEF IdsDrawn, Ids, TypeOK
    <3>5. movies' \cup details' \subseteq 1..(nextId' - 1)
      BY <1>1, <3>1, <3>4 DEF IdsDrawn
    <3>6. ASSUME NEW n \in Requests, req'[n].op = "create"
          PROVE  req'[n].id < nextId' /\ (InFlight(n)' => req'[n].id \notin movies' \cup details')
      BY <1>1, <2>1, <3>1, <3>3, <3>4, <3>6 DEF IdsDrawn
    <3>7. ASSUME NEW n \in Requests, NEW q \in Requests \ {n},
                 req'[n].op = "create", req'[q].op = "create", req'[n].id # 0
          PROVE  req'[q].id # req'[n].id
      BY <1>1, <2>1, <3>1, <3>7 DEF IdsDrawn
    <3> QED BY <3>5, <3>6, <3>7 DEF IdsDrawn
  <2>5. CASE (Step(r) \/ Fail(r)) /\ ~InsertDetail(r) /\ ~CommitCreate(r)
    <3>1. InFlight(r) /\ req'[r].op = req[r].op /\ req'[r].id = req[r].id
      BY <1>1, <2>5, StepFields
    <3>2. nextId' = nextId /\ movies' \subseteq movies /\ details' \subseteq details
      BY <2>5 DEF Step, Fail, FindMovie, FindDirector, FindGenres, InsertMovie, WriteMovie, InsertLinks, MoveFile, DeleteTemp,
                  ReadMovie, UpdateMovie, UpdateDetail, Unlink, Link, CommitUpdate, ReadUpdated, DeleteMovie, DeleteDetail,
                  tables
    <3> QED BY <1>2, <2>1, <3>1, <3>2, IdsFrame DEF InFlight
  <2> QED BY <1>3, <2>2, <2>3, <2>4, <2>5 DEF Act, Step
<1>4. ASSUME NEW g, Removal(g) PROVE IdsDrawn'
  BY <1>2, <1>4, IdsFrame DEF Removal, RemoveGenre, AwaitLinks, SpareGenre, RemoveDirector, InFlight
<1>5. CASE Crash
  <2>1. \A n \in Requests : req'[n].op = req[n].op /\ req'[n].id = req[n].id /\ ~InFlight(n)'
    BY <1>1, <1>5, CrashOver DEF InFlight, Over
  <2> QED BY <1>2, <1>5, <2>1, IdsFrame DEF Crash, tables
<1>6. CASE UNCHANGED vars
  BY <1>2, <1>6, IdsFrame DEF vars, InFlight, tables
<1> QED BY <1>3, <1>4, <1>5, <1>6 DEF Next, Act, Begin, Removal

---------------------------------------------------------------------------
(* What was committed *)

LEMMA MoviesSettled ==
  ASSUME Inv, NEW i \in movies \cup details
  PROVE  Settled(i)
BY DEF Inv, CatalogInductive, IdsDrawn, Settled

(* Only a creation makes a row, and only one with an id nobody has found. *)
LEMMA SettledStays ==
  ASSUME Inv, [Next]_vars, NEW i, Settled(i)
  PROVE  /\ Settled(i)'
         /\ i \notin movies => i \notin movies'
         /\ i \notin details => i \notin details'
<1>1. TypeOK /\ i \in 1..(nextId - 1) /\ nextId \in Nat
  BY CatalogAssumption DEF Inv, TypeOK, Settled
<1>2. ASSUME NEW r \in Requests, Act(r)
      PROVE  /\ Settled(i)'
             /\ i \notin movies => i \notin movies'
             /\ i \notin details => i \notin details'
  <2>1. \A n \in Requests \ {r} : req'[n] = req[n]
    BY <1>1, <1>2, OthersStay
  <2>2. nextId' = nextId \/ nextId' = nextId + 1
    BY <1>2, TablesChange DEF InsertDetail
  <2>3. ASSUME InFlight(r)', req'[r].op = "create" PROVE req'[r].id # i
    <3>1. CASE Begin(r)
      BY <1>1, <2>3, <3>1, BeginOn DEF Began
    <3>2. CASE InsertDetail(r)
      BY <1>1, <3>2, DrawOn
    <3>3. CASE (Step(r) \/ Fail(r)) /\ ~InsertDetail(r)
      BY <1>1, <2>3, <3>3, StepFields DEF Settled
    <3> QED BY <1>2, <3>1, <3>2, <3>3 DEF Act
  <2>4. Settled(i)'
    BY <1>1, <2>1, <2>2, <2>3 DEF Settled, InFlight
  <2>5. CASE CommitCreate(r)
    <3>1. req[r].id # i
      BY <2>5 DEF CommitCreate, Settled, InFlight
    <3> QED BY <2>4, <2>5, <3>1 DEF CommitCreate
  <2>6. CASE ~CommitCreate(r)
    <3>1. movies' \subseteq movies /\ details' \subseteq details
      BY <1>2, <2>6, TablesChange DEF DeleteMovie, DeleteDetail
    <3> QED BY <2>4, <3>1
  <2> QED BY <2>5, <2>6
<1>3. ASSUME NEW g, Removal(g)
      PROVE  UNCHANGED <<req, nextId, movies, details>>
  BY <1>3 DEF Removal, RemoveGenre, AwaitLinks, SpareGenre, RemoveDirector
<1>4. ASSUME UNCHANGED <<req, nextId, movies, details>>
      PROVE  /\ Settled(i)'
             /\ i \notin movies => i \notin movies'
             /\ i \notin details => i \notin details'
  BY <1>4 DEF Settled, InFlight
<1>5. CASE Crash
  <2>1. \A n \in Requests : ~InFlight(n)'
    BY <1>1, <1>5, CrashOver DEF InFlight, Over
  <2> QED BY <1>5, <2>1 DEF Crash, Settled, tables
<1>6. CASE UNCHANGED vars
  BY <1>4, <1>6 DEF vars, tables
<1> QED BY <1>2, <1>3, <1>4, <1>5, <1>6 DEF Next, Act, Begin, Removal

(* TargetsSettled, one request at a time. *)
Target(n) ==
  /\ req[n].op = "update" /\ InFlight(n) /\ req[n].pc # "findMovie" => Settled(req[n].id)
  /\ req[n].op = "update" /\ req[n].pc \in Updated => (req[n].hit <=> req[n].id \in movies)
  /\ req[n].op = "remove" /\ (req[n].pc \in {"deleteMovie", "deleteDetail"} \/ req[n].answer \in {"ok", "late"})
       => Settled(req[n].id)
  /\ req[n].pc = "deleteDetail" => req[n].id \notin movies
  /\ req[n].op = "remove" /\ req[n].pc = "done" /\ req[n].answer \in {"ok", "late"}
       => req[n].id \notin movies \cup details

LEMMA TargetIs == Inv => \A n \in Requests : Target(n)
BY DEF Inv, CatalogInductive, TargetsSettled, RemovedStaysRemoved, Target

LEMMA OtherTarget ==
  ASSUME Inv, [Next]_vars, NEW n \in Requests, req'[n] = req[n],
         req[n].op = "update" /\ req[n].pc \in Updated /\ req[n].hit
           => (req[n].id \in movies => req[n].id \in movies')
  PROVE  Target(n)'
<1>1. Target(n) /\ TypeOK
  BY TargetIs DEF Inv
<1>2. InFlight(n)' = InFlight(n)
  BY DEF InFlight
<1>3. \A i : Settled(i) => /\ Settled(i)'
                           /\ i \notin movies => i \notin movies'
                           /\ i \notin details => i \notin details'
  BY SettledStays
<1>4. req[n].pc = "deleteDetail" => InFlight(n) /\ req[n].op = "remove"
  BY Places DEF InFlight, InPlace, CreateInPlace, UpdateInPlace, RemoveInPlace
<1>5. req[n].op = "update" /\ req[n].pc \in Updated
        => Settled(req[n].id) /\ (req[n].hit <=> req[n].id \in movies)
  BY <1>1 DEF Target, InFlight
<1>6. req[n].op = "update" /\ req[n].pc \in Updated => (req[n].hit <=> req[n].id \in movies')
  BY <1>3, <1>5
<1> QED BY <1>1, <1>2, <1>3, <1>4, <1>6 DEF Target

(* An UPDATE that found its row holds it. *)
LEMMA HeldRow ==
  ASSUME NEW r \in Requests, DeleteMovie(r), NEW n \in Requests,
         req[n].op = "update", req[n].pc \in Updated, req[n].hit
  PROVE  req[n].id # req[r].id
BY DEF DeleteMovie, Locked, Wrote

LEMMA OwnTarget ==
  ASSUME Inv, [Next]_vars, NEW r \in Requests, Act(r)
  PROVE  Target(r)'
<1> USE DEF Over, On
<1>1. TypeOK /\ Target(r)
  BY TargetIs DEF Inv
<1>2. \A i : Settled(i) => Settled(i)'
  BY SettledStays
<1>3. CASE Begin(r)
  BY <1>1, <1>3, BeginOn DEF Began, Target
<1>4. CASE FindMovie(r)
  <2>1. req[r].id \in movies => Settled(req[r].id)
    BY MoviesSettled
  <2>2. CASE Over(r, "notFound")
    BY <1>4, <2>2 DEF FindMovie, Target, InFlight
  <2>3. CASE /\ req[r].id \in movies /\ req'[r].id = req[r].id
             /\ req'[r].pc \in {"deleteMovie", "findDirector"}
    BY <1>2, <2>1, <2>3 DEF Target
  <2> QED BY <1>1, <1>4, <2>2, <2>3, FoundOn
<1>5. CASE FindDirector(r) \/ FindGenres(r)
  <2>1. /\ InPlace(req[r]) /\ InFlight(r) /\ req[r].op # "remove" /\ req[r].pc # "findMovie"
    BY <1>5, Places DEF FindDirector, FindGenres, InFlight, InPlace, CreateInPlace, UpdateInPlace, RemoveInPlace
  <2>2. req'[r].pc \in {"findGenres", "insertDetail", "updateMovie", "done"} /\ req'[r].id = req[r].id /\ req'[r].op = req[r].op
    BY <1>1, <1>5, EndOver, GotoOn DEF FindDirector, FindGenres
  <2> QED BY <1>1, <1>2, <2>1, <2>2 DEF Target
<1>6. CASE InsertDetail(r) \/ InsertMovie(r) \/ InsertLinks(r) \/ MoveFile(r) \/ DeleteTemp(r) \/ ReadMovie(r) \/ CommitCreate(r)
  <2>1. req[r].op = "create" /\ InFlight(r)
    BY <1>6, Places DEF InsertDetail, InsertMovie, InsertLinks, MoveFile, DeleteTemp, ReadMovie, CommitCreate,
                        InFlight, InPlace, CreateInPlace, UpdateInPlace, RemoveInPlace
  <2>2. req'[r].op = "create"
    BY <1>1, <1>6, <2>1, StepFields DEF Step
  <2>3. req'[r].pc # "deleteDetail"
    BY <1>6, <2>1, Entered DEF Step, DeleteMovie, InsertDetail, InsertMovie, InsertLinks, MoveFile, DeleteTemp, ReadMovie, CommitCreate
  <2> QED BY <2>2, <2>3 DEF Target
<1>7. CASE UpdateMovie(r)
  <2>1. req[r].op = "update" /\ InFlight(r) /\ req[r].pc = "updateMovie" /\ ~req[r].hit
    BY <1>7, Places DEF UpdateMovie, InFlight, InPlace, CreateInPlace, UpdateInPlace, RemoveInPlace
  <2>2. req'[r].op = "update" /\ req'[r].id = req[r].id /\ movies' = movies
    BY <1>1, <1>7, <2>1, StepFields DEF Step, UpdateMovie, WriteMovie, InsertDetail, tables
  <2>3. \/ req'[r].pc = "done"
        \/ req'[r].pc \in Updated /\ (req'[r].hit <=> req[r].id \in movies)
    BY <1>1, <1>7, <2>1, EndOver, GotoOn, WriteOn DEF UpdateMovie, AfterUpdate, AfterDetail
  <2> QED BY <1>1, <1>2, <2>1, <2>2, <2>3 DEF Target, InFlight
<1>8. CASE UpdateDetail(r) \/ Unlink(r) \/ Link(r)
  <2>1. req[r].op = "update" /\ InFlight(r) /\ req[r].pc \in Updated
    BY <1>8, Places DEF UpdateDetail, Unlink, Link, InFlight, InPlace, CreateInPlace, UpdateInPlace, RemoveInPlace
  <2>2. req'[r].op = "update" /\ req'[r].id = req[r].id /\ movies' = movies
    BY <1>1, <1>8, <2>1, StepFields DEF Step, UpdateDetail, Unlink, Link, InsertDetail, tables
  <2>3. \/ req'[r].pc = "done"
        \/ req'[r].pc \in Updated /\ req'[r].hit = req[r].hit
    BY <1>1, <1>8, EndOver, GotoOn DEF UpdateDetail, Unlink, Link, AfterDetail
  <2> QED BY <1>1, <1>2, <2>1, <2>2, <2>3 DEF Target, InFlight
<1>9. CASE CommitUpdate(r)
  BY <1>1, <1>2, <1>9, CommittedOn DEF CommitUpdate, Target, InFlight
<1>10. CASE DeleteMovie(r)
  <2>1. req[r].op = "remove" /\ InFlight(r) /\ req[r].pc = "deleteMovie"
    BY <1>10, Places DEF DeleteMovie, InFlight, InPlace, CreateInPlace, UpdateInPlace, RemoveInPlace
  <2>2. req'[r].op = "remove" /\ req'[r].id = req[r].id
    BY <1>1, <1>10, <2>1, StepFields DEF Step, InsertDetail
  <2>3. \/ req'[r].pc = "done" /\ req'[r].answer = "conflict"
        \/ req'[r].pc = "deleteDetail" /\ req[r].id \notin movies'
    BY <1>1, <1>10, EndOver, GotoOn DEF DeleteMovie
  <2> QED BY <1>1, <1>2, <2>1, <2>2, <2>3 DEF Target
<1>11. CASE DeleteDetail(r)
  <2>1. req[r].op = "remove" /\ InFlight(r) /\ req[r].pc = "deleteDetail"
    BY <1>11, Places DEF DeleteDetail, InFlight, InPlace, CreateInPlace, UpdateInPlace, RemoveInPlace
  <2>2. /\ req'[r].op = "remove" /\ req'[r].id = req[r].id /\ req'[r].pc = "done"
        /\ req[r].id \notin movies' \cup details'
    BY <1>1, <1>11, <2>1, ReplyOver DEF DeleteDetail, Target
  <2> QED BY <1>1, <1>2, <2>1, <2>2 DEF Target
<1>12. CASE Fail(r)
  BY <1>1, <1>12, EndOver DEF Fail, Target, InFlight
<1>13. CASE ReadUpdated(r)
  <2>1. req[r].op = "update"
    BY <1>13, Places DEF ReadUpdated, InFlight, InPlace, CreateInPlace, UpdateInPlace, RemoveInPlace
  <2> QED BY <1>1, <1>13, <2>1, ReplyOver DEF ReadUpdated, Target, InFlight
<1> QED BY <1>3, <1>4, <1>5, <1>6, <1>7, <1>8, <1>9, <1>10, <1>11, <1>12, <1>13 DEF Act, Step

LEMMA TargetsStep ==
  ASSUME Inv, [Next]_vars
  PROVE  TargetsSettled' /\ RemovedStaysRemoved'
<1>1. TypeOK /\ \A n \in Requests : Target(n)
  BY TargetIs DEF Inv
<1>2. ASSUME NEW r \in Requests, Act(r), NEW n \in Requests PROVE Target(n)'
  <2>1. CASE n = r
    BY <1>2, <2>1, OwnTarget
  <2>2. CASE n # r
    <3>1. req'[n] = req[n]
      BY <1>1, <1>2, <2>2, OthersStay
    <3>2. ASSUME req[n].op = "update", req[n].pc \in Updated, req[n].hit, req[n].id \in movies
          PROVE  req[n].id \in movies'
      BY <1>2, <3>2, TablesChange, HeldRow DEF CommitCreate, DeleteMovie
    <3> QED BY <3>1, <3>2, OtherTarget
  <2> QED BY <2>1, <2>2
<1>3. ASSUME NEW g, Removal(g), NEW n \in Requests PROVE Target(n)'
  BY <1>3, OtherTarget DEF Removal, RemoveGenre, AwaitLinks, SpareGenre, RemoveDirector
<1>4. ASSUME Crash, NEW n \in Requests PROVE Target(n)'
  <2>1. movies' = movies /\ details' = details
    BY <1>4 DEF Crash, tables
  <2>2. CASE ~InFlight(n)
    BY <1>1, <1>4, <2>1, <2>2, CrashOver, OtherTarget
  <2>3. CASE InFlight(n)
    <3>1. Over(n, req[n].answer)
      BY <1>1, <1>4, <2>3, CrashOver
    <3>2. req[n].op = "remove" => req[n].answer = "none"
      BY <2>3, Places DEF InPlace
    <3> QED BY <3>1, <3>2 DEF Over, Target, InFlight
  <2> QED BY <2>2, <2>3
<1>5. ASSUME UNCHANGED vars, NEW n \in Requests PROVE Target(n)'
  BY <1>5, OtherTarget DEF vars, tables
<1>6. \A n \in Requests : Target(n)'
  <2>1. CASE \E r \in Requests : Act(r)
    BY <1>2, <2>1
  <2>2. CASE \E g : Removal(g)
    BY <1>3, <2>2
  <2>3. CASE Crash
    BY <1>4, <2>3
  <2>4. CASE UNCHANGED vars
    BY <1>5, <2>4
  <2> QED BY <2>1, <2>2, <2>3, <2>4 DEF Next, Act, Begin, Removal
<1> QED BY <1>6 DEF TargetsSettled, RemovedStaysRemoved, Target

---------------------------------------------------------------------------
(* What a transaction has written *)

\* what InsertMovie and UpdateMovie find out before they write
Cleared(r) ==
  /\ Given(r, "title") => ~TitleContended(req[r].id, req[r].body.title)
  /\ Given(r, "title") => ~TitleTaken(req[r].id, req[r].body.title)
  /\ Given(r, "director") => req[r].body.director \in directors

LEMMA WroteNow ==
  ASSUME Inv, NEW r \in Requests, Act(r), Wrote(r)'
  PROVE  /\ req'[r].op = req[r].op /\ req'[r].id = req[r].id /\ req'[r].body = req[r].body
         /\ movies' = movies /\ row' = row /\ (Wrote(r) \/ Cleared(r))
<1> USE DEF Over, On
<1>1. TypeOK
  BY DEF Inv
<1>2. ~Begin(r)
  BY <1>1, BeginOn DEF Began, Wrote
<1>3. CASE InsertMovie(r)
  <2>1. movies' = movies /\ row' = row
    BY <1>3 DEF InsertMovie, WriteMovie, tables
  <2> QED BY <1>1, <1>3, <2>1, WriteOn DEF InsertMovie, Cleared, Wrote
<1>4. CASE InsertLinks(r) \/ MoveFile(r) \/ DeleteTemp(r) \/ ReadMovie(r)
  <2>1. movies' = movies /\ row' = row
    BY <1>4 DEF InsertLinks, MoveFile, DeleteTemp, ReadMovie, tables
  <2>2. InFlight(r) /\ req[r].op = "create"
    BY <1>4, Places DEF InsertLinks, MoveFile, DeleteTemp, ReadMovie, InFlight, InPlace, CreateInPlace, UpdateInPlace, RemoveInPlace
  <2>3. Wrote(r)
    BY <1>4, <2>2 DEF InsertLinks, MoveFile, DeleteTemp, ReadMovie, Wrote
  <2>4. req'[r].pc # "done" /\ ~InsertDetail(r)
    BY <1>4 DEF Wrote, InsertLinks, MoveFile, DeleteTemp, ReadMovie, InsertDetail
  <2> QED BY <1>1, <1>4, <2>1, <2>3, <2>4, StepFields DEF Step, Wrote
<1>5. CASE UpdateMovie(r)
  <2>1. movies' = movies /\ row' = row
    BY <1>5 DEF UpdateMovie, WriteMovie, tables
  <2>2. req[r].op = "update" /\ ~req[r].hit /\ ~InsertDetail(r)
    BY <1>5, Places DEF UpdateMovie, InsertDetail, InFlight, InPlace, CreateInPlace, UpdateInPlace, RemoveInPlace
  <2>3. req'[r].op = req[r].op /\ req'[r].id = req[r].id /\ req'[r].body = req[r].body
    BY <1>1, <1>5, <2>2, StepFields DEF Step, Wrote
  <2>4. Cleared(r)
    BY <1>1, <1>5, <2>2, <2>3, EndOver, GotoOn, WriteOn DEF UpdateMovie, Cleared, Wrote
  <2> QED BY <2>1, <2>3, <2>4
<1>6. CASE UpdateDetail(r) \/ Unlink(r) \/ Link(r)
  <2>1. movies' = movies /\ row' = row
    BY <1>6 DEF UpdateDetail, Unlink, Link, tables
  <2>2. req[r].op = "update" /\ ~InsertDetail(r) /\ req[r].pc \in Updated
    BY <1>6, Places
       DEF UpdateDetail, Unlink, Link, InsertDetail, InFlight, InPlace, CreateInPlace, UpdateInPlace, RemoveInPlace
  <2>3. req'[r].op = req[r].op /\ req'[r].id = req[r].id /\ req'[r].body = req[r].body
    BY <1>1, <1>6, <2>2, StepFields DEF Step, Wrote
  <2>4. req'[r].hit = req[r].hit
    BY <1>1, <1>6, EndOver, GotoOn DEF UpdateDetail, Unlink, Link, Wrote
  <2> QED BY <2>1, <2>2, <2>3, <2>4 DEF Wrote
<1>7. req'[r].op = req[r].op
  BY <1>1, <1>2, StepFields DEF Act
<1>8. CASE FindMovie(r) \/ FindDirector(r) \/ FindGenres(r) \/ InsertDetail(r)
  BY <1>1, <1>8, FoundOn, EndOver, GotoOn, DrawOn DEF FindDirector, FindGenres, Wrote
<1>9. CASE CommitCreate(r) \/ CommitUpdate(r) \/ ReadUpdated(r) \/ DeleteMovie(r) \/ DeleteDetail(r) \/ Fail(r)
  BY <1>1, <1>9, EndOver, ReplyOver, CommittedOn, GotoOn DEF CommitCreate, ReadUpdated, DeleteMovie, DeleteDetail, Fail, Wrote
<1> QED BY <1>2, <1>3, <1>4, <1>5, <1>6, <1>8, <1>9 DEF Act, Step

LEMMA LinkedNow ==
  ASSUME Inv, NEW r \in Requests, Act(r), Linked(r)'
  PROVE  req[r].body.genres \subseteq genres
<1>1. Wrote(r)' /\ req'[r].pc \in {"moveFile", "deleteTemp", "readMovie", "commit"} /\ req'[r].body = req[r].body
  BY WroteNow DEF Linked
<1>2. ~Begin(r) /\ TypeOK
  BY <1>1, BeginOn DEF Began, Inv
<1>3. CASE InsertLinks(r) \/ Link(r)
  BY <1>1, <1>2, <1>3, EndOver DEF InsertLinks, Link, Over
<1>4. CASE MoveFile(r) \/ DeleteTemp(r) \/ ReadMovie(r)
  <2>1. req[r].op = "create" /\ req[r].body \in Posts
    BY <1>4, Places DEF MoveFile, DeleteTemp, ReadMovie, InFlight, InPlace, CreateInPlace, UpdateInPlace, RemoveInPlace
  <2>2. Linked(r)
    BY <1>4, <2>1, PostTyped DEF MoveFile, DeleteTemp, ReadMovie, Linked, Wrote, Given, RowFields
  <2> QED BY <2>2 DEF Inv, CatalogInductive, ReferencesHeld
<1>5. Given(r, "genres")
  BY <1>1 DEF Linked, Given
<1> QED BY <1>1, <1>2, <1>3, <1>4, <1>5, Entered DEF Act

LEMMA CrashWrites ==
  ASSUME Inv, Crash, NEW n \in Requests
  PROVE  ~Wrote(n)' /\ ~Moved(n)'
<1>1. req'[n].pc \in {"idle", "done"}
  BY CrashOver DEF Inv, Over, InFlight
<1> QED BY <1>1 DEF Wrote, Moved

---------------------------------------------------------------------------
(* References, details *)

LEMMA ReferencesStep ==
  ASSUME Inv, [Next]_vars
  PROVE  ReferencesHeld'
<1>1. TypeOK /\ ReferencesHeld
  BY DEF Inv, CatalogInductive
<1>2. ASSUME NEW r \in Requests, Act(r) PROVE ReferencesHeld'
  <2>1. genres' = genres /\ directors' = directors
    BY <1>2, TablesChange
  <2>2. ASSUME NEW n \in Requests \ {r}
        PROVE  /\ Wrote(n)' /\ Given(n, "director")' => req'[n].body.director \in directors'
               /\ Linked(n)' => req'[n].body.genres \subseteq genres'
    <3>1. req'[n] = req[n]
      BY <1>1, <1>2, OthersStay
    <3> QED BY <1>1, <2>1, <3>1 DEF ReferencesHeld, Linked, Wrote, Given
  <2>3. Wrote(r)' /\ Given(r, "director")' => req'[r].body.director \in directors'
    BY <1>1, <1>2, <2>1, WroteNow DEF ReferencesHeld, Cleared, Given
  <2>4. Linked(r)' => req'[r].body.genres \subseteq genres'
    BY <1>2, <2>1, LinkedNow, WroteNow DEF Linked
  <2> QED BY <2>2, <2>3, <2>4 DEF ReferencesHeld
<1>3. ASSUME NEW g \in Genres, RemoveGenre(g) PROVE ReferencesHeld'
  BY <1>1, <1>3 DEF RemoveGenre, Linking, ReferencesHeld, Linked, Wrote, Given
<1>4. ASSUME NEW d \in Directors, RemoveDirector(d) PROVE ReferencesHeld'
  BY <1>1, <1>4 DEF RemoveDirector, ReferencesHeld, Linked, Wrote, Given
<1>5. CASE Crash
  BY <1>5, CrashWrites DEF ReferencesHeld, Linked
<1>6. CASE UNCHANGED <<genres, directors, req>>
  BY <1>1, <1>6 DEF ReferencesHeld, Linked, Wrote, Given
<1> QED BY <1>2, <1>3, <1>4, <1>5, <1>6 DEF Next, Act, Begin, AwaitLinks, SpareGenre, vars, tables

LEMMA WholeStep ==
  ASSUME Inv, [Next]_vars
  PROVE  RowsWhole'
<1>1. TypeOK /\ RowsWhole /\ ReferencesHeld
  BY DEF Inv, CatalogInductive
<1>2. ASSUME NEW r \in Requests, CommitCreate(r) PROVE RowsWhole'
  <2>1. req[r].body \in Posts /\ req[r].id \in Ids
    BY <1>2, Places DEF CommitCreate, InFlight, InPlace, CreateInPlace, UpdateInPlace, RemoveInPlace
  <2>2. req[r].body.director \in directors /\ req[r].body.genres \subseteq genres
    BY <1>1, <1>2, <2>1, PostTyped DEF CommitCreate, ReferencesHeld, Linked, Wrote, Given, RowFields
  <2> QED BY <1>1, <1>2, <2>1, <2>2 DEF CommitCreate, RowsWhole, TypeOK
<1>3. ASSUME NEW r \in Requests, CommitUpdate(r) PROVE RowsWhole'
  <2>1. req[r].body \in Patches /\ req[r].id \in Ids
    BY <1>3, Places DEF CommitUpdate, InFlight, InPlace, CreateInPlace, UpdateInPlace, RemoveInPlace
  <2>2. ASSUME req[r].hit, req[r].id \in movies
        PROVE  Patched(r).director \in directors /\ Patched(r).genres \subseteq genres
    <3>1. Wrote(r)
      BY <1>3, <2>2 DEF CommitUpdate, Wrote
    <3>2. /\ Given(r, "director") => req[r].body.director \in directors
          /\ Given(r, "genres") => req[r].body.genres \subseteq genres
      BY <1>1, <1>3, <3>1 DEF CommitUpdate, ReferencesHeld, Linked
    <3>3. row[req[r].id].director \in directors /\ row[req[r].id].genres \subseteq genres
      BY <1>1, <2>2 DEF RowsWhole
    <3>4. Kept(r) \subseteq genres
      BY <3>3 DEF Kept
    <3>5. /\ Patched(r).director = IF ~Given(r, "director") THEN row[req[r].id].director ELSE req[r].body.director
          /\ Patched(r).genres = IF ~Given(r, "genres") THEN row[req[r].id].genres ELSE Kept(r) \cup req[r].body.genres
      BY DEF Patched, RowFields
    <3> QED BY <3>2, <3>3, <3>4, <3>5
  <2> HIDE DEF Patched
  <2>3. \A i \in movies : row'[i] = IF req[r].hit /\ i = req[r].id THEN Patched(r) ELSE row[i]
    BY <1>1, <1>3, <2>1 DEF CommitUpdate, TypeOK
  <2>4. UNCHANGED <<movies, details, genres, directors>>
    BY <1>3 DEF CommitUpdate
  <2> QED BY <1>1, <2>2, <2>3, <2>4 DEF RowsWhole
<1>4. ASSUME NEW r \in Requests, DeleteMovie(r) PROVE RowsWhole'
  BY <1>1, <1>4 DEF DeleteMovie, RowsWhole, TypeOK
<1>5. ASSUME NEW r \in Requests, DeleteDetail(r) PROVE RowsWhole'
  <2>1. req[r].id \notin movies
    BY <1>5, TargetIs DEF DeleteDetail, Target
  <2> QED BY <1>1, <1>5, <2>1 DEF DeleteDetail, RowsWhole
<1>6. ASSUME NEW r \in Requests, Act(r), ~CommitCreate(r), ~CommitUpdate(r), ~DeleteMovie(r), ~DeleteDetail(r)
      PROVE  RowsWhole'
  BY <1>1, <1>6, TablesChange DEF RowsWhole
<1>7. ASSUME NEW g, Removal(g) PROVE RowsWhole'
  BY <1>1, <1>7 DEF Removal, RemoveGenre, AwaitLinks, SpareGenre, RemoveDirector, RowsWhole
<1>8. CASE Crash \/ UNCHANGED vars
  BY <1>1, <1>8 DEF Crash, vars, tables, RowsWhole
<1> QED BY <1>2, <1>3, <1>4, <1>5, <1>6, <1>7, <1>8 DEF Next, Act, Begin, Removal

LEMMA DetailsStep ==
  ASSUME Inv, [Next]_vars
  PROVE  DetailsOwned'
<1>1. TypeOK /\ details \ movies \subseteq HalfRemoved \cup cut
  BY DEF Inv, DetailsOwned
<1> SUFFICES ASSUME NEW i \in details', i \notin movies'
             PROVE  i \in cut' \/ \E n \in Requests : req'[n].pc = "deleteDetail" /\ req'[n].id = i
  BY DEF DetailsOwned, HalfRemoved
<1>2. i \in details \ movies =>
        i \in cut \/ \E n \in Requests : req[n].pc = "deleteDetail" /\ req[n].id = i
  BY <1>1 DEF HalfRemoved
<1>3. ASSUME NEW r \in Requests, Act(r)
      PROVE  i \in cut' \/ \E n \in Requests : req'[n].pc = "deleteDetail" /\ req'[n].id = i
  <2>1. \A n \in Requests \ {r} : req'[n] = req[n]
    BY <1>1, <1>3, OthersStay
  <2>2. CASE DeleteMovie(r)
    <3>1. i \in details
      BY <2>2 DEF DeleteMovie
    <3>2. CASE Goto(r, "deleteDetail") /\ movies' = movies \ {req[r].id}
      <4>1. req'[r].pc = "deleteDetail" /\ req'[r].id = req[r].id
        BY <1>1, <3>2, GotoOn DEF On
      <4>2. req[r].pc = "deleteMovie" /\ cut' = cut
        BY <2>2 DEF DeleteMovie
      <4> QED BY <1>2, <2>1, <3>1, <3>2, <4>1, <4>2
    <3>3. CASE movies' = movies
      <4>1. req[r].pc = "deleteMovie" /\ cut' = cut
        BY <2>2 DEF DeleteMovie
      <4> QED BY <1>2, <2>1, <3>1, <3>3, <4>1
    <3> QED BY <2>2, <3>2, <3>3 DEF DeleteMovie
  <2>3. CASE DeleteDetail(r)
    <3>1. i \in details /\ i # req[r].id /\ i \notin movies /\ cut' = cut
      BY <2>3 DEF DeleteDetail, past
    <3> QED BY <1>2, <2>1, <3>1
  <2>4. CASE CommitCreate(r)
    <3>1. i \in details /\ i \notin movies /\ cut' = cut /\ req[r].pc = "commit"
      BY <2>4 DEF CommitCreate, past
    <3> QED BY <1>2, <2>1, <3>1
  <2>5. CASE Fail(r)
    <3>1. /\ i \in details /\ i \notin movies
          /\ cut' = IF req[r].pc = "deleteDetail" THEN cut \cup {req[r].id} ELSE cut
      BY <2>5 DEF Fail, tables
    <3> QED BY <1>2, <2>1, <3>1
  <2>6. CASE ~DeleteMovie(r) /\ ~DeleteDetail(r) /\ ~CommitCreate(r) /\ ~Fail(r)
    <3>1. i \in details /\ i \notin movies /\ cut' = cut
      BY <1>3, <2>6, TablesChange
    <3>2. req[r].pc # "deleteDetail"
      BY <1>3, <2>6 DEF Act, Begin, Step, StartCreate, StartUpdate, StartRemove, Start, InFlight, FindMovie, FindDirector, FindGenres,
         InsertDetail, InsertMovie, InsertLinks, MoveFile, DeleteTemp, ReadMovie, UpdateMovie, UpdateDetail, Unlink, Link,
         CommitUpdate, ReadUpdated
    <3> QED BY <1>2, <2>1, <3>1, <3>2
  <2> QED BY <2>2, <2>3, <2>4, <2>5, <2>6
<1>4. ASSUME NEW g, Removal(g)
      PROVE  i \in cut' \/ \E n \in Requests : req'[n].pc = "deleteDetail" /\ req'[n].id = i
  BY <1>2, <1>4 DEF Removal, RemoveGenre, AwaitLinks, SpareGenre, RemoveDirector, past
<1>5. CASE Crash
  BY <1>1, <1>5 DEF Crash, tables
<1>6. CASE UNCHANGED vars
  BY <1>2, <1>6 DEF vars, tables, past
<1> QED BY <1>3, <1>4, <1>5, <1>6 DEF Next, Act, Begin, Removal

---------------------------------------------------------------------------
(* Files *)

LEMMA FilesFrame ==
  ASSUME Inv, UNCHANGED <<movies, row, prod, stored>>, temp' \subseteq temp,
         \A n \in Requests : Moved(n)' => Moved(n) /\ req'[n].body = req[n].body
  PROVE  FilesHeld' /\ FilesInPlace'
<1>1. FilesHeld /\ FilesInPlace
  BY DEF Inv, CatalogInductive
<1>2. ASSUME NEW n \in Requests, Moved(n)'
      PROVE  /\ req'[n].body.file \in stored'
             /\ ~prod => /\ \A i \in movies' : row'[i].file # req'[n].body.file
                         /\ \A q \in Requests \ {n} : Moved(q)' => req'[q].body.file # req'[n].body.file
  BY <1>1, <1>2 DEF FilesHeld
<1>3. ~prod => temp' \cap stored' = {}
  BY <1>1 DEF FilesHeld
<1> QED BY <1>1, <1>2, <1>3 DEF FilesHeld, FilesInPlace

LEMMA MovedNow ==
  ASSUME Inv, NEW r \in Requests, Act(r), Moved(r)'
  PROVE  /\ req'[r].body = req[r].body
         /\ \/ (DeleteTemp(r) \/ ReadMovie(r)) /\ Moved(r)
            \/ MoveFile(r) /\ req[r].body.file \in temp
<1>1. TypeOK /\ ~Begin(r)
  BY BeginOn DEF Began, Moved, Inv
<1>2. Wrote(r)'
  BY DEF Moved, Wrote
<1>3. req'[r].op = "create" /\ req'[r].op = req[r].op /\ req'[r].body = req[r].body
  BY <1>2, WroteNow DEF Moved
<1>4. ~UpdateMovie(r) /\ ~UpdateDetail(r) /\ ~Link(r)
  BY <1>3, Places
     DEF UpdateMovie, UpdateDetail, Link, InFlight, InPlace, CreateInPlace, UpdateInPlace, RemoveInPlace
<1>5. Step(r) \/ Fail(r)
  BY <1>1 DEF Act
<1>6. CASE req'[r].pc \in {"deleteTemp", "readMovie"}
  <2>1. DeleteTemp(r) => Moved(r)
    BY <1>3 DEF DeleteTemp, Moved
  <2> QED BY <1>3, <1>5, <1>6, <2>1, Entered
<1>7. CASE req'[r].pc = "commit"
  <2>1. ReadMovie(r)
    BY <1>4, <1>5, <1>7, Entered
  <2> QED BY <1>3, <2>1 DEF ReadMovie, Moved
<1> QED BY <1>6, <1>7 DEF Moved

LEMMA FilesStep ==
  ASSUME Inv, [Next]_vars
  PROVE  FilesHeld' /\ FilesInPlace'
<1>1. TypeOK /\ FilesHeld /\ FilesInPlace
  BY DEF Inv, CatalogInductive
<1>2. ASSUME NEW r \in Requests, Act(r) PROVE FilesHeld' /\ FilesInPlace'
  <2>1. \A n \in Requests \ {r} : /\ req'[n] = req[n]
                                  /\ Moved(n)' = Moved(n)
    BY <1>1, <1>2, OthersStay DEF Moved
  <2>p. prod' = prod
    BY <1>2, TablesChange
  <2>2. CASE MoveFile(r) /\ req[r].body.file \in temp
    <3>1. /\ stored' = stored \cup {req[r].body.file} /\ (~prod => temp' = temp \ {req[r].body.file})
          /\ movies' = movies /\ row' = row /\ ~Moved(r)
      BY <1>1, <2>2 DEF MoveFile, tables, Moved
    <3>2. req'[r].body = req[r].body
      BY <1>1, <2>2, GotoOn DEF MoveFile, On
    <3>3. ~prod => /\ \A i \in movies : row[i].file # req[r].body.file
                   /\ \A q \in Requests : Moved(q) => req[q].body.file # req[r].body.file
      BY <1>1, <2>2 DEF FilesHeld, FilesInPlace
    <3>4. FilesInPlace'
      BY <1>1, <2>p, <3>1 DEF FilesInPlace
    <3>5. ASSUME NEW n \in Requests, Moved(n)'
          PROVE  /\ req'[n].body.file \in stored'
                 /\ ~prod => /\ \A i \in movies' : row'[i].file # req'[n].body.file
                             /\ \A q \in Requests \ {n} : Moved(q)' => req'[q].body.file # req'[n].body.file
      <4>1. CASE n = r
        BY <2>1, <3>1, <3>2, <3>3, <4>1
      <4>2. CASE n # r
        BY <1>1, <2>1, <3>1, <3>2, <3>3, <3>5, <4>2 DEF FilesHeld
      <4> QED BY <4>1, <4>2
    <3>6. ~prod => temp' \cap stored' = {}
      BY <1>1, <3>1 DEF FilesHeld
    <3> QED BY <2>p, <3>4, <3>5, <3>6 DEF FilesHeld
  <2>3. CASE CommitCreate(r)
    <3>1. req[r].id \in Ids /\ Moved(r)
      BY <2>3, Places DEF CommitCreate, InFlight, Moved
    <3>2. ~Moved(r)'
      BY <1>1, <2>3, EndOver DEF CommitCreate, Over, Moved
    <3>3. /\ temp' = temp /\ stored' = stored /\ movies' = movies \cup {req[r].id}
          /\ \A i \in movies' : row'[i] = IF i = req[r].id THEN req[r].body ELSE row[i]
      BY <1>1, <2>3, <3>1 DEF CommitCreate, TypeOK, disk
    <3>4. /\ req[r].body.file \in stored
          /\ ~prod => /\ \A i \in movies : row[i].file # req[r].body.file
                      /\ \A q \in Requests \ {r} : Moved(q) => req[q].body.file # req[r].body.file
      BY <1>1, <3>1 DEF FilesHeld
    <3>5. FilesHeld'
      BY <1>1, <2>1, <2>p, <3>2, <3>3, <3>4 DEF FilesHeld
    <3>6. FilesInPlace'
      BY <1>1, <2>p, <3>3, <3>4 DEF FilesInPlace
    <3> QED BY <3>5, <3>6
  <2>4. CASE CommitUpdate(r)
    <3>1. req[r].id \in Ids /\ ~Given(r, "file")
      BY <2>4, Places DEF CommitUpdate, InFlight, InPlace, CreateInPlace, UpdateInPlace, RemoveInPlace, Given
    <3>2. Patched(r).file = row[req[r].id].file
      BY <3>1 DEF Patched, RowFields
    <3> HIDE DEF Patched
    <3>3. \A i \in movies : row'[i].file = row[i].file
      BY <1>1, <2>4, <3>1, <3>2 DEF CommitUpdate, TypeOK
    <3>4. UNCHANGED <<movies, temp, stored>> /\ ~Moved(r)'
      BY <1>1, <2>4, CommittedOn DEF CommitUpdate, disk, Moved
    <3> QED BY <1>1, <2>1, <2>p, <3>3, <3>4 DEF FilesHeld, FilesInPlace
  <2>5. CASE DeleteMovie(r)
    <3>1. movies' \subseteq movies /\ \A i \in movies' : row'[i] = row[i]
      BY <1>1, <2>5 DEF DeleteMovie, TypeOK
    <3>2. UNCHANGED <<temp, stored>> /\ ~Moved(r)'
      BY <1>1, <2>5, EndOver, GotoOn DEF DeleteMovie, disk, Over, On, Moved
    <3> QED BY <1>1, <2>1, <2>p, <3>1, <3>2 DEF FilesHeld, FilesInPlace
  <2>6. CASE /\ ~CommitCreate(r) /\ ~CommitUpdate(r) /\ ~DeleteMovie(r)
             /\ ~(MoveFile(r) /\ req[r].body.file \in temp)
    <3>1. UNCHANGED <<movies, row, prod, stored>> /\ temp' \subseteq temp
      BY <1>2, <2>6, <2>p, TablesChange DEF MoveFile, DeleteTemp, disk
    <3>2. Moved(r)' => Moved(r) /\ req'[r].body = req[r].body
      BY <1>2, <2>6, MovedNow
    <3> QED BY <2>1, <3>1, <3>2, FilesFrame
  <2> QED BY <2>2, <2>3, <2>4, <2>5, <2>6
<1>3. ASSUME NEW g, Removal(g) PROVE FilesHeld' /\ FilesInPlace'
  BY <1>3, FilesFrame DEF Removal, RemoveGenre, AwaitLinks, SpareGenre, RemoveDirector, Moved, disk
<1>4. CASE Crash
  BY <1>4, CrashWrites, FilesFrame DEF Crash, disk
<1>5. CASE UNCHANGED vars
  BY <1>5, FilesFrame DEF vars, tables, disk, Moved
<1> QED BY <1>2, <1>3, <1>4, <1>5 DEF Next, Act, Begin, Removal

---------------------------------------------------------------------------
(* Titles *)

\* a transaction that has written a title, and one that wrote a row for another movie
Titled(r) == Wrote(r) /\ Given(r, "title")

LEMMA TitlesFrame ==
  ASSUME Inv, UNCHANGED <<movies, row>>,
         \A n \in Requests : Titled(n)' => /\ Titled(n)
                                           /\ req'[n].id = req[n].id /\ req'[n].body = req[n].body
  PROVE  TitlesHeld' /\ TitlesUnique'
<1>1. TitlesHeld /\ TitlesUnique
  BY DEF Inv, CatalogInductive
<1> QED BY <1>1 DEF TitlesHeld, TitlesUnique, TitleTaken, Titled

(* A commit puts into the table what the others have kept clear of. *)
LEMMA TitlesCommit ==
  ASSUME Inv, NEW r \in Requests, NEW i, ~Titled(r)',
         movies' \subseteq movies \cup {i},
         \A j \in movies' \ {i} : row'[j].title = row[j].title,
         i \in movies' => \/ i \in movies /\ row'[i].title = row[i].title
                          \/ Titled(r) /\ i = req[r].id /\ row'[i].title = req[r].body.title,
         \A n \in Requests \ {r} : req'[n] = req[n]
  PROVE  TitlesHeld' /\ TitlesUnique'
<1>1. TitlesHeld /\ TitlesUnique
  BY DEF Inv, CatalogInductive
<1>2. \A n \in Requests \ {r} : Titled(n)' = Titled(n)
  BY DEF Titled, Wrote, Given
<1>3. Titled(r) => /\ \A j \in movies \ {req[r].id} : row[j].title # req[r].body.title
                   /\ \A n \in Requests : Titled(n) /\ req[n].id # req[r].id
                                            => req[n].body.title # req[r].body.title
  BY <1>1 DEF TitlesHeld, TitleTaken, Titled
<1>4. \A n \in Requests : Titled(n) =>
        /\ \A j \in movies \ {req[n].id} : row[j].title # req[n].body.title
        /\ \A q \in Requests : Titled(q) /\ req[q].id # req[n].id => req[q].body.title # req[n].body.title
  BY <1>1 DEF TitlesHeld, TitleTaken, Titled
<1>5. TitlesUnique'
  BY <1>1, <1>3 DEF TitlesUnique
<1>6. ASSUME NEW n \in Requests, Titled(n)', NEW j \in movies' \ {req'[n].id}
      PROVE  row'[j].title # req'[n].body.title
  BY <1>2, <1>3, <1>4, <1>6
<1>7. ASSUME NEW n \in Requests, Titled(n)', NEW q \in Requests, Titled(q)', req'[q].id # req'[n].id
      PROVE  req'[q].body.title # req'[n].body.title
  BY <1>2, <1>4, <1>7
<1> QED BY <1>5, <1>6, <1>7 DEF TitlesHeld, TitleTaken, Titled

LEMMA TitlesStep ==
  ASSUME Inv, [Next]_vars
  PROVE  TitlesHeld' /\ TitlesUnique'
<1>1. TypeOK /\ TitlesHeld /\ TitlesUnique
  BY DEF Inv, CatalogInductive
<1>2. ASSUME NEW r \in Requests, Act(r) PROVE TitlesHeld' /\ TitlesUnique'
  <2>1. \A n \in Requests \ {r} : req'[n] = req[n] /\ Titled(n)' = Titled(n)
    BY <1>1, <1>2, OthersStay DEF Titled, Wrote, Given
  <2>2. CASE CommitCreate(r)
    <3>1. req[r].id \in Ids /\ req[r].body \in Posts
      BY <2>2, Places DEF CommitCreate, InFlight, InPlace, CreateInPlace, UpdateInPlace, RemoveInPlace
    <3>2. Titled(r) /\ ~Titled(r)'
      BY <1>1, <2>2, <3>1, PostTyped, EndOver DEF CommitCreate, Over, Titled, Wrote, Given, RowFields
    <3>3. movies' = movies \cup {req[r].id} /\ row'[req[r].id] = req[r].body
          /\ \A j \in movies \ {req[r].id} : row'[j] = row[j]
      BY <1>1, <2>2, <3>1 DEF CommitCreate, TypeOK
    <3> QED BY <2>1, <3>2, <3>3, TitlesCommit
  <2>3. CASE CommitUpdate(r)
    <3>1. req[r].id \in Ids
      BY <2>3, Places DEF CommitUpdate, InFlight
    <3>2. Patched(r).title = IF ~Given(r, "title") THEN row[req[r].id].title ELSE req[r].body.title
      BY DEF Patched, RowFields
    <3> HIDE DEF Patched
    <3>3. /\ movies' = movies
          /\ \A j \in movies \ {req[r].id} : row'[j] = row[j]
          /\ req[r].id \in movies => row'[req[r].id] = IF req[r].hit THEN Patched(r) ELSE row[req[r].id]
      BY <1>1, <2>3, <3>1 DEF CommitUpdate, TypeOK
    <3>4. ~Titled(r)'
      BY <1>1, <2>3, CommittedOn DEF Titled, Wrote
    <3>5. req[r].hit /\ Given(r, "title") => Titled(r)
      BY <2>3 DEF CommitUpdate, Titled, Wrote
    <3> QED BY <2>1, <3>2, <3>3, <3>4, <3>5, TitlesCommit
  <2>4. CASE DeleteMovie(r)
    <3>1. movies' \subseteq movies /\ \A i \in movies' : row'[i] = row[i]
      BY <1>1, <2>4 DEF DeleteMovie, TypeOK
    <3>2. ~Titled(r)'
      BY <1>1, <2>4, EndOver, GotoOn DEF DeleteMovie, Over, On, Titled, Wrote
    <3> QED BY <2>1, <3>1, <3>2, TitlesCommit
  <2>5. CASE ~CommitCreate(r) /\ ~CommitUpdate(r) /\ ~DeleteMovie(r)
    <3>1. UNCHANGED <<movies, row>>
      BY <1>2, <2>5, TablesChange
    <3>2. CASE Titled(r)' => Titled(r)
      BY <1>2, <2>1, <3>1, <3>2, WroteNow, TitlesFrame DEF Titled
    <3>3. CASE Titled(r)' /\ ~Titled(r)
      <4>1. req'[r].id = req[r].id /\ req'[r].body = req[r].body /\ Given(r, "title") /\ Cleared(r)
        BY <1>2, <3>3, WroteNow DEF Titled, Given
      <4>2. /\ \A j \in movies \ {req[r].id} : row[j].title # req[r].body.title
            /\ \A q \in Requests : Titled(q) /\ req[q].id # req[r].id => req[q].body.title # req[r].body.title
        BY <4>1 DEF Cleared, TitleContended, TitleTaken, Titled
      <4>3. ASSUME NEW n \in Requests, Titled(n)', NEW j \in movies' \ {req'[n].id}
            PROVE  row'[j].title # req'[n].body.title
        BY <1>1, <2>1, <3>1, <4>1, <4>2, <4>3 DEF TitlesHeld, TitleTaken, Titled
      <4>4. ASSUME NEW n \in Requests, Titled(n)', NEW q \in Requests, Titled(q)', req'[q].id # req'[n].id
            PROVE  req'[q].body.title # req'[n].body.title
        <5>1. CASE n = r \/ q = r
          BY <2>1, <4>1, <4>2, <4>4, <5>1
        <5>2. CASE n # r /\ q # r
          BY <1>1, <2>1, <4>4, <5>2 DEF TitlesHeld, Titled
        <5> QED BY <5>1, <5>2
      <4>5. TitlesUnique'
        BY <1>1, <3>1 DEF TitlesUnique
      <4> QED BY <4>3, <4>4, <4>5 DEF TitlesHeld, TitleTaken, Titled
    <3> QED BY <3>2, <3>3
  <2> QED BY <2>2, <2>3, <2>4, <2>5
<1>3. ASSUME NEW g, Removal(g) PROVE TitlesHeld' /\ TitlesUnique'
  BY <1>3, TitlesFrame DEF Removal, RemoveGenre, AwaitLinks, SpareGenre, RemoveDirector, Titled, Wrote, Given
<1>4. CASE Crash
  BY <1>4, CrashWrites, TitlesFrame DEF Crash, tables, Titled
<1>5. CASE UNCHANGED vars
  BY <1>5, TitlesFrame DEF vars, tables, Titled, Wrote, Given
<1> QED BY <1>2, <1>3, <1>4, <1>5 DEF Next, Act, Begin, Removal

---------------------------------------------------------------------------
(* Answers *)

LEMMA AnswersStep ==
  ASSUME Inv, [Next]_vars
  PROVE  AnswerIsKept'
<1> DEFINE Kept1(n) ==
      req[n].op = "create" /\ req[n].pc = "done" /\ req[n].id # 0 =>
        IF req[n].answer \in {"ok", "late"} THEN req[n].id \in movies \cup gone
                                            ELSE req[n].id \notin movies
<1>1. TypeOK /\ IdsDrawn /\ \A n \in Requests : Kept1(n)
  BY DEF Inv, CatalogInductive, AnswerIsKept
<1>2. \A n \in Requests : InFlight(n) /\ req[n].op = "create" =>
        /\ req[n].id \notin movies
        /\ req[n].answer \in {"ok", "late"} <=> req[n].pc = "commit"
        /\ req[n].pc # "done"
  BY <1>1, Places DEF IdsDrawn, InPlace, InFlight
<1>3. ASSUME NEW r \in Requests, Act(r) PROVE AnswerIsKept'
  <2>1. \A n \in Requests \ {r} : req'[n] = req[n]
    BY <1>1, <1>3, OthersStay
  <2>2. CASE CommitCreate(r)
    <3>1. /\ movies' = movies \cup {req[r].id} /\ gone' = gone /\ InFlight(r) /\ req[r].op = "create" /\ req[r].pc = "commit"
      BY <2>2 DEF CommitCreate, past, InFlight
    <3>2. Over(r, req[r].answer)
      BY <1>1, <2>2, EndOver DEF CommitCreate
    <3>3. \A n \in Requests \ {r} : req[n].op = "create" /\ req[n].id # 0 => req[r].id # req[n].id
      BY <1>1, <3>1 DEF IdsDrawn
    <3> QED BY <1>1, <1>2, <2>1, <3>1, <3>2, <3>3 DEF AnswerIsKept, Over
  <2>3. CASE DeleteMovie(r)
    <3>1. \/ movies' = movies /\ gone' = gone
          \/ movies' = movies \ {req[r].id} /\ gone' = gone \cup (movies \cap {req[r].id})
      BY <2>3 DEF DeleteMovie
    <3>2. req[r].op = "remove" /\ ~InsertDetail(r)
      BY <2>3, Places DEF DeleteMovie, InsertDetail, InFlight, InPlace, CreateInPlace, UpdateInPlace, RemoveInPlace
    <3>3. req'[r].op = "remove"
      BY <1>1, <2>3, <3>2, StepFields DEF Step
    <3> QED BY <1>1, <2>1, <3>1, <3>3 DEF AnswerIsKept
  <2>4. CASE ~CommitCreate(r) /\ ~DeleteMovie(r)
    <3>1. movies' = movies /\ gone' = gone
      BY <1>3, <2>4, TablesChange
    <3>2. ASSUME req'[r].op = "create", req'[r].pc = "done", req'[r].id # 0
          PROVE  req'[r].answer \notin {"ok", "late"} /\ req'[r].id \notin movies
      <4>1. ~Begin(r)
        BY <1>1, <3>2, BeginOn DEF Began
      <4>2. ~InsertDetail(r) /\ ~ReadMovie(r)
        BY <1>1, <3>2, DrawOn, ReadOn DEF On
      <4>3. InFlight(r) /\ req[r].op = "create" /\ req'[r].id = req[r].id
        BY <1>1, <1>3, <3>2, <4>1, <4>2, StepFields DEF Act
      <4>4. ~CommitUpdate(r) /\ ~ReadUpdated(r) /\ ~DeleteDetail(r)
        BY <4>3, Places DEF CommitUpdate, ReadUpdated, DeleteDetail, InPlace, CreateInPlace, UpdateInPlace, RemoveInPlace
      <4>5. req'[r].answer \in {"notFound", "conflict", "error"}
        <5>1. CASE FindMovie(r) \/ FindDirector(r) \/ FindGenres(r)
          BY <1>1, <3>2, <5>1, FoundOn, EndOver, GotoOn DEF FindDirector, FindGenres, Over, On
        <5>2. CASE InsertMovie(r) \/ UpdateMovie(r)
          BY <1>1, <3>2, <5>2, WriteOn, EndOver, GotoOn DEF InsertMovie, UpdateMovie, AfterUpdate, AfterDetail, Over, On
        <5>3. CASE \/ InsertLinks(r) \/ MoveFile(r) \/ DeleteTemp(r)
                   \/ UpdateDetail(r) \/ Unlink(r) \/ Link(r) \/ Fail(r)
          BY <1>1, <3>2, <5>3, EndOver, GotoOn
             DEF InsertLinks, MoveFile, DeleteTemp, UpdateDetail, AfterDetail, Unlink, Link, Fail, Over, On
        <5> QED BY <1>3, <2>4, <4>1, <4>2, <4>4, <5>1, <5>2, <5>3 DEF Act, Step
      <4> QED BY <1>2, <4>3, <4>5
    <3> QED BY <1>1, <2>1, <3>1, <3>2 DEF AnswerIsKept
  <2> QED BY <2>2, <2>3, <2>4
<1>4. ASSUME NEW g, Removal(g) PROVE AnswerIsKept'
  BY <1>1, <1>4 DEF Removal, RemoveGenre, AwaitLinks, SpareGenre, RemoveDirector, past, AnswerIsKept
<1>5. CASE Crash
  <2>1. movies' = movies /\ gone' = gone \cup {req[n].id : n \in Committing}
    BY <1>5 DEF Crash, tables
  <2>2. ASSUME NEW n \in Requests, InFlight(n), req'[n].op = "create"
        PROVE  IF req'[n].answer \in {"ok", "late"} THEN req'[n].id \in movies' \cup gone' ELSE req'[n].id \notin movies'
    <3>1. req[n].op = "create" /\ req'[n].id = req[n].id /\ req'[n].answer = req[n].answer
      BY <1>1, <1>5, <2>2, CrashOver DEF Over
    <3>2. req[n].pc = "commit" => n \in Committing
      BY <3>1 DEF Committing
    <3> QED BY <1>2, <2>1, <2>2, <3>1, <3>2
  <2>3. ASSUME NEW n \in Requests, ~InFlight(n) PROVE req'[n] = req[n]
    BY <1>1, <1>5, <2>3, CrashOver
  <2> QED BY <1>1, <2>1, <2>2, <2>3 DEF AnswerIsKept
<1>6. CASE UNCHANGED vars
  BY <1>1, <1>6 DEF vars, tables, past, AnswerIsKept
<1> QED BY <1>3, <1>4, <1>5, <1>6 DEF Next, Act, Begin, Removal

---------------------------------------------------------------------------
(* The invariant, and the theorems *)

LEMMA InitInv == Init => Inv
<1> SUFFICES ASSUME Init PROVE Inv
  OBVIOUS
<1> DEFINE n == Len(Catalog)
<1>1. n \in 0..MaxId /\ \A i \in 1..n : Catalog[i] \in Posts
  BY CatalogAssumption
<1>2. /\ movies = 1..n /\ details = 1..n /\ nextId = n + 1 /\ \A i \in 1..n : i \in Ids /\ row[i] = Catalog[i]
      /\ stored = {Catalog[i].file : i \in 1..n} /\ temp = Files \ stored
      /\ genres = Genres /\ directors = Directors /\ doomed = {} /\ prod \in BOOLEAN /\ cut = {} /\ gone = {}
  BY <1>1, CatalogAssumption DEF Init, Ids
<1>3. \A r \in Requests : /\ req[r] \in Request
                          /\ req[r].pc = "idle" /\ req[r].op = "create" /\ req[r].id = 0 /\ req[r].answer = "none"
  BY CatalogAssumption DEF Init, Request, PCs, Answers
<1>4. NoRow \in Row /\ \A i \in 1..n : Catalog[i] \in Row
  BY <1>1, CatalogAssumption DEF NoRow
<1>5. TypeOK
  <2>1. row \in [Ids -> Row]
    BY <1>4, CatalogAssumption DEF Init, Ids
  <2>2. req \in [Requests -> Request]
    BY <1>3 DEF Init
  <2>3. stored \subseteq Files
    BY <1>1, <1>2, PostTyped
  <2> QED BY <1>1, <1>2, <2>1, <2>2, <2>3, CatalogAssumption DEF TypeOK, Ids
<1>6. IdsSuffice
  <2>1. Undrawn = {}
    BY <1>3 DEF Undrawn, InFlight
  <2> QED BY <1>1, <1>2, <2>1, FS_EmptySet, CatalogAssumption DEF IdsSuffice
<1>7. RequestsInPlace /\ IdsDrawn /\ TargetsSettled
  BY <1>1, <1>2, <1>3, CatalogAssumption DEF RequestsInPlace, IdsDrawn, TargetsSettled, InFlight
<1>8. \A r \in Requests : ~Wrote(r) /\ ~Moved(r) /\ ~Linked(r)
  BY <1>3 DEF Wrote, Moved, Linked
<1>9. ReferencesHeld /\ FilesHeld /\ TitlesHeld
  BY <1>2, <1>8 DEF ReferencesHeld, FilesHeld, TitlesHeld
<1>10. DetailsOwned /\ RemovedStaysRemoved /\ AnswerIsKept
  BY <1>2, <1>3 DEF DetailsOwned, RemovedStaysRemoved, AnswerIsKept
<1>11. RowsWhole
  BY <1>1, <1>2, PostTyped DEF RowsWhole
<1>12. FilesInPlace /\ TitlesUnique
  BY <1>1, <1>2, CatalogAssumption DEF FilesInPlace, TitlesUnique
<1> QED BY <1>5, <1>6, <1>7, <1>9, <1>10, <1>11, <1>12 DEF Inv, CatalogInductive

LEMMA NextInv == Inv /\ [Next]_vars => Inv'
BY TypeStep, PlaceStep, SufficeStep, IdsStep, TargetsStep, ReferencesStep, WholeStep, DetailsStep, FilesStep, TitlesStep,
   AnswersStep DEF Inv, CatalogInductive

LEMMA InvHolds == Spec => []Inv
BY InitInv, NextInv, PTL DEF Spec

\* Tables, disk and requests keep their types: the sequence of ids lasts for every
\* creation that was begun, and whatever is committed is a whole row.
THEOREM TypeCorrect == Spec => []TypeOK
BY InvHolds, PTL DEF Inv

\* A detail without its movie belongs to a removal that is between its two statements,
\* or was cut off there.
THEOREM DetailsAreOwned == Spec => []DetailsOwned
BY InvHolds, PTL DEF Inv

\* Each movie has its detail, its director and its genres, whatever removes those while
\* a transaction refers to them.
THEOREM RowsAreWhole == Spec => []RowsWhole
BY InvHolds, PTL DEF Inv

\* A movie has its file in public/movie, in either storage, and on the disk has it alone.
THEOREM FilesAreInPlace == Spec => []FilesInPlace
BY InvHolds, PTL DEF Inv

\* No two movies have one title, although titles wait uncommitted.
THEOREM TitlesAreUnique == Spec => []TitlesUnique
BY InvHolds, PTL DEF Inv

\* What a removal has answered is gone stays gone.
THEOREM RemovedIsGone == Spec => []RemovedStaysRemoved
BY InvHolds, PTL DEF Inv

\* What POST /movie answered holds once its COMMIT is through.
THEOREM AnswersAreKept == Spec => []AnswerIsKept
BY InvHolds, PTL DEF Inv

\* A patch that nobody overtook leaves exactly the genres it names.
THEOREM PatchesSetGenres == Spec => PatchSetsGenres
<1>1. ASSUME Inv, [Next]_vars, NEW r \in Requests,
             req[r].pc = "commit", req'[r].pc = "readUpdated", Given(r, "genres"),
             req[r].id \in movies, req[r].old = row[req[r].id].genres
      PROVE  row'[req[r].id].genres = req[r].body.genres
  <2>1. TypeOK /\ InFlight(r)
    BY <1>1 DEF Inv, InFlight
  <2>2. CommitUpdate(r)
    <3>1. ~Crash
      BY <1>1, <2>1, CrashOver DEF Over
    <3>2. Act(r)
      <4>1. \A g : Removal(g) => req' = req
        BY DEF Removal, RemoveGenre, AwaitLinks, SpareGenre, RemoveDirector
      <4>2. \A n \in Requests : Act(n) => n = r
        BY <1>1, <2>1, OthersStay
      <4> QED BY <1>1, <3>1, <4>1, <4>2 DEF Next, Act, Begin, Removal, vars
    <3>3. ~Begin(r)
      BY <2>1 DEF Begin, StartCreate, StartUpdate, StartRemove, Start
    <3> QED BY <1>1, <3>2, <3>3, Entered DEF Act
  <2>3. req[r].hit /\ req[r].id \in Ids
    BY <1>1, <2>1, <2>2, Places, TargetIs DEF CommitUpdate, Target
  <2>4. Patched(r).genres = Kept(r) \cup req[r].body.genres
    BY <1>1 DEF Patched, RowFields
  <2>5. Kept(r) = {}
    BY <1>1 DEF Kept
  <2> HIDE DEF Patched
  <2>6. row'[req[r].id] = Patched(r)
    BY <2>1, <2>2, <2>3 DEF CommitUpdate, TypeOK
  <2> QED BY <2>4, <2>5, <2>6
<1>2. Inv /\ [Next]_vars =>
        [\A r \in Requests :
           LET i == req[r].id
           IN  /\ req[r].pc = "commit" /\ req'[r].pc = "readUpdated"
               /\ Given(r, "genres") /\ i \in movies /\ req[r].old = row[i].genres
               => row'[i].genres = req[r].body.genres]_vars
  BY <1>1
<1> QED BY <1>2, InvHolds, PTL DEF Spec, PatchSetsGenres

\* Whoever waits for a row or a title waits for a transaction that has written, and such a
\* one waits for nothing but a genre that is being deleted; that removal waits for a patch
\* past its DELETE of links.  So a circle needs a patch that waits between its two statements.
THEOREM SomebodyAlwaysMoves == Spec => []SomebodyMoves
<1>1. ASSUME NEW r \in Requests, InFlight(r),
             \A n \in Requests : InFlight(n) => Waits(n),
             \A g \in doomed : \E q \in Requests : Unlinked(q, g)
      PROVE  \E q \in Requests : req[q].pc = "link" /\ GenresDoomed(q)
  <2>1. ASSUME NEW q \in Requests, req[q].pc \in {"unlink", "link", "commit"}
        PROVE  req[q].pc = "link" /\ GenresDoomed(q)
    BY <1>1, <2>1 DEF InFlight, Waits
  <2>2. ASSUME NEW n \in Requests, GenresDoomed(n)
        PROVE  \E q \in Requests : req[q].pc = "link" /\ GenresDoomed(q)
    <3>1. PICK g \in doomed : TRUE
      BY <2>2 DEF GenresDoomed
    <3>2. PICK q \in Requests : Unlinked(q, g)
      BY <1>1, <3>1
    <3> QED BY <2>1, <3>2 DEF Unlinked
  <2>3. ASSUME NEW i, DetailLocked(i)
        PROVE  \E q \in Requests : req[q].pc = "link" /\ GenresDoomed(q)
    BY <2>1, <2>3 DEF DetailLocked
  <2>4. ASSUME NEW q \in Requests, Wrote(q)
        PROVE  \E n \in Requests : req[n].pc = "link" /\ GenresDoomed(n)
    <3>1. Waits(q)
      BY <1>1, <2>4 DEF Wrote, InFlight
    <3> QED BY <2>2, <2>3, <2>4, <3>1 DEF Wrote, Waits
  <2>5. Waits(r)
    BY <1>1
  <2> QED BY <2>2, <2>3, <2>4, <2>5 DEF Waits, TitleContended, Locked
<1>2. SomebodyMoves
  BY <1>1 DEF SomebodyMoves
<1> QED BY <1>2, PTL

---------------------------------------------------------------------------
(* The atomic catalogue *)

Fates  == [n \in Requests |-> Fate(req[n])]
Askeds == [n \in Requests |-> Asked(req[n])]
Used   == {i \in Ids : Settled(i)}

\* where the atomic catalogue has a request in flight
From(r) == CASE req[r].pc = "deleteDetail" -> "half"
             [] req[r].pc = "readUpdated" -> "acted"
             [] OTHER -> "pending"

\* What the atomic catalogue knows of a request in flight.
LEMMA AskedIs ==
  ASSUME Inv, NEW r \in Requests, InFlight(r)
  PROVE  /\ Fates[r] = From(r)
         /\ req[r].pc # "readUpdated" =>
              Askeds[r] = [op |-> req[r].op, id |-> IF req[r].op = "create" THEN 0 ELSE req[r].id,
                           body |-> req[r].body]
<1>1. Fates[r] = Fate(req[r]) /\ Askeds[r] = Asked(req[r])
  BY DEF Askeds, Fates
<1> QED BY <1>1 DEF Asked, Fate, From, InFlight

LEMMA AskedFields ==
  ASSUME Inv, NEW r \in Requests, InFlight(r), req[r].pc # "readUpdated"
  PROVE  /\ Askeds[r].op = req[r].op /\ Askeds[r].body = req[r].body
         /\ req[r].op = "create" => Askeds[r].id = 0
         /\ req[r].op # "create" => Askeds[r].id = req[r].id
<1>1. Askeds[r] = [op |-> req[r].op, id |-> IF req[r].op = "create" THEN 0 ELSE req[r].id,
                   body |-> req[r].body]
  BY AskedIs
<1> QED BY <1>1

\* A request that asks for nothing more has its fate told.
LEMMA FateRefines ==
  ASSUME Inv, NEW r \in Requests, Act(r), InFlight(r), NEW how,
         Fate(req'[r]) = how, Asked(req'[r]) = NoBody
  PROVE  Atomic!Ends(r, From(r), how)
<1>1. \A n \in Requests \ {r} : req'[n] = req[n]
  BY OthersStay DEF Inv
<1>2. Fates' = [Fates EXCEPT ![r] = how]
  BY <1>1 DEF Fates
<1>3. Askeds' = [Askeds EXCEPT ![r] = NoBody]
  BY <1>1 DEF Askeds
<1> QED BY <1>2, <1>3, AskedIs DEF Atomic!Ends, Fates, Askeds

LEMMA EndRefines ==
  ASSUME Inv, NEW r \in Requests, Act(r), InFlight(r), NEW how, Over(r, how)
  PROVE  Atomic!Ends(r, From(r), Outcome[how])
<1>1. Fate(req'[r]) = Outcome[how] /\ Asked(req'[r]) = NoBody
  BY DEF Over, Fate, Asked
<1> QED BY <1>1, FateRefines

\* A request that goes on to its next statement has done nothing yet that can be seen.
LEMMA GoesOn ==
  ASSUME Inv, NEW r \in Requests, Act(r), InFlight(r), From(r) = "pending",
         NEW pc, pc \notin {"idle", "readUpdated", "done", "deleteDetail"}, On(r, pc),
         req[r].op = "create" \/ req'[r].id = req[r].id, UNCHANGED tables
  PROVE  Atomic!Skip
<1>1. \A n \in Requests \ {r} : req'[n] = req[n]
  BY OthersStay DEF Inv
<1>2. Fate(req'[r]) = Fate(req[r]) /\ Asked(req'[r]) = Asked(req[r])
  BY DEF On, Fate, From, Asked, InFlight
<1>3. Fates' = Fates /\ Askeds' = Askeds
  BY <1>1, <1>2 DEF Fates, Askeds
<1> QED BY <1>3 DEF Atomic!Skip, Atomic!tables, tables, Fates, Askeds

\* Every request is asked as it is started.
LEMMA BeginRefines ==
  ASSUME Inv, NEW r \in Requests, Begin(r)
  PROVE  Atomic!Ask(r)
<1> DEFINE q == Asked(req'[r])
<1>1. \A n \in Requests \ {r} : req'[n] = req[n]
  BY OthersStay DEF Inv, Act
<1>2. ~InFlight(r) /\ UNCHANGED tables
  BY DEF Begin, StartCreate, StartUpdate, StartRemove, Start
<1>3. /\ req'[r].pc \in {"findDirector", "findMovie"}
      /\ q = [op |-> req'[r].op, id |-> IF req'[r].op = "create" THEN 0 ELSE req'[r].id, body |-> req'[r].body]
      /\ \/ req'[r].op = "create" /\ req'[r].body \in Posts
         \/ req'[r].op = "update" /\ req'[r].id \in Ids /\ req'[r].body \in Patches
         \/ req'[r].op = "remove" /\ req'[r].id \in Ids /\ req'[r].body = NoBody
  BY BeginOn DEF Inv, Began, Asked
<1>4. q \in Atomic!Asked
  BY <1>3 DEF Atomic!Asked
<1>5. Fate(req'[r]) = "pending" /\ Fate(req[r]) \notin Atomic!Open
  <2>1. req[r].pc \in {"idle", "done"} /\ req[r].answer \in Answers
    BY <1>2 DEF InFlight, Inv, TypeOK, Request
  <2>2. Outcome[req[r].answer] \in {"done", "refused", "failed"}
    BY <2>1 DEF Outcome, Answers
  <2> QED BY <1>3, <2>1, <2>2 DEF Fate, Atomic!Open
<1> HIDE DEF q
<1>6. Fates' = [Fates EXCEPT ![r] = "pending"] /\ Fates[r] \notin Atomic!Open
  <2>1. Fates' = [Fates EXCEPT ![r] = "pending"]
    <3>1. Fate(req'[r]) = "pending"
      BY <1>5
    <3> QED BY <1>1, <3>1 DEF Fates
  <2>2. Fates[r] = Fate(req[r])
    BY DEF Fates
  <2> QED BY <1>5, <2>1, <2>2
<1>7. Askeds' = [Askeds EXCEPT ![r] = q] /\ Askeds'[r] = q
  <2>1. Asked(req'[r]) = q
    BY DEF q
  <2> QED BY <1>1, <2>1 DEF Askeds
<1> QED BY <1>2, <1>4, <1>6, <1>7 DEF Atomic!Ask, Atomic!tables, tables, Fates, Askeds

\* What the body says fits, or does not, alike in both.
LEMMA SameFit ==
  ASSUME Inv, NEW r \in Requests, InFlight(r), NEW i
  PROVE  Atomic!Fits(i, req[r].body) =
           /\ Given(r, "title") => ~TitleTaken(i, req[r].body.title)
           /\ Given(r, "director") => req[r].body.director \in directors
           /\ Given(r, "genres") => req[r].body.genres \subseteq genres
BY DEF Atomic!Fits, Given, TitleTaken

\* The reasons for which requests are refused.
LEMMA RefuseRefines ==
  ASSUME Inv, NEW r \in Requests, Act(r), InFlight(r), From(r) = "pending", UNCHANGED tables,
         Over(r, "notFound") \/ Over(r, "conflict"),
         \/ req[r].op # "create" /\ req[r].id \notin movies
         \/ req[r].op = "remove"
         \/ req[r].op = "create" /\ ~Atomic!Fits(0, req[r].body)
         \/ req[r].op = "update" /\ ~Atomic!Fits(req[r].id, req[r].body)
         \/ /\ req[r].op = "update" /\ Given(r, "genres")
            /\ row[req[r].id].genres \cap req[r].body.genres # {}
  PROVE  Atomic!Refuse(r)
<1>1. Outcome.notFound = "refused" /\ Outcome.conflict = "refused"
  BY DEF Outcome
<1>2. Atomic!Ends(r, "pending", "refused")
  BY <1>1, EndRefines
<1>3. req[r].op \in {"create", "update", "remove"}
  BY DEF Inv, TypeOK, Request
<1>4. \/ Askeds[r].op = "update" /\ Askeds[r].id \notin movies
      \/ Askeds[r].op = "remove"
      \/ Askeds[r].op # "remove" /\ ~Atomic!Fits(Askeds[r].id, Askeds[r].body)
      \/ /\ Askeds[r].op = "update" /\ "genres" \in DOMAIN Askeds[r].body
         /\ row[Askeds[r].id].genres \cap Askeds[r].body.genres # {}
  BY <1>3, AskedFields DEF From, Given
<1> QED BY <1>2, <1>4 DEF Atomic!Refuse, Atomic!tables, tables, Askeds

\* The lookups before a transaction writes.
LEMMA FindRefines ==
  ASSUME Inv, NEW r \in Requests, FindMovie(r) \/ FindDirector(r) \/ FindGenres(r)
  PROVE  Atomic!Refuse(r) \/ Atomic!Skip
<1>1. TypeOK /\ Act(r) /\ InFlight(r) /\ UNCHANGED tables /\ From(r) = "pending"
  BY DEF Inv, Act, Step, FindMovie, FindDirector, FindGenres, From, InFlight
<1>2. CASE FindMovie(r)
  <2>1. CASE Over(r, "notFound") /\ req[r].id \notin movies
    <3>1. req[r].op # "create"
      BY <1>1, <1>2, Places DEF FindMovie, InPlace, CreateInPlace, UpdateInPlace, RemoveInPlace
    <3> QED BY <1>1, <2>1, <3>1, RefuseRefines
  <2>2. CASE \E pc \in {"deleteMovie", "findDirector"} : On(r, pc) /\ req'[r].id = req[r].id
    BY <1>1, <2>2, GoesOn
  <2>3. End(r, "notFound") => Over(r, "notFound")
    BY <1>1, EndOver
  <2>4. Over(r, "notFound") => req[r].id \notin movies
    <3>1. ASSUME req[r].id \in movies PROVE req'[r].pc \in {"deleteMovie", "findDirector"}
      <4>1. CASE Goto(r, "deleteMovie")
        BY <1>1, <4>1, GotoOn DEF On
      <4>2. CASE req' = [req EXCEPT ![r].pc = "findDirector", ![r].old = row[req[r].id].genres]
        <5>1. req[r] \in Request /\ req'[r] = [req[r] EXCEPT !.pc = "findDirector", !.old = row[req[r].id].genres]
          BY <1>1, <4>2 DEF TypeOK
        <5> QED BY <5>1 DEF Request
      <4> QED BY <1>2, <3>1, <4>1, <4>2 DEF FindMovie
    <3> QED BY <3>1 DEF Over
  <2> QED BY <1>1, <1>2, <2>1, <2>2, <2>4, FoundOn
<1>3. CASE FindDirector(r)
  <2>1. CASE Over(r, "notFound") /\ ~(Given(r, "director") => req[r].body.director \in directors)
    <3>1. req[r].op # "remove" /\ req[r].op \in {"create", "update", "remove"}
      BY <1>1, <1>3, Places DEF FindDirector, InPlace, CreateInPlace, UpdateInPlace, RemoveInPlace
    <3> QED BY <1>1, <2>1, <3>1, SameFit, RefuseRefines
  <2>2. CASE Goto(r, "findGenres")
    BY <1>1, <2>2, GotoOn, GoesOn
  <2> QED BY <1>1, <1>3, <2>1, <2>2, EndOver DEF FindDirector
<1>4. CASE FindGenres(r)
  <2>1. CASE Over(r, "notFound") /\ ~(Given(r, "genres") => req[r].body.genres \subseteq genres)
    <3>1. req[r].op # "remove" /\ req[r].op \in {"create", "update", "remove"}
      BY <1>1, <1>4, Places DEF FindGenres, InPlace, CreateInPlace, UpdateInPlace, RemoveInPlace
    <3> QED BY <1>1, <2>1, <3>1, SameFit, RefuseRefines
  <2>2. CASE \E pc \in {"insertDetail", "updateMovie"} : Goto(r, pc)
    BY <1>1, <2>2, GotoOn, GoesOn
  <2> QED BY <1>1, <1>4, <2>1, <2>2, EndOver DEF FindGenres
<1> QED BY <1>2, <1>3, <1>4

\* The database refuses to write a movie for a reason only.
LEMMA WriteRefusal ==
  ASSUME Inv, NEW r \in Requests, NEW pc, pc # "done", WriteMovie(r, pc), Over(r, "conflict")
  PROVE  ~(/\ Given(r, "title") => ~TitleTaken(req[r].id, req[r].body.title)
           /\ Given(r, "director") => req[r].body.director \in directors)
<1>1. req[r] \in Request
  BY DEF Inv, TypeOK
<1>2. CASE req' = [req EXCEPT ![r].pc = pc, ![r].hit = TRUE]
  <2>1. req'[r] = [req[r] EXCEPT !.pc = pc, !.hit = TRUE]
    BY <1>2 DEF Inv, TypeOK
  <2>2. req'[r].pc = pc
    BY <1>1, <2>1 DEF Request
  <2> QED BY <2>2 DEF Over
<1> QED BY <1>2 DEF WriteMovie

\* A creation up to its COMMIT.
LEMMA InsertRefines ==
  ASSUME Inv, NEW r \in Requests,
         InsertDetail(r) \/ InsertMovie(r) \/ InsertLinks(r) \/ MoveFile(r) \/ DeleteTemp(r) \/ ReadMovie(r)
  PROVE  Atomic!Refuse(r) \/ Atomic!Fail(r) \/ Atomic!Skip
<1>1. TypeOK /\ Act(r) /\ InFlight(r) /\ UNCHANGED tables /\ From(r) = "pending"
  BY DEF Inv, Act, Step, InsertDetail, InsertMovie, WriteMovie, InsertLinks, MoveFile, DeleteTemp, ReadMovie, From, InFlight,
         tables
<1>2. req[r].op = "create" /\ req[r].body \in Posts
  BY <1>1, Places DEF InsertDetail, InsertMovie, InsertLinks, MoveFile, DeleteTemp, ReadMovie,
                      InPlace, CreateInPlace, UpdateInPlace, RemoveInPlace
<1>3. CASE InsertDetail(r) \/ ReadMovie(r)
  BY <1>1, <1>2, <1>3, DrawOn, ReadOn, GoesOn
<1>4. CASE InsertMovie(r)
  <2>1. CASE /\ Over(r, "conflict")
             /\ ~(/\ Given(r, "title") => ~TitleTaken(req[r].id, req[r].body.title)
                  /\ Given(r, "director") => req[r].body.director \in directors)
    <3>1. ~Atomic!Fits(0, req[r].body)
      <4>1. TitleTaken(req[r].id, req[r].body.title) => TitleTaken(0, req[r].body.title)
        <5>1. 0 \notin movies
          BY <1>1 DEF TypeOK, Ids
        <5> QED BY <5>1 DEF TitleTaken
      <4>2. Atomic!Fits(0, req[r].body)
              => /\ Given(r, "title") => ~TitleTaken(0, req[r].body.title)
                 /\ Given(r, "director") => req[r].body.director \in directors
        BY <1>1, SameFit
      <4> QED BY <2>1, <4>1, <4>2
    <3> QED BY <1>1, <1>2, <2>1, <3>1, RefuseRefines
  <2>2. CASE On(r, "insertLinks")
    BY <1>1, <1>2, <2>2, GoesOn
  <2>3. WriteMovie(r, "insertLinks")
    BY <1>4 DEF InsertMovie
  <2> QED BY <1>1, <2>1, <2>2, <2>3, WriteRefusal, WriteOn
<1>5. CASE InsertLinks(r)
  <2>1. CASE Over(r, "conflict") /\ ~(req[r].body.genres \subseteq genres)
    <3>1. Given(r, "genres")
      BY <1>2, PostTyped DEF Given, RowFields
    <3> QED BY <1>1, <1>2, <2>1, <3>1, SameFit, RefuseRefines
  <2>2. CASE Goto(r, "moveFile")
    BY <1>1, <2>2, GotoOn, GoesOn
  <2> QED BY <1>1, <1>5, <2>1, <2>2, EndOver DEF InsertLinks
<1>6. CASE MoveFile(r)
  <2>1. CASE Over(r, "error")
    <3>1. Atomic!Ends(r, "pending", "failed")
      BY <1>1, <2>1, EndRefines DEF Outcome
    <3> QED BY <1>1, <3>1 DEF Atomic!Fail, Atomic!Open, Atomic!tables, tables
  <2>2. CASE \E pc \in {"deleteTemp", "readMovie"} : Goto(r, pc)
    BY <1>1, <2>2, GotoOn, GoesOn
  <2> QED BY <1>1, <1>6, <2>1, <2>2, EndOver DEF MoveFile
<1>7. CASE DeleteTemp(r)
  BY <1>1, <1>7, GotoOn, GoesOn DEF DeleteTemp
<1> QED BY <1>3, <1>4, <1>5, <1>6, <1>7

\* A creation takes effect as its transaction is committed: what it has written, linked
\* and moved fits there still.
LEMMA CreateRefines ==
  ASSUME Inv, NEW r \in Requests, CommitCreate(r)
  PROVE  Atomic!Act(r)
<1> SUFFICES ASSUME NEW i, i = req[r].id, NEW b, b = req[r].body
             PROVE  Atomic!Act(r)
  OBVIOUS
<1>1. TypeOK /\ Act(r) /\ InFlight(r) /\ req[r].op = "create" /\ req[r].pc = "commit"
  BY DEF Inv, Act, Step, CommitCreate, InFlight
<1>2. req[r].answer \in {"ok", "late"} /\ b \in Posts /\ i \in Ids /\ i # 0
  BY <1>1, Places, CatalogAssumption DEF InPlace, CreateInPlace, UpdateInPlace, RemoveInPlace, Ids
<1>3. Over(r, req[r].answer) /\ nextId' = nextId
  BY <1>1, EndOver DEF CommitCreate
<1>4. \E how \in {"done", "failed"} : Atomic!Ends(r, "pending", how)
  <2>1. Outcome[req[r].answer] \in {"done", "failed"}
    BY <1>2 DEF Outcome
  <2> QED BY <1>1, <1>3, <2>1, EndRefines DEF From
<1>5. i \in Used' \ Used
  <2>1. Settled(i)'
    <3>1. i \in 1..(nextId' - 1)
      BY <1>1, <1>2, <1>3, CatalogAssumption DEF Inv, CatalogInductive, IdsDrawn, TypeOK, Ids
    <3>2. \A q \in Requests : (InFlight(q) /\ req[q].op = "create")' => req'[q].id # i
      <4>1. \A q \in Requests \ {r} : req'[q] = req[q] /\ (req[q].op = "create" => req[q].id # i)
        BY <1>1, <1>2, OthersStay DEF Inv, CatalogInductive, IdsDrawn
      <4> QED BY <1>3, <4>1 DEF Over, InFlight
    <3> QED BY <3>1, <3>2 DEF Settled
  <2>2. ~Settled(i)
    BY <1>1 DEF Settled
  <2> QED BY <1>2, <2>1, <2>2 DEF Used
<1>6. Atomic!Fits(i, b)
  <2>1. Wrote(r) /\ (Given(r, "genres") => Linked(r))
    BY <1>1 DEF Wrote, Linked
  <2>2. Given(r, "title") => ~TitleTaken(i, b.title)
    BY <2>1 DEF Inv, CatalogInductive, TitlesHeld
  <2>3. /\ Given(r, "director") => b.director \in directors
        /\ Given(r, "genres") => b.genres \subseteq genres
    BY <2>1 DEF Inv, CatalogInductive, ReferencesHeld
  <2> QED BY <1>1, <2>2, <2>3, SameFit
<1>7. prod \/ \A j \in movies : row[j].file # b.file
  BY <1>1 DEF Inv, CatalogInductive, FilesHeld, Moved
<1>8. /\ movies' = movies \cup {i} /\ details' = details \cup {i} /\ row' = [row EXCEPT ![i] = b]
      /\ UNCHANGED <<genres, directors>>
  BY DEF CommitCreate
<1>9. Askeds[r].op = "create" /\ Askeds[r].body = b
  BY <1>1, AskedFields
<1>10. Atomic!Create(r)
  BY <1>5, <1>6, <1>7, <1>8, <1>9 DEF Atomic!Create, Used, Askeds
<1> QED BY <1>4, <1>10 DEF Atomic!Act

\* A patch up to its COMMIT.
LEMMA UpdateRefines ==
  ASSUME Inv, NEW r \in Requests, UpdateMovie(r) \/ UpdateDetail(r) \/ Unlink(r) \/ Link(r)
  PROVE  Atomic!Refuse(r) \/ Atomic!Fail(r) \/ Atomic!Skip
<1>1. TypeOK /\ Act(r) /\ InFlight(r) /\ UNCHANGED tables /\ From(r) = "pending"
  BY DEF Inv, Act, Step, UpdateMovie, WriteMovie, UpdateDetail, Unlink, Link, From, InFlight
<1>2. req[r].op = "update" /\ (req[r].pc = "link" => Given(r, "genres"))
  BY <1>1, Places
     DEF UpdateMovie, UpdateDetail, Unlink, Link, InPlace, CreateInPlace, UpdateInPlace, RemoveInPlace, Given
<1>3. AfterUpdate(r) \in Updated /\ AfterDetail(r) \in Updated
  BY DEF AfterUpdate, AfterDetail
<1>4. CASE UpdateMovie(r)
  <2>1. CASE Over(r, "error")
    <3>1. Atomic!Ends(r, "pending", "failed")
      BY <1>1, <2>1, EndRefines DEF Outcome
    <3> QED BY <1>1, <3>1 DEF Atomic!Fail, Atomic!Open, Atomic!tables, tables
  <2>2. CASE WriteMovie(r, AfterUpdate(r))
    <3>1. CASE Over(r, "conflict")
      <4>1. ~(/\ Given(r, "title") => ~TitleTaken(req[r].id, req[r].body.title)
              /\ Given(r, "director") => req[r].body.director \in directors)
        BY <1>3, <2>2, <3>1, WriteRefusal
      <4> QED BY <1>1, <1>2, <3>1, <4>1, SameFit, RefuseRefines
    <3>2. CASE On(r, AfterUpdate(r)) /\ req'[r].id = req[r].id
      BY <1>1, <1>3, <3>2, GoesOn
    <3> QED BY <1>1, <2>2, <3>1, <3>2, WriteOn
  <2>3. CASE Goto(r, AfterUpdate(r))
    BY <1>1, <1>3, <2>3, GotoOn, GoesOn
  <2> QED BY <1>1, <1>4, <2>1, <2>2, <2>3, EndOver DEF UpdateMovie
<1>5. CASE Link(r)
  <2>1. CASE Over(r, "conflict") /\ ~(req[r].body.genres \subseteq genres)
    <3>1. ~Atomic!Fits(req[r].id, req[r].body)
      BY <1>1, <1>2, <1>5, <2>1, SameFit DEF Link
    <3> QED BY <1>1, <1>2, <2>1, <3>1, RefuseRefines
  <2>2. CASE Over(r, "conflict") /\ ~req[r].hit
    <3>1. req[r].id \notin movies
      BY <1>2, <1>5, <2>2, TargetIs DEF Link, Target
    <3> QED BY <1>1, <1>2, <2>2, <3>1, RefuseRefines
  <2>3. CASE Over(r, "conflict") /\ req[r].body.genres \cap Kept(r) # {}
    <3>1. row[req[r].id].genres \cap req[r].body.genres # {}
      BY <2>3 DEF Kept
    <3> QED BY <1>1, <1>2, <1>5, <2>3, <3>1, RefuseRefines DEF Link
  <2>4. CASE Goto(r, "commit")
    BY <1>1, <2>4, GotoOn, GoesOn
  <2> QED BY <1>1, <1>5, <2>1, <2>2, <2>3, <2>4, EndOver DEF Link
<1>6. CASE UpdateDetail(r) \/ Unlink(r)
  BY <1>1, <1>3, <1>6, GotoOn, GoesOn DEF UpdateDetail, Unlink
<1> QED BY <1>4, <1>5, <1>6

\* A patch takes effect as its transaction is committed, on the movie as it is then, or
\* on none, when the movie was gone at its UPDATE already.
LEMMA PatchRefines ==
  ASSUME Inv, NEW r \in Requests, CommitUpdate(r)
  PROVE  Atomic!Act(r)
<1> DEFINE i == req[r].id
           b == req[r].body
<1>1. TypeOK /\ Act(r) /\ InFlight(r) /\ req[r].op = "update" /\ req[r].pc = "commit"
  BY DEF Inv, Act, Step, CommitUpdate, InFlight
<1>2. i \in Ids /\ "file" \notin DOMAIN b /\ (req[r].hit <=> i \in movies) /\ req[r].old \in SUBSET Genres
  BY <1>1, Places, TargetIs DEF InPlace, CreateInPlace, UpdateInPlace, RemoveInPlace, Target, Request
<1>3. Atomic!Ends(r, "pending", "acted")
  BY <1>1, CommittedOn, FateRefines DEF Fate, Asked, From
<1>4. Askeds[r].op = "update" /\ Askeds[r].id = i /\ Askeds[r].body = b
  BY <1>1, AskedFields
<1>5. UNCHANGED <<movies, details, genres, directors>>
  BY DEF CommitUpdate
<1>6. CASE req[r].hit
  <2>1. Atomic!Fits(i, b)
    <3>1. Wrote(r) /\ (Given(r, "genres") => Linked(r))
      BY <1>1, <1>6 DEF Wrote, Linked
    <3>2. Given(r, "title") => ~TitleTaken(i, b.title)
      BY <3>1 DEF Inv, CatalogInductive, TitlesHeld
    <3>3. /\ Given(r, "director") => b.director \in directors
          /\ Given(r, "genres") => b.genres \subseteq genres
      BY <3>1 DEF Inv, CatalogInductive, ReferencesHeld
    <3> QED BY <1>1, <3>2, <3>3, SameFit
  <2>2. Patched(r) = Atomic!Patched(row[i], b, req[r].old)
    <3>1. DOMAIN row[i] = RowFields
      BY <1>1, <1>2 DEF TypeOK, Row, RowFields
    <3> QED BY <3>1 DEF Patched, Atomic!Patched, Given, Kept
  <2>3. row' = [row EXCEPT ![i] = Patched(r)]
    BY <1>6 DEF CommitUpdate
  <2>4. row' = [row EXCEPT ![i] = Atomic!Patched(row[i], b, req[r].old)]
    BY <2>2, <2>3
  <2> HIDE DEF i, b
  <2> QED BY <1>2, <1>3, <1>4, <1>5, <1>6, <2>1, <2>4 DEF Atomic!Act, Atomic!Patch, Askeds
<1>7. CASE ~req[r].hit
  <2>1. row' = row
    BY <1>7 DEF CommitUpdate
  <2> HIDE DEF i, b
  <2> QED BY <1>2, <1>3, <1>4, <1>5, <1>7, <2>1 DEF Atomic!Act, Atomic!Miss, Atomic!tables, Askeds
<1> QED BY <1>6, <1>7

LEMMA AnswerRefines ==
  ASSUME Inv, NEW r \in Requests, ReadUpdated(r)
  PROVE  Atomic!Answer(r) \/ Atomic!Fail(r)
<1>1. Act(r) /\ InFlight(r) /\ From(r) = "acted" /\ UNCHANGED tables
  BY DEF Act, Step, ReadUpdated, From, InFlight
<1>2. PICK how \in {"ok", "late"} : Over(r, how)
  BY ReplyOver DEF Inv, ReadUpdated
<1>3. Outcome[how] \in {"done", "failed"}
  BY <1>2 DEF Outcome
<1>4. Atomic!Ends(r, "acted", Outcome[how])
  BY <1>1, <1>2, EndRefines
<1> QED BY <1>1, <1>3, <1>4 DEF Atomic!Answer, Atomic!Fail, Atomic!Open, Atomic!tables, tables

\* A removal takes effect in its two statements.
LEMMA RemoveRefines ==
  ASSUME Inv, NEW r \in Requests, DeleteMovie(r) \/ DeleteDetail(r)
  PROVE  Atomic!Remove(r) \/ Atomic!Act(r) \/ Atomic!Refuse(r)
<1>1. TypeOK /\ Act(r) /\ InFlight(r)
  BY DEF Inv, Act, Step, DeleteMovie, DeleteDetail, InFlight
<1>2. req[r].op = "remove" /\ Askeds[r].op = "remove" /\ Askeds[r].id = req[r].id
  BY <1>1, Places, AskedFields DEF DeleteMovie, DeleteDetail, InPlace, CreateInPlace, UpdateInPlace, RemoveInPlace
<1>3. CASE DeleteMovie(r) /\ Goto(r, "deleteDetail") /\ movies' = movies \ {req[r].id} /\ row' = [row EXCEPT ![req[r].id] = NoRow]
  <2>1. On(r, "deleteDetail") /\ req'[r].id = req[r].id
    BY <1>1, <1>3, GotoOn
  <2>2. \A n \in Requests \ {r} : req'[n] = req[n]
    BY <1>1, OthersStay
  <2>3. Fate(req'[r]) = "half" /\ Fates[r] = "pending"
    <3>1. Fate(req'[r]) = "half"
      BY <2>1 DEF On, Fate
    <3>2. From(r) = "pending"
      BY <1>3 DEF From, DeleteMovie
    <3> QED BY <1>1, <3>1, <3>2, AskedIs
  <2>4. Asked(req'[r]) = Asked(req[r])
    <3>1. req[r].pc = "deleteMovie"
      BY <1>3 DEF DeleteMovie
    <3> QED BY <2>1, <3>1 DEF On, Asked
  <2>5. Fates' = [Fates EXCEPT ![r] = "half"] /\ Askeds' = Askeds
    BY <2>2, <2>3, <2>4 DEF Fates, Askeds
  <2>6. UNCHANGED <<details, genres, directors>>
    BY <1>3 DEF DeleteMovie
  <2> QED BY <1>2, <1>3, <2>3, <2>5, <2>6 DEF Atomic!Remove, Fates, Askeds
<1>4. CASE DeleteMovie(r) /\ End(r, "conflict") /\ UNCHANGED <<movies, row>>
  <2>1. Over(r, "conflict") /\ UNCHANGED tables
    BY <1>1, <1>4, EndOver DEF DeleteMovie, tables
  <2> QED BY <1>1, <1>2, <1>4, <2>1, RefuseRefines DEF DeleteMovie, From
<1>5. CASE DeleteDetail(r)
  <2>1. \E how \in {"done", "failed"} : Atomic!Ends(r, "half", how)
    <3>1. PICK how \in {"ok", "late"} : Over(r, how)
      BY <1>1, <1>5, ReplyOver DEF DeleteDetail
    <3>2. Outcome[how] \in {"done", "failed"} /\ From(r) = "half"
      BY <1>5, <3>1 DEF Outcome, From, DeleteDetail
    <3> QED BY <1>1, <3>1, <3>2, EndRefines
  <2>2. req[r].id \notin movies
    BY <1>5, TargetIs DEF DeleteDetail, Target
  <2>3. Atomic!RemoveDetail(r)
    BY <1>2, <1>5, <2>2 DEF Atomic!RemoveDetail, DeleteDetail, Askeds
  <2> QED BY <2>1, <2>3 DEF Atomic!Act
<1> QED BY <1>3, <1>4, <1>5 DEF DeleteMovie

LEMMA FailRefines ==
  ASSUME Inv, NEW r \in Requests, Fail(r)
  PROVE  Atomic!Fail(r)
<1>1. Act(r) /\ InFlight(r) /\ Over(r, "error") /\ UNCHANGED tables
  BY EndOver DEF Inv, Act, Fail
<1>2. Atomic!Ends(r, From(r), "failed")
  BY <1>1, EndRefines DEF Outcome
<1>3. \E from \in Atomic!Open : Atomic!Ends(r, from, "failed")
  BY <1>2 DEF From, Atomic!Open
<1> QED BY <1>1, <1>3 DEF Atomic!Fail, Atomic!tables, tables

LEMMA CrashRefines ==
  ASSUME Inv, Crash
  PROVE  Atomic!Crash
<1> DEFINE lost     == {r \in Requests : Fates[r] \in Atomic!Open}
           answered == {r \in Committing : req[r].answer = "ok"}
<1>1. \A r \in Requests : Fates[r] = Fate(req[r]) /\ Askeds[r] = Asked(req[r])
  BY DEF Fates, Askeds
<1>2. ASSUME NEW r \in Requests PROVE r \in lost <=> InFlight(r)
  <2>1. Outcome[req[r].answer] \in {"done", "refused", "failed"}
    BY DEF Inv, TypeOK, Request, Answers, Outcome
  <2> QED BY <1>1, <2>1 DEF Fate, InFlight, Atomic!Open
<1>3. ASSUME NEW r \in Requests, InFlight(r)
      PROVE  /\ Fate(req'[r]) = IF r \in answered THEN "done" ELSE "failed"
             /\ Asked(req'[r]) = NoBody
  <2>1. Over(r, req[r].answer)
    BY <1>3, CrashOver DEF Inv
  <2>2. req[r].answer \in IF r \in Committing THEN {"ok", "late"} ELSE {"none"}
    BY <1>3, Places DEF InPlace, Committing
  <2>3. Outcome[req[r].answer] = IF r \in answered THEN "done" ELSE "failed"
    BY <2>2 DEF Outcome
  <2> QED BY <2>1, <2>3 DEF Over, Fate, Asked
<1>4. ASSUME NEW r \in Requests, ~InFlight(r) PROVE req'[r] = req[r]
  BY <1>4, CrashOver DEF Inv
<1>5. answered \in SUBSET {r \in lost : Fates[r] = "pending" /\ Askeds[r].op = "create"}
  <2>1. ASSUME NEW r \in Committing PROVE r \in lost /\ Fates[r] = "pending" /\ Askeds[r].op = "create"
    <3>1. r \in Requests /\ InFlight(r) /\ req[r].op = "create" /\ req[r].pc = "commit"
      BY <2>1 DEF Committing, InFlight
    <3>2. Fates[r] = "pending"
      BY <3>1, AskedIs DEF From
    <3> QED BY <1>2, <3>1, <3>2, AskedFields
  <2> QED BY <2>1
<1>6. \A r \in answered : r \in Requests /\ InFlight(r)
  BY DEF Committing, InFlight
<1> HIDE DEF lost, answered
<1>7. Fates' = [r \in Requests |-> IF r \in answered THEN "done"
                                   ELSE IF r \in lost THEN "failed" ELSE Fates[r]]
  <2>1. ASSUME NEW r \in Requests
        PROVE  Fate(req'[r]) = IF r \in answered THEN "done" ELSE IF r \in lost THEN "failed" ELSE Fates[r]
    BY <1>1, <1>2, <1>3, <1>4, <1>6
  <2> QED BY <2>1 DEF Fates
<1>8. Askeds' = [r \in Requests |-> IF r \in lost THEN NoBody ELSE Askeds[r]]
  <2>1. ASSUME NEW r \in Requests
        PROVE  Asked(req'[r]) = IF r \in lost THEN NoBody ELSE Askeds[r]
    BY <1>1, <1>2, <1>3, <1>4
  <2> QED BY <2>1 DEF Askeds
<1>9. UNCHANGED <<movies, row, details, genres, directors>>
  BY DEF Crash
<1>10. lost = {r \in Requests : Fates[r] \in Atomic!Open}
  BY DEF lost
<1> QED BY <1>5, <1>7, <1>8, <1>9, <1>10 DEF Atomic!Crash, Atomic!tables, Fates, Askeds

\* A removal of a genre or a director is one of the atomic catalogue, or is not seen there:
\* a genre that is locked is still there for everyone who reads it.
LEMMA RemovalRefines ==
  ASSUME Inv, NEW g \in Genres \cup Directors,
         (g \in Genres /\ (RemoveGenre(g) \/ AwaitLinks(g) \/ SpareGenre(g))) \/ (g \in Directors /\ RemoveDirector(g))
  PROVE  Atomic!Next
<1>1. req' = req
  BY DEF RemoveGenre, AwaitLinks, SpareGenre, RemoveDirector
<1>2. Fates' = Fates /\ Askeds' = Askeds
  BY <1>1 DEF Fates, Askeds
<1>3. CASE g \in Genres /\ RemoveGenre(g)
  <2>1. Atomic!RemoveGenre(g)
    BY <1>2, <1>3 DEF RemoveGenre, Atomic!RemoveGenre, Fates, Askeds
  <2> QED BY <1>3, <2>1 DEF Atomic!Next
<1>4. CASE g \in Directors /\ RemoveDirector(g)
  <2>1. Atomic!RemoveDirector(g)
    BY <1>2, <1>4 DEF RemoveDirector, Atomic!RemoveDirector, Fates, Askeds
  <2> QED BY <1>4, <2>1 DEF Atomic!Next
<1>5. CASE AwaitLinks(g) \/ SpareGenre(g)
  <2>1. Atomic!Skip
    BY <1>2, <1>5 DEF AwaitLinks, SpareGenre, Atomic!Skip, Atomic!tables, Fates, Askeds
  <2> QED BY <2>1 DEF Atomic!Next
<1> QED BY <1>3, <1>4, <1>5

\* Every step of the catalogue is one of the atomic catalogue.
LEMMA StepRefines ==
  ASSUME Inv, [Next]_vars
  PROVE  [Atomic!Next /\ Used \subseteq Used' /\ UNCHANGED prod]_(Atomic!vars)
<1>1. Used \subseteq Used'
  BY SettledStays DEF Used
<1>2. UNCHANGED prod
  BY DEF Next, Step, vars, disk, Fail, StartCreate, StartUpdate, StartRemove, Start, FindMovie, FindDirector, FindGenres,
         InsertDetail, InsertMovie, WriteMovie, InsertLinks, MoveFile, DeleteTemp, ReadMovie, CommitCreate, UpdateMovie,
         UpdateDetail, Unlink, Link, CommitUpdate, ReadUpdated, DeleteMovie, DeleteDetail, RemoveGenre, AwaitLinks,
         SpareGenre, RemoveDirector, Crash
<1>3. ASSUME NEW r \in Requests, Act(r) PROVE Atomic!Next
  <2>1. CASE Begin(r)
    BY <2>1, BeginRefines DEF Atomic!Next
  <2>2. CASE FindMovie(r) \/ FindDirector(r) \/ FindGenres(r)
    BY <2>2, FindRefines DEF Atomic!Next
  <2>3. CASE InsertDetail(r) \/ InsertMovie(r) \/ InsertLinks(r) \/ MoveFile(r) \/ DeleteTemp(r) \/ ReadMovie(r)
    BY <2>3, InsertRefines DEF Atomic!Next
  <2>4. CASE CommitCreate(r)
    BY <2>4, CreateRefines DEF Atomic!Next
  <2>5. CASE UpdateMovie(r) \/ UpdateDetail(r) \/ Unlink(r) \/ Link(r)
    BY <2>5, UpdateRefines DEF Atomic!Next
  <2>6. CASE CommitUpdate(r)
    BY <2>6, PatchRefines DEF Atomic!Next
  <2>7. CASE ReadUpdated(r)
    BY <2>7, AnswerRefines DEF Atomic!Next
  <2>8. CASE DeleteMovie(r) \/ DeleteDetail(r)
    BY <2>8, RemoveRefines DEF Atomic!Next
  <2>9. CASE Fail(r)
    BY <2>9, FailRefines DEF Atomic!Next
  <2> QED BY <1>3, <2>1, <2>2, <2>3, <2>4, <2>5, <2>6, <2>7, <2>8, <2>9 DEF Act, Step
<1>4. ASSUME NEW g \in Genres, RemoveGenre(g) \/ AwaitLinks(g) \/ SpareGenre(g) PROVE Atomic!Next
  BY <1>4, RemovalRefines
<1>5. ASSUME NEW d \in Directors, RemoveDirector(d) PROVE Atomic!Next
  BY <1>5, RemovalRefines
<1>6. Crash => Atomic!Next
  BY CrashRefines DEF Atomic!Next
<1>7. ASSUME UNCHANGED vars PROVE Atomic!Next
  <2>1. UNCHANGED <<tables, req, nextId>>
    BY <1>7 DEF vars
  <2>2. Fates' = Fates /\ Askeds' = Askeds
    BY <2>1 DEF Fates, Askeds
  <2>3. Atomic!Skip
    BY <2>1, <2>2 DEF Atomic!Skip, Atomic!tables, tables, Fates, Askeds
  <2> QED BY <2>3 DEF Atomic!Next
<1> QED BY <1>1, <1>2, <1>3, <1>4, <1>5, <1>6, <1>7 DEF Next, Act, Begin, Used

LEMMA InitRefines ==
  ASSUME Init
  PROVE  Atomic!Init
<1> DEFINE n == Len(Catalog)
<1>1. n \in 0..MaxId /\ \A i \in 1..n : Catalog[i] \in Posts
  BY CatalogAssumption
<1>2. movies = 1..n /\ details = 1..n /\ nextId = n + 1 /\ genres = Genres /\ directors = Directors
      /\ prod \in BOOLEAN /\ \A i \in 1..n : i \in Ids /\ row[i] = Catalog[i]
  BY <1>1, CatalogAssumption DEF Init, Ids
<1>3. \A r \in Requests : req[r].pc = "idle"
  BY DEF Init
<1>4. Used = movies
  <2>1. \A i \in Ids : Settled(i) <=> i \in 1..n
    BY <1>1, <1>2, <1>3, CatalogAssumption DEF Settled, InFlight, Ids
  <2>2. 1..n \subseteq Ids
    BY <1>2
  <2> QED BY <1>2, <2>1, <2>2 DEF Used
<1>5. row \in [Ids -> Row]
  BY InitInv DEF Inv, TypeOK
<1>6. \A i, j \in movies : row[i].title = row[j].title => i = j
  BY InitInv DEF Inv, TitlesUnique
<1>7. Fates = [r \in Requests |-> "idle"] /\ Askeds = [r \in Requests |-> NoBody]
  BY <1>3 DEF Fates, Askeds, Fate, Asked
<1> QED BY <1>1, <1>2, <1>4, <1>5, <1>6, <1>7 DEF Atomic!Init, Used, Fates, Askeds

\* Statements and locks come to what a catalogue does that acts on each request at once:
\* this is what a reader of MovieService has in mind, whatever requests overlap and
\* whichever of them are answered with an error after they have acted.
THEOREM CatalogActsAtOnce == Spec => ActsAtOnce
<1>1. Init => Atomic!Init
  BY InitRefines
<1>2. Inv /\ [Next]_vars => [Atomic!Next /\ Used \subseteq Used' /\ UNCHANGED prod]_(Atomic!vars)
  BY StepRefines
<1> QED BY <1>1, <1>2, InvHolds, PTL DEF Spec, ActsAtOnce, Atomic!Spec, Used
===========================================================================
