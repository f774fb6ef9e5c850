--------------------------- MODULE MovieCatalog ---------------------------
(***************************************************************************)
(* The administrator's writes to the catalogue: MovieService.create (under *)
(* TransactionInterceptor), update (its own transaction) and remove (two   *)
(* autocommitted statements), interleaved at every await, with the removal *)
(* of the genres and directors they refer to, failing queries, and crashes *)
(* of the process.                                                         *)
(*                                                                         *)
(* Tables hold committed rows.  What an open transaction has written is in *)
(* the record of its request and reaches the tables when it commits; the   *)
(* locks it holds meanwhile are guards of the statements that would wait.  *)
(* A statement takes all of its locks in one step.                         *)
(***************************************************************************)
EXTENDS Naturals, Sequences, FiniteSets

CONSTANTS Genres, Directors,   \* ids of the rows genre and director start with
          Titles, Files,
          Posts,               \* bodies of POST /movie: every field given
          Patches,             \* bodies of PATCH /movie/:id: the fields given
          Catalog,             \* the movies there at the start, as POST bodies
          MaxId,               \* bound: ids the sequence of table movie hands out
          Requests

Ids == 1..MaxId
Row == [title: Titles, detail: Titles, director: Directors,
        genres: SUBSET Genres, file: Files]
RowFields == {"title", "detail", "director", "genres", "file"}

ASSUME CatalogAssumption ==
  /\ MaxId \in Nat /\ IsFiniteSet(Requests)
  /\ Posts \subseteq Row /\ Posts # {}
  /\ \A p \in Patches : \E w \in Row : \E F \in SUBSET RowFields : p = [f \in F |-> w[f]]
  /\ Catalog \in Seq(Posts) /\ Len(Catalog) <= MaxId
  /\ \A i, j \in 1..Len(Catalog) :
       i # j => Catalog[i].title # Catalog[j].title /\ Catalog[i].file # Catalog[j].file

VARIABLES movies,      \* ids with a row in table movie
          row,         \* row[i]: that row, its detail text and its genre links
          details,     \* ids of the rows of movie_detail (a movie's detail bears its id)
          genres, directors,
          doomed,      \* genres locked by a DELETE that waits for deleted links
          nextId,      \* the sequence behind the ids, never rolled back
          prod,        \* ENV is prod: the files are in a bucket of S3
          temp, stored, \* files in public/temp and in public/movie
          cut,         \* history: movies whose removal stopped between its two DELETEs
          gone,        \* history: movies removed, or answered and lost with the process
          req

tables == <<movies, row, details, genres, directors, doomed>>
disk   == <<prod, temp, stored>>
past   == <<cut, gone>>
vars   == <<tables, disk, nextId, past, req>>

PCs == {"idle", "findMovie", "findDirector", "findGenres",
        "insertDetail", "insertMovie", "insertLinks", "moveFile", "deleteTemp", "readMovie",
        "updateMovie", "updateDetail", "unlink", "link", "commit", "readUpdated",
        "deleteMovie", "deleteDetail", "done"}
Answers == {"none", "ok", "late", "notFound", "conflict", "error"}
NoBody == <<>>

Request == [pc: PCs, op: {"create", "update", "remove"}, id: 0..MaxId,
            body: Posts \cup Patches \cup {NoBody},
            old: SUBSET Genres,   \* update: the genres of the movie as it was found
            hit: BOOLEAN,         \* update: the UPDATE found the row
            answer: Answers]

TypeOK == /\ movies \subseteq Ids /\ details \subseteq Ids
          /\ cut \subseteq Ids /\ gone \subseteq Ids
          /\ row \in [Ids -> Row]
          /\ genres \subseteq Genres /\ directors \subseteq Directors /\ doomed \subseteq Genres
          /\ nextId \in 1..MaxId + 1
          /\ prod \in BOOLEAN /\ temp \subseteq Files /\ stored \subseteq Files
          /\ req \in [Requests -> Request]

NoRow == CHOOSE p \in Posts : TRUE   \* what row holds where there is no movie
Given(r, f) == f \in DOMAIN req[r].body
InFlight(r) == req[r].pc \notin {"idle", "done"}

Init ==
  LET n == Len(Catalog)
  IN  /\ movies = 1..n /\ details = 1..n /\ nextId = n + 1
      /\ row = [i \in Ids |-> IF i <= n THEN Catalog[i] ELSE NoRow]
      /\ genres = Genres /\ directors = Directors /\ doomed = {}
      /\ prod \in BOOLEAN /\ stored = {Catalog[i].file : i \in 1..n} /\ temp = Files \ stored
      /\ cut = {} /\ gone = {}
      /\ req = [r \in Requests |-> [pc |-> "idle", op |-> "create", id |-> 0, body |-> NoBody,
                                    old |-> {}, hit |-> FALSE, answer |-> "none"]]

Goto(r, pc)  == req' = [req EXCEPT ![r].pc = pc]
\* an error leaves a transaction through rollback and release: its private
\* writes go, what it did to the disk stays
Ended(q, how) == [q EXCEPT !.pc = "done", !.answer = how, !.body = NoBody, !.old = {}, !.hit = FALSE]
End(r, how)   == req' = [req EXCEPT ![r] = Ended(@, how)]

Start(r, op, pc, i, b) ==
  /\ ~InFlight(r)
  /\ req' = [req EXCEPT ![r] = [pc |-> pc, op |-> op, id |-> i, body |-> b, old |-> {},
                                hit |-> FALSE, answer |-> "none"]]
  /\ UNCHANGED <<tables, disk, nextId, past>>

\* POST /movie: the interceptor has connected and started the transaction
Undrawn == {q \in Requests : InFlight(q) /\ req[q].op = "create" /\ req[q].id = 0}

StartCreate(r) ==
  \E b \in Posts : /\ nextId + Cardinality(Undrawn) <= MaxId
                   /\ Start(r, "create", "findDirector", 0, b)

StartUpdate(r) ==
  \E i \in Ids, b \in Patches : Start(r, "update", "findMovie", i, b)

StartRemove(r) == \E i \in Ids : Start(r, "remove", "findMovie", i, NoBody)

\* update and remove look the movie up; update keeps the genres it has now
FindMovie(r) ==
  LET i == req[r].id
  IN  /\ req[r].pc = "findMovie"
      /\ \/ i \notin movies /\ End(r, "notFound")
         \/ i \in movies /\ req[r].op = "remove" /\ Goto(r, "deleteMovie")
         \/ /\ i \in movies /\ req[r].op = "update"
            /\ req' = [req EXCEPT ![r].pc = "findDirector", ![r].old = row[i].genres]
      /\ UNCHANGED <<tables, disk, nextId, past>>

FindDirector(r) ==
  /\ req[r].pc = "findDirector"
  /\ IF Given(r, "director") => req[r].body.director \in directors
     THEN Goto(r, "findGenres")
     ELSE End(r, "notFound")
  /\ UNCHANGED <<tables, disk, nextId, past>>

\* `genres.length !== genreIds.length`
FindGenres(r) ==
  /\ req[r].pc = "findGenres"
  /\ IF Given(r, "genres") => req[r].body.genres \subseteq genres
     THEN Goto(r, IF req[r].op = "create" THEN "insertDetail" ELSE "updateMovie")
     ELSE End(r, "notFound")
  /\ UNCHANGED <<tables, disk, nextId, past>>

---------------------------------------------------------------------------
(* Locks *)

\* where a transaction has inserted its row of movie, where it has updated one
Inserted == {"insertLinks", "moveFile", "deleteTemp", "readMovie", "commit"}
Updated  == {"updateDetail", "unlink", "link", "commit"}

\* mutant: a creation holds its title before its INSERT is through
WroteEarly(r) == \/ req[r].op = "create" /\ req[r].pc \in Inserted \cup {"insertMovie"}
                 \/ req[r].op = "update" /\ req[r].pc \in Updated /\ req[r].hit

\* an open transaction that has written a row of movie
Wrote(r) == \/ req[r].op = "create" /\ req[r].pc \in Inserted
            \/ req[r].op = "update" /\ req[r].pc \in Updated /\ req[r].hit

\* an open transaction that has inserted the genre links of its body
Linked(r) == Wrote(r) /\ req[r].pc \in {"moveFile", "deleteTemp", "readMovie", "commit"} /\ Given(r, "genres")

\* an open patch that has deleted the link of its movie to genre g
Unlinked(r, g) == /\ Wrote(r) /\ req[r].op = "update" /\ Given(r, "genres")
                  /\ req[r].pc \in {"link", "commit"}
                  /\ g \in req[r].old \cap row[req[r].id].genres

\* an open UPDATE holds row i of movie, of movie_detail
Locked(i) == \E q \in Requests : Wrote(q) /\ req[q].op = "update" /\ req[q].id = i
DetailLocked(i) ==
  i \in details /\ \E q \in Requests : /\ req[q].op = "update" /\ req[q].id = i
                                       /\ req[q].pc \in {"unlink", "link", "commit"}
                                       /\ Given(q, "detail")

\* mutant: uncommitted titles are not waited for
TitleContendedNever(i, t) == FALSE

\* the outcome of taking title t for movie i waits for another transaction
TitleContended(i, t) ==
  \E q \in Requests : /\ Wrote(q) /\ req[q].id # i /\ Given(q, "title")
                      /\ \/ req[q].body.title = t
                         \/ req[q].op = "update" /\ row[req[q].id].title = t

\* the statements that wait: INSERT and UPDATE of a movie for its title, UPDATE and DELETE
\* for the row, INSERT of links for a genre somebody deletes; an UPDATE that throws or
\* finds no row does not
GenresDoomed(r) == Given(r, "genres") /\ req[r].body.genres \cap doomed # {}

Waits(r) ==
  LET i == req[r].id
      ForTitle == Given(r, "title") /\ TitleContended(i, req[r].body.title)
  IN  \/ req[r].pc = "insertMovie" /\ ForTitle
      \/ req[r].pc = "updateMovie" /\ ~Given(r, "file") /\ i \in movies /\ (Locked(i) \/ ForTitle)
      \/ req[r].pc \in {"insertLinks", "link"} /\ GenresDoomed(r)
      \/ req[r].pc = "deleteMovie" /\ Locked(i)
      \/ req[r].pc \in {"updateDetail", "deleteDetail"} /\ DetailLocked(i)

TitleTaken(i, t) == \E j \in movies \ {i} : row[j].title = t

---------------------------------------------------------------------------
(* create *)

\* mutants: the detail is inserted outside the transaction; an id is skipped
InsertDetailOutside(r) ==
  /\ req[r].pc = "insertDetail"
  /\ nextId' = nextId + 1 /\ details' = details \cup {nextId}
  /\ req' = [req EXCEPT ![r].pc = "insertMovie", ![r].id = nextId]
  /\ UNCHANGED <<movies, row, genres, directors, doomed, disk, past>>

InsertDetail(r) ==
  /\ req[r].pc = "insertDetail"
  /\ nextId' = nextId + 1
  /\ req' = [req EXCEPT ![r].pc = "insertMovie", ![r].id = nextId]
  /\ UNCHANGED <<tables, disk, past>>

\* the unique title and the foreign key to the director are checked here
WriteMovie(r, next) ==
  LET i == req[r].id
      b == req[r].body
  IN  /\ Given(r, "title") => ~TitleContended(i, b.title)
      /\ IF /\ Given(r, "title") => ~TitleTaken(i, b.title)
            /\ Given(r, "director") => b.director \in directors
         THEN req' = [req EXCEPT ![r].pc = next, ![r].hit = TRUE]
         ELSE End(r, "conflict")
      /\ UNCHANGED <<tables, disk, nextId, past>>

InsertMovie(r) == req[r].pc = "insertMovie" /\ WriteMovie(r, "insertLinks")

InsertLinks(r) ==
  /\ req[r].pc = "insertLinks" /\ ~GenresDoomed(r)
  /\ IF req[r].body.genres \subseteq genres THEN Goto(r, "moveFile") ELSE End(r, "conflict")
  /\ UNCHANGED <<tables, disk, nextId, past>>

\* mutant: a move that fails is swallowed
MoveFileLeniently(r) ==
  /\ req[r].pc = "moveFile"
  /\ temp' = temp \ {req[r].body.file} /\ stored' = stored \cup (temp \cap {req[r].body.file})
  /\ Goto(r, "readMovie")
  /\ UNCHANGED <<tables, prod, nextId, past>>

\* from public/temp to public/movie: a rename on the disk, in prod a copy whose source is
\* deleted after it; no such file, no movie
MoveFile(r) ==
  LET f == req[r].body.file
  IN  /\ req[r].pc = "moveFile"
      /\ \/ f \notin temp /\ End(r, "error") /\ UNCHANGED <<temp, stored>>
         \/ /\ f \in temp /\ stored' = stored \cup {f}
            /\ \/ ~prod /\ temp' = temp \ {f} /\ Goto(r, "readMovie")
               \/ prod /\ UNCHANGED temp /\ Goto(r, "deleteTemp")
      /\ UNCHANGED <<tables, prod, nextId, past>>

DeleteTemp(r) ==
  /\ req[r].pc = "deleteTemp"
  /\ temp' = temp \ {req[r].body.file}
  /\ Goto(r, "readMovie")
  /\ UNCHANGED <<tables, prod, stored, nextId, past>>

\* the movie is read back inside the transaction and becomes the answer, of which
\* ResponseTimeInterceptor makes a 500 if it comes late; COMMIT follows all the same
ReadMovie(r) ==
  /\ req[r].pc = "readMovie"
  /\ \E answer \in {"ok", "late"} : req' = [req EXCEPT ![r].pc = "commit", ![r].answer = answer]
  /\ UNCHANGED <<tables, disk, nextId, past>>

\* COMMIT of the interceptor's tap, which nobody awaits: the answer is out
CommitCreate(r) ==
  LET i == req[r].id
  IN  /\ req[r].op = "create" /\ req[r].pc = "commit"
      /\ movies' = movies \cup {i} /\ details' = details \cup {i}
      /\ row' = [row EXCEPT ![i] = req[r].body]
      /\ End(r, req[r].answer)
      /\ UNCHANGED <<genres, directors, doomed, disk, nextId, past>>

---------------------------------------------------------------------------
(* update *)

AfterDetail(r) == IF Given(r, "genres") THEN "unlink" ELSE "commit"
AfterUpdate(r) == IF Given(r, "detail") THEN "updateDetail" ELSE AfterDetail(r)

\* UPDATE movie.  A movie that is gone by now gives no error.  movieFileName is in the
\* body's type but is no column of Movie: the query builder throws on it.
UpdateMovie(r) ==
  LET i == req[r].id
  IN  /\ req[r].pc = "updateMovie"
      /\ \/ /\ Given(r, "file")
            /\ End(r, "error")
            /\ UNCHANGED <<tables, disk, nextId, past>>
         \/ /\ ~Given(r, "file") /\ i \in movies /\ ~Locked(i)
            /\ WriteMovie(r, AfterUpdate(r))
         \/ /\ ~Given(r, "file") /\ i \notin movies
            /\ Goto(r, AfterUpdate(r))
            /\ UNCHANGED <<tables, disk, nextId, past>>

\* UPDATE movie_detail, which may be there when the movie is gone
UpdateDetail(r) ==
  /\ req[r].pc = "updateDetail" /\ ~DetailLocked(req[r].id)
  /\ Goto(r, AfterDetail(r))
  /\ UNCHANGED <<tables, disk, nextId, past>>

\* mutant: add without remove
KeptAll(r) == row[req[r].id].genres

\* addAndRemove: DELETE the links read at the start, then INSERT the new ones
Kept(r) == row[req[r].id].genres \ req[r].old

Unlink(r) == /\ req[r].pc = "unlink" /\ Goto(r, "link")
             /\ UNCHANGED <<tables, disk, nextId, past>>

Link(r) ==
  /\ req[r].pc = "link" /\ ~GenresDoomed(r)
  /\ IF /\ req[r].body.genres \subseteq genres
        /\ req[r].hit \/ req[r].body.genres = {}
        /\ req[r].body.genres \cap Kept(r) = {}
     THEN Goto(r, "commit")
     ELSE End(r, "conflict")
  /\ UNCHANGED <<tables, disk, nextId, past>>

Patched(r) ==
  [f \in RowFields |-> IF ~Given(r, f) THEN row[req[r].id][f]
                       ELSE IF f = "genres" THEN Kept(r) \cup req[r].body.genres
                       ELSE req[r].body[f]]

Committed(q) == [Ended(q, "none") EXCEPT !.pc = "readUpdated"]

\* mutant: the movie that was read is saved, as the code once did, not updated
CommitSave(r) ==
  /\ req[r].op = "update" /\ req[r].pc = "commit"
  /\ row' = [row EXCEPT ![req[r].id] = Patched(r)]
  /\ movies' = movies \cup {req[r].id} /\ details' = details \cup {req[r].id}
  /\ req' = [req EXCEPT ![r] = Committed(@)]
  /\ UNCHANGED <<genres, directors, doomed, disk, nextId, past>>

CommitUpdate(r) ==
  /\ req[r].op = "update" /\ req[r].pc = "commit"
  /\ row' = IF req[r].hit THEN [row EXCEPT ![req[r].id] = Patched(r)] ELSE row
  /\ req' = [req EXCEPT ![r] = Committed(@)]
  /\ UNCHANGED <<movies, details, genres, directors, doomed, disk, nextId, past>>

\* the answer, in time or not
Reply(r) == \E answer \in {"ok", "late"} : End(r, answer)

\* the movie is read for the answer after COMMIT, on a connection of the pool: if that
\* fails (Fail), the patch is there and the answer is an error
ReadUpdated(r) == /\ req[r].pc = "readUpdated" /\ Reply(r)
                  /\ UNCHANGED <<tables, disk, nextId, past>>

---------------------------------------------------------------------------
(* remove, and the removal of what a movie refers to *)

\* DELETE FROM movie: the links go along; a row of movie_user_like refuses it
DeleteMovie(r) ==
  LET i == req[r].id
  IN  /\ req[r].pc = "deleteMovie"
      /\ ~Locked(i)
      /\ \/ /\ movies' = movies \ {i}
            /\ row' = [row EXCEPT ![i] = NoRow]
            /\ gone' = gone \cup (movies \cap {i})
            /\ Goto(r, "deleteDetail")
         \/ /\ i \in movies
            /\ End(r, "conflict")
            /\ UNCHANGED <<movies, row, gone>>
      /\ UNCHANGED <<details, genres, directors, doomed, disk, nextId, cut>>

\* the movie of the detail is gone by now: its foreign key cannot refuse
DeleteDetail(r) ==
  /\ req[r].pc = "deleteDetail" /\ ~DetailLocked(req[r].id)
  /\ details' = details \ {req[r].id}
  /\ Reply(r)
  /\ UNCHANGED <<movies, row, genres, directors, doomed, disk, nextId, past>>

\* mutant: uncommitted links do not hold the genre
RemoveGenreUnlocked(g) ==
  /\ g \in genres /\ \A i \in movies : g \notin row[i].genres
  /\ genres' = genres \ {g} /\ doomed' = doomed \ {g}
  /\ UNCHANGED <<movies, row, details, directors, disk, nextId, past, req>>

\* DELETE /genre/:id and DELETE /director/:id are refused by, or wait for, the
\* rows that refer to them, uncommitted ones included
Linking(g) == \E q \in Requests : Linked(q) /\ g \in req[q].body.genres

RemoveGenre(g) ==
  /\ g \in genres
  /\ \A i \in movies : g \notin row[i].genres
  /\ ~Linking(g)
  /\ genres' = genres \ {g} /\ doomed' = doomed \ {g}
  /\ UNCHANGED <<movies, row, details, directors, disk, nextId, past, req>>

\* the row of the genre is locked and deleted before its links are looked at, and a link
\* that an open patch has deleted is waited for: to be gone, or to refuse it
AwaitLinks(g) ==
  /\ g \in genres \ doomed /\ ~Linking(g)
  /\ \E q \in Requests : Unlinked(q, g)
  /\ doomed' = doomed \cup {g}
  /\ UNCHANGED <<movies, row, details, genres, directors, disk, nextId, past, req>>

\* refused by a link after all, or aborted: the database breaks a circle of waits
SpareGenre(g) ==
  /\ g \in doomed /\ doomed' = doomed \ {g}
  /\ UNCHANGED <<movies, row, details, genres, directors, disk, nextId, past, req>>

\* mutant: the foreign key of an uncommitted row does not hold the director
RemoveDirectorUnlocked(d) ==
  /\ d \in directors /\ \A i \in movies : row[i].director # d
  /\ directors' = directors \ {d}
  /\ UNCHANGED <<movies, row, details, genres, doomed, disk, nextId, past, req>>

RemoveDirector(d) ==
  /\ d \in directors
  /\ \A i \in movies : row[i].director # d
  /\ \A q \in Requests : Wrote(q) /\ Given(q, "director") => req[q].body.director # d
  /\ directors' = directors \ {d}
  /\ UNCHANGED <<movies, row, details, genres, doomed, disk, nextId, past, req>>

---------------------------------------------------------------------------
(* failures *)

HalfRemoved == {req[r].id : r \in {q \in Requests : req[q].pc = "deleteDetail"}}
Committing  == {r \in Requests : req[r].op = "create" /\ req[r].pc = "commit"}

\* mutant: the interceptor catches a COMMIT that rejects
FailQuietly(r) ==
  /\ InFlight(r)
  /\ cut' = IF req[r].pc = "deleteDetail" THEN cut \cup {req[r].id} ELSE cut
  /\ End(r, IF r \in Committing THEN req[r].answer ELSE "error")
  /\ UNCHANGED <<tables, disk, nextId, gone>>

\* a query of r rejects (lost connection, statement timeout, a circle of waits that the
\* database breaks), or a request to S3: rollback, 500.
\* The COMMIT of a create is not among them: see Crash.
Fail(r) ==
  /\ InFlight(r) /\ r \notin Committing
  /\ cut' = IF req[r].pc = "deleteDetail" THEN cut \cup {req[r].id} ELSE cut
  /\ End(r, "error")
  /\ UNCHANGED <<tables, disk, nextId, gone>>

\* The process ends: open transactions roll back, requests are gone, answered or
\* not.  A COMMIT that rejects in the interceptor's tap is an unhandled rejection
\* and does this.
Crash ==
  /\ \E r \in Requests : InFlight(r)
  /\ cut' = cut \cup HalfRemoved
  /\ gone' = gone \cup {req[r].id : r \in Committing}
  /\ req' = [r \in Requests |-> IF InFlight(r) THEN Ended(req[r], req[r].answer) ELSE req[r]]
  /\ doomed' = {}
  /\ UNCHANGED <<movies, row, details, genres, directors, disk, nextId>>

Step(r) == \/ FindMovie(r) \/ FindDirector(r) \/ FindGenres(r)
           \/ InsertDetail(r) \/ InsertMovie(r) \/ InsertLinks(r) \/ MoveFile(r)
           \/ DeleteTemp(r) \/ ReadMovie(r) \/ CommitCreate(r)
           \/ UpdateMovie(r) \/ UpdateDetail(r) \/ Unlink(r) \/ Link(r) \/ CommitUpdate(r) \/ ReadUpdated(r)
           \/ DeleteMovie(r) \/ DeleteDetail(r)

Next == \/ \E r \in Requests : \/ StartCreate(r) \/ StartUpdate(r) \/ StartRemove(r)
                               \/ Step(r)
                               \/ Fail(r)
        \/ \E g \in Genres : RemoveGenre(g) \/ AwaitLinks(g) \/ SpareGenre(g)
        \/ \E d \in Directors : RemoveDirector(d)
        \/ Crash

Spec == Init /\ [][Next]_vars

---------------------------------------------------------------------------
(* Properties *)

\* remove deletes the movie and then its detail, each on its own: a detail no
\* movie owns is one whose removal is between the two, or was cut off there.
DetailsOwned == details \ movies \subseteq HalfRemoved \cup cut

\* Every movie has its detail, director and genres, although create and update
\* look director and genres up several awaits before they write the references.
RowsWhole ==
  \A i \in movies : /\ i \in details
                    /\ row[i].director \in directors
                    /\ row[i].genres \subseteq genres

\* A movie that can be seen has its file in public/movie: create moves the file after its
\* INSERTs and before COMMIT, and a rollback does not move it back.  On the disk no two
\* movies claim one file; a bucket, which copies before it deletes, does not see to that.
FilesInPlace ==
  \A i \in movies : /\ row[i].file \in stored
                    /\ ~prod => \A j \in movies \ {i} : row[j].file # row[i].file

\* The title is unique among the movies, whichever statements write it.
TitlesUnique == \A i, j \in movies : row[i].title = row[j].title => i = j

\* Once a removal has been answered, movie and detail stay gone: an update that
\* found the movie before does not bring it back.
RemovedStaysRemoved ==
  \A r \in Requests :
    req[r].op = "remove" /\ req[r].pc = "done" /\ req[r].answer \in {"ok", "late"}
      => req[r].id \notin movies \cup details

\* An answer to POST /movie says what became of the movie, although it is out before
\* the COMMIT that nobody awaits: with 201, and with the 500 of a late answer, the movie
\* is there, once COMMIT is through, until it is removed, unless the process died before;
\* after any other answer, or none, it is not.
AnswerIsKept ==
  \A r \in Requests :
    req[r].op = "create" /\ req[r].pc = "done" /\ req[r].id # 0 =>
      IF req[r].answer \in {"ok", "late"} THEN req[r].id \in movies \cup gone
                                          ELSE req[r].id \notin movies

\* What makes these inductive.  Where a request is says what it is:
Settled(i) ==
  i \in 1..(nextId - 1) /\ \A q \in Requests : InFlight(q) /\ req[q].op = "create" => req[q].id # i

CreateInPlace(q) ==
  /\ q.op = "create" /\ q.body \in Posts
  /\ \/ q.pc \in {"findDirector", "findGenres", "insertDetail"} /\ q.id = 0
     \/ q.pc \in Inserted \cup {"insertMovie"} /\ q.id # 0

UpdateInPlace(q) ==
  /\ q.op = "update"
  /\ \/ q.pc = "readUpdated" /\ q.body = NoBody /\ ~q.hit
     \/ /\ q.pc \in {"findMovie", "findDirector", "findGenres", "updateMovie"}
        /\ q.body \in Patches /\ ~q.hit
     \/ /\ q.pc \in Updated
        /\ q.body \in Patches /\ "file" \notin DOMAIN q.body
        /\ q.pc \in {"unlink", "link"} => "genres" \in DOMAIN q.body

RemoveInPlace(q) == q.op = "remove" /\ q.pc \in {"findMovie", "deleteMovie", "deleteDetail"}

InPlace(q) ==
  /\ CreateInPlace(q) \/ UpdateInPlace(q) \/ RemoveInPlace(q)
  /\ IF q.op = "create" /\ q.pc = "commit" THEN q.answer \in {"ok", "late"} ELSE q.answer = "none"

RequestsInPlace == \A r \in Requests : InFlight(r) => InPlace(req[r])

\* no two creations, and no creation and a row, have one id
IdsDrawn ==
  /\ movies \cup details \subseteq 1..(nextId - 1)
  /\ \A r \in Requests : req[r].op = "create" =>
       /\ req[r].id < nextId
       /\ InFlight(r) => req[r].id \notin movies \cup details
       /\ \A q \in Requests \ {r} : req[q].op = "create" /\ req[r].id # 0 => req[q].id # req[r].id

\* what a request has found was committed, an UPDATE that found its row keeps it from
\* being removed, and a removed movie does not come back
TargetsSettled ==
  \A r \in Requests :
    /\ req[r].op = "update" /\ InFlight(r) /\ req[r].pc # "findMovie" => Settled(req[r].id)
    /\ req[r].op = "update" /\ req[r].pc \in Updated => (req[r].hit <=> req[r].id \in movies)
    /\ req[r].op = "remove" /\ (req[r].pc \in {"deleteMovie", "deleteDetail"} \/ req[r].answer \in {"ok", "late"})
         => Settled(req[r].id)
    /\ req[r].pc = "deleteDetail" => req[r].id \notin movies

\* what an open transaction refers to is still there
ReferencesHeld ==
  \A r \in Requests : /\ Wrote(r) /\ Given(r, "director") => req[r].body.director \in directors
                      /\ Linked(r) => req[r].body.genres \subseteq genres

\* a file that was moved is there, and on the disk its movie's alone, before COMMIT too
Moved(r) == req[r].op = "create" /\ req[r].pc \in {"deleteTemp", "readMovie", "commit"}

FilesHeld ==
  /\ \A r \in Requests : Moved(r) => req[r].body.file \in stored
  /\ ~prod =>
       /\ temp \cap stored = {}
       /\ \A r \in Requests : Moved(r) =>
            /\ \A i \in movies : row[i].file # req[r].body.file
            /\ \A q \in Requests \ {r} : Moved(q) => req[q].body.file # req[r].body.file

\* a title that was written and not committed is nobody else's, written or committed
TitlesHeld ==
  \A r \in Requests : Wrote(r) /\ Given(r, "title") =>
    /\ ~TitleTaken(req[r].id, req[r].body.title)
    /\ \A q \in Requests : Wrote(q) /\ Given(q, "title") /\ req[q].id # req[r].id
                             => req[q].body.title # req[r].body.title

CatalogInductive ==
  RequestsInPlace /\ IdsDrawn /\ TargetsSettled /\ ReferencesHeld /\ FilesHeld /\ TitlesHeld

\* A PATCH with genreIds leaves the movie with exactly those genres, unless
\* another request has changed them since this one read what there was to remove.
PatchSetsGenres ==
  [][\A r \in Requests :
       LET i == req[r].id
       IN  /\ req[r].pc = "commit" /\ req'[r].pc = "readUpdated"
           /\ Given(r, "genres") /\ i \in movies /\ req[r].old = row[i].genres
           => row'[i].genres = req[r].body.genres]_vars

\* Row locks and uncommitted titles make no circle of waits, though each transaction holds
\* its locks until it ends: of the requests in flight and the removals of genres one does not
\* wait.  In the only circle there is stands a patch between the two statements of addAndRemove,
\* with a genre to link that is being removed.
SomebodyMoves ==
  (\E r \in Requests : InFlight(r)) =>
    \/ \E r \in Requests : InFlight(r) /\ ~Waits(r)
    \/ \E g \in doomed : \A q \in Requests : ~Unlinked(q, g)
    \/ \E r \in Requests : req[r].pc = "link" /\ GenresDoomed(r)

\* Every request acts on the catalogue at one instant, at which its title, director and
\* genres are right although they were checked awaits ago, or is refused for a reason that
\* holds then; what has been written and not committed is never seen, and no id is used twice.
\* An error may be the answer to what has taken effect (late, or a patch not read back), but
\* no refusal is.
Outcome == [ok |-> "done", late |-> "failed", notFound |-> "refused", conflict |-> "refused",
            error |-> "failed", none |-> "failed"]

Fate(q) == CASE q.pc = "idle" -> "idle"
             [] q.pc = "deleteDetail" -> "half"
             [] q.pc = "readUpdated" -> "acted"
             [] q.pc = "done" -> Outcome[q.answer]
             [] OTHER -> "pending"

Asked(q) == IF q.pc \in {"idle", "readUpdated", "done"} THEN NoBody
            ELSE [op |-> q.op, id |-> IF q.op = "create" THEN 0 ELSE q.id, body |-> q.body]

Atomic == INSTANCE AtomicCatalog WITH
            None    <- NoBody,
            used    <- {i \in Ids : Settled(i)},
            request <- [r \in Requests |-> Asked(req[r])],
            fate    <- [r \in Requests |-> Fate(req[r])]

ActsAtOnce == Atomic!Spec
===========================================================================
