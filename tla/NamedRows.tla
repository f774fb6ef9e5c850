----------------------------- MODULE NamedRows -----------------------------
(***************************************************************************)
(* UserService, GenreService and DirectorService: create, update and       *)
(* remove, each a sequence of statements that commit on their own, so that *)
(* what one call has found another may have changed.  The password hash    *)
(* between two statements, which takes some 100 ms, only widens the gap.   *)
(* AuthService.register is UserService.create.                             *)
(***************************************************************************)
EXTENDS Naturals, Sequences

CONSTANTS Names,     \* emails or names
          Calls,
          MaxId,     \* bound: the ids the sequence of the table hands out
          NoName     \* no row, and no name in a request

ASSUME RowsAssumption == MaxId \in Nat \ {0} /\ NoName \notin Names

VARIABLES kind,      \* the service: "user", "genre" or "director"; it never changes
          rows,      \* rows[i]: the name in row i
          nextId,    \* ids are not reused; that refused inserts skip some is left out
          pinned,    \* rows a foreign key without ON DELETE refers to
          call       \* call[c]: operation, parameters, statements to do, answer, effect

table == <<kind, rows, nextId, pinned>>
rowsVars  == <<table, call>>

\* The statements of the methods, in order.
UserService     == [create |-> <<"findName", "insert", "read">>,
                    update |-> <<"findId", "update", "read">>,
                    remove |-> <<"findId", "delete">>]
GenreService    == [create |-> <<"findName", "insert">>,
                    update |-> <<"findId", "update", "read">>,
                    remove |-> <<"findId", "delete">>]
DirectorService == [create |-> <<"insert">>,
                    update |-> <<"findId", "update", "read">>,
                    remove |-> <<"findId", "delete">>]

Service == CASE kind = "user" -> UserService
             [] kind = "genre" -> GenreService
             [] kind = "director" -> DirectorService

\* mutant: the email is not unique
UniqueGenres == kind = "genre"

\* @Column({ unique: true }) of User.email and Genre.name
Unique == kind \in {"user", "genre"}

Ids  == 1..MaxId
Ops  == {"create", "update", "remove"}

\* what is left of them before the statement that writes, and after it
Creating == {<<"findName", "insert", "read">>, <<"insert", "read">>, <<"findName", "insert">>, <<"insert">>}
Updating == {<<"findId", "update", "read">>, <<"update", "read">>}
Removing == {<<"findId", "delete">>, <<"delete">>}
Todos    == Creating \cup Updating \cup Removing \cup {<<"read">>, <<>>}

Call == [op: Ops, id: Ids, name: Names \cup {NoName}, todo: Todos,
         state: {"idle", "busy", "ok", "refused", "failed"}, did: {"none", "applied", "void"}]

RowsTypeOK ==
  /\ kind \in {"user", "genre", "director"}
  /\ rows \in [Ids -> Names \cup {NoName}] /\ nextId \in 1..MaxId + 1
  /\ pinned \subseteq Ids
  /\ call \in [Calls -> Call]

Nothing == [op |-> "create", id |-> 1, name |-> NoName, todo |-> <<>>, state |-> "idle", did |-> "none"]

RowsInit ==
  /\ kind \in {"user", "genre", "director"}
  /\ rows = [i \in Ids |-> NoName] /\ nextId = 1 /\ pinned = {}
  /\ call = [c \in Calls |-> Nothing]

Taken(n, i) == n # NoName /\ \E j \in Ids \ {i} : rows[j] = n
Missing(i)  == rows[i] = NoName

StartCall(c) ==
  /\ call[c].state = "idle"
  /\ \E op \in Ops, i \in Ids, n \in Names \cup {NoName} :
       /\ op = "create" => i = 1 /\ n # NoName
       /\ op = "remove" => n = NoName
       /\ call' = [call EXCEPT ![c] = [op |-> op, id |-> i, name |-> n, todo |-> Service[op],
                                       state |-> "busy", did |-> "none"]]
  /\ UNCHANGED table

Due(c, s) == call[c].state = "busy" /\ Head(call[c].todo) = s

\* the statement succeeds; the call is answered after its last one
Proceed(c, did) ==
  call' = [call EXCEPT ![c].todo = Tail(@), ![c].did = did,
                       ![c].state = IF Len(call[c].todo) = 1 THEN "ok" ELSE "busy"]

Refuse(c) == call' = [call EXCEPT ![c].state = "refused"] /\ UNCHANGED table

FindName(c) ==
  /\ Due(c, "findName")
  /\ \/ Taken(call[c].name, 0) /\ Refuse(c)
     \/ ~Taken(call[c].name, 0) /\ Proceed(c, "none") /\ UNCHANGED table

FindId(c) ==
  /\ Due(c, "findId")
  /\ \/ Missing(call[c].id) /\ Refuse(c)
     \/ ~Missing(call[c].id) /\ Proceed(c, "none") /\ UNCHANGED table

\* save() of a row without an id
Insert(c) ==
  /\ Due(c, "insert") /\ nextId <= MaxId
  /\ \/ /\ Unique /\ Taken(call[c].name, 0)
        /\ Refuse(c)
     \/ /\ ~(Unique /\ Taken(call[c].name, 0))
        /\ rows' = [rows EXCEPT ![nextId] = call[c].name]
        /\ nextId' = nextId + 1
        /\ Proceed(c, "applied")
        /\ UNCHANGED <<kind, pinned>>

\* mutant: a row that has gone is created again
UpdateSaving(c) ==
  LET i == call[c].id
      n == call[c].name
  IN  /\ Due(c, "update")
      /\ \/ /\ Unique /\ Taken(n, i)
            /\ Refuse(c)
         \/ /\ ~(Unique /\ Taken(n, i))
            /\ rows' = IF n = NoName THEN rows ELSE [rows EXCEPT ![i] = n]
            /\ Proceed(c, "applied")
            /\ UNCHANGED <<kind, nextId, pinned>>

\* update() of no row is no error
Update(c) ==
  LET i == call[c].id
      n == call[c].name
  IN  /\ Due(c, "update")
      /\ \/ /\ Missing(i)
            /\ Proceed(c, "void") /\ UNCHANGED table
         \/ /\ ~Missing(i) /\ Unique /\ Taken(n, i)
            /\ Refuse(c)
         \/ /\ ~Missing(i) /\ ~(Unique /\ Taken(n, i))
            /\ rows' = IF n = NoName THEN rows ELSE [rows EXCEPT ![i] = n]
            /\ Proceed(c, "applied")
            /\ UNCHANGED <<kind, nextId, pinned>>

\* mutant: references are not looked at
DeleteUnchecked(c) ==
  /\ Due(c, "delete")
  /\ rows' = [rows EXCEPT ![call[c].id] = NoName]
  /\ Proceed(c, IF Missing(call[c].id) THEN "void" ELSE "applied")
  /\ UNCHANGED <<kind, nextId, pinned>>

\* delete() of no row is no error, either
Delete(c) ==
  LET i == call[c].id
  IN  /\ Due(c, "delete")
      /\ \/ /\ Missing(i)
            /\ Proceed(c, "void") /\ UNCHANGED table
         \/ /\ ~Missing(i) /\ i \in pinned
            /\ Refuse(c)
         \/ /\ ~Missing(i) /\ i \notin pinned
            /\ rows' = [rows EXCEPT ![i] = NoName]
            /\ Proceed(c, "applied")
            /\ UNCHANGED <<kind, nextId, pinned>>

\* the answer is read after the fact, and may be null
Read(c) == Due(c, "read") /\ Proceed(c, call[c].did) /\ UNCHANGED table

\* a statement rejects, or the process dies: what has been written stays
Fail(c) == /\ call[c].state = "busy"
           /\ call' = [call EXCEPT ![c].state = "failed"]
           /\ UNCHANGED table

\* A movie, a like or a message refers to the row, or no longer does.  The links
\* of movies and genres go with the genre (ON DELETE CASCADE of the join table).
Refer(i) == /\ kind # "genre" /\ ~Missing(i)
            /\ pinned' \in {pinned \cup {i}, pinned \ {i}} /\ pinned' # pinned
            /\ UNCHANGED <<kind, rows, nextId, call>>

CallStep(c) == FindName(c) \/ FindId(c) \/ Insert(c) \/ Update(c) \/ Delete(c) \/ Read(c)

RowsNext == \/ \E c \in Calls : StartCall(c) \/ CallStep(c) \/ Fail(c)
            \/ \E i \in Ids : Refer(i)

RowsSpec == RowsInit /\ [][RowsNext]_rowsVars

---------------------------------------------------------------------------
(* Properties *)

\* No two users have one email and no two genres one name, although create looks
\* for the name and inserts it in two statements and update does not look at all.
UniqueNames ==
  kind # "director" => \A i, j \in Ids : rows[i] = rows[j] /\ rows[i] # NoName => i = j

\* A row that movies or messages refer to is there, although delete finds the row
\* and removes it in two statements, between which it may come to be referred to.
ReferencesHold == \A i \in pinned : ~Missing(i)

\* What makes these and the refinement inductive: only ids that were handed out have a
\* row, and a call in progress has still to write or has only its answer to read.
DrawnOnly == \A i \in Ids : ~Missing(i) => i < nextId

Unwritten(q) == /\ q.did = "none"
                /\ q.todo \in CASE q.op = "create" -> Creating
                                 [] q.op = "update" -> Updating
                                 [] q.op = "remove" -> Removing
                /\ q.op = "create" /\ Head(q.todo) = "findName" => Unique

CallInPlace(q) ==
  /\ q.state \in {"idle", "refused"} => q.did = "none"
  /\ q.state = "busy" => Unwritten(q) \/ (q.todo = <<"read">> /\ q.did # "none")
  /\ q.state = "ok" => q.did # "none"

RowsInductive == DrawnOnly /\ \A c \in Calls : CallInPlace(call[c])

\* Every call takes effect at one instant, or is refused for a reason that holds
\* at that instant: an effect stays when the answer fails.
Fate(q) == CASE q.did # "none" -> q.did
             [] q.did = "none" /\ q.state = "busy" -> "pending"
             [] OTHER -> q.state

Asked(q) == IF q.state = "idle" THEN NoName ELSE [op |-> q.op, id |-> q.id, name |-> q.name]

Table == INSTANCE UniqueTable WITH
           unique  <- Unique,
           used    <- 1..(nextId - 1),
           request <- [c \in Calls |-> Asked(call[c])],
           fate    <- [c \in Calls |-> Fate(call[c])]

TakesEffectAtOnce == Table!Spec
===========================================================================
