---------------------------- MODULE UniqueTable ----------------------------
(***************************************************************************)
(* What the user, genre and director services promise: a call takes effect *)
(* at one instant, on the whole table, or is refused for a reason that     *)
(* holds at that instant.                                                  *)
(***************************************************************************)
CONSTANTS Ids, Names, Calls,
          NoName     \* no row, and no name in a request

VARIABLES unique,    \* TRUE: no two rows have one name; it never changes
          rows,      \* rows[i]: the name in row i
          used,      \* the ids that have ever had a row
          pinned,    \* the rows that other tables refer to
          request,   \* request[c]: what call c asks for
          fate       \* fate[c]: what has become of it

vars == <<unique, rows, used, pinned, request, fate>>

Requests == [op: {"create", "update", "remove"}, id: Ids, name: Names \cup {NoName}]

Taken(n, i) == n # NoName /\ \E j \in Ids \ {i} : rows[j] = n
Missing(i)  == rows[i] = NoName

Init == /\ unique \in BOOLEAN
        /\ rows = [i \in Ids |-> NoName] /\ used = {} /\ pinned = {}
        /\ request = [c \in Calls |-> NoName] /\ fate = [c \in Calls |-> "idle"]

Ask(c) == /\ fate[c] = "idle" /\ fate' = [fate EXCEPT ![c] = "pending"]
          /\ \E r \in Requests : request' = [request EXCEPT ![c] = r]
          /\ UNCHANGED <<rows, used, pinned>>

Becomes(c, f) == fate[c] = "pending" /\ fate' = [fate EXCEPT ![c] = f] /\ UNCHANGED request

Create(c) ==
  /\ Becomes(c, "applied") /\ request[c].op = "create"
  /\ \E i \in Ids \ used : /\ ~(unique /\ Taken(request[c].name, i))
                           /\ rows' = [rows EXCEPT ![i] = request[c].name]
                           /\ used' = used \cup {i}
  /\ UNCHANGED pinned

Rename(c) ==
  LET i == request[c].id
      n == request[c].name
  IN  /\ Becomes(c, "applied") /\ request[c].op = "update"
      /\ ~Missing(i) /\ ~(unique /\ Taken(n, i))
      /\ rows' = IF n = NoName THEN rows ELSE [rows EXCEPT ![i] = n]
      /\ UNCHANGED <<used, pinned>>

Remove(c) ==
  LET i == request[c].id
  IN  /\ Becomes(c, "applied") /\ request[c].op = "remove"
      /\ ~Missing(i) /\ i \notin pinned
      /\ rows' = [rows EXCEPT ![i] = NoName]
      /\ UNCHANGED <<used, pinned>>

\* the row went away meanwhile: nothing happens
Miss(c) == /\ Becomes(c, "void") /\ request[c].op # "create" /\ Missing(request[c].id)
           /\ UNCHANGED <<rows, used, pinned>>

Refuse(c) ==
  LET r == request[c]
  IN  /\ Becomes(c, "refused")
      /\ \/ r.op = "create" /\ unique /\ \E j \in Ids : rows[j] = r.name
         \/ r.op = "update" /\ (Missing(r.id) \/ (unique /\ Taken(r.name, r.id)))
         \/ r.op = "remove" /\ (Missing(r.id) \/ r.id \in pinned)
      /\ UNCHANGED <<rows, used, pinned>>

Fail(c) == Becomes(c, "failed") /\ UNCHANGED <<rows, used, pinned>>

Refer(i) == /\ ~Missing(i) /\ pinned' \in {pinned \cup {i}, pinned \ {i}}
            /\ UNCHANGED <<rows, used, request, fate>>

Next == \/ \E c \in Calls : Ask(c) \/ Create(c) \/ Rename(c) \/ Remove(c) \/ Miss(c) \/ Refuse(c) \/ Fail(c)
        \/ \E i \in Ids : Refer(i)

Spec == Init /\ [][Next /\ UNCHANGED unique]_vars
===========================================================================
