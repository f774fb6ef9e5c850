-------------------------- MODULE ConnectionPool --------------------------
(***************************************************************************)
(* The database pool under the handlers.  A query outside a transaction    *)
(* borrows a connection for itself.  TransactionInterceptor,               *)
(* WsTransactionInterceptor and MovieService.update borrow one for a whole *)
(* transaction.  ChatService.createMessage runs inside such a transaction  *)
(* and looks its author up through userRepository, which borrows a second  *)
(* connection while the first is held.  The pool serves its waiters in the *)
(* order they came and lets them wait without a limit; nothing bounds the  *)
(* messages in flight.  The read MovieService.update makes after COMMIT is *)
(* a query like any other: the release of its transaction's connection     *)
(* does not wait for it.                                                   *)
(***************************************************************************)
EXTENDS Naturals, Sequences, FiniteSets

CONSTANTS Connections,   \* what the pool may open at once
          Requests,
          Nobody, Leaked \* owners of an idle and of a lost connection

ASSUME PoolAssumption ==
  /\ IsFiniteSet(Connections) /\ IsFiniteSet(Requests)
  /\ Nobody \notin Requests /\ Leaked \notin Requests /\ Nobody # Leaked

VARIABLES owner,   \* owner[c]: who has borrowed connection c
          queue,   \* the requests waiting for a connection, oldest first
          req      \* req[r]: kind of handler and how far it got

vars == <<owner, queue, req>>

Kinds == {"query", "transaction", "message"}
PCs == {"idle",
        "connect",   \* waits for its (first) connection
        "begin",     \* holds it, BEGIN not answered yet
        "author",    \* in a transaction, waits for a second connection
        "lookup",    \* holds both, the author is being read
        "work"}      \* its remaining statements run on the connection it holds

TypeOK == /\ owner \in [Connections -> Requests \cup {Nobody, Leaked}]
          /\ queue \in Seq(Requests)
          /\ req \in [Requests -> [kind: Kinds, pc: PCs]]

Init == /\ owner = [c \in Connections |-> Nobody]
        /\ queue = <<>>
        /\ req = [r \in Requests |-> [kind |-> "query", pc |-> "idle"]]

Held(r)     == {c \in Connections : owner[c] = r}
Lost        == {c \in Connections : owner[c] = Leaked}
InFlight(r) == req[r].pc # "idle"
Waiting(r)  == req[r].pc \in {"connect", "author"}
Authors     == {r \in Requests : req[r].pc = "author"}   \* messages waiting for their author

Goto(r, pc) == req' = [req EXCEPT ![r].pc = pc]
Ask(r)      == queue' = Append(queue, r)
Hand(c, o)  == owner' = [owner EXCEPT ![c] = o]

\* a handler reaches its first query, or its interceptor calls qr.connect()
Start(r, k) ==
  /\ ~InFlight(r)
  /\ req' = [req EXCEPT ![r] = [kind |-> k, pc |-> "connect"]]
  /\ Ask(r)
  /\ UNCHANGED owner

\* the pool hands an idle connection to the one who has waited longest
Grant(c) ==
  /\ owner[c] = Nobody /\ queue # <<>>
  /\ Hand(c, Head(queue))
  /\ queue' = Tail(queue)
  /\ LET r == Head(queue)
     IN  Goto(r, IF req[r].pc = "author" THEN "lookup"
                 ELSE IF req[r].kind = "query" THEN "work" ELSE "begin")

\* startTransaction succeeds; a message asks for its author next
Begin(r) ==
  /\ req[r].pc = "begin"
  /\ \/ req[r].kind = "message" /\ Goto(r, "author") /\ Ask(r)
     \/ req[r].kind # "message" /\ Goto(r, "work") /\ UNCHANGED queue
  /\ UNCHANGED owner

\* mutant: the connection of the author's query is not given back
LookupKeeping(r) == req[r].pc = "lookup" /\ Goto(r, "work") /\ UNCHANGED <<owner, queue>>

\* the author is read and the second connection goes back
Lookup(r) ==
  /\ req[r].pc = "lookup"
  /\ \E c \in Held(r) : Hand(c, Nobody)
  /\ Goto(r, "work")
  /\ UNCHANGED queue

\* mutant: release() is forgotten
FinishKeeping(r) == req[r].pc = "work" /\ Goto(r, "idle") /\ UNCHANGED <<owner, queue>>

\* the query is answered, or COMMIT or ROLLBACK and release() are done
Finish(r) ==
  /\ req[r].pc = "work"
  /\ \E c \in Held(r) : Hand(c, Nobody)
  /\ Goto(r, "idle")
  /\ UNCHANGED queue

\* `await qr.startTransaction()` or `await qr.rollbackTransaction()` rejects:
\* the release() after it is never reached
Leak(r) ==
  /\ req[r].pc \in {"begin", "work"} /\ req[r].kind # "query"
  /\ \E c \in Held(r) : Hand(c, Leaked)
  /\ Goto(r, "idle")
  /\ UNCHANGED queue

Step(r) == Begin(r) \/ Lookup(r) \/ Finish(r)

Next == \/ \E r \in Requests : \/ \E k \in Kinds : Start(r, k)
                               \/ Step(r)
                               \/ Leak(r)
        \/ \E c \in Connections : Grant(c)

\* statements are answered, and the pool does not sit on an idle connection
Fairness == /\ \A r \in Requests : WF_vars(Step(r))
            /\ WF_vars(\E c \in Connections : Grant(c))

Spec == Init /\ [][Next]_vars /\ Fairness

---------------------------------------------------------------------------
(* Properties *)

\* What a request holds is what its place in the handler says: nothing while it
\* waits for the first connection, one in a transaction, two only in the lookup.
HoldsItsShare ==
  \A r \in Requests :
    Cardinality(Held(r)) = CASE req[r].pc \in {"idle", "connect"} -> 0
                             [] req[r].pc = "lookup" -> 2
                             [] OTHER -> 1

\* Somebody who holds a connection can go on, or one is there to be handed out.
SomeConnectionMoves ==
  \E c \in Connections : \/ owner[c] = Nobody
                         \/ owner[c] \in Requests /\ InFlight(owner[c]) /\ ~Waiting(owner[c])

\* The pool stops only for chat messages that wait for their author: as long as
\* these and the connections lost are fewer than the pool has, a connection is
\* idle or in the hands of a request at work, whatever else waits.  With one
\* message per connection not lost, it may stop for good: nothing prevents that.
NeverAllWaiting ==
  queue # <<>> /\ Cardinality(Authors) + Cardinality(Lost) < Cardinality(Connections)
    => SomeConnectionMoves

\* What makes NeverAllWaiting inductive: the queue lists waiting requests once
\* each, and no place in a handler but the lookup lets a request hold two
\* connections, none lets it hold three.
WaitersQueued ==
  /\ \A i \in 1..Len(queue) : Waiting(queue[i])
  /\ \A i, j \in 1..Len(queue) : i # j => queue[i] # queue[j]

OnlyMessagesLookUp ==
  \A r \in Requests : req[r].pc \in {"author", "lookup"} => req[r].kind = "message"

HoldersStarted ==
  \A c \in Connections : owner[c] \in Requests => req[owner[c]].pc \notin {"idle", "connect"}

OneUnlessLookup ==
  \A c, d \in Connections :
    c # d /\ owner[c] = owner[d] /\ owner[c] \in Requests => req[owner[c]].pc = "lookup"

NeverThree ==
  \A c, d, e \in Connections :
    owner[c] \in Requests /\ owner[c] = owner[d] /\ owner[d] = owner[e]
      => c = d \/ d = e \/ c = e

SharesBounded == OnlyMessagesLookUp /\ HoldersStarted /\ OneUnlessLookup /\ NeverThree

PoolInductive == WaitersQueued /\ SharesBounded

\* The circle: every connection is lost or held by a message that waits for another.
Stuck == \A c \in Connections : owner[c] = Leaked \/ owner[c] \in Authors

\* Every handler gets its connections and ends, unless the pool is caught in that
\* circle: no other load, order of arrival or failure keeps a handler waiting.
EveryRequestEnds == \A r \in Requests : InFlight(r) ~> (~InFlight(r) \/ Stuck)
===========================================================================
