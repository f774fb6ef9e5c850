----------------------- MODULE ConnectionPoolProofs -----------------------
(* The pool stops only when the chat messages that wait for their author   *)
(* hold every connection that is not lost: for every pool and every number *)
(* of requests.                                                            *)
EXTENDS ConnectionPool, FiniteSetTheorems, TLAPS

\* Asking appends to the queue.
LEMMA Asked ==
  ASSUME NEW q \in Seq(Requests), NEW r \in Requests
  PROVE  /\ Append(q, r) \in Seq(Requests)
         /\ Len(q) \in Nat
         /\ Len(Append(q, r)) = Len(q) + 1
         /\ Append(q, r)[Len(q) + 1] = r
         /\ \A i \in 1..Len(q) : Append(q, r)[i] = q[i] /\ q[i] \in Requests
  OBVIOUS

\* A queue with somebody in it has a head and a tail.
LEMMA Served ==
  ASSUME NEW q \in Seq(Requests), q # <<>>
  PROVE  /\ Tail(q) \in Seq(Requests)
         /\ Head(q) \in Requests /\ Head(q) = q[1]
         /\ Len(q) \in Nat /\ Len(q) > 0
         /\ Len(Tail(q)) = Len(q) - 1
         /\ \A i \in 1..Len(Tail(q)) : Tail(q)[i] = q[i + 1] /\ q[i + 1] \in Requests
  OBVIOUS

\* Every variable keeps its type.
LEMMA TypeStep == TypeOK /\ [Next]_vars => TypeOK'
<1> SUFFICES ASSUME TypeOK, [Next]_vars PROVE TypeOK'
  OBVIOUS
<1> USE DEF TypeOK
<1>1. ASSUME NEW r \in Requests, NEW k \in Kinds, Start(r, k) PROVE TypeOK'
  <2>1. req' \in [Requests -> [kind : Kinds, pc : PCs]]
    BY <1>1 DEF Start, PCs
  <2>2. queue' \in Seq(Requests)
    BY <1>1, Asked DEF Start, Ask
  <2> QED BY <1>1, <2>1, <2>2 DEF Start
<1>2. ASSUME NEW r \in Requests, Begin(r) PROVE TypeOK'
  <2>1. req' \in [Requests -> [kind : Kinds, pc : PCs]]
    BY <1>2 DEF Begin, Goto, PCs
  <2>2. queue' \in Seq(Requests)
    BY <1>2, Asked DEF Begin, Ask
  <2> QED BY <1>2, <2>1, <2>2 DEF Begin
<1>3. ASSUME NEW r \in Requests, Lookup(r) PROVE TypeOK'
  BY <1>3 DEF Lookup, Goto, Hand, Held, PCs
<1>4. ASSUME NEW r \in Requests, Finish(r) PROVE TypeOK'
  BY <1>4 DEF Finish, Goto, Hand, Held, PCs
<1>5. ASSUME NEW r \in Requests, Leak(r) PROVE TypeOK'
  BY <1>5 DEF Leak, Goto, Hand, Held, PCs
<1>6. ASSUME NEW c \in Connections, Grant(c) PROVE TypeOK'
  BY <1>6 DEF Grant, Goto, Hand, PCs
<1>7. CASE UNCHANGED vars
  BY <1>7 DEF vars
<1> QED BY <1>1, <1>2, <1>3, <1>4, <1>5, <1>6, <1>7 DEF Next, Step

\* Type correctness of the pool.
THEOREM TypeCorrect == Spec => []TypeOK
<1>1. Init => TypeOK
  BY DEF Init, TypeOK, Kinds, PCs
<1> QED BY <1>1, TypeStep, PTL DEF Spec

---------------------------------------------------------------------------
\* A request that did not wait joins the queue.
LEMMA OneMoreWaits ==
  ASSUME TypeOK, WaitersQueued, NEW r \in Requests, ~Waiting(r), Waiting(r)',
         \A q \in Requests \ {r} : req'[q] = req[q], queue' = Append(queue, r)
  PROVE  WaitersQueued'
<1> DEFINE n == Len(queue)
<1>1. /\ n \in Nat /\ Len(queue') = n + 1 /\ queue'[n + 1] = r
      /\ \A i \in 1..n : queue'[i] = queue[i] /\ queue[i] \in Requests
  BY Asked DEF TypeOK
<1>2. \A i \in 1..n : queue[i] # r /\ Waiting(queue[i])'
  BY <1>1 DEF WaitersQueued, Waiting
<1>3. ASSUME NEW i \in 1..Len(queue') PROVE i = n + 1 \/ i \in 1..n
  BY <1>1
<1>4. ASSUME NEW i \in 1..Len(queue') PROVE req'[queue'[i]].pc \in {"connect", "author"}
  <2>1. CASE i = n + 1
    BY <1>1, <2>1 DEF Waiting
  <2>2. CASE i \in 1..n
    BY <1>1, <1>2, <2>2 DEF Waiting
  <2> QED BY <1>3, <2>1, <2>2
<1>5. ASSUME NEW i \in 1..Len(queue'), NEW j \in 1..Len(queue'), i # j
      PROVE  queue'[i] # queue'[j]
  <2>1. CASE i \in 1..n /\ j \in 1..n
    BY <1>1, <1>5, <2>1 DEF WaitersQueued
  <2>2. CASE i = n + 1 \/ j = n + 1
    BY <1>1, <1>2, <1>3, <1>5, <2>2
  <2> QED BY <1>3, <2>1, <2>2
<1> QED BY <1>4, <1>5 DEF WaitersQueued, Waiting

\* A request outside the queue moves without the queue.
LEMMA NobodyElseWaits ==
  ASSUME TypeOK, WaitersQueued, NEW r \in Requests, ~Waiting(r),
         \A q \in Requests \ {r} : req'[q] = req[q], UNCHANGED queue
  PROVE  WaitersQueued'
<1>1. \A i \in 1..Len(queue) : queue[i] \in Requests
  BY DEF TypeOK
<1> QED BY <1>1 DEF WaitersQueued, Waiting

\* The head of the queue waits and leaves it for good.
LEMMA WaitersStep == TypeOK /\ SharesBounded /\ WaitersQueued /\ [Next]_vars => WaitersQueued'
<1> SUFFICES ASSUME TypeOK, SharesBounded, WaitersQueued, [Next]_vars PROVE WaitersQueued'
  OBVIOUS
<1> USE DEF TypeOK, WaitersQueued, Waiting
<1>1. ASSUME NEW r \in Requests, NEW k \in Kinds, Start(r, k) PROVE WaitersQueued'
  <2>1. /\ \A q \in Requests \ {r} : req'[q] = req[q]
        /\ req'[r].pc = "connect" /\ req[r].pc = "idle"
        /\ queue' = Append(queue, r)
    BY <1>1 DEF Start, Ask, InFlight
  <2> QED BY <2>1, OneMoreWaits
<1>2. ASSUME NEW r \in Requests, Begin(r) PROVE WaitersQueued'
  <2>1. CASE req[r].kind = "message"
    <3>1. /\ \A q \in Requests \ {r} : req'[q] = req[q]
          /\ req'[r].pc = "author" /\ req[r].pc = "begin"
          /\ queue' = Append(queue, r)
      BY <1>2, <2>1 DEF Begin, Ask, Goto
    <3> QED BY <3>1, OneMoreWaits
  <2>2. CASE req[r].kind # "message"
    BY <1>2, <2>2, NobodyElseWaits DEF Begin, Goto
  <2> QED BY <2>1, <2>2
<1>3. ASSUME NEW r \in Requests, Lookup(r) \/ Finish(r) \/ Leak(r) PROVE WaitersQueued'
  BY <1>3, NobodyElseWaits DEF Lookup, Finish, Leak, Goto
<1>4. ASSUME NEW c \in Connections, Grant(c) PROVE WaitersQueued'
  <2>1. /\ queue' = Tail(queue) /\ Len(queue) \in Nat /\ Len(queue) > 0
        /\ Len(queue') = Len(queue) - 1
        /\ Head(queue) = queue[1] /\ Head(queue) \in Requests
        /\ \A i \in 1..Len(queue') : queue'[i] = queue[i + 1] /\ queue[i + 1] \in Requests
    BY <1>4, Served DEF Grant
  <2>2. \A q \in Requests \ {Head(queue)} : req'[q] = req[q]
    BY <1>4 DEF Grant, Goto
  <2>3. \A i \in 1..Len(queue') : queue'[i] # Head(queue) /\ queue'[i] \in Requests
    BY <2>1
  <2> QED BY <2>1, <2>2, <2>3
<1>5. CASE UNCHANGED vars
  BY <1>5 DEF vars
<1> QED BY <1>1, <1>2, <1>3, <1>4, <1>5 DEF Next, Step

\* A connection granted to r goes to one that holds none, or to an author lookup.
LEMMA SharesStep == TypeOK /\ SharesBounded /\ WaitersQueued /\ [Next]_vars => SharesBounded'
<1> SUFFICES ASSUME TypeOK, SharesBounded, WaitersQueued, [Next]_vars PROVE SharesBounded'
  OBVIOUS
<1> USE PoolAssumption DEF TypeOK, SharesBounded, OnlyMessagesLookUp, HoldersStarted, OneUnlessLookup, NeverThree
<1>1. ASSUME NEW r \in Requests, NEW k \in Kinds, Start(r, k) PROVE SharesBounded'
  BY <1>1 DEF Start, InFlight
<1>2. ASSUME NEW r \in Requests, Begin(r) PROVE SharesBounded'
  <2>1. /\ \A q \in Requests \ {r} : req'[q] = req[q]
        /\ req[r].pc = "begin" /\ req'[r].kind = req[r].kind
        /\ req'[r].pc = IF req[r].kind = "message" THEN "author" ELSE "work"
        /\ owner' = owner
    BY <1>2 DEF Begin, Goto
  <2>2. OnlyMessagesLookUp' /\ HoldersStarted'
    BY <2>1
  <2>3. OneUnlessLookup'
    BY <2>1
  <2>4. NeverThree'
    BY <2>1
  <2> QED BY <2>2, <2>3, <2>4
<1>3. ASSUME NEW r \in Requests, Lookup(r) PROVE SharesBounded'
  <2>1. PICK c \in Connections : owner[c] = r /\ owner' = [owner EXCEPT ![c] = Nobody]
    BY <1>3 DEF Lookup, Hand, Held
  <2>2. /\ \A q \in Requests \ {r} : req'[q] = req[q]
        /\ req'[r].pc = "work" /\ req[r].pc = "lookup" /\ req'[r].kind = req[r].kind
    BY <1>3 DEF Lookup, Goto
  <2> QED BY <2>1, <2>2
<1>4. ASSUME NEW r \in Requests, Finish(r) \/ Leak(r) PROVE SharesBounded'
  <2>1. PICK c \in Connections, o \in {Nobody, Leaked} :
          owner[c] = r /\ owner' = [owner EXCEPT ![c] = o]
    BY <1>4 DEF Finish, Leak, Hand, Held
  <2>2. /\ \A q \in Requests \ {r} : req'[q] = req[q]
        /\ req'[r].pc = "idle" /\ req[r].pc \in {"begin", "work"}
    BY <1>4 DEF Finish, Leak, Goto
  <2>3. \A d \in Connections : owner'[d] # r
    BY <2>1, <2>2
  <2>4. \A d \in Connections : owner'[d] \in Requests => owner'[d] = owner[d] /\ d # c
    BY <2>1
  <2>5. OnlyMessagesLookUp' /\ HoldersStarted'
    BY <2>2, <2>3, <2>4
  <2>6. OneUnlessLookup'
    BY <2>2, <2>3, <2>4
  <2>7. NeverThree'
    BY <2>2, <2>3, <2>4
  <2> QED BY <2>5, <2>6, <2>7
<1>5. ASSUME NEW c \in Connections, Grant(c) PROVE SharesBounded'
  <2>1. PICK r \in Requests : r = Head(queue) /\ Waiting(r)
    BY <1>5, Served DEF Grant, WaitersQueued
  <2>2. /\ owner' = [owner EXCEPT ![c] = r] /\ owner[c] = Nobody
        /\ req[r].pc = "author" => req'[r].pc = "lookup"
        /\ req[r].pc = "connect" => req'[r].pc \in {"work", "begin"}
        /\ req'[r].kind = req[r].kind
        /\ \A q \in Requests \ {r} : req'[q] = req[q]
    BY <1>5, <2>1 DEF Grant, Hand, Goto, Waiting
  <2>3. CASE req[r].pc = "connect"
    <3>1. \A d \in Connections : owner[d] # r
      BY <2>3
    <3> QED BY <2>2, <2>3, <3>1
  <2>4. CASE req[r].pc = "author"
    <3>1. req'[r].pc = "lookup" /\ req[r].kind = "message"
      BY <2>2, <2>4
    <3>2. \A d, e \in Connections : owner[d] = r /\ owner[e] = r => d = e
      BY <2>4
    <3>3. OnlyMessagesLookUp'
      BY <2>2, <3>1
    <3>4. HoldersStarted'
      BY <2>2, <3>1
    <3>5. OneUnlessLookup'
      BY <2>2, <3>1
    <3>6. NeverThree'
      BY <2>2, <3>2
    <3> QED BY <3>3, <3>4, <3>5, <3>6
  <2> QED BY <2>1, <2>3, <2>4 DEF Waiting
<1>6. CASE UNCHANGED vars
  BY <1>6 DEF vars
<1> QED BY <1>1, <1>2, <1>3, <1>4, <1>5, <1>6 DEF Next, Step

---------------------------------------------------------------------------
\* Waiters and shares, together inductive.
LEMMA PoolInductiveHolds == Spec => []PoolInductive
<1>1. Init => PoolInductive
  <2> SUFFICES ASSUME Init PROVE PoolInductive
    OBVIOUS
  <2>1. WaitersQueued
    BY DEF Init, WaitersQueued
  <2>2. SharesBounded
    BY PoolAssumption DEF Init, SharesBounded, OnlyMessagesLookUp, HoldersStarted,
                          OneUnlessLookup, NeverThree
  <2> QED BY <2>1, <2>2 DEF PoolInductive
<1>2. TypeOK /\ PoolInductive /\ [Next]_vars => PoolInductive'
  BY WaitersStep, SharesStep DEF PoolInductive
<1> QED BY <1>1, <1>2, TypeCorrect, PTL DEF Spec

\* A connection that cannot move and is not lost is held by a message that waits
\* for its author; were these fewer than such connections, one message would hold
\* two, which it does only while its lookup runs.
LEMMA Pigeons ==
  ASSUME TypeOK, PoolInductive
  PROVE  NeverAllWaiting
<1> SUFFICES ASSUME ~SomeConnectionMoves,
                    Cardinality(Authors) + Cardinality(Lost) < Cardinality(Connections)
             PROVE  FALSE
  BY DEF NeverAllWaiting
<1> DEFINE S == Connections \ Lost
           f == [c \in S |-> owner[c]]
<1>1. \A c \in S : owner[c] \in Authors
  BY DEF SomeConnectionMoves, TypeOK, PoolInductive, SharesBounded, HoldersStarted, Waiting, Lost,
         Authors, InFlight
<1>2. IsFiniteSet(S) /\ IsFiniteSet(Authors) /\ IsFiniteSet(Lost)
  BY PoolAssumption, FS_Subset DEF Authors, Lost
<1>3. Cardinality(Connections) <= Cardinality(S) + Cardinality(Lost)
  <2>1. Connections = S \cup Lost /\ S \cap Lost = {}
    BY DEF Lost
  <2>2. Cardinality(Connections) = Cardinality(S) + Cardinality(Lost) - Cardinality(S \cap Lost)
    BY <1>2, <2>1, FS_Union
  <2>3. Cardinality(S) \in Nat /\ Cardinality(Lost) \in Nat /\ Cardinality(S \cap Lost) = 0
    BY <1>2, <2>1, FS_CardinalityType, FS_EmptySet
  <2> QED BY <2>2, <2>3
<1>4. Cardinality(Authors) < Cardinality(S)
  <2>1. /\ Cardinality(S) \in Nat /\ Cardinality(Lost) \in Nat /\ Cardinality(Authors) \in Nat
        /\ Cardinality(Connections) \in Nat
    BY <1>2, PoolAssumption, FS_CardinalityType
  <2> QED BY <1>3, <2>1
<1>5. f \in [S -> Authors]
  BY <1>1
<1> HIDE DEF S, f
<1>6. PICK c, d \in S : c # d /\ f[c] = f[d]
  BY <1>2, <1>4, <1>5, FS_PigeonHole
<1>7. owner[c] = owner[d] /\ owner[c] \in Requests /\ req[owner[c]].pc = "lookup"
  BY <1>1, <1>6 DEF PoolInductive, SharesBounded, OneUnlessLookup, Authors, S, f
<1> QED BY <1>1, <1>6, <1>7 DEF Authors, S

\* Whatever is in flight, the pool stops only when as many chat messages wait for
\* their author as it has connections that are not lost.
THEOREM NoPoolDeadlock == Spec => []NeverAllWaiting
<1>1. TypeOK /\ PoolInductive => NeverAllWaiting
  BY Pigeons
<1> QED BY <1>1, TypeCorrect, PoolInductiveHolds, PTL
===========================================================================
