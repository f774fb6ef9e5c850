----------------------------- MODULE ChatRooms -----------------------------
(***************************************************************************)
(* ChatGateway and ChatService: sockets that come and go, the registry of  *)
(* connected clients, and messages, each handled in a transaction of       *)
(* WsTransactionInterceptor.  The first message of a user creates a room   *)
(* with the administrator.  Sockets are told of rooms and messages, and    *)
(* joined to rooms, while the transaction is still open.                   *)
(*                                                                         *)
(* Verifying a token and registering a socket is one step: no macrotask    *)
(* comes between.  A socket connects once; a reconnect is another socket.  *)
(***************************************************************************)
EXTENDS Naturals, FiniteSets

CONSTANTS Users, Admin,   \* the administrator is one of the users
          NoUser,         \* the sub of an access token that was rotated: undefined
          Sockets,
          Messages,       \* the sendMessage events
          MaxRoom,        \* bound: ids the sequence of chat_room hands out
          Nobody          \* no socket is registered

ASSUME ChatAssumption ==
  Admin \in Users /\ NoUser \notin Users /\ MaxRoom \in Nat /\ Nobody \notin Sockets

Clients == Users \cup {NoUser}   \* the keys of the registry
RoomIds == 1..MaxRoom
Stages  == {"new", "query", "join", "open", "closed"}
PCs     == {"idle", "author", "findRoom", "saveRoom", "saveChat", "commit",
            "sent", "failed", "lost"}

VARIABLES stage,     \* stage[s]: how far handleConnection of socket s got
          owner,     \* owner[s]: the sub of the token socket s presented
          found,     \* found[s]: rooms the query of joinUserRooms returned
          client,    \* connectedClients
          joined,    \* joined[s]: the rooms socket s is in
          rooms,     \* the committed rooms
          guest,     \* guest[i]: the user room i was created for
          nextRoom,  \* the sequence of the room ids, never rolled back
          msg,       \* msg[m]: author, room and place in the handler
          heard,     \* history: heard[m]: the sockets newMessage m was emitted to
          unseen     \* history: unseen[s]: rooms written and not committed at s's query

sockets == <<stage, owner, found, client, joined>>
tables  == <<rooms, guest, nextRoom>>
vars    == <<sockets, tables, msg, heard, unseen>>

Message == [pc: PCs, user: Clients, room: 0..MaxRoom, fresh: BOOLEAN]

TypeOK == /\ stage \in [Sockets -> Stages] /\ owner \in [Sockets -> Clients]
          /\ found \in [Sockets -> SUBSET RoomIds]
          /\ client \in [Clients -> Sockets \cup {Nobody}]
          /\ joined \in [Sockets -> SUBSET RoomIds]
          /\ rooms \subseteq RoomIds /\ guest \in [RoomIds -> Users]
          /\ nextRoom \in 1..MaxRoom + 1
          /\ msg \in [Messages -> Message]
          /\ \A m \in Messages : msg[m].user = NoUser => msg[m].pc \in {"author", "failed", "lost"}
          /\ heard \in [Messages -> SUBSET Sockets]
          /\ unseen \in [Sockets -> SUBSET RoomIds]

Connected(s)  == stage[s] \in {"query", "join", "open"}
Member(u, i)  == u \in {guest[i], Admin}
RoomsOf(u)    == {i \in rooms : Member(u, i)}
Handling(m)   == msg[m].pc \in {"author", "findRoom", "saveRoom", "saveChat", "commit"}
\* rooms that open transactions have written
Uncommitted   == {msg[m].room : m \in {n \in Messages : msg[n].fresh /\ msg[n].pc \in {"saveChat", "commit"}}}

Init == /\ stage = [s \in Sockets |-> "new"] /\ owner = [s \in Sockets |-> Admin]
        /\ found = [s \in Sockets |-> {}]
        /\ client = [u \in Clients |-> Nobody]
        /\ joined = [s \in Sockets |-> {}]
        /\ rooms = {} /\ guest = [i \in RoomIds |-> Admin] /\ nextRoom = 1
        /\ msg = [m \in Messages |-> [pc |-> "idle", user |-> Admin, room |-> 0, fresh |-> FALSE]]
        /\ heard = [m \in Messages |-> {}]
        /\ unseen = [s \in Sockets |-> {}]

---------------------------------------------------------------------------
(* Sockets *)

\* mutant: the socket is registered only after its rooms were asked for
ConnectUnregistered(s) ==
  /\ stage[s] = "new"
  /\ stage' = [stage EXCEPT ![s] = "query"]
  /\ \E u \in Clients : owner' = [owner EXCEPT ![s] = u]
  /\ UNCHANGED <<found, client, joined, tables, msg, heard, unseen>>

Connect(s) ==
  /\ stage[s] = "new"
  /\ stage' = [stage EXCEPT ![s] = "query"]
  /\ \E u \in Clients : owner' = [owner EXCEPT ![s] = u] /\ client' = [client EXCEPT ![u] = s]
  /\ UNCHANGED <<found, joined, tables, msg, heard, unseen>>

\* the database takes the snapshot of the query of joinUserRooms
QueryRooms(s) ==
  /\ stage[s] = "query"
  /\ stage' = [stage EXCEPT ![s] = "join"]
  /\ found' = [found EXCEPT ![s] = RoomsOf(owner[s])]
  /\ unseen' = [unseen EXCEPT ![s] = Uncommitted]
  /\ UNCHANGED <<owner, client, joined, tables, msg, heard>>

JoinRooms(s) ==
  /\ stage[s] = "join"
  /\ stage' = [stage EXCEPT ![s] = "open"]
  /\ joined' = [joined EXCEPT ![s] = @ \cup found[s]]
  /\ found' = [found EXCEPT ![s] = {}]
  /\ UNCHANGED <<owner, client, tables, msg, heard, unseen>>

\* mutant: the registry is not cleared
CloseKeeping(s) ==
  /\ stage' = [stage EXCEPT ![s] = "closed"]
  /\ joined' = [joined EXCEPT ![s] = {}] /\ found' = [found EXCEPT ![s] = {}]
  /\ unseen' = [unseen EXCEPT ![s] = {}]
  /\ UNCHANGED <<owner, client>>

\* handleDisconnect clears the entry of the user, whichever socket it holds
Close(s) ==
  /\ stage' = [stage EXCEPT ![s] = "closed"]
  /\ joined' = [joined EXCEPT ![s] = {}] /\ found' = [found EXCEPT ![s] = {}]
  /\ unseen' = [unseen EXCEPT ![s] = {}]
  /\ client' = [client EXCEPT ![owner[s]] = Nobody]
  /\ UNCHANGED owner

\* the client leaves, or the query of joinUserRooms fails and the server
\* disconnects it
Disconnect(s) == Connected(s) /\ Close(s) /\ UNCHANGED <<tables, msg, heard>>

---------------------------------------------------------------------------
(* Messages *)

Goto(m, pc) == msg' = [msg EXCEPT ![m].pc = pc]

\* the interceptor has begun the transaction
Send(m) ==
  /\ msg[m].pc = "idle"
  /\ \E s \in Sockets :
       /\ Connected(s)
       /\ msg' = [msg EXCEPT ![m] = [pc |-> "author", user |-> owner[s], room |-> 0, fresh |-> FALSE]]
  /\ UNCHANGED <<sockets, tables, heard, unseen>>

\* findOne drops a condition that is undefined: any user is the author of a message
\* whose sender has no id
FindAuthor(m) ==
  /\ msg[m].pc = "author"
  /\ \E u \in IF msg[m].user = NoUser THEN Users ELSE {msg[m].user} :
       msg' = [msg EXCEPT ![m].pc = "findRoom", ![m].user = u]
  /\ UNCHANGED <<sockets, tables, heard, unseen>>

\* the administrator has to name a room that exists; anybody else gets the
\* one, or any one, of his rooms, and the room he names is not looked at
FindRoom(m) ==
  LET u == msg[m].user
  IN  /\ msg[m].pc = "findRoom"
      /\ \/ /\ u = Admin
            /\ \E i \in rooms : msg' = [msg EXCEPT ![m].pc = "saveChat", ![m].room = i]
         \/ u = Admin /\ Goto(m, "failed")
         \/ /\ u # Admin
            /\ \E i \in RoomsOf(u) : msg' = [msg EXCEPT ![m].pc = "saveChat", ![m].room = i]
         \/ /\ u # Admin /\ RoomsOf(u) = {}
            /\ Goto(m, "saveRoom")
      /\ UNCHANGED <<sockets, tables, heard, unseen>>

\* mutant: only the author's socket is joined to the new room
JoinNewOfAuthor(u, i) == [s \in Sockets |-> IF client[u] = s THEN joined[s] \cup {i} ELSE joined[s]]

\* mutant: every connected socket is joined
JoinNewOfAll(u, i) == [s \in Sockets |-> IF Connected(s) THEN joined[s] \cup {i} ELSE joined[s]]

\* the registered sockets of both members are told and joined
JoinNew(u, i) ==
  [s \in Sockets |-> IF s \in {client[u], client[Admin]} THEN joined[s] \cup {i} ELSE joined[s]]

\* the administrator is found and the room saved; its sockets join at once
SaveRoom(m) ==
  /\ msg[m].pc = "saveRoom" /\ nextRoom <= MaxRoom
  /\ nextRoom' = nextRoom + 1
  /\ guest' = [guest EXCEPT ![nextRoom] = msg[m].user]
  /\ joined' = JoinNew(msg[m].user, nextRoom)
  /\ msg' = [msg EXCEPT ![m].pc = "saveChat", ![m].room = nextRoom, ![m].fresh = TRUE]
  /\ UNCHANGED <<stage, owner, found, client, rooms, heard, unseen>>

\* mutant: emitted to the room before the row is saved
SaveChatAfterEmit(m) ==
  LET c == client[msg[m].user]
  IN  /\ msg[m].pc = "saveChat"
      /\ heard' = [heard EXCEPT ![m] = IF c = Nobody THEN {} ELSE {s \in Sockets : msg[m].room \in joined[s]} \ {c}]
      /\ Goto(m, "commit") \/ Goto(m, "failed")
      /\ UNCHANGED <<sockets, tables, unseen>>

\* the row is saved and newMessage goes to the others in the room, provided the
\* author is registered
SaveChat(m) ==
  LET c == client[msg[m].user]
  IN  /\ msg[m].pc = "saveChat"
      /\ Goto(m, "commit")
      /\ heard' = [heard EXCEPT ![m] =
                     IF c = Nobody THEN {} ELSE {s \in Sockets : msg[m].room \in joined[s]} \ {c}]
      /\ UNCHANGED <<sockets, tables, unseen>>

Commit(m) ==
  /\ msg[m].pc = "commit"
  /\ Goto(m, "sent")
  /\ rooms' = IF msg[m].fresh THEN rooms \cup {msg[m].room} ELSE rooms
  /\ UNCHANGED <<sockets, guest, nextRoom, heard, unseen>>

---------------------------------------------------------------------------
(* Failures *)

\* a statement before COMMIT rejects, or the author or the administrator is not
\* found: rollback; what the sockets were told and joined to stays
Fail(m) ==
  /\ msg[m].pc \in {"author", "findRoom", "saveRoom", "saveChat"}
  /\ Goto(m, "failed")
  /\ UNCHANGED <<sockets, tables, heard, unseen>>

\* The process ends, for one because a COMMIT that nobody awaits rejects: the
\* sockets are gone and the open transactions roll back.
Crash ==
  /\ \E m \in Messages : Handling(m)
  /\ stage' = [s \in Sockets |-> IF Connected(s) THEN "closed" ELSE stage[s]]
  /\ joined' = [s \in Sockets |-> {}] /\ found' = [s \in Sockets |-> {}]
  /\ unseen' = [s \in Sockets |-> {}]
  /\ client' = [u \in Clients |-> Nobody]
  /\ msg' = [m \in Messages |-> IF Handling(m) THEN [msg[m] EXCEPT !.pc = "lost"] ELSE msg[m]]
  /\ UNCHANGED <<owner, tables, heard>>

Next == \/ \E s \in Sockets : Connect(s) \/ QueryRooms(s) \/ JoinRooms(s) \/ Disconnect(s)
        \/ \E m \in Messages : \/ Send(m) \/ FindAuthor(m) \/ FindRoom(m) \/ SaveRoom(m) \/ SaveChat(m)
                               \/ Commit(m) \/ Fail(m)
        \/ Crash

Spec == Init /\ [][Next]_vars

---------------------------------------------------------------------------
(* Properties *)

\* The registry never holds a socket that is gone, nor one of somebody else.
RegistryLive ==
  \A u \in Clients : client[u] # Nobody => owner[client[u]] = u /\ Connected(client[u])

\* A connected socket is missing from the registry only because another socket of its
\* user came (it takes the entry) or went (it takes the entry along): who has one tab
\* is registered, and who has two may hear nothing of new rooms in either.
FallsOutOnlyByAnother ==
  \A s \in Sockets :
    Connected(s) /\ client[owner[s]] # s =>
      \E t \in Sockets \ {s} : owner[t] = owner[s] /\ stage[t] # "new"

\* A socket is only ever in rooms of its own user, those of open and of failed
\* transactions included.
OnlyOwnRooms == \A s \in Sockets : \A i \in joined[s] : Member(owner[s], i)

\* What makes the properties inductive, with RegistryLive: a room is known only
\* after its id was drawn, a message that is stored or was heard has one, a socket
\* that has not presented its token is in no room, and one that has finds rooms of
\* its own user only.
KnownAreDrawn ==
  /\ rooms \subseteq 1..(nextRoom - 1)
  /\ \A s \in Sockets : joined[s] \cup found[s] \subseteq 1..(nextRoom - 1)
  /\ \A m \in Messages : /\ msg[m].room \in 0..(nextRoom - 1)
                         /\ msg[m].pc \in {"saveChat", "commit"} \/ heard[m] # {} => msg[m].room # 0

NewIsBlank ==
  \A s \in Sockets : stage[s] = "new" => /\ joined[s] = {} /\ found[s] = {}
                                         /\ \A m \in Messages : s \notin heard[m]

ChatInductive ==
  KnownAreDrawn /\ NewIsBlank /\ \A s \in Sockets : \A i \in found[s] : Member(owner[s], i)

\* A message is heard only by members of its room, and, unless the process died,
\* only when it is stored: emitting it before COMMIT is harmless because COMMIT
\* is all that follows.
HeardIsSent ==
  \A m \in Messages : \A s \in heard[m] :
    Member(owner[s], msg[m].room) /\ msg[m].pc \in {"commit", "sent", "lost"}

\* A registered socket that has finished connecting is in every room of its user,
\* but for rooms that were written and not yet committed when it looked.
OnlyTheGapIsMissed ==
  \A s \in Sockets :
    stage[s] = "open" /\ client[owner[s]] = s => RoomsOf(owner[s]) \subseteq joined[s] \cup unseen[s]

\* What makes it inductive: a room that is committed or written has reached every
\* registered socket that has asked for its rooms, by its query, through the gap or by
\* the request that wrote the room; only a request that has written its room holds one.
RoomsReach ==
  /\ \A m \in Messages : msg[m].pc \in {"idle", "author", "findRoom", "saveRoom"} => ~msg[m].fresh
  /\ \A s \in Sockets :
       stage[s] \in {"join", "open"} /\ client[owner[s]] = s =>
         \A i \in rooms \cup Uncommitted :
           Member(owner[s], i) => i \in joined[s] \cup found[s] \cup unseen[s]

\* A socket that has finished connecting has joined the rooms it found.
FoundIsJoined == \A s \in Sockets : stage[s] = "open" => found[s] = {}
===========================================================================
