-------------------------- MODULE ChatRoomsProofs --------------------------
(* The theorems about ChatRooms: the registry, and who is in which room. *)
EXTENDS ChatRooms, TLAPS

Inv == TypeOK /\ RegistryLive /\ ChatInductive /\ OnlyOwnRooms /\ HeardIsSent

LEMMA InitInv == Init => Inv
<1> SUFFICES ASSUME Init PROVE Inv
  OBVIOUS
<1>1. TypeOK
  BY ChatAssumption DEF Init, TypeOK, Stages, RoomIds, Message, PCs, Clients
<1>2. RegistryLive /\ ChatInductive /\ OnlyOwnRooms /\ HeardIsSent
  BY ChatAssumption DEF Init, RegistryLive, ChatInductive, KnownAreDrawn, NewIsBlank, OnlyOwnRooms, HeardIsSent
<1> QED
  BY <1>1, <1>2 DEF Inv

---------------------------------------------------------------------------
(* Sockets *)

LEMMA ConnectKeeps ==
  ASSUME Inv, NEW s \in Sockets, Connect(s)
  PROVE  Inv'
<1>1. TypeOK'
  BY ChatAssumption DEF Inv, TypeOK, Connect, Stages, tables
<1>2. RegistryLive'
  BY ChatAssumption DEF Inv, TypeOK, RegistryLive, Connect, Connected
<1>3. (ChatInductive /\ OnlyOwnRooms /\ HeardIsSent)'
  BY DEF Inv, Connect, ChatInductive, KnownAreDrawn, NewIsBlank, OnlyOwnRooms, HeardIsSent, Member, tables
<1> QED
  BY <1>1, <1>2, <1>3 DEF Inv

LEMMA QueryRoomsKeeps ==
  ASSUME Inv, NEW s \in Sockets, QueryRooms(s)
  PROVE  Inv'
<1>1. RoomsOf(owner[s]) \subseteq rooms /\ rooms \subseteq RoomIds
  BY DEF Inv, TypeOK, RoomsOf
<1>2. Uncommitted \subseteq RoomIds
  BY DEF Inv, TypeOK, Message, Uncommitted, ChatInductive, KnownAreDrawn, RoomIds
<1>3. TypeOK'
  BY <1>1, <1>2 DEF Inv, TypeOK, QueryRooms, Stages, tables
<1>4. RegistryLive'
  BY DEF Inv, TypeOK, RegistryLive, QueryRooms, Connected
<1>5. ChatInductive'
  BY <1>1 DEF Inv, TypeOK, QueryRooms, ChatInductive, KnownAreDrawn, NewIsBlank, Member, RoomsOf, tables
<1>6. (OnlyOwnRooms /\ HeardIsSent)'
  BY DEF Inv, QueryRooms, OnlyOwnRooms, HeardIsSent, Member, tables
<1> QED
  BY <1>3, <1>4, <1>5, <1>6 DEF Inv

LEMMA JoinRoomsKeeps ==
  ASSUME Inv, NEW s \in Sockets, JoinRooms(s)
  PROVE  Inv'
<1>1. TypeOK'
  BY DEF Inv, TypeOK, JoinRooms, Stages, tables
<1>2. RegistryLive'
  BY DEF Inv, TypeOK, RegistryLive, JoinRooms, Connected
<1>3. ChatInductive' /\ OnlyOwnRooms'
  BY DEF Inv, TypeOK, JoinRooms, ChatInductive, KnownAreDrawn, NewIsBlank, OnlyOwnRooms, Member, tables
<1>4. HeardIsSent'
  BY DEF Inv, JoinRooms, HeardIsSent, Member, tables
<1> QED
  BY <1>1, <1>2, <1>3, <1>4 DEF Inv

(* Close forgets the user's entry, so no socket it held can be left there. *)
LEMMA DisconnectKeeps ==
  ASSUME Inv, NEW s \in Sockets, Disconnect(s)
  PROVE  Inv'
<1>1. TypeOK'
  BY ChatAssumption DEF Inv, TypeOK, Disconnect, Close, Stages, tables
<1>2. RegistryLive'
  BY ChatAssumption DEF Inv, TypeOK, RegistryLive, Disconnect, Close, Connected
<1>3. ChatInductive' /\ OnlyOwnRooms'
  BY DEF Inv, TypeOK, Disconnect, Close, ChatInductive, KnownAreDrawn, NewIsBlank, OnlyOwnRooms, Member, tables
<1>4. HeardIsSent'
  BY DEF Inv, Disconnect, Close, HeardIsSent, Member, tables
<1> QED
  BY <1>1, <1>2, <1>3, <1>4 DEF Inv

---------------------------------------------------------------------------
(* Messages *)

(* Of a message that changes neither room nor sockets, only its place and its room matter. *)
LEMMA MessageMoves ==
  ASSUME Inv, NEW m \in Messages, UNCHANGED <<sockets, tables, heard, unseen>>,
         NEW r \in Message, msg' = [msg EXCEPT ![m] = r],
         r.room \in 0..(nextRoom - 1),
         r.user = NoUser => r.pc \in {"author", "failed", "lost"},
         r.pc \in {"saveChat", "commit"} \/ heard[m] # {} => r.room # 0,
         heard[m] # {} => r.room = msg[m].room /\ r.pc \in {"commit", "sent", "lost"}
  PROVE  Inv'
<1>1. TypeOK'
  BY DEF Inv, TypeOK, sockets, tables
<1>2. RegistryLive' /\ OnlyOwnRooms'
  BY DEF Inv, RegistryLive, OnlyOwnRooms, Connected, Member, sockets, tables
<1>3. ChatInductive'
  BY DEF Inv, TypeOK, ChatInductive, KnownAreDrawn, NewIsBlank, Member, sockets, tables
<1>4. HeardIsSent'
  BY DEF Inv, TypeOK, HeardIsSent, Member, sockets, tables
<1> QED
  BY <1>1, <1>2, <1>3, <1>4 DEF Inv

(* A message that was heard is beyond saveChat. *)
LEMMA UnheardBefore ==
  ASSUME Inv, NEW m \in Messages,
         msg[m].pc \in {"idle", "author", "findRoom", "saveRoom", "saveChat"}
  PROVE  heard[m] = {}
BY DEF Inv, TypeOK, HeardIsSent

LEMMA SendKeeps ==
  ASSUME Inv, NEW m \in Messages, Send(m)
  PROVE  Inv'
<1>1. heard[m] = {}
  BY UnheardBefore DEF Send
<1>2. PICK s \in Sockets :
        msg' = [msg EXCEPT ![m] = [pc |-> "author", user |-> owner[s], room |-> 0, fresh |-> FALSE]]
  BY DEF Send
<1> DEFINE r == [pc |-> "author", user |-> owner[s], room |-> 0, fresh |-> FALSE]
<1>3. r \in Message /\ r.room = 0 /\ r.pc = "author"
  BY ChatAssumption DEF Inv, TypeOK, Message, PCs
<1>4. 0 \in 0..(nextRoom - 1)
  BY ChatAssumption DEF Inv, TypeOK
<1> QED
  BY <1>1, <1>2, <1>3, <1>4, MessageMoves DEF Send

LEMMA FindRoomKeeps ==
  ASSUME Inv, NEW m \in Messages, FindRoom(m)
  PROVE  Inv'
<1>1. heard[m] = {} /\ msg[m].pc = "findRoom"
  BY UnheardBefore DEF FindRoom
<1>2. msg[m] \in Message /\ msg[m].room \in 0..(nextRoom - 1) /\ msg[m].user # NoUser
  BY <1>1 DEF Inv, TypeOK, ChatInductive, KnownAreDrawn
<1>3. UNCHANGED <<sockets, tables, heard, unseen>>
  BY DEF FindRoom
<1>4. ASSUME NEW i \in rooms, msg' = [msg EXCEPT ![m].pc = "saveChat", ![m].room = i]
      PROVE  Inv'
  <2> DEFINE r == [msg[m] EXCEPT !.pc = "saveChat", !.room = i]
  <2>1. i \in RoomIds /\ i \in 1..(nextRoom - 1) /\ nextRoom \in Nat
    BY <1>4, ChatAssumption DEF Inv, TypeOK, ChatInductive, KnownAreDrawn
  <2>2. i \in 0..MaxRoom /\ i \in 0..(nextRoom - 1) /\ i # 0
    BY <2>1, ChatAssumption DEF RoomIds
  <2>3. r \in Message /\ r.room = i /\ r.pc = "saveChat" /\ r.user # NoUser
    BY <1>2, <2>2 DEF Message, PCs
  <2>4. msg' = [msg EXCEPT ![m] = r]
    BY <1>4 DEF Inv, TypeOK
  <2> HIDE DEF r
  <2> QED
    BY <1>1, <1>3, <2>2, <2>3, <2>4, MessageMoves
<1>5. ASSUME NEW pc \in {"failed", "saveRoom"}, Goto(m, pc)
      PROVE  Inv'
  <2> DEFINE r == [msg[m] EXCEPT !.pc = pc]
  <2>1. r \in Message /\ r.room = msg[m].room /\ r.pc = pc /\ r.user # NoUser
    BY <1>2 DEF Message, PCs
  <2>2. msg' = [msg EXCEPT ![m] = r]
    BY <1>5 DEF Goto, Inv, TypeOK
  <2> HIDE DEF r
  <2> QED
    BY <1>1, <1>2, <1>3, <2>1, <2>2, MessageMoves
<1> QED
  BY <1>4, <1>5 DEF FindRoom, RoomsOf

LEMMA FindAuthorKeeps ==
  ASSUME Inv, NEW m \in Messages, FindAuthor(m)
  PROVE  Inv'
<1>1. heard[m] = {}
  BY UnheardBefore DEF FindAuthor
<1>2. msg[m] \in Message /\ msg[m].room \in 0..(nextRoom - 1)
  BY DEF Inv, TypeOK, ChatInductive, KnownAreDrawn
<1>3. PICK u \in Users : msg' = [msg EXCEPT ![m].pc = "findRoom", ![m].user = u]
  BY <1>2 DEF FindAuthor, Message, Clients
<1> DEFINE r == [msg[m] EXCEPT !.pc = "findRoom", !.user = u]
<1>4. r \in Message /\ r.room = msg[m].room /\ r.pc = "findRoom" /\ r.user # NoUser
  BY <1>2, ChatAssumption DEF Message, PCs, Clients
<1>5. msg' = [msg EXCEPT ![m] = r]
  BY <1>3 DEF Inv, TypeOK
<1> HIDE DEF r
<1> QED
  BY <1>1, <1>2, <1>4, <1>5, MessageMoves DEF FindAuthor

LEMMA FailKeeps ==
  ASSUME Inv, NEW m \in Messages, Fail(m)
  PROVE  Inv'
<1>1. heard[m] = {}
  BY UnheardBefore DEF Fail
<1>2. msg[m] \in Message /\ msg[m].room \in 0..(nextRoom - 1)
  BY DEF Inv, TypeOK, ChatInductive, KnownAreDrawn
<1> DEFINE r == [msg[m] EXCEPT !.pc = "failed"]
<1>3. r \in Message /\ r.room = msg[m].room /\ r.pc = "failed"
  BY <1>2 DEF Message, PCs
<1>4. msg' = [msg EXCEPT ![m] = r]
  BY DEF Fail, Goto, Inv, TypeOK
<1> HIDE DEF r
<1> QED
  BY <1>1, <1>2, <1>3, <1>4, MessageMoves DEF Fail

(* The id is fresh, so the row changes the members of no room anything refers to. *)
LEMMA SaveRoomKeeps ==
  ASSUME Inv, NEW m \in Messages, SaveRoom(m)
  PROVE  Inv'
<1> USE ChatAssumption
<1>1. nextRoom \in RoomIds /\ nextRoom \in 0..MaxRoom /\ nextRoom + 1 \in 1..MaxRoom + 1
  BY DEF Inv, TypeOK, SaveRoom, RoomIds
<1>2. msg[m] \in Message /\ msg[m].user \in Users
  BY DEF Inv, TypeOK, Message, Clients, SaveRoom
<1>3. heard[m] = {}
  BY UnheardBefore DEF SaveRoom
<1>4. /\ joined' \in [Sockets -> SUBSET RoomIds]
      /\ \A s \in Sockets : /\ joined'[s] \subseteq joined[s] \cup {nextRoom}
                            /\ nextRoom \in joined'[s] /\ nextRoom \notin joined[s]
                                 => s \in {client[msg[m].user], client[Admin]}
  BY <1>1 DEF Inv, TypeOK, SaveRoom, JoinNew
<1>5. TypeOK'
  BY <1>1, <1>2, <1>4 DEF Inv, TypeOK, SaveRoom, Message, PCs
<1>6. RegistryLive'
  BY DEF Inv, RegistryLive, SaveRoom, Connected
<1>7. \A i \in 1..(nextRoom - 1) : i \in RoomIds /\ guest'[i] = guest[i]
  BY <1>1 DEF Inv, TypeOK, SaveRoom, RoomIds
<1>8. guest'[nextRoom] = msg[m].user
  BY <1>1 DEF Inv, TypeOK, SaveRoom
<1>9. ChatInductive'
  <2>1. \A s \in Sockets : joined'[s] \cup found'[s] \subseteq 1..nextRoom
    BY <1>1, <1>4 DEF Inv, TypeOK, SaveRoom, ChatInductive, KnownAreDrawn
  <2>2. rooms' \subseteq 1..nextRoom
    BY <1>1 DEF Inv, TypeOK, SaveRoom, ChatInductive, KnownAreDrawn
  <2>3. \A n \in Messages : /\ msg'[n].room \in 0..nextRoom
                            /\ msg'[n].pc \in {"saveChat", "commit"} \/ heard'[n] # {}
                                 => msg'[n].room # 0
    BY <1>1, <1>3 DEF Inv, TypeOK, SaveRoom, ChatInductive, KnownAreDrawn, Message
  <2>4. nextRoom' - 1 = nextRoom
    BY <1>1 DEF SaveRoom
  <2>5. \A s \in Sockets : \A i \in found[s] : Member(owner[s], i)'
    BY <1>7 DEF Inv, ChatInductive, KnownAreDrawn, SaveRoom, Member
  <2>6. found' = found
    BY DEF SaveRoom
  <2>7. NewIsBlank'
    <3>1. \A s \in {client[msg[m].user], client[Admin]} : s \in Sockets => stage[s] # "new"
      BY <1>2 DEF Inv, TypeOK, RegistryLive, Connected, Clients
    <3> QED
      BY <3>1, <1>4 DEF Inv, TypeOK, SaveRoom, ChatInductive, NewIsBlank, JoinNew
  <2> QED
    BY <2>1, <2>2, <2>3, <2>4, <2>5, <2>6, <2>7 DEF ChatInductive, KnownAreDrawn
<1>10. OnlyOwnRooms'
  <2> SUFFICES ASSUME NEW s \in Sockets, NEW i \in joined'[s]
               PROVE  owner[s] \in {guest'[i], Admin}
    BY DEF SaveRoom, OnlyOwnRooms, Member
  <2>1. CASE i \in joined[s]
    BY <2>1, <1>7 DEF Inv, OnlyOwnRooms, Member, ChatInductive, KnownAreDrawn
  <2>2. CASE i \notin joined[s]
    <3>1. i = nextRoom /\ s \in {client[msg[m].user], client[Admin]}
      BY <2>2, <1>4
    <3>2. owner[s] \in {msg[m].user, Admin}
      BY <3>1, <1>2 DEF Inv, RegistryLive, Clients
    <3> QED
      BY <3>1, <3>2, <1>8
  <2> QED
    BY <2>1, <2>2
<1>11. HeardIsSent'
  <2> SUFFICES ASSUME NEW n \in Messages, NEW s \in heard[n]
               PROVE  owner[s] \in {guest'[msg'[n].room], Admin} /\ msg'[n].pc \in {"commit", "sent", "lost"}
    BY DEF HeardIsSent, Member, SaveRoom
  <2>1. n # m
    BY <1>3
  <2>2. msg'[n] = msg[n]
    BY <2>1 DEF Inv, TypeOK, SaveRoom
  <2>3. msg[n].room \in 1..(nextRoom - 1)
    BY <1>1 DEF Inv, TypeOK, ChatInductive, KnownAreDrawn
  <2> QED
    BY <2>2, <2>3, <1>7 DEF Inv, HeardIsSent, Member
<1> QED
  BY <1>5, <1>6, <1>9, <1>10, <1>11 DEF Inv

LEMMA SaveChatKeeps ==
  ASSUME Inv, NEW m \in Messages, SaveChat(m)
  PROVE  Inv'
<1>1. /\ heard' \in [Messages -> SUBSET Sockets]
      /\ \A s \in heard'[m] : s \in Sockets /\ msg[m].room \in joined[s]
      /\ \A n \in Messages \ {m} : heard'[n] = heard[n]
  BY DEF Inv, TypeOK, SaveChat
<1>2. /\ msg' = [msg EXCEPT ![m].pc = "commit"] /\ msg[m].pc = "saveChat"
      /\ UNCHANGED <<sockets, tables, unseen>>
  BY DEF SaveChat, Goto
<1>3. \A n \in Messages : msg'[n].room = msg[n].room /\ (n # m => msg'[n] = msg[n])
  BY <1>2 DEF Inv, TypeOK, Message
<1>9. \A n \in Messages : msg'[n].user = msg[n].user
  BY <1>2 DEF Inv, TypeOK, Message
<1>4. msg'[m].pc = "commit" /\ msg' \in [Messages -> Message]
  BY <1>2 DEF Inv, TypeOK, Message, PCs
<1>5. TypeOK'
  <2>1. msg[m].user # NoUser
    BY <1>2 DEF Inv, TypeOK
  <2> QED BY <1>1, <1>2, <1>3, <1>4, <1>9, <2>1 DEF Inv, TypeOK, sockets, tables
<1>6. RegistryLive' /\ OnlyOwnRooms'
  BY <1>2 DEF Inv, RegistryLive, OnlyOwnRooms, Connected, Member, sockets, tables
<1>7. ChatInductive'
  BY <1>1, <1>2, <1>3 DEF Inv, ChatInductive, KnownAreDrawn, NewIsBlank, Member, sockets, tables
<1>8. HeardIsSent'
  <2> SUFFICES ASSUME NEW n \in Messages, NEW s \in heard'[n]
               PROVE  owner[s] \in {guest[msg[n].room], Admin} /\ msg'[n].pc \in {"commit", "sent", "lost"}
    BY <1>2, <1>3 DEF HeardIsSent, Member, sockets, tables
  <2>1. CASE n = m
    BY <2>1, <1>1, <1>4 DEF Inv, OnlyOwnRooms, Member
  <2>2. CASE n # m
    BY <2>2, <1>1, <1>3 DEF Inv, HeardIsSent, Member
  <2> QED
    BY <2>1, <2>2
<1> QED
  BY <1>5, <1>6, <1>7, <1>8 DEF Inv

LEMMA CommitKeeps ==
  ASSUME Inv, NEW m \in Messages, Commit(m)
  PROVE  Inv'
<1>1. /\ msg[m].room \in 1..(nextRoom - 1) /\ msg[m].room \in RoomIds
      /\ rooms' \subseteq rooms \cup {msg[m].room}
  BY ChatAssumption DEF Inv, TypeOK, Message, ChatInductive, KnownAreDrawn, Commit, RoomIds
<1>2. /\ msg' = [msg EXCEPT ![m].pc = "sent"]
      /\ UNCHANGED <<sockets, guest, nextRoom, heard, unseen>>
  BY DEF Commit, Goto
<1>3. \A n \in Messages : msg'[n].room = msg[n].room /\ (n # m => msg'[n] = msg[n])
  BY <1>2 DEF Inv, TypeOK, Message
<1>9. \A n \in Messages : msg'[n].user = msg[n].user
  BY <1>2 DEF Inv, TypeOK, Message
<1>4. msg'[m].pc = "sent" /\ msg' \in [Messages -> Message]
  BY <1>2 DEF Inv, TypeOK, Message, PCs
<1>5. TypeOK'
  <2>1. msg[m].user # NoUser
    BY DEF Commit, Inv, TypeOK
  <2> QED BY <1>1, <1>2, <1>3, <1>4, <1>9, <2>1 DEF Inv, TypeOK, sockets
<1>6. RegistryLive' /\ OnlyOwnRooms'
  BY <1>2 DEF Inv, RegistryLive, OnlyOwnRooms, Connected, Member, sockets
<1>7. ChatInductive'
  BY <1>1, <1>2, <1>3 DEF Inv, ChatInductive, KnownAreDrawn, NewIsBlank, Member, sockets, Commit
<1>8. HeardIsSent'
  BY <1>2, <1>3, <1>4 DEF Inv, HeardIsSent, Member, sockets
<1> QED
  BY <1>5, <1>6, <1>7, <1>8 DEF Inv

---------------------------------------------------------------------------
(* Failures *)

LEMMA CrashKeeps == Inv /\ Crash => Inv'
<1> SUFFICES ASSUME Inv, Crash PROVE Inv'
  OBVIOUS
<1>1. /\ msg' \in [Messages -> Message]
      /\ \A n \in Messages : /\ msg'[n].room = msg[n].room /\ msg'[n].user = msg[n].user
                             /\ msg'[n].pc \in {msg[n].pc, "lost"}
  <2>1. ASSUME NEW n \in Messages
        PROVE  /\ msg'[n] \in Message
               /\ msg'[n].room = msg[n].room /\ msg'[n].user = msg[n].user
               /\ msg'[n].pc \in {msg[n].pc, "lost"}
    BY DEF Inv, TypeOK, Crash, Message, PCs
  <2>2. msg' = [n \in Messages |-> msg'[n]]
    BY DEF Crash
  <2> QED BY <2>1, <2>2
<1>2. TypeOK'
  BY <1>1 DEF Inv, TypeOK, Crash, Stages, tables
<1>3. RegistryLive' /\ OnlyOwnRooms'
  BY DEF Inv, TypeOK, Crash, RegistryLive, OnlyOwnRooms
<1>4. ChatInductive'
  BY <1>1 DEF Inv, TypeOK, Crash, ChatInductive, KnownAreDrawn, NewIsBlank, Member, tables
<1>5. HeardIsSent'
  BY <1>1 DEF Inv, Crash, HeardIsSent, Member, tables
<1> QED
  BY <1>2, <1>3, <1>4, <1>5 DEF Inv

LEMMA NextInv == Inv /\ [Next]_vars => Inv'
<1> SUFFICES ASSUME Inv, [Next]_vars PROVE Inv'
  OBVIOUS
<1>1. CASE UNCHANGED vars
  BY <1>1 DEF Inv, vars, sockets, tables, TypeOK, RegistryLive, ChatInductive, KnownAreDrawn, NewIsBlank,
              OnlyOwnRooms, HeardIsSent, Connected, Member
<1>2. CASE \E s \in Sockets : Connect(s) \/ QueryRooms(s) \/ JoinRooms(s) \/ Disconnect(s)
  BY <1>2, ConnectKeeps, QueryRoomsKeeps, JoinRoomsKeeps, DisconnectKeeps
<1>3. CASE \E m \in Messages : \/ Send(m) \/ FindAuthor(m) \/ FindRoom(m) \/ SaveRoom(m)
                               \/ SaveChat(m) \/ Commit(m) \/ Fail(m)
  BY <1>3, SendKeeps, FindAuthorKeeps, FailKeeps, FindRoomKeeps, SaveRoomKeeps, SaveChatKeeps, CommitKeeps
<1>4. CASE Crash
  BY <1>4, CrashKeeps
<1> QED
  BY <1>1, <1>2, <1>3, <1>4 DEF Next

LEMMA InvHolds == Spec => []Inv
BY InitInv, NextInv, PTL DEF Spec

\* An entry is taken by a socket of the same user only, and sockets keep their user.
LEMMA FallsOutStep ==
  ASSUME Inv, FallsOutOnlyByAnother, [Next]_vars
  PROVE  FallsOutOnlyByAnother'
<1> USE DEF FallsOutOnlyByAnother, Connected
<1>1. ASSUME NEW s \in Sockets, Connect(s) PROVE FallsOutOnlyByAnother'
  <2>1. PICK u \in Clients : owner' = [owner EXCEPT ![s] = u] /\ client' = [client EXCEPT ![u] = s]
    BY <1>1 DEF Connect
  <2>2. stage[s] = "new" /\ stage' = [stage EXCEPT ![s] = "query"]
    BY <1>1 DEF Connect
  <2> SUFFICES ASSUME NEW q \in Sockets, Connected(q)', client'[owner'[q]] # q
               PROVE  \E t \in Sockets \ {q} : owner'[t] = owner'[q] /\ stage'[t] # "new"
    OBVIOUS
  <2>3. q # s /\ owner'[q] = owner[q] /\ Connected(q)
    BY <2>1, <2>2 DEF Inv, TypeOK
  <2>4. CASE owner[q] = u
    BY <2>1, <2>2, <2>3, <2>4 DEF Inv, TypeOK
  <2>5. CASE owner[q] # u
    <3>1. client[owner[q]] # q
      BY <2>1, <2>3, <2>5 DEF Inv, TypeOK
    <3>2. PICK t \in Sockets \ {q} : owner[t] = owner[q] /\ stage[t] # "new"
      BY <2>3, <3>1
    <3> QED BY <2>1, <2>2, <2>3, <3>2 DEF Inv, TypeOK
  <2> QED BY <2>4, <2>5
<1>2. ASSUME NEW s \in Sockets, QueryRooms(s) \/ JoinRooms(s) PROVE FallsOutOnlyByAnother'
  BY <1>2 DEF QueryRooms, JoinRooms, Inv, TypeOK
<1>3. ASSUME NEW s \in Sockets, Disconnect(s) PROVE FallsOutOnlyByAnother'
  <2>1. /\ stage' = [stage EXCEPT ![s] = "closed"] /\ owner' = owner /\ Connected(s)
        /\ client' = [client EXCEPT ![owner[s]] = Nobody]
    BY <1>3 DEF Disconnect, Close
  <2> SUFFICES ASSUME NEW q \in Sockets, Connected(q)', client'[owner[q]] # q
               PROVE  \E t \in Sockets \ {q} : owner[t] = owner[q] /\ stage'[t] # "new"
    BY <2>1
  <2>2. q # s /\ Connected(q)
    BY <2>1 DEF Inv, TypeOK
  <2>3. CASE owner[q] = owner[s]
    BY <2>1, <2>2, <2>3 DEF Inv, TypeOK
  <2>4. CASE owner[q] # owner[s]
    <3>1. client[owner[q]] # q
      BY <2>1, <2>4 DEF Inv, TypeOK
    <3>2. PICK t \in Sockets \ {q} : owner[t] = owner[q] /\ stage[t] # "new"
      BY <2>2, <3>1
    <3> QED BY <2>1, <3>2 DEF Inv, TypeOK
  <2> QED BY <2>3, <2>4
<1>4. ASSUME UNCHANGED <<stage, owner, client>> PROVE FallsOutOnlyByAnother'
  BY <1>4
<1>5. CASE \E m \in Messages : \/ Send(m) \/ FindAuthor(m) \/ FindRoom(m) \/ SaveRoom(m)
                               \/ SaveChat(m) \/ Commit(m) \/ Fail(m)
  BY <1>4, <1>5 DEF Send, FindAuthor, FindRoom, SaveRoom, SaveChat, Commit, Fail, sockets
<1>6. CASE Crash
  BY <1>6 DEF Crash, Inv, TypeOK
<1>7. CASE UNCHANGED vars
  BY <1>4, <1>7 DEF vars, sockets
<1> QED BY <1>1, <1>2, <1>3, <1>5, <1>6, <1>7 DEF Next

(* Nothing in RoomsReach changes but rooms that go, or sockets that leave the registry. *)
LEMMA ReachFrame ==
  ASSUME Inv, RoomsReach,
         \A m \in Messages : msg'[m].pc \in {"idle", "author", "findRoom", "saveRoom"} => ~msg'[m].fresh,
         rooms' \cup Uncommitted' \subseteq rooms \cup Uncommitted,
         owner' = owner, guest' = guest, UNCHANGED <<joined, found, unseen>>,
         \A s \in Sockets : stage'[s] \in {"join", "open"} /\ client'[owner[s]] = s
                              => stage[s] \in {"join", "open"} /\ client[owner[s]] = s
  PROVE  RoomsReach'
<1>1. ASSUME NEW s \in Sockets, stage'[s] \in {"join", "open"}, client'[owner'[s]] = s,
             NEW i \in rooms' \cup Uncommitted', Member(owner[s], i)'
      PROVE  i \in joined'[s] \cup found'[s] \cup unseen'[s]
  BY <1>1 DEF RoomsReach, Member
<1> QED BY <1>1 DEF RoomsReach, Member

LEMMA ReachStep ==
  ASSUME Inv, RoomsReach, [Next]_vars
  PROVE  RoomsReach'
<1>1. ASSUME NEW s \in Sockets, Connect(s) PROVE RoomsReach'
  <2>1. PICK u \in Clients : owner' = [owner EXCEPT ![s] = u] /\ client' = [client EXCEPT ![u] = s]
    BY <1>1 DEF Connect
  <2>2. /\ stage[s] = "new" /\ stage' = [stage EXCEPT ![s] = "query"]
        /\ UNCHANGED <<found, joined, rooms, guest, msg, unseen>>
    BY <1>1 DEF Connect, tables
  <2>3. ASSUME NEW q \in Sockets, stage'[q] \in {"join", "open"}, client'[owner'[q]] = q
        PROVE  q # s /\ owner'[q] = owner[q] /\ stage[q] = stage'[q] /\ client[owner[q]] = q
    BY <2>1, <2>2, <2>3 DEF Inv, TypeOK
  <2>4. Uncommitted' = Uncommitted
    BY <2>2 DEF Uncommitted
  <2> QED BY <2>2, <2>3, <2>4 DEF RoomsReach, Member
<1>2. ASSUME NEW s \in Sockets, QueryRooms(s) PROVE RoomsReach'
  <2>1. /\ stage' = [stage EXCEPT ![s] = "join"] /\ found' = [found EXCEPT ![s] = RoomsOf(owner[s])]
        /\ unseen' = [unseen EXCEPT ![s] = Uncommitted]
        /\ UNCHANGED <<owner, client, joined, rooms, guest, msg>>
    BY <1>2 DEF QueryRooms, tables
  <2>2. Uncommitted' = Uncommitted
    BY <2>1 DEF Uncommitted
  <2>3. ASSUME NEW q \in Sockets, stage'[q] \in {"join", "open"}, client'[owner'[q]] = q,
               NEW i \in rooms \cup Uncommitted, Member(owner[q], i)
        PROVE  i \in joined'[q] \cup found'[q] \cup unseen'[q]
    <3>1. CASE q = s
      <4>1. found'[s] = RoomsOf(owner[s]) /\ unseen'[s] = Uncommitted
        BY <2>1 DEF Inv, TypeOK
      <4> QED BY <2>3, <3>1, <4>1 DEF RoomsOf
    <3>2. CASE q # s
      BY <2>1, <2>3, <3>2 DEF RoomsReach, Inv, TypeOK
    <3> QED BY <3>1, <3>2
  <2> QED BY <2>1, <2>2, <2>3 DEF RoomsReach, Member
<1>3. ASSUME NEW s \in Sockets, JoinRooms(s) PROVE RoomsReach'
  <2>1. /\ stage[s] = "join" /\ stage' = [stage EXCEPT ![s] = "open"]
        /\ joined' = [joined EXCEPT ![s] = joined[s] \cup found[s]]
        /\ found' = [found EXCEPT ![s] = {}]
        /\ UNCHANGED <<owner, client, rooms, guest, msg, unseen>>
    BY <1>3 DEF JoinRooms, tables
  <2>2. Uncommitted' = Uncommitted
    BY <2>1 DEF Uncommitted
  <2>3. \A q \in Sockets : /\ joined'[q] \cup found'[q] = joined[q] \cup found[q]
                           /\ stage'[q] \in {"join", "open"} => stage[q] \in {"join", "open"}
    BY <2>1 DEF Inv, TypeOK
  <2> QED BY <2>1, <2>2, <2>3 DEF RoomsReach, Member
<1>4. ASSUME NEW s \in Sockets, Disconnect(s) PROVE RoomsReach'
  <2>1. /\ stage' = [stage EXCEPT ![s] = "closed"] /\ client' = [client EXCEPT ![owner[s]] = Nobody]
        /\ joined' = [joined EXCEPT ![s] = {}] /\ found' = [found EXCEPT ![s] = {}]
        /\ unseen' = [unseen EXCEPT ![s] = {}]
        /\ UNCHANGED <<owner, rooms, guest, msg>>
    BY <1>4 DEF Disconnect, Close, tables
  <2>2. Uncommitted' = Uncommitted
    BY <2>1 DEF Uncommitted
  <2>3. ASSUME NEW q \in Sockets, stage'[q] \in {"join", "open"}, client'[owner[q]] = q
        PROVE  /\ stage[q] = stage'[q] /\ client[owner[q]] = q
               /\ joined'[q] = joined[q] /\ found'[q] = found[q] /\ unseen'[q] = unseen[q]
    BY <2>1, <2>3, ChatAssumption DEF Inv, TypeOK
  <2> QED BY <2>1, <2>2, <2>3 DEF RoomsReach, Member
<1>5. ASSUME NEW m \in Messages, SaveRoom(m) PROVE RoomsReach'
  <2> DEFINE u == msg[m].user
  <2>1. /\ msg[m].pc = "saveRoom"
        /\ msg' = [msg EXCEPT ![m].pc = "saveChat", ![m].room = nextRoom, ![m].fresh = TRUE]
        /\ guest' = [guest EXCEPT ![nextRoom] = u]
        /\ \A s \in Sockets : joined'[s] = IF s \in {client[u], client[Admin]}
                                           THEN joined[s] \cup {nextRoom} ELSE joined[s]
        /\ nextRoom \in RoomIds
        /\ UNCHANGED <<stage, owner, found, client, rooms, unseen>>
    BY <1>5, ChatAssumption DEF SaveRoom, JoinNew, Inv, TypeOK, RoomIds
  <2>2. Uncommitted' \subseteq Uncommitted \cup {nextRoom}
    BY <2>1 DEF Uncommitted, Inv, TypeOK, Message
  <2>3. ASSUME NEW q \in Sockets, stage[q] \in {"join", "open"}, client[owner[q]] = q,
               NEW i \in rooms \cup Uncommitted', Member(owner[q], i)'
        PROVE  i \in joined'[q] \cup found[q] \cup unseen[q]
    <3>1. CASE i = nextRoom
      <4>1. owner[q] \in {u, Admin}
        BY <2>1, <2>3, <3>1 DEF Member, Inv, TypeOK
      <4> QED BY <2>1, <2>3, <3>1, <4>1
    <3>2. CASE i # nextRoom
      <4>1. i \in rooms \cup Uncommitted /\ Member(owner[q], i)
        BY <2>1, <2>2, <2>3, <3>2 DEF Member, Inv, TypeOK
      <4>2. i \in joined[q] \cup found[q] \cup unseen[q]
        BY <2>3, <4>1 DEF RoomsReach
      <4> QED BY <2>1, <4>2
    <3> QED BY <3>1, <3>2
  <2>4. \A n \in Messages : msg'[n].pc \in {"idle", "author", "findRoom", "saveRoom"} => ~msg'[n].fresh
    BY <2>1 DEF RoomsReach, Inv, TypeOK, Message
  <2> QED BY <2>1, <2>3, <2>4 DEF RoomsReach
<1>6. ASSUME NEW m \in Messages, Commit(m) PROVE RoomsReach'
  <2>1. /\ msg[m].pc = "commit" /\ msg' = [msg EXCEPT ![m].pc = "sent"]
        /\ rooms' = IF msg[m].fresh THEN rooms \cup {msg[m].room} ELSE rooms
        /\ UNCHANGED <<stage, owner, found, client, joined, guest, unseen>>
    BY <1>6 DEF Commit, Goto, sockets
  <2>2. rooms' \cup Uncommitted' \subseteq rooms \cup Uncommitted
    BY <2>1 DEF Uncommitted, Inv, TypeOK, Message
  <2>3. \A n \in Messages : msg'[n].pc \in {"idle", "author", "findRoom", "saveRoom"} => ~msg'[n].fresh
    BY <2>1 DEF RoomsReach, Inv, TypeOK, Message
  <2> QED BY <2>1, <2>2, <2>3, ReachFrame
<1>7. ASSUME NEW m \in Messages,
             Send(m) \/ FindAuthor(m) \/ FindRoom(m) \/ SaveChat(m) \/ Fail(m)
      PROVE  RoomsReach'
  <2>1. UNCHANGED <<stage, owner, found, client, joined, rooms, guest, unseen>>
    BY <1>7 DEF Send, FindAuthor, FindRoom, SaveChat, Fail, sockets, tables
  <2>2. /\ \A n \in Messages : msg'[n].pc \in {"idle", "author", "findRoom", "saveRoom"} => ~msg'[n].fresh
        /\ Uncommitted' \subseteq Uncommitted
    <3>1. CASE Send(m)
      BY <3>1 DEF Send, Uncommitted, RoomsReach, Inv, TypeOK, Message
    <3>2. CASE FindAuthor(m)
      BY <3>2 DEF FindAuthor, Uncommitted, RoomsReach, Inv, TypeOK, Message
    <3>3. CASE FindRoom(m)
      <4>1. ~msg[m].fresh
        BY <3>3 DEF FindRoom, RoomsReach
      <4>2. /\ \A n \in Messages \ {m} : msg'[n] = msg[n]
            /\ ~msg'[m].fresh
        BY <3>3, <4>1 DEF FindRoom, Goto, Inv, TypeOK, Message
      <4> QED BY <4>2 DEF Uncommitted, RoomsReach
    <3>4. CASE SaveChat(m) \/ Fail(m)
      BY <3>4 DEF SaveChat, Fail, Goto, Uncommitted, RoomsReach, Inv, TypeOK, Message
    <3> QED BY <1>7, <3>1, <3>2, <3>3, <3>4
  <2> QED BY <2>1, <2>2, ReachFrame
<1>8. CASE Crash
  <2>1. \A s \in Sockets : client'[owner'[s]] # s
    BY <1>8, ChatAssumption DEF Crash, Inv, TypeOK
  <2>2. \A m \in Messages : msg'[m] = IF Handling(m) THEN [msg[m] EXCEPT !.pc = "lost"] ELSE msg[m]
    BY <1>8 DEF Crash
  <2>3. \A m \in Messages : msg'[m].pc \in {"idle", "author", "findRoom", "saveRoom"} => ~msg'[m].fresh
    BY <2>2 DEF RoomsReach, Inv, TypeOK, Message
  <2> QED BY <2>1, <2>3 DEF RoomsReach
<1>9. CASE UNCHANGED vars
  <2>1. Uncommitted' = Uncommitted
    BY <1>9 DEF vars, Uncommitted
  <2> QED BY <1>9, <2>1 DEF vars, sockets, tables, RoomsReach, Member
<1> QED BY <1>1, <1>2, <1>3, <1>4, <1>5, <1>6, <1>7, <1>8, <1>9 DEF Next

LEMMA FoundIsJoinedStep ==
  ASSUME Inv, FoundIsJoined, [Next]_vars
  PROVE  FoundIsJoined'
<1>1. CASE \E s \in Sockets : Connect(s) \/ QueryRooms(s) \/ JoinRooms(s) \/ Disconnect(s)
  BY <1>1 DEF Connect, QueryRooms, JoinRooms, Disconnect, Close, FoundIsJoined, Inv, TypeOK
<1>2. CASE \E m \in Messages : \/ Send(m) \/ FindAuthor(m) \/ FindRoom(m) \/ SaveRoom(m)
                               \/ SaveChat(m) \/ Commit(m) \/ Fail(m)
  BY <1>2 DEF Send, FindAuthor, FindRoom, SaveRoom, SaveChat, Commit, Fail, FoundIsJoined, sockets
<1>3. CASE Crash
  BY <1>3 DEF Crash, FoundIsJoined
<1>4. CASE UNCHANGED vars
  BY <1>4 DEF vars, sockets, FoundIsJoined
<1> QED BY <1>1, <1>2, <1>3, <1>4 DEF Next

---------------------------------------------------------------------------
(* Theorems *)

\* The state of sockets, rooms and messages keeps its types: every client,
\* every room id drawn and every message in the handler.
THEOREM TypeCorrect == Spec => []TypeOK
BY InvHolds, PTL DEF Inv

\* connectedClients holds for a user only a socket of that user which is still
\* connected, however many tabs come and go in whatever order.
THEOREM RegistryHolds == Spec => []RegistryLive
BY InvHolds, PTL DEF Inv

\* A connected socket is out of connectedClients only if its user has, or had, another.
THEOREM FallsOutHolds == Spec => []FallsOutOnlyByAnother
<1>1. Init => FallsOutOnlyByAnother
  BY DEF Init, FallsOutOnlyByAnother, Connected
<1> QED BY <1>1, InvHolds, FallsOutStep, PTL DEF Spec

\* joinUserRooms and getOrCreateChatRoom put a socket only into rooms its user is
\* a member of, whoever else creates rooms meanwhile.
THEOREM OnlyOwnRoomsHolds == Spec => []OnlyOwnRooms
BY InvHolds, PTL DEF Inv

\* createMessage lets a newMessage be heard by members of its room only, and never
\* of a message whose transaction rolls back while the process lives.
THEOREM HeardHolds == Spec => []HeardIsSent
BY InvHolds, PTL DEF Inv

\* Between them, joinUserRooms and getOrCreateChatRoom join a registered socket to every
\* room of its user, but for rooms that were uncommitted when it asked.
THEOREM GapHolds == Spec => []OnlyTheGapIsMissed
<1>1. Init => RoomsReach /\ FoundIsJoined
  BY DEF Init, RoomsReach, FoundIsJoined
<1>2. RoomsReach /\ FoundIsJoined => OnlyTheGapIsMissed
  BY DEF RoomsReach, FoundIsJoined, OnlyTheGapIsMissed, RoomsOf
<1> QED BY <1>1, <1>2, InvHolds, ReachStep, FoundIsJoinedStep, PTL DEF Spec
===========================================================================
