-------------------------- MODULE VideoFilesProofs --------------------------
(* The theorems about VideoFiles: where a file is, and who has it. *)
EXTENDS VideoFiles, TLAPS

Inv == TypeOK /\ MovesInductive

LEMMA InitInv == Init => Inv
BY VideoAssumption DEF Init, Inv, TypeOK, MovesInductive, Holders

---------------------------------------------------------------------------
(* Upload, thumbnail and crash leave the requests alone *)

\* The thumbnail's steps do not touch what the moves depend on.
LEMMA QueueTypes ==
  ASSUME Inv, NEW v \in Videos, TakeJob(v) \/ Process(v) \/ Open(v) \/ Finish(v)
  PROVE  TypeOK'
<1>1. CASE TakeJob(v)
  BY <1>1, VideoAssumption DEF TakeJob, Inv, TypeOK
<1>2. CASE Process(v)
  BY <1>2 DEF Process, Inv, TypeOK
<1>3. CASE Open(v)
  BY <1>3 DEF Open, Inv, TypeOK
<1>4. CASE Finish(v)
  BY <1>4 DEF Finish, Inv, TypeOK
<1> QED
  BY <1>1, <1>2, <1>3, <1>4

LEMMA QueueKeeps ==
  ASSUME Inv, NEW v \in Videos, TakeJob(v) \/ Process(v) \/ Open(v) \/ Finish(v)
  PROVE  Inv'
<1>1. UNCHANGED <<prod, temp, movie, told, twice, pc, file>>
  BY DEF TakeJob, Process, Open, Finish
<1>2. MovesInductive'
  BY <1>1 DEF Inv, MovesInductive, Holders
<1> QED
  BY <1>2, QueueTypes DEF Inv

LEMMA CrashKeeps ==
  ASSUME Inv, Crash
  PROVE  Inv'
<1>1. job' \in [Videos -> {"none", "waiting", "active"}]
  BY DEF Crash, Inv, TypeOK
<1>2. crashes' \in 0..MaxCrashes
  BY VideoAssumption DEF Crash, Inv, TypeOK
<1>3. TypeOK'
  BY <1>1, <1>2 DEF Crash, Inv, TypeOK
<1>4. MovesInductive'
  BY DEF Crash, Inv, MovesInductive, Holders
<1> QED
  BY <1>3, <1>4 DEF Inv

\* A file that is uploaded is not one that a request has moved.
LEMMA CreateVideoKeeps ==
  ASSUME Inv, NEW v \in Videos, CreateVideo(v)
  PROVE  Inv'
<1>1. TypeOK'
  BY DEF CreateVideo, Inv, TypeOK
<1>2. ASSUME NEW r \in Holders PROVE file[r] # v
  BY DEF CreateVideo, Inv, MovesInductive
<1>3. MovesInductive'
  BY <1>2 DEF CreateVideo, Inv, MovesInductive, Holders
<1> QED
  BY <1>1, <1>3 DEF Inv

\* A file that is put again is in `twice`.
LEMMA PutObjectKeeps ==
  ASSUME Inv, NEW v \in Videos, PutObject(v)
  PROVE  Inv'
<1>1. TypeOK'
  BY DEF PutObject, queue, Inv, TypeOK
<1>2. ASSUME NEW r \in Holders PROVE file[r] # v \/ v \in twice'
  BY DEF PutObject, Inv, MovesInductive, Holders
<1>3. MovesInductive'
  BY <1>2 DEF PutObject, Inv, MovesInductive, Holders
<1> QED
  BY <1>1, <1>3 DEF Inv

---------------------------------------------------------------------------
(* POST /movie *)

LEMMA BeginKeeps ==
  ASSUME Inv, NEW r \in Requests, Begin(r)
  PROVE  Inv'
<1>1. PICK v \in told : file' = [file EXCEPT ![r] = v]
  BY DEF Begin
<1>2. v \in Videos /\ v # NoVideo
  BY VideoAssumption DEF Inv, TypeOK
<1>3. TypeOK'
  BY <1>1, <1>2 DEF Begin, queue, Inv, TypeOK
<1>4. Holders' = Holders /\ r \notin Holders
  BY DEF Begin, Holders, Inv, TypeOK
<1>5. ASSUME NEW q \in Requests, q # r PROVE file'[q] = file[q] /\ pc'[q] = pc[q]
  BY <1>1, <1>5 DEF Begin, Inv, TypeOK
<1>6. file'[r] = v /\ pc'[r] = "move"
  BY <1>1 DEF Begin, Inv, TypeOK
<1>7. UNCHANGED <<prod, temp, movie, told, twice>>
  BY DEF Begin
<1>8. Holders \subseteq Requests
  BY DEF Holders
<1>9. MovesInductive'
  BY <1>2, <1>4, <1>5, <1>6, <1>7, <1>8 DEF Inv, MovesInductive
<1> QED
  BY <1>3, <1>9 DEF Inv

\* Where a request stands after a step of its move; the others stay where they are.
LEMMA GotoMoves ==
  ASSUME Inv, NEW r \in Requests, pc[r] # "idle",
         NEW l \in {"delete", "commit", "created", "refused"}, Goto(r, l)
  PROVE  /\ pc' \in [Requests -> {"idle", "move", "delete", "commit", "created", "refused"}]
         /\ pc'[r] = l /\ \A q \in Requests \ {r} : pc'[q] = pc[q]
         /\ Holders' = IF l = "refused" THEN Holders \ {r} ELSE Holders \cup {r}
         /\ UNCHANGED <<prod, told, queue, file>>
         /\ file[r] \in told /\ file[r] \in Videos /\ file[r] # NoVideo
<1>1. /\ pc' \in [Requests -> {"idle", "move", "delete", "commit", "created", "refused"}]
      /\ pc'[r] = l /\ \A q \in Requests \ {r} : pc'[q] = pc[q]
  BY DEF Goto, Inv, TypeOK
<1>2. file[r] \in told /\ file[r] \in Videos /\ file[r] # NoVideo
  BY VideoAssumption DEF Inv, TypeOK, MovesInductive
<1>3. UNCHANGED <<prod, told, queue, file>>
  BY DEF Goto
<1>4. Holders' = IF l = "refused" THEN Holders \ {r} ELSE Holders \cup {r}
  BY <1>1 DEF Holders
<1> QED
  BY <1>1, <1>2, <1>3, <1>4

\* On the disk whoever renames a file is the only one to have it.
LEMMA RenameKeeps ==
  ASSUME Inv, NEW r \in Requests, Rename(r)
  PROVE  Inv'
<1>1. Goto(r, "commit") /\ pc[r] # "idle"
  BY DEF Rename
<1>2. TypeOK'
  BY <1>1, GotoMoves DEF Rename, queue, Inv, TypeOK
<1>3. ASSUME NEW q \in Holders PROVE file[q] # file[r]
  <2>1. ~prod /\ file[r] \in temp /\ twice = {}
    BY DEF Rename, Inv, MovesInductive
  <2> QED
    BY <1>3, <2>1 DEF Inv, MovesInductive
<1>4. MovesInductive'
  <2>1. /\ Holders' = Holders \cup {r} /\ r \in Requests /\ Holders \subseteq Requests
        /\ pc'[r] = "commit" /\ \A q \in Requests \ {r} : pc'[q] = pc[q]
        /\ UNCHANGED <<prod, told, file, twice>>
        /\ file[r] \in told /\ file[r] # NoVideo
    BY <1>1, GotoMoves DEF Rename, Holders
  <2>2. movie' = movie \cup {file[r]} /\ temp' = temp \ {file[r]} /\ ~prod
    BY DEF Rename
  <2>3. ASSUME NEW q \in Holders'
        PROVE  /\ file[q] \in movie'
               /\ IF pc'[q] = "delete" THEN prod ELSE file[q] \notin temp' \/ file[q] \in twice
    BY <2>1, <2>2, <2>3 DEF Inv, MovesInductive
  <2>4. ASSUME NEW q \in Holders', NEW o \in Holders', q # o, file[q] = file[o]
        PROVE  file[q] \in twice
    BY <1>3, <2>1, <2>4 DEF Inv, MovesInductive
  <2>5. ASSUME NEW q \in Requests
        PROVE  (file[q] = NoVideo) = (pc'[q] = "idle") /\ (file[q] # NoVideo => file[q] \in told)
    BY <1>1, <2>1, <2>5 DEF Inv, MovesInductive
  <2> QED
    BY <2>1, <2>2, <2>3, <2>4, <2>5 DEF Inv, MovesInductive
<1> QED
  BY <1>2, <1>4 DEF Inv

\* In S3 whoever else has the file either has not deleted it yet, or it was put again.
LEMMA CopyKeeps ==
  ASSUME Inv, NEW r \in Requests, Copy(r)
  PROVE  Inv'
<1>1. Goto(r, "delete") /\ pc[r] = "move" /\ prod /\ file[r] \in temp
  BY DEF Copy
<1>2. movie' = movie \cup {file[r]} /\ temp' = temp /\ twice \subseteq twice' /\ twice' \subseteq twice \cup {file[r]}
  BY DEF Copy
<1>3. TypeOK'
  <2>1. /\ pc' \in [Requests -> {"idle", "move", "delete", "commit", "created", "refused"}]
        /\ UNCHANGED <<prod, told, job, tries, ffmpeg, thumbnail, crashes, file>>
        /\ file[r] \in told /\ file[r] \in Videos
    BY <1>1, GotoMoves DEF queue
  <2>2. /\ movie' \subseteq Videos /\ temp' \subseteq Videos
        /\ told \subseteq temp' \cup movie' /\ twice' \subseteq told
    BY <1>2, <2>1 DEF Inv, TypeOK
  <2> QED
    BY <2>1, <2>2 DEF Inv, TypeOK
<1>4. ASSUME NEW q \in Holders, file[q] = file[r] PROVE file[r] \in twice'
  <2>1. CASE pc[q] = "delete"
    BY <1>4, <2>1 DEF Copy, Holders
  <2>2. CASE pc[q] # "delete"
    BY <1>1, <1>2, <1>4, <2>2 DEF Inv, MovesInductive
  <2> QED
    BY <2>1, <2>2
<1>5. MovesInductive'
  <2>1. /\ Holders' = Holders \cup {r} /\ r \in Requests /\ Holders \subseteq Requests
        /\ pc'[r] = "delete" /\ \A q \in Requests \ {r} : pc'[q] = pc[q]
        /\ UNCHANGED <<prod, told, file>>
        /\ file[r] \in told /\ file[r] # NoVideo
    BY <1>1, GotoMoves DEF Holders
  <2>2. ASSUME NEW q \in Holders'
        PROVE  /\ file[q] \in movie'
               /\ IF pc'[q] = "delete" THEN prod ELSE file[q] \notin temp' \/ file[q] \in twice'
    BY <1>1, <1>2, <2>1, <2>2 DEF Inv, MovesInductive
  <2>3. ASSUME NEW q \in Holders', NEW o \in Holders', q # o, file[q] = file[o]
        PROVE  file[q] \in twice'
    BY <1>2, <1>4, <2>1, <2>3 DEF Inv, MovesInductive
  <2>4. ASSUME NEW q \in Requests
        PROVE  (file[q] = NoVideo) = (pc'[q] = "idle") /\ (file[q] # NoVideo => file[q] \in told)
    BY <1>1, <2>1, <2>4 DEF Inv, MovesInductive
  <2> QED
    BY <1>1, <2>1, <2>2, <2>3, <2>4 DEF Inv, MovesInductive
<1> QED
  BY <1>3, <1>5 DEF Inv

\* What is deleted from public/temp is in public/movie.
LEMMA DeleteKeeps ==
  ASSUME Inv, NEW r \in Requests, Delete(r)
  PROVE  Inv'
<1>1. Goto(r, "commit") /\ pc[r] # "idle" /\ r \in Holders
  BY DEF Delete, Holders
<1>2. file[r] \in movie
  BY <1>1 DEF Inv, MovesInductive
<1>3. TypeOK'
  BY <1>1, <1>2, GotoMoves DEF Delete, queue, Inv, TypeOK
<1>4. MovesInductive'
  BY <1>1, <1>2, GotoMoves DEF Delete, Inv, MovesInductive, Holders
<1> QED
  BY <1>3, <1>4 DEF Inv

LEMMA EndKeeps ==
  ASSUME Inv, NEW r \in Requests, Refuse(r) \/ Commit(r)
  PROVE  Inv'
<1>1. CASE Refuse(r)
  <2>1. Goto(r, "refused") /\ pc[r] # "idle" /\ UNCHANGED <<temp, movie, twice>>
    BY <1>1 DEF Refuse
  <2>2. TypeOK'
    BY <2>1, GotoMoves DEF queue, Inv, TypeOK
  <2>3. MovesInductive'
    BY <2>1, GotoMoves DEF Inv, MovesInductive, Holders
  <2> QED
    BY <2>2, <2>3 DEF Inv
<1>2. CASE Commit(r)
  <2>1. Goto(r, "created") /\ pc[r] = "commit" /\ r \in Holders /\ UNCHANGED <<temp, movie, twice>>
    BY <1>2 DEF Commit, Holders
  <2>2. TypeOK'
    BY <2>1, GotoMoves DEF queue, Inv, TypeOK
  <2>3. MovesInductive'
    BY <2>1, GotoMoves DEF Inv, MovesInductive, Holders
  <2> QED
    BY <2>2, <2>3 DEF Inv
<1> QED
  BY <1>1, <1>2

LEMMA NextInv == Inv /\ [Next]_vars => Inv'
<1> SUFFICES ASSUME Inv, [Next]_vars PROVE Inv'
  OBVIOUS
<1>1. ASSUME NEW v \in Videos, CreateVideo(v) PROVE Inv'
  BY <1>1, CreateVideoKeeps
<1>2. ASSUME NEW v \in Videos, PutObject(v) PROVE Inv'
  BY <1>2, PutObjectKeeps
<1>3. ASSUME NEW v \in Videos, Worker(v) PROVE Inv'
  BY <1>3, QueueKeeps DEF Worker
<1>4. ASSUME NEW r \in Requests, Begin(r) PROVE Inv'
  BY <1>4, BeginKeeps
<1>5. ASSUME NEW r \in Requests, Rename(r) PROVE Inv'
  BY <1>5, RenameKeeps
<1>6. ASSUME NEW r \in Requests, Copy(r) PROVE Inv'
  BY <1>6, CopyKeeps
<1>7. ASSUME NEW r \in Requests, Delete(r) PROVE Inv'
  BY <1>7, DeleteKeeps
<1>8. ASSUME NEW r \in Requests, Refuse(r) \/ Commit(r) PROVE Inv'
  BY <1>8, EndKeeps
<1>9. CASE Crash
  BY <1>9, CrashKeeps
<1>10. CASE UNCHANGED vars
  BY <1>10 DEF vars, queue, Inv, TypeOK, MovesInductive, Holders
<1> QED
  BY <1>1, <1>2, <1>3, <1>4, <1>5, <1>6, <1>7, <1>8, <1>9, <1>10 DEF Next

LEMMA InvHolds == Spec => []Inv
BY InitInv, NextInv, PTL DEF Spec

\* The state stays well-typed.
THEOREM TypeCorrect == Spec => []TypeOK
BY InvHolds, PTL DEF Inv

\* No file is lost, whatever fails between the steps of a move.
THEOREM NothingIsLost == Spec => []NothingLost
<1>1. Inv => NothingLost
  BY DEF Inv, TypeOK, MovesInductive, NothingLost
<1> QED
  BY <1>1, InvHolds, PTL

\* A movie that was created has its file in public/movie.
THEOREM MoviesHaveFiles == Spec => []MovieHasFile
<1>1. Inv => MovieHasFile
  BY DEF Inv, MovesInductive, Holders, MovieHasFile
<1> QED
  BY <1>1, InvHolds, PTL

\* Two movies share a file only in production, after copies that overlapped or a
\* repeated upload.
THEOREM SharingNeedsOverlap == Spec => []SharedOnlyByOverlap
<1>1. Inv => SharedOnlyByOverlap
  BY DEF Inv, MovesInductive, Holders, SharedOnlyByOverlap
<1> QED
  BY <1>1, InvHolds, PTL
=============================================================================
