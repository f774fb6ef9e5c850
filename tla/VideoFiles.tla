----------------------------- MODULE VideoFiles -----------------------------
(***************************************************************************)
(* A video file from its upload to the movie it belongs to.  POST          *)
(* /common/video stores it in public/temp and queues a job; a worker       *)
(* process takes the job and starts ffmpeg; POST /movie moves the file to  *)
(* public/movie as the last step of its transaction.  In production the    *)
(* file lies in S3, is put there by the client, and is copied and deleted; *)
(* no job is queued.  The names are those multer or uuid chose: unique.    *)
(***************************************************************************)
EXTENDS Naturals, FiniteSets

CONSTANTS Videos, Requests,   \* uploads, and POST /movie requests
          Attempts,           \* `attempts: 3`
          MaxCrashes,         \* bound: crashes of the worker
          NoVideo

ASSUME VideoAssumption ==
  Attempts \in Nat \ {0} /\ MaxCrashes \in Nat /\ NoVideo \notin Videos

VARIABLES prod,         \* ENV is "prod"; it never changes
          temp, movie,  \* the files in public/temp and public/movie
          told,         \* the files whose names the client was given
          job,          \* job[v]: the job of video v
          tries,        \* history: tries[v]: how often process() ran for v
          ffmpeg,       \* ffmpeg[v]: the ffmpeg that process() started
          thumbnail,    \* the videos with a thumbnail
          crashes,      \* history: crashes of the worker
          twice,        \* history: the files put again, or copied by two requests together
          pc, file      \* pc[r]: where POST /movie r is; file[r]: the file it names

queue == <<job, tries, ffmpeg, thumbnail, crashes>>
vars  == <<prod, temp, movie, told, queue, twice, pc, file>>

TypeOK == /\ prod \in BOOLEAN
          /\ temp \subseteq Videos /\ movie \subseteq Videos
          /\ told \subseteq temp \cup movie /\ twice \subseteq told /\ thumbnail \subseteq Videos
          /\ job \in [Videos -> {"none", "waiting", "active"}]
          /\ tries \in [Videos -> 0..Attempts] /\ crashes \in 0..MaxCrashes
          /\ ffmpeg \in [Videos -> {"none", "spawned", "reading"}]
          /\ pc \in [Requests -> {"idle", "move", "delete", "commit", "created", "refused"}]
          /\ file \in [Requests -> Videos \cup {NoVideo}]

Init == /\ prod \in BOOLEAN
        /\ temp = {} /\ movie = {} /\ told = {} /\ twice = {} /\ thumbnail = {}
        /\ crashes = 0
        /\ job = [v \in Videos |-> "none"] /\ tries = [v \in Videos |-> 0]
        /\ ffmpeg = [v \in Videos |-> "none"]
        /\ pc = [r \in Requests |-> "idle"] /\ file = [r \in Requests |-> NoVideo]

---------------------------------------------------------------------------
(* Upload and thumbnail *)

\* multer has written the file; queue.add succeeds, or rejects and the client is
\* not told the name
CreateVideo(v) ==
  /\ ~prod /\ v \notin temp \cup movie
  /\ temp' = temp \cup {v}
  /\ \/ told' = told \cup {v} /\ job' = [job EXCEPT ![v] = "waiting"]
     \/ UNCHANGED <<told, job>>
  /\ UNCHANGED <<prod, movie, tries, ffmpeg, thumbnail, crashes, twice, pc, file>>

\* the client puts the file to the URL of POST /common/presigned-url, and may do so
\* again while the URL is valid, moved by now or not
PutObject(v) ==
  /\ prod
  /\ temp' = temp \cup {v} /\ told' = told \cup {v}
  /\ twice' = twice \cup (told \cap {v})
  /\ UNCHANGED <<prod, movie, queue, pc, file>>

TakeJob(v) ==
  /\ job[v] = "waiting" /\ tries[v] < Attempts
  /\ job' = [job EXCEPT ![v] = "active"] /\ tries' = [tries EXCEPT ![v] = @ + 1]
  /\ UNCHANGED <<prod, temp, movie, told, ffmpeg, thumbnail, crashes, twice, pc, file>>

\* mutant: the job is left in the queue
ProcessKeeping(v) ==
  /\ job[v] = "active"
  /\ ffmpeg' = [ffmpeg EXCEPT ![v] = "spawned"]
  /\ UNCHANGED <<prod, temp, movie, told, job, tries, thumbnail, crashes, twice, pc, file>>

\* process() starts ffmpeg and returns: the job is complete, and removed
Process(v) ==
  /\ job[v] = "active"
  /\ ffmpeg' = [ffmpeg EXCEPT ![v] = "spawned"] /\ job' = [job EXCEPT ![v] = "none"]
  /\ UNCHANGED <<prod, temp, movie, told, tries, thumbnail, crashes, twice, pc, file>>

\* ffmpeg finds the file, or logs an error; once open a move does no harm
Open(v) ==
  /\ ffmpeg[v] = "spawned"
  /\ ffmpeg' = [ffmpeg EXCEPT ![v] = IF v \in temp THEN "reading" ELSE "none"]
  /\ UNCHANGED <<prod, temp, movie, told, job, tries, thumbnail, crashes, twice, pc, file>>

\* ffmpeg is done, or fails and the error is logged
Finish(v) ==
  /\ ffmpeg[v] = "reading"
  /\ ffmpeg' = [ffmpeg EXCEPT ![v] = "none"]
  /\ thumbnail' \in {thumbnail, thumbnail \cup {v}}
  /\ UNCHANGED <<prod, temp, movie, told, job, tries, crashes, twice, pc, file>>

\* the worker dies: a job it was at has stalled and waits again, the second time
\* it is given up (maxStalledCount of the queue); what ffmpeg did is lost
Crash ==
  /\ crashes < MaxCrashes /\ crashes' = crashes + 1
  /\ \E v \in Videos : job[v] = "active" \/ ffmpeg[v] # "none"
  /\ job' = [v \in Videos |-> IF job[v] # "active" THEN job[v]
                              ELSE IF tries[v] = 1 THEN "waiting" ELSE "none"]
  /\ ffmpeg' = [v \in Videos |-> "none"]
  /\ UNCHANGED <<prod, temp, movie, told, tries, thumbnail, twice, pc, file>>

---------------------------------------------------------------------------
(* POST /movie, from the last step of its transaction *)

Begin(r) ==
  /\ pc[r] = "idle"
  /\ pc' = [pc EXCEPT ![r] = "move"]
  /\ \E v \in told : file' = [file EXCEPT ![r] = v]
  /\ UNCHANGED <<prod, temp, movie, told, queue, twice>>

Goto(r, l) == pc' = [pc EXCEPT ![r] = l] /\ UNCHANGED <<prod, told, queue, file>>

\* mutant: a hard link, which leaves the name in public/temp
RenameLinking(r) ==
  /\ pc[r] = "move" /\ ~prod /\ file[r] \in temp
  /\ movie' = movie \cup {file[r]}
  /\ Goto(r, "commit") /\ UNCHANGED <<temp, twice>>

\* rename() of the file system
Rename(r) ==
  /\ pc[r] = "move" /\ ~prod /\ file[r] \in temp
  /\ temp' = temp \ {file[r]} /\ movie' = movie \cup {file[r]}
  /\ Goto(r, "commit") /\ UNCHANGED twice

\* mutant: nobody waits for the copy
CopyUnawaited(r) ==
  /\ pc[r] = "move" /\ prod
  /\ IF file[r] \in temp THEN movie' \in {movie, movie \cup {file[r]}} ELSE UNCHANGED movie
  /\ Goto(r, "delete") /\ UNCHANGED <<temp, twice>>

\* copyObject of S3
Copy(r) ==
  /\ pc[r] = "move" /\ prod /\ file[r] \in temp
  /\ movie' = movie \cup {file[r]}
  /\ twice' = IF \E q \in Requests : pc[q] = "delete" /\ file[q] = file[r]
              THEN twice \cup {file[r]} ELSE twice
  /\ Goto(r, "delete") /\ UNCHANGED temp

\* deleteObject of S3, which an object that is gone does not mind
Delete(r) ==
  /\ pc[r] = "delete"
  /\ temp' = temp \ {file[r]}
  /\ Goto(r, "commit") /\ UNCHANGED <<movie, twice>>

\* mutant: what was moved is moved out of both folders
RefuseErasing(r) ==
  /\ pc[r] \in {"move", "delete", "commit"}
  /\ Goto(r, "refused") /\ movie' = movie \ {file[r]} /\ UNCHANGED <<temp, twice>>

\* the move or COMMIT fails, or the process dies: the transaction rolls back, the
\* file stays where it is
Refuse(r) ==
  /\ pc[r] \in {"move", "delete", "commit"}
  /\ Goto(r, "refused") /\ UNCHANGED <<temp, movie, twice>>

Commit(r) == pc[r] = "commit" /\ Goto(r, "created") /\ UNCHANGED <<temp, movie, twice>>

Worker(v) == TakeJob(v) \/ Process(v) \/ Open(v) \/ Finish(v)

Next == \/ \E v \in Videos : CreateVideo(v) \/ PutObject(v) \/ Worker(v)
        \/ \E r \in Requests : Begin(r) \/ Rename(r) \/ Copy(r) \/ Delete(r) \/ Refuse(r) \/ Commit(r)
        \/ Crash

\* the worker process runs
Fairness == \A v \in Videos : WF_vars(Worker(v))

Spec == Init /\ [][Next]_vars /\ Fairness

---------------------------------------------------------------------------
(* Properties *)

\* A movie that was created has its file in public/movie.
MovieHasFile == \A r \in Requests : pc[r] = "created" => file[r] \in movie

\* No file is lost, whatever fails between the steps of a move.
NothingLost == \A r \in Requests : file[r] # NoVideo => file[r] \in temp \cup movie

\* Two movies have one file only in production, where the move is a copy and a deletion,
\* and only if both requests copied before either deleted, or the client put the file
\* once more to the URL he still had.
SharedOnlyByOverlap ==
  \A r, q \in Requests :
    r # q /\ pc[r] = "created" /\ pc[q] = "created" /\ file[r] = file[q]
      => prod /\ file[r] \in twice

\* What makes them inductive: a request has a name the client was told; once it has
\* moved or copied its file the file is in public/movie, and once it is also out of
\* public/temp nobody can take it again, unless it was put there twice.
Holders == {r \in Requests : pc[r] \in {"delete", "commit", "created"}}

MovesInductive ==
  /\ ~prod => twice = {}
  /\ \A r \in Requests : (file[r] = NoVideo) = (pc[r] = "idle") /\ (file[r] # NoVideo => file[r] \in told)
  /\ \A r \in Holders : /\ file[r] \in movie
                        /\ IF pc[r] = "delete" THEN prod ELSE file[r] \notin temp \/ file[r] \in twice
  /\ \A r, q \in Holders : r # q /\ file[r] = file[q] => file[r] \in twice

\* Every job leaves the queue, and ffmpeg ends.
JobsEnd == \A v \in Videos : job[v] # "none" ~> job[v] = "none" /\ ffmpeg[v] = "none"
=============================================================================
