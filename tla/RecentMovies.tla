---------------------------- MODULE RecentMovies ----------------------------
(***************************************************************************)
(* GET /movie/recent: the list of the last ten movies behind two caches,   *)
(* the interceptor's entry getMoviesRecent, which lives for @CacheTTL, and *)
(* findRecent's MOVIE_RECENT, which has no TTL.  A list is known by its    *)
(* version: how often the table had changed when it was read.  Only the    *)
(* query of the database takes time: what follows it, up to both entries   *)
(* and the answer, are microtasks.                                         *)
(***************************************************************************)
EXTENDS Naturals

CONSTANTS Clients,
          TTL,         \* @CacheTTL(1000), in steps of the clock
          MaxVersion,  \* bound: changes of the list
          MaxTime,     \* bound of the clock
          NoList

ASSUME RecentAssumption ==
  TTL \in Nat \ {0} /\ MaxVersion \in Nat /\ MaxTime \in Nat /\ NoList \notin Nat

VARIABLES now, version,  \* the clock, and the version of the table
          recent,        \* MOVIE_RECENT
          page, until,   \* getMoviesRecent and its deadline
          pc, read       \* pc[r]: where request r is; read[r]: the list its query saw

cache   == <<recent, page, until>>
clients == <<pc, read>>
recentVars == <<now, version, cache, clients>>

List   == 0..MaxVersion
NoneOr(S) == S \cup {NoList}

RecentTypeOK ==
  /\ now \in 0..MaxTime /\ version \in List
  /\ recent \in NoneOr(0..version) /\ page \in NoneOr(0..version) /\ until \in 0..(MaxTime + TTL)
  /\ pc \in [Clients -> {"idle", "query", "result", "done"}]
  /\ read \in [Clients -> NoneOr(0..version)]

RecentInit ==
  /\ now = 0 /\ version = 0
  /\ recent = NoList /\ page = NoList /\ until = 0
  /\ pc = [r \in Clients |-> "idle"] /\ read = [r \in Clients |-> NoList]

\* an entry of Keyv lives through its deadline
Live == page # NoList /\ now <= until

Answered(r) == pc' = [pc EXCEPT ![r] = "done"]

\* CacheInterceptor answers from its entry
HitPage(r) ==
  /\ pc[r] = "idle" /\ Live
  /\ Answered(r)
  /\ UNCHANGED <<now, version, cache, read>>

\* mutant: an entry that is there is kept
StorePageOnce(list) == IF page = NoList THEN page' = list /\ until' = now + TTL ELSE UNCHANGED <<page, until>>

\* the interceptor stores what the handler has returned
StorePage(list) == page' = list /\ until' = now + TTL

\* findRecent answers from MOVIE_RECENT
HitRecent(r) ==
  /\ pc[r] = "idle" /\ ~Live /\ recent # NoList
  /\ Answered(r)
  /\ StorePage(recent)
  /\ UNCHANGED <<now, version, recent, read>>

\* neither cache has a list
Miss(r) ==
  /\ pc[r] = "idle" /\ ~Live /\ recent = NoList
  /\ pc' = [pc EXCEPT ![r] = "query"]
  /\ UNCHANGED <<now, version, cache, read>>

\* the database reads the list
Query(r) ==
  /\ pc[r] = "query"
  /\ pc' = [pc EXCEPT ![r] = "result"] /\ read' = [read EXCEPT ![r] = version]
  /\ UNCHANGED <<now, version, cache>>

\* the query rejects: 500, and nothing is stored
Reject(r) ==
  /\ pc[r] = "query"
  /\ pc' = [pc EXCEPT ![r] = "done"]
  /\ UNCHANGED <<now, version, cache, read>>

\* its result comes back, and both entries are written over
StoreRecent(r) ==
  /\ pc[r] = "result"
  /\ recent' = read[r]
  /\ Answered(r) /\ StorePage(read[r])
  /\ UNCHANGED <<now, version, read>>

\* a movie is created, changed or removed: nobody tells the caches
Change == /\ version < MaxVersion
          /\ version' = version + 1
          /\ UNCHANGED <<now, cache, clients>>

Elapse == now < MaxTime /\ now' = now + 1 /\ UNCHANGED <<version, cache, clients>>

\* the client asks again
Again(r) == /\ pc[r] = "done"
            /\ pc' = [pc EXCEPT ![r] = "idle"]
            /\ read' = [read EXCEPT ![r] = NoList]
            /\ UNCHANGED <<now, version, cache>>

RecentNext ==
  \/ Elapse \/ Change
  \/ \E r \in Clients : \/ HitPage(r) \/ HitRecent(r) \/ Miss(r) \/ Query(r) \/ Reject(r)
                        \/ StoreRecent(r) \/ Again(r)

RecentSpec == RecentInit /\ [][RecentNext]_recentVars

---------------------------------------------------------------------------
(* Properties *)

\* The two caches never tell different lists, in whatever order the requests that
\* missed both come back.
CachesAgree == Live => page = recent

\* More than that, and kept by every step whatever the clock does: an expired entry agrees, too.
EntriesAgree == page # NoList => page = recent
===========================================================================
