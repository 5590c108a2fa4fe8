------------------------------ MODULE ColdCache ------------------------------
(***************************************************************************)
(* The on-disk LRU cache of cold Parquet files (src/server/src/            *)
(* cold_cache.rs) and the queries that read through it (stream_query in    *)
(* src/server/src/main.rs). get_or_fetch runs under the cache's mutex,     *)
(* across the download and the write; a query opens the files it was given *)
(* without it, when it registers them and again when it scans them.        *)
(*                                                                         *)
(* The write of a file runs on a blocking thread. A job that times out, or *)
(* a client that goes away, drops the future of get_or_fetch and with it   *)
(* the mutex; the blocking thread goes on.  A URI stands for its object    *)
(* and its file in the cache directory, both unique to it.                 *)
(***************************************************************************)
EXTENDS Integers, FiniteSets, Sequences, SequencesExt, FiniteSetsExt

CONSTANTS
    Query,          \* bound: queries under way at one time
    Uri,            \* the cold files
    SizeOf,         \* the size of each
    MaxBytes,       \* max_bytes of the cache
    CountCap,       \* capacity of the LruCache (65 536)
    ColdPermits,    \* permits of cold_semaphore
    Plans,          \* the sets of cold files that a query may have to read
    MaxStray        \* bound: abandoned writes under way at one time

ASSUME CacheAssumption ==
    /\ IsFiniteSet(Query) /\ IsFiniteSet(Uri)
    /\ SizeOf \in [Uri -> Nat \ {0}]
    /\ MaxBytes \in Nat /\ CountCap \in Nat \ {0} /\ ColdPermits \in Nat \ {0}
    /\ Plans \subseteq (SUBSET Uri) \ {{}} /\ MaxStray \in Nat

VARIABLES
    lru,            \* entries: URIs, the least recently used first
    current,        \* current_bytes
    whole,          \* files in cache_dir with all their bytes
    phase,          \* where each query is
    inWork,         \* the file get_or_fetch was asked for, until it is registered
    todo,           \* files not yet registered
    registered,     \* files registered and not yet scanned
    coldFree,       \* permits left in cold_semaphore
    strayQueued,    \* files a thread will write whose future was dropped
    strayRunning,   \* files such a thread was the last to open, and writes
    \* history
    drift,          \* bytes that the count cap has dropped from the index
    alone           \* a query that shares the cache with nobody, with its plan

cacheVars == <<lru, current, drift>>
diskVars == <<whole, strayQueued, strayRunning>>
queryVars == <<phase, inWork, todo, registered, alone>>
vars == <<cacheVars, diskVars, queryVars, coldFree>>

\* "fetching": the download; "opening" and "writing": the write, before and
\* after the file is truncated; "fetched": get_or_fetch has returned a path.
HoldsLock == {"fetching", "opening", "writing"}
Registering == {"registering", "fetched"} \cup HoldsLock
HoldsPermit == Registering \cup {"scanning"}

-----------------------------------------------------------------------------
(* Helpers *)

Bytes(S) == MapThenSumSet(LAMBDA u : SizeOf[u], S)
Indexed == {lru[i] : i \in DOMAIN lru}
First(k) == {lru[i] : i \in 1 .. k}

\* Slips of the code that the properties must notice: a hit that leaves the
\* LRU order alone, an index written before the file, an eviction that makes
\* room for the old files only or forgets the size of what it deletes, a
\* permit that a failed query keeps or that it returns without having one.
OrderKept(u) == lru
StillAtWork(q) == phase[q] \in {"opening", "writing"}
RoomForOld(k, u) == current - Bytes(First(k)) <= MaxBytes
SizeForgotten(k) == current
PermitKept(q) == coldFree
PermitReturned(q) == coldFree + 1

\* Nobody is inside get_or_fetch.
Unlocked == \A q \in Query : phase[q] \notin HoldsLock

\* LruCache::get moves the entry to the recent end.
Promoted(u) ==
    LET at == CHOOSE i \in DOMAIN lru : lru[i] = u
    IN  Append(RemoveAt(lru, at), u)

\* current_bytes.saturating_sub after the k oldest entries are popped.
Left(k) == LET n == current - Bytes(First(k)) IN IF n < 0 THEN 0 ELSE n

\* The loop's condition no longer holds.
HasRoom(k, u) == Left(k) + SizeOf[u] <= MaxBytes

\* How many entries the loop pops: one more as long as those before it have
\* not given room.
Popped(u) == Cardinality({k \in 1 .. Len(lru) : \A j \in 0 .. k - 1 : ~HasRoom(j, u)})

\* LruCache::put of a new key: over the cap the oldest entry goes, and
\* nobody is told.
OverCap == Len(lru) = CountCap
Put(u) == Append(IF OverCap THEN Tail(lru) ELSE lru, u)

\* The blocking write has put the last byte into the file.
WriteDone(q) == phase[q] = "writing"

\* Dropping an OwnedSemaphorePermit.
Released(q) == IF phase[q] \in HoldsPermit THEN coldFree + 1 ELSE coldFree

\* The query is over: whatever its future or its scan held is dropped.
End(q) ==
    /\ phase' = [phase EXCEPT ![q] = "idle"]
    /\ inWork' = [inWork EXCEPT ![q] = {}] /\ todo' = [todo EXCEPT ![q] = {}]
    /\ registered' = [registered EXCEPT ![q] = {}]
    /\ alone' = {a \in alone : a[1] # q}
    /\ coldFree' = Released(q)

Move(q, to) == phase' = [phase EXCEPT ![q] = to]

-----------------------------------------------------------------------------
Init ==
    /\ lru = <<>> /\ current = 0 /\ drift = 0
    /\ whole = {} /\ strayQueued = {} /\ strayRunning = {}
    /\ phase = [q \in Query |-> "idle"] /\ inWork = [q \in Query |-> {}]
    /\ todo = [q \in Query |-> {}] /\ registered = [q \in Query |-> {}]
    /\ alone = {} /\ coldFree = ColdPermits

-----------------------------------------------------------------------------
(* stream_query, as far as it has to do with cold files *)

\* The manifest has listed the cold files F for the query.
Plan(q, F) ==
    /\ phase[q] = "idle"
    /\ Move(q, "waiting") /\ todo' = [todo EXCEPT ![q] = F]
    /\ UNCHANGED <<cacheVars, diskVars, inWork, registered, alone, coldFree>>

AcquireCold(q) ==
    /\ phase[q] = "waiting" /\ coldFree > 0
    /\ coldFree' = coldFree - 1
    /\ Move(q, "registering")
    /\ alone' = IF /\ \A r \in Query \ {q} : phase[r] \in {"idle", "waiting"}
                   /\ strayQueued \cup strayRunning = {}
                THEN {<<q, todo[q]>>} ELSE {}
    /\ UNCHANGED <<cacheVars, diskVars, inWork, todo, registered>>

\* register_parquet opens the file at the path; a file that is gone or not
\* whole fails the query. After the last one the scan is spawned.
Register(q) ==
    /\ phase[q] = "fetched"
    /\ IF inWork[q] \subseteq whole
       THEN /\ registered' = [registered EXCEPT ![q] = @ \cup inWork[q]]
            /\ todo' = [todo EXCEPT ![q] = @ \ inWork[q]]
            /\ inWork' = [inWork EXCEPT ![q] = {}]
            /\ Move(q, IF todo'[q] = {} THEN "scanning" ELSE "registering")
            /\ UNCHANGED <<alone, coldFree>>
       ELSE End(q)
    /\ UNCHANGED <<cacheVars, diskVars>>

\* The scan opens its files again, one at a time.
Scan(q, u) ==
    /\ phase[q] = "scanning" /\ u \in registered[q]
    /\ IF u \in whole /\ registered[q] # {u}
       THEN /\ registered' = [registered EXCEPT ![q] = @ \ {u}]
            /\ UNCHANGED <<phase, inWork, todo, alone, coldFree>>
       ELSE End(q)
    /\ UNCHANGED <<cacheVars, diskVars>>

\* The future of stream_query is dropped before it has spawned the scan.
Abandon(q) ==
    /\ phase[q] \in Registering \cup {"waiting"}
    /\ strayQueued' = IF phase[q] = "opening" THEN strayQueued \cup inWork[q]
                      ELSE strayQueued
    /\ strayRunning' = IF phase[q] = "writing" THEN strayRunning \cup inWork[q]
                       ELSE strayRunning
    /\ phase[q] = "opening" => inWork[q] \cap strayQueued = {}
    /\ Cardinality(strayQueued' \cup strayRunning') <= MaxStray
    /\ End(q)
    /\ UNCHANGED <<cacheVars, whole>>

-----------------------------------------------------------------------------
(* get_or_fetch, under the mutex *)

Hit(q, u) ==
    /\ phase[q] = "registering" /\ u \in todo[q] /\ Unlocked /\ u \in Indexed
    /\ lru' = Promoted(u)
    /\ inWork' = [inWork EXCEPT ![q] = {u}] /\ Move(q, "fetched")
    /\ UNCHANGED <<current, drift, diskVars, todo, registered, alone, coldFree>>

Miss(q, u) ==
    /\ phase[q] = "registering" /\ u \in todo[q] /\ Unlocked /\ u \notin Indexed
    /\ inWork' = [inWork EXCEPT ![q] = {u}] /\ Move(q, "fetching")
    /\ UNCHANGED <<cacheVars, diskVars, todo, registered, alone, coldFree>>

\* The object store is down, or the sweeper has deleted the object.
DownloadFails(q) ==
    /\ phase[q] = "fetching"
    /\ End(q) /\ UNCHANGED <<cacheVars, diskVars>>

\* The bytes are here: entries are evicted, the write is handed to a thread.
\* A file that cannot be removed stays, and is no longer accounted for.
\* The thread that writes a removed file writes to no file.
Downloaded(q, stays) ==
    /\ phase[q] = "fetching" /\ Move(q, "opening")
    /\ \E u \in inWork[q] :
         LET gone == First(Popped(u)) \ stays
         IN  /\ stays \subseteq First(Popped(u))
             /\ current' = Left(Popped(u))
             /\ lru' = SubSeq(lru, Popped(u) + 1, Len(lru))
             /\ whole' = whole \ gone
             /\ strayRunning' = strayRunning \ gone
    /\ UNCHANGED <<drift, strayQueued, inWork, todo, registered, alone, coldFree>>

\* The blocking thread opens the file, which truncates it.
WriteOpens(q) ==
    /\ phase[q] = "opening" /\ Move(q, "writing")
    /\ whole' = whole \ inWork[q] /\ strayRunning' = strayRunning \ inWork[q]
    /\ UNCHANGED <<cacheVars, strayQueued, inWork, todo, registered, alone, coldFree>>

\* The write ends and the entry is put. All threads write the same bytes, so
\* that a file is whole when the last thread that truncated it is done.
Written(q) ==
    /\ WriteDone(q)
    /\ \E u \in inWork[q] :
         /\ whole' = IF phase[q] = "writing" /\ u \notin strayRunning
                     THEN whole \cup {u} ELSE whole
         /\ current' = current + SizeOf[u]
         /\ lru' = Put(u)
         /\ drift' = IF OverCap THEN drift + SizeOf[lru[1]] ELSE drift
    /\ Move(q, "fetched")
    /\ UNCHANGED <<strayQueued, strayRunning, inWork, todo, registered, alone,
                   coldFree>>

\* The disk is full: part of the file stays.
WriteFails(q) ==
    /\ phase[q] \in {"opening", "writing"}
    /\ End(q) /\ UNCHANGED <<cacheVars, diskVars>>

-----------------------------------------------------------------------------
(* Blocking writes that nobody waits for. One that fails leaves its file as  *)
(* one does that never ends.                                                 *)

StrayOpens(u) ==
    /\ u \in strayQueued
    /\ strayQueued' = strayQueued \ {u} /\ strayRunning' = strayRunning \cup {u}
    /\ whole' = whole \ {u}
    /\ UNCHANGED <<cacheVars, queryVars, coldFree>>

StrayEnds(u) ==
    /\ u \in strayRunning
    /\ strayRunning' = strayRunning \ {u}
    /\ whole' = whole \cup {u}
    /\ UNCHANGED <<cacheVars, strayQueued, queryVars, coldFree>>

-----------------------------------------------------------------------------
\* The process is started again: ColdCache::new keeps the directory and
\* forgets the index.
Restart ==
    /\ lru' = <<>> /\ current' = 0 /\ drift' = 0
    /\ strayQueued' = {} /\ strayRunning' = {}
    /\ phase' = [q \in Query |-> "idle"] /\ inWork' = [q \in Query |-> {}]
    /\ todo' = [q \in Query |-> {}] /\ registered' = [q \in Query |-> {}]
    /\ alone' = {} /\ coldFree' = ColdPermits
    /\ UNCHANGED whole

-----------------------------------------------------------------------------
QueryStep(q) ==
    \/ Register(q) \/ \E u \in registered[q] : Scan(q, u)
    \/ DownloadFails(q) \/ \E S \in SUBSET Indexed : Downloaded(q, S)
    \/ WriteOpens(q) \/ Written(q) \/ WriteFails(q)

Locking(q) == \E u \in todo[q] : Hit(q, u) \/ Miss(q, u)

Progress(q) == AcquireCold(q) \/ Locking(q) \/ QueryStep(q)

Next ==
    \/ \E q \in Query : \/ \E F \in Plans : Plan(q, F)
                        \/ Progress(q) \/ Abandon(q)
    \/ \E u \in Uri : StrayOpens(u) \/ StrayEnds(u)
    \/ Restart

Spec == Init /\ [][Next]_vars

\* A query runs on: downloads have time limits and disks answer. It is never
\* passed over for ever at the mutex or the semaphore, which are FIFO, hence
\* SF. Nothing is assumed of clients, of stray writes and of restarts.
Fairness == \A q \in Query : SF_vars(Progress(q))

FairSpec == Spec /\ Fairness

-----------------------------------------------------------------------------
(* Properties *)

TypeOK ==
    /\ lru \in Seq(Uri) /\ current \in Nat /\ drift \in Nat
    /\ whole \subseteq Uri
    /\ strayQueued \subseteq Uri /\ strayRunning \subseteq Uri
    /\ phase \in [Query -> {"idle", "waiting"} \cup HoldsPermit]
    /\ inWork \in [Query -> SUBSET Uri]
    /\ todo \in [Query -> SUBSET Uri] /\ registered \in [Query -> SUBSET Uri]
    /\ alone \subseteq Query \X Plans /\ coldFree \in 0 .. ColdPermits

\* current_bytes is the size of what the index holds, whichever query fails,
\* is abandoned or loses a file on the way, but for what the count cap has
\* dropped: saturating_sub never has to saturate.
BytesAccounted == current = Bytes(Indexed) + drift

\* The cache exceeds its limit only for one file that is too large by itself
\* or for bytes that the count cap has left in the account.
SizeBound == current <= MaxBytes \/ Len(lru) = 1 \/ lru = <<>>

\* The index names files that are there and whole, across failures,
\* evictions that race with a download and abandoned queries: only the
\* thread of an abandoned write can still tear a file that was fetched again.
IndexedOnDisk ==
    \A u \in Indexed : u \in whole \cup strayRunning

\* A query that has the cache to itself keeps every file it has registered:
\* as long as its files fit, fetching one never evicts another, since those
\* it has touched are the most recent ones.
LoneQueryKeepsFiles ==
    \A a \in alone :
        Bytes(a[2]) + drift <= MaxBytes => registered[a[1]] \subseteq whole

\* Every cold query comes to an end: neither the permits nor the mutex that
\* is held across a download are lost on any path that fails.
QueriesEnd == \A q \in Query : phase[q] # "idle" ~> phase[q] = "idle"

=============================================================================
