--------------------------- MODULE ColdCacheProofs ---------------------------
(***************************************************************************)
(* The cold cache, proved for any queries, files, sizes, limits and        *)
(* permits: its variables keep their types, the account is right, the      *)
(* limit is kept, the index names no file that is not there, a query that  *)
(* is alone keeps its files, and every permit is with a query or free.     *)
(*                                                                         *)
(* IndexedOnDisk is not inductive. An eviction deletes the files of the    *)
(* entries it pops, and leaves the others alone only because no file has   *)
(* two entries; a write truncates its file, which is in no entry because   *)
(* the mutex has been held since the lookup missed. CacheInv says so.      *)
(* FullInv adds the sums that the account stands for, the room that was    *)
(* made for the file of the query at work, and for a query that is alone:  *)
(* the files it has touched are the last entries of the index, so that an  *)
(* eviction comes to them only when its plan does not fit.                 *)
(***************************************************************************)
EXTENDS ColdCache, Sums, SequenceTheorems

Elems(s) == {s[i] : i \in DOMAIN s}
Distinct(s) == \A i, j \in DOMAIN s : s[i] = s[j] => i = j

\* What is in T comes after what is not.
Recent(s, T) == \A i, j \in DOMAIN s : i < j /\ s[i] \in T => s[j] \in T

CacheTypes ==
    /\ lru \in Seq(Uri) /\ whole \subseteq Uri
    /\ strayQueued \subseteq Uri /\ strayRunning \subseteq Uri
    /\ phase \in [Query -> {"idle", "waiting"} \cup HoldsPermit]
    /\ inWork \in [Query -> SUBSET Uri]
    /\ todo \in [Query -> SUBSET Uri] /\ registered \in [Query -> SUBSET Uri]

\* One query is inside get_or_fetch, with one file that has no entry.
MutexInv ==
    \A q, r \in Query : phase[q] \in HoldsLock /\ phase[r] \in HoldsLock => q = r
MissedInv ==
    \A q \in Query : phase[q] \in HoldsLock =>
        \E u \in Uri : inWork[q] = {u} /\ u \notin Elems(lru)

OnDisk(s) == Elems(s) \subseteq whole \cup strayRunning

CacheInv ==
    /\ CacheTypes /\ MutexInv /\ MissedInv
    /\ Distinct(lru) /\ OnDisk(lru)

-----------------------------------------------------------------------------
(* What the operations of the index do to its entries *)

LEMMA Appended ==
    ASSUME NEW s \in Seq(Uri), NEW u \in Uri, Distinct(s), u \notin Elems(s)
    PROVE /\ Append(s, u) \in Seq(Uri) /\ Distinct(Append(s, u))
          /\ Elems(Append(s, u)) = Elems(s) \cup {u}
          /\ Len(Append(s, u)) = Len(s) + 1
          /\ \A T : Recent(s, T) => Recent(Append(s, u), T \cup {u})
<1> DEFINE t == Append(s, u)
<1>1. /\ t \in Seq(Uri) /\ Len(t) = Len(s) + 1 /\ Len(s) \in Nat
      /\ t[Len(s) + 1] = u /\ \A i \in 1 .. Len(s) : t[i] = s[i]
      /\ DOMAIN s = 1 .. Len(s) /\ DOMAIN t = 1 .. Len(s) + 1
  OBVIOUS
<1>2. \A i \in DOMAIN t : i \in DOMAIN s \/ i = Len(s) + 1
  BY <1>1
<1> HIDE DEF t
<1>3. Distinct(t)
  BY <1>1, <1>2 DEF Distinct, Elems
<1>4. Elems(t) = Elems(s) \cup {u}
  BY <1>1, <1>2 DEF Elems
<1>5. ASSUME NEW T, Recent(s, T) PROVE Recent(t, T \cup {u})
  <2> SUFFICES ASSUME NEW i \in DOMAIN t, NEW j \in DOMAIN t, i < j,
                      t[i] \in T \cup {u}
               PROVE  t[j] \in T \cup {u}
    BY DEF Recent
  <2>1. i \in DOMAIN s /\ t[i] = s[i]
    BY <1>1, <1>2
  <2>2. t[i] \in T
    BY <2>1 DEF Elems
  <2>3. j \in DOMAIN s => t[j] \in T
    BY <1>1, <1>5, <2>1, <2>2 DEF Recent
  <2>4. QED
    BY <1>1, <1>2, <2>3
<1>6. QED
  BY <1>1, <1>3, <1>4, <1>5 DEF t

\* The rest of the entries, when the k oldest are popped.
LEMMA Popping ==
    ASSUME NEW s \in Seq(Uri), NEW k \in 0 .. Len(s), Distinct(s)
    PROVE /\ SubSeq(s, k + 1, Len(s)) \in Seq(Uri)
          /\ Distinct(SubSeq(s, k + 1, Len(s)))
          /\ Elems(SubSeq(s, k + 1, Len(s))) = Elems(s) \ {s[i] : i \in 1 .. k}
          /\ Len(SubSeq(s, k + 1, Len(s))) = Len(s) - k
          /\ \A T : Recent(s, T) => Recent(SubSeq(s, k + 1, Len(s)), T)
<1> DEFINE t == SubSeq(s, k + 1, Len(s))
<1>1. /\ t \in Seq(Uri) /\ Len(t) = Len(s) - k /\ Len(s) \in Nat
      /\ \A i \in 1 .. Len(t) : t[i] = s[i + k]
      /\ DOMAIN s = 1 .. Len(s) /\ DOMAIN t = 1 .. Len(s) - k
  OBVIOUS
<1> HIDE DEF t
<1>2. \A i \in DOMAIN t : i + k \in DOMAIN s /\ t[i] = s[i + k] /\ i + k \notin 1 .. k
  BY <1>1
<1>3. Distinct(t)
  <2> SUFFICES ASSUME NEW i \in DOMAIN t, NEW j \in DOMAIN t, t[i] = t[j]
               PROVE i = j
    BY DEF Distinct
  <2>1. i + k = j + k
    BY <1>2 DEF Distinct
  <2>2. QED
    BY <1>1, <2>1
<1>4. Elems(t) \subseteq Elems(s) \ {s[i] : i \in 1 .. k}
  <2> SUFFICES ASSUME NEW i \in DOMAIN t
               PROVE t[i] \in Elems(s) /\ \A j \in 1 .. k : t[i] # s[j]
    BY DEF Elems
  <2>1. \A j \in 1 .. k : j \in DOMAIN s
    BY <1>1
  <2>2. QED
    BY <1>2, <2>1 DEF Elems, Distinct
<1>5. Elems(s) \ {s[i] : i \in 1 .. k} \subseteq Elems(t)
  <2> SUFFICES ASSUME NEW i \in DOMAIN s, i \notin 1 .. k
               PROVE s[i] \in Elems(t)
    BY DEF Elems
  <2>1. i - k \in DOMAIN t /\ t[i - k] = s[i]
    BY <1>1
  <2>2. QED
    BY <2>1 DEF Elems
<1>6. \A T : Recent(s, T) => Recent(t, T)
  BY <1>1, <1>2 DEF Recent
<1>7. QED
  BY <1>1, <1>3, <1>4, <1>5, <1>6 DEF t

\* A promotion changes the order of the entries and nothing else.
LEMMA Promoting ==
    ASSUME lru \in Seq(Uri), Distinct(lru), NEW u \in Elems(lru)
    PROVE /\ Promoted(u) \in Seq(Uri) /\ Distinct(Promoted(u))
          /\ Elems(Promoted(u)) = Elems(lru)
          /\ Len(Promoted(u)) = Len(lru)
          /\ \A T : Recent(lru, T) => Recent(Promoted(u), T \cup {u})
<1> DEFINE at == CHOOSE i \in DOMAIN lru : lru[i] = u
           s == RemoveAt(lru, at)
<1>1. at \in DOMAIN lru /\ lru[at] = u
  BY DEF Elems
<1>2. Len(lru) \in Nat /\ DOMAIN lru = 1 .. Len(lru)
  OBVIOUS
<1> HIDE DEF at
<1>3. /\ s \in Seq(Uri) /\ Len(s) = Len(lru) - 1 /\ DOMAIN s = 1 .. Len(lru) - 1
      /\ \A i \in 1 .. Len(lru) - 1 : s[i] = lru[IF i < at THEN i ELSE i + 1]
  <2> DEFINE a == SubSeq(lru, 1, at - 1)
             b == SubSeq(lru, at + 1, Len(lru))
  <2>1. /\ a \in Seq(Uri) /\ Len(a) = at - 1
        /\ \A i \in 1 .. at - 1 : a[i] = lru[i]
    BY <1>1, <1>2
  <2>2. /\ b \in Seq(Uri) /\ Len(b) = Len(lru) - at
        /\ \A i \in 1 .. Len(lru) - at : b[i] = lru[i + at]
    BY <1>1, <1>2
  <2>3. s = a \o b
    BY DEF RemoveAt
  <2> HIDE DEF a, b, s
  <2>4. /\ a \o b \in Seq(Uri) /\ Len(a \o b) = Len(a) + Len(b)
        /\ \A i \in 1 .. Len(a) + Len(b) :
             (a \o b)[i] = IF i <= Len(a) THEN a[i] ELSE b[i - Len(a)]
    BY <2>1, <2>2, ConcatProperties
  <2>5. s \in Seq(Uri) /\ DOMAIN s = 1 .. Len(s)
    BY <2>3, <2>4
  <2>6. Len(s) = Len(lru) - 1
    BY <1>1, <1>2, <2>1, <2>2, <2>3, <2>4
  <2>7. ASSUME NEW i \in 1 .. Len(lru) - 1
        PROVE s[i] = lru[IF i < at THEN i ELSE i + 1]
    <3>1. i \in 1 .. Len(a) + Len(b) /\ at \in Nat /\ i \in Nat /\ Len(a) = at - 1
      BY <1>1, <1>2, <2>1, <2>2
    <3>2. CASE i < at
      <4>1. s[i] = a[i]
        BY <2>3, <2>4, <3>1, <3>2
      <4>2. QED
        BY <2>1, <3>1, <3>2, <4>1
    <3>3. CASE ~(i < at)
      <4>1. s[i] = b[i - Len(a)]
        BY <2>3, <2>4, <3>1, <3>3
      <4>2. i - Len(a) \in 1 .. Len(lru) - at /\ i - Len(a) + at = i + 1
        BY <1>2, <3>1, <3>3
      <4>3. QED
        BY <2>2, <3>3, <4>1, <4>2
    <3>4. QED
      BY <3>2, <3>3
  <2>8. QED
    BY <1>2, <2>5, <2>6, <2>7
<1> HIDE DEF s
<1>4. Distinct(s)
  <2> DEFINE from(i) == IF i < at THEN i ELSE i + 1
  <2>1. \A i, j \in DOMAIN s : /\ s[i] = lru[from(i)] /\ from(i) \in DOMAIN lru
                               /\ from(i) = from(j) => i = j
    BY <1>1, <1>2, <1>3
  <2> HIDE DEF from
  <2>2. QED
    BY <2>1 DEF Distinct
<1>5. Elems(s) = Elems(lru) \ {u}
  <2>1. Elems(s) \subseteq Elems(lru) \ {u}
    BY <1>1, <1>2, <1>3 DEF Distinct, Elems
  <2>2. ASSUME NEW i \in DOMAIN lru, lru[i] # u PROVE lru[i] \in Elems(s)
    <3>1. CASE i < at
      BY <1>1, <1>2, <1>3, <2>2, <3>1 DEF Elems
    <3>2. CASE i > at
      <4>1. i - 1 \in DOMAIN s /\ s[i - 1] = lru[i]
        BY <1>1, <1>2, <1>3, <3>2
      <4>2. QED
        BY <4>1 DEF Elems
    <3>3. QED
      BY <1>1, <1>2, <2>2, <3>1, <3>2
  <2>3. QED
    BY <2>1, <2>2 DEF Elems
<1>6. Promoted(u) = Append(s, u)
  BY DEF Promoted, s, at
<1>7. u \in Uri /\ u \notin Elems(s) /\ Elems(lru) = Elems(s) \cup {u}
  BY <1>1, <1>2, <1>5
<1>8. s \in Seq(Uri)
  BY <1>3
<1>9. /\ Append(s, u) \in Seq(Uri) /\ Distinct(Append(s, u))
      /\ Elems(Append(s, u)) = Elems(s) \cup {u}
      /\ Len(Append(s, u)) = Len(s) + 1
      /\ \A T : Recent(s, T) => Recent(Append(s, u), T \cup {u})
  BY <1>4, <1>7, <1>8, Appended
<1>10. ASSUME NEW T, Recent(lru, T) PROVE Recent(s, T)
  <2> DEFINE from(i) == IF i < at THEN i ELSE i + 1
  <2>1. \A i, j \in DOMAIN s : /\ s[i] = lru[from(i)] /\ from(i) \in DOMAIN lru
                               /\ i < j => from(i) < from(j)
    BY <1>1, <1>2, <1>3
  <2> HIDE DEF from
  <2>2. QED
    BY <1>10, <2>1 DEF Recent
<1>11. Len(s) + 1 = Len(lru)
  BY <1>2, <1>3
<1>12. QED
  BY <1>6, <1>7, <1>9, <1>10, <1>11

\* The loop of get_or_fetch pops at most what is there.
LEMMA PoppedInRange ==
    ASSUME lru \in Seq(Uri), NEW u
    PROVE Popped(u) \in 0 .. Len(lru)
<1> DEFINE K == {k \in 1 .. Len(lru) : \A j \in 0 .. k - 1 : ~HasRoom(j, u)}
<1>1. Len(lru) \in Nat
  OBVIOUS
<1>2. /\ IsFiniteSet(1 .. Len(lru)) /\ Cardinality(1 .. Len(lru)) = Len(lru)
  BY <1>1, FS_Interval
<1>3. K \in SUBSET (1 .. Len(lru))
  OBVIOUS
<1> HIDE DEF K
<1>4. IsFiniteSet(K) /\ Cardinality(K) <= Len(lru)
  BY <1>2, <1>3, FS_Subset
<1>5. Cardinality(K) \in Nat
  BY <1>4, FS_CardinalityType
<1>6. QED
  BY <1>1, <1>4, <1>5 DEF Popped, K

\* The put of a new key: at the count cap it drops the oldest entry.
LEMMA Putting ==
    ASSUME lru \in Seq(Uri), Distinct(lru), NEW u \in Uri, u \notin Elems(lru)
    PROVE /\ Put(u) \in Seq(Uri) /\ Distinct(Put(u))
          /\ OverCap => /\ lru[1] \in Elems(lru)
                        /\ Elems(Put(u)) = (Elems(lru) \ {lru[1]}) \cup {u}
          /\ ~OverCap => Elems(Put(u)) = Elems(lru) \cup {u}
          /\ lru = <<>> => Len(Put(u)) = 1
          /\ \A T : Recent(lru, T) => Recent(Put(u), T \cup {u})
<1>1. CASE OverCap
  <2> DEFINE s == SubSeq(lru, 2, Len(lru))
  <2>1. Len(lru) \in Nat \ {0} /\ lru # <<>>
    BY <1>1, CacheAssumption DEF OverCap
  <2>2. Tail(lru) = s
    BY <2>1, TailIsSubSeq
  <2>3. 1 \in 0 .. Len(lru) /\ 1 + 1 = 2 /\ {lru[i] : i \in 1 .. 1} = {lru[1]}
    BY <2>1
  <2>4. /\ s \in Seq(Uri) /\ Distinct(s) /\ Elems(s) = Elems(lru) \ {lru[1]}
        /\ \A T : Recent(lru, T) => Recent(s, T)
    BY <2>3, Popping
  <2> HIDE DEF s
  <2>5. Put(u) = Append(s, u) /\ u \notin Elems(s)
    BY <1>1, <2>2, <2>4 DEF Put
  <2>6. /\ Append(s, u) \in Seq(Uri) /\ Distinct(Append(s, u))
        /\ Elems(Append(s, u)) = Elems(s) \cup {u}
        /\ \A T : Recent(s, T) => Recent(Append(s, u), T \cup {u})
    BY <2>4, <2>5, Appended
  <2>7. lru[1] \in Elems(lru)
    BY <2>1 DEF Elems
  <2>8. QED
    BY <1>1, <2>1, <2>4, <2>5, <2>6, <2>7
<1>2. CASE ~OverCap
  <2>1. Put(u) = Append(lru, u)
    BY <1>2 DEF Put
  <2>2. QED
    BY <1>2, <2>1, Appended
<1>3. QED
  BY <1>1, <1>2

-----------------------------------------------------------------------------
LEMMA CacheInit == Init => CacheInv
<1> SUFFICES ASSUME Init PROVE CacheInv
  OBVIOUS
<1>1. lru = <<>> /\ DOMAIN lru = {} /\ lru \in Seq(Uri)
  BY DEF Init
<1>2. QED
  BY <1>1 DEF Init, CacheInv, CacheTypes, MutexInv, MissedInv, Distinct, OnDisk,
     Elems, HoldsLock, HoldsPermit, Registering

\* What ends a query or moves it on outside the mutex takes no lock.
LEMMA LocksKept ==
    ASSUME MutexInv, MissedInv, lru' = lru,
           \A q \in Query : phase'[q] \in HoldsLock =>
             phase[q] \in HoldsLock /\ inWork'[q] = inWork[q]
    PROVE MutexInv' /\ MissedInv'
  BY DEF MutexInv, MissedInv

LEMMA CacheStep == CacheInv /\ [Next]_vars => CacheInv'
<1> SUFFICES ASSUME CacheInv, [Next]_vars PROVE CacheInv'
  OBVIOUS
<1> USE DEF CacheInv, CacheTypes, OnDisk, HoldsLock, HoldsPermit, Registering
<1>1. CASE UNCHANGED vars
  BY <1>1 DEF vars, cacheVars, diskVars, queryVars, MutexInv, MissedInv
<1>2. ASSUME NEW q \in Query, NEW F \in Plans, Plan(q, F) PROVE CacheInv'
  <2>1. F \subseteq Uri
    BY CacheAssumption
  <2>2. MutexInv' /\ MissedInv'
    BY <1>2, LocksKept DEF Plan, Move, cacheVars
  <2>3. QED
    BY <1>2, <2>1, <2>2 DEF Plan, Move, cacheVars, diskVars
<1>3. ASSUME NEW q \in Query, AcquireCold(q) PROVE CacheInv'
  <2>1. MutexInv' /\ MissedInv'
    BY <1>3, LocksKept DEF AcquireCold, Move, cacheVars
  <2>2. QED
    BY <1>3, <2>1 DEF AcquireCold, Move, cacheVars, diskVars
<1>4. ASSUME NEW q \in Query, Register(q) PROVE CacheInv'
  <2>1. MutexInv' /\ MissedInv'
    BY <1>4, LocksKept DEF Register, End, Move, cacheVars
  <2>2. CASE inWork[q] \subseteq whole
    <3>1. PICK p \in {"scanning", "registering"} : phase' = [phase EXCEPT ![q] = p]
      BY <1>4, <2>2 DEF Register, Move
    <3>2. QED
      BY <1>4, <2>1, <2>2, <3>1 DEF Register, cacheVars, diskVars
  <2>3. CASE ~(inWork[q] \subseteq whole)
    BY <1>4, <2>1, <2>3 DEF Register, End, cacheVars, diskVars
  <2>4. QED
    BY <2>2, <2>3
<1>5. ASSUME NEW q \in Query, NEW u \in registered[q], Scan(q, u) PROVE CacheInv'
  <2>1. MutexInv' /\ MissedInv'
    BY <1>5, LocksKept DEF Scan, End, cacheVars
  <2>2. QED
    BY <1>5, <2>1 DEF Scan, End, cacheVars, diskVars
<1>6. ASSUME NEW q \in Query, Abandon(q) PROVE CacheInv'
  <2>1. MutexInv' /\ MissedInv'
    BY <1>6, LocksKept DEF Abandon, End, cacheVars
  <2>2. QED
    BY <1>6, <2>1 DEF Abandon, End, cacheVars
<1>7. ASSUME NEW q \in Query, DownloadFails(q) \/ WriteFails(q) PROVE CacheInv'
  <2>1. MutexInv' /\ MissedInv'
    BY <1>7, LocksKept DEF DownloadFails, WriteFails, End, cacheVars
  <2>2. QED
    BY <1>7, <2>1 DEF DownloadFails, WriteFails, End, cacheVars, diskVars
<1>8. ASSUME NEW q \in Query, NEW u \in todo[q], Hit(q, u) PROVE CacheInv'
  <2>1. u \in Elems(lru)
    BY <1>8 DEF Hit, Indexed, Elems
  <2>2. lru' \in Seq(Uri) /\ Distinct(lru') /\ Elems(lru') = Elems(lru)
    BY <1>8, <2>1, Promoting DEF Hit
  <2>3. u \in Uri
    OBVIOUS
  <2>4. MutexInv' /\ MissedInv'
    BY <1>8, <2>2 DEF Hit, Move, MutexInv, MissedInv
  <2>5. QED
    BY <1>8, <2>2, <2>3, <2>4 DEF Hit, Move, diskVars
<1>9. ASSUME NEW q \in Query, NEW u \in todo[q], Miss(q, u) PROVE CacheInv'
  <2>1. u \in Uri /\ u \notin Elems(lru)
    BY <1>9 DEF Miss, Indexed, Elems
  <2>2. MutexInv' /\ MissedInv'
    BY <1>9, <2>1 DEF Miss, Move, Unlocked, MutexInv, MissedInv, cacheVars
  <2>3. QED
    BY <1>9, <2>1, <2>2 DEF Miss, Move, cacheVars, diskVars
<1>10. ASSUME NEW q \in Query, NEW S \in SUBSET Indexed, Downloaded(q, S)
       PROVE CacheInv'
  <2>1. PICK u \in inWork[q] :
          /\ lru' = SubSeq(lru, Popped(u) + 1, Len(lru))
          /\ whole' = whole \ (First(Popped(u)) \ S)
          /\ strayRunning' = strayRunning \ (First(Popped(u)) \ S)
    BY <1>10 DEF Downloaded
  <2>2. Popped(u) \in 0 .. Len(lru)
    BY PoppedInRange
  <2>3. /\ lru' \in Seq(Uri) /\ Distinct(lru')
        /\ Elems(lru') \subseteq Elems(lru) \ First(Popped(u))
    BY <2>1, <2>2, Popping DEF First
  <2>4. MutexInv' /\ MissedInv'
    BY <1>10, <2>3 DEF Downloaded, Move, MutexInv, MissedInv
  <2>5. QED
    BY <1>10, <2>1, <2>3, <2>4 DEF Downloaded, Move
<1>11. ASSUME NEW q \in Query, WriteOpens(q) PROVE CacheInv'
  <2>1. inWork[q] \cap Elems(lru) = {}
    BY <1>11 DEF WriteOpens, MissedInv
  <2>2. MutexInv' /\ MissedInv'
    BY <1>11 DEF WriteOpens, Move, MutexInv, MissedInv, cacheVars
  <2>3. QED
    BY <1>11, <2>1, <2>2 DEF WriteOpens, Move, cacheVars
<1>12. ASSUME NEW q \in Query, Written(q) PROVE CacheInv'
  <2>1. phase[q] = "writing"
    BY <1>12 DEF Written, WriteDone
  <2>2. PICK u \in Uri : inWork[q] = {u} /\ u \notin Elems(lru)
    BY <2>1 DEF MissedInv
  <2>3. /\ lru' = Put(u)
        /\ whole' = IF u \notin strayRunning THEN whole \cup {u} ELSE whole
        /\ strayRunning' = strayRunning
    BY <1>12, <2>1, <2>2 DEF Written
  <2>4. lru' \in Seq(Uri) /\ Distinct(lru') /\ Elems(lru') \subseteq Elems(lru) \cup {u}
    BY <2>2, <2>3, Putting
  <2>5. \A r \in Query : phase'[r] \notin HoldsLock
    BY <1>12, <2>1 DEF Written, Move, MutexInv
  <2>6. QED
    BY <1>12, <2>2, <2>3, <2>4, <2>5 DEF Written, Move, MutexInv, MissedInv
<1>13. ASSUME NEW u \in Uri, StrayOpens(u) \/ StrayEnds(u) PROVE CacheInv'
  <2>1. MutexInv' /\ MissedInv'
    BY <1>13, LocksKept DEF StrayOpens, StrayEnds, cacheVars, queryVars
  <2>2. QED
    BY <1>13, <2>1 DEF StrayOpens, StrayEnds, cacheVars, queryVars
<1>14. CASE Restart
  <2>1. lru' = <<>> /\ DOMAIN lru' = {} /\ lru' \in Seq(Uri)
    BY <1>14 DEF Restart
  <2>2. QED
    BY <1>14, <2>1 DEF Restart, MutexInv, MissedInv, Distinct, Elems
<1>15. QED
  BY <1>1, <1>2, <1>3, <1>4, <1>5, <1>6, <1>7, <1>8, <1>9, <1>10, <1>11, <1>12,
     <1>13, <1>14 DEF Next, Progress, Locking, QueryStep

-----------------------------------------------------------------------------
(* Permits *)

Reading == {q \in Query : phase[q] \in HoldsPermit}

PermitInv ==
    /\ coldFree \in 0 .. ColdPermits
    /\ coldFree + Cardinality(Reading) = ColdPermits

\* What a step of query q does with the permits: nothing, take one, or give
\* the one it has back.
PermitMove(q) ==
    \/ coldFree' = coldFree /\ Reading' = Reading
    \/ /\ coldFree > 0 /\ coldFree' = coldFree - 1
       /\ q \notin Reading /\ Reading' = Reading \cup {q}
    \/ /\ coldFree' = coldFree + 1
       /\ q \in Reading /\ Reading' = Reading \ {q}

LEMMA PermitMoveConserves ==
    ASSUME PermitInv, NEW q \in Query, PermitMove(q)
    PROVE PermitInv'
<1>1. /\ IsFiniteSet(Reading) /\ IsFiniteSet(Reading')
      /\ Cardinality(Reading) \in Nat /\ Cardinality(Reading') \in Nat
  <2>1. Reading \in SUBSET Query /\ Reading' \in SUBSET Query
    BY DEF Reading
  <2>2. IsFiniteSet(Reading) /\ IsFiniteSet(Reading')
    BY <2>1, CacheAssumption, FS_Subset
  <2>3. QED
    BY <2>2, FS_CardinalityType
<1>2. ColdPermits \in Nat
  BY CacheAssumption
<1>3. CASE coldFree' = coldFree /\ Reading' = Reading
  BY <1>3 DEF PermitInv
<1>4. CASE /\ coldFree > 0 /\ coldFree' = coldFree - 1
           /\ q \notin Reading /\ Reading' = Reading \cup {q}
  <2>1. Cardinality(Reading') = Cardinality(Reading) + 1
    BY <1>1, <1>4, FS_AddElement
  <2>2. QED
    BY <1>1, <1>2, <1>4, <2>1 DEF PermitInv
<1>5. CASE /\ coldFree' = coldFree + 1
           /\ q \in Reading /\ Reading' = Reading \ {q}
  <2>1. Cardinality(Reading') = Cardinality(Reading) - 1
    BY <1>1, <1>5, FS_RemoveElement
  <2>2. QED
    BY <1>1, <1>2, <1>5, <2>1 DEF PermitInv
<1>6. QED
  BY <1>3, <1>4, <1>5 DEF PermitMove

\* The end of a query gives back what it has, and only that.
LEMMA EndMovesPermit ==
    ASSUME CacheTypes, NEW q \in Query, End(q) PROVE PermitMove(q)
<1>1. Reading' = Reading \ {q}
  BY DEF End, CacheTypes, Reading, HoldsPermit, Registering, HoldsLock
<1>2. CASE phase[q] \in HoldsPermit
  BY <1>1, <1>2 DEF End, Released, PermitMove, Reading
<1>3. CASE phase[q] \notin HoldsPermit
  BY <1>1, <1>3 DEF End, Released, PermitMove, Reading
<1>4. QED
  BY <1>2, <1>3

\* A query that moves on with its permit, or without one, moves none.
LEMMA MoveKeepsPermit ==
    ASSUME CacheTypes, NEW q \in Query, NEW to, Move(q, to),
           to \in HoldsPermit <=> phase[q] \in HoldsPermit,
           coldFree' = coldFree
    PROVE PermitMove(q)
<1>1. Reading' = Reading
  BY DEF Move, CacheTypes, Reading
<1>2. QED
  BY <1>1 DEF PermitMove

LEMMA PermitStep == CacheInv /\ PermitInv /\ [Next]_vars => PermitInv'
<1> SUFFICES ASSUME CacheInv, PermitInv, [Next]_vars PROVE PermitInv'
  OBVIOUS
<1> USE DEF CacheInv
<1>1. ASSUME coldFree' = coldFree, phase' = phase PROVE PermitInv'
  BY <1>1 DEF PermitInv, Reading
<1>2. ASSUME NEW q \in Query, NEW F \in Plans, Plan(q, F) PROVE PermitMove(q)
  BY <1>2, MoveKeepsPermit DEF Plan, HoldsPermit, Registering, HoldsLock
<1>3. ASSUME NEW q \in Query, AcquireCold(q) PROVE PermitMove(q)
  <2>1. q \notin Reading /\ Reading' = Reading \cup {q}
    BY <1>3 DEF AcquireCold, Move, CacheTypes, Reading, HoldsPermit, Registering, HoldsLock
  <2>2. QED
    BY <1>3, <2>1 DEF AcquireCold, PermitMove
<1>4. ASSUME NEW q \in Query, Register(q) PROVE PermitMove(q)
  <2>1. CASE inWork[q] \subseteq whole
    <3>1. PICK p \in {"scanning", "registering"} : Move(q, p)
      BY <1>4, <2>1 DEF Register, Move
    <3>2. coldFree' = coldFree /\ phase[q] \in HoldsPermit /\ p \in HoldsPermit
      BY <1>4, <2>1 DEF Register, HoldsPermit, Registering
    <3>3. QED
      BY <3>1, <3>2, MoveKeepsPermit
  <2>2. CASE ~(inWork[q] \subseteq whole)
    BY <1>4, <2>2, EndMovesPermit DEF Register
  <2>3. QED
    BY <2>1, <2>2
<1>5. ASSUME NEW q \in Query, NEW u \in registered[q], Scan(q, u)
      PROVE PermitMove(q)
  <2>1. CASE End(q)
    BY <2>1, EndMovesPermit
  <2>2. CASE coldFree' = coldFree /\ phase' = phase
    BY <2>2 DEF PermitMove, Reading
  <2>3. QED
    BY <1>5, <2>1, <2>2 DEF Scan
<1>6. ASSUME NEW q \in Query, Abandon(q) \/ DownloadFails(q) \/ WriteFails(q)
      PROVE PermitMove(q)
  BY <1>6, EndMovesPermit DEF Abandon, DownloadFails, WriteFails
<1>7. ASSUME NEW q \in Query, NEW u \in todo[q], Hit(q, u) \/ Miss(q, u)
      PROVE PermitMove(q)
  BY <1>7, MoveKeepsPermit DEF Hit, Miss, HoldsPermit, Registering, HoldsLock
<1>8. ASSUME NEW q \in Query, NEW S \in SUBSET Indexed, Downloaded(q, S)
      PROVE PermitMove(q)
  BY <1>8, MoveKeepsPermit DEF Downloaded, HoldsPermit, Registering, HoldsLock
<1>9. ASSUME NEW q \in Query, WriteOpens(q) \/ Written(q) PROVE PermitMove(q)
  BY <1>9, MoveKeepsPermit
     DEF WriteOpens, Written, WriteDone, HoldsPermit, Registering, HoldsLock
<1>10. ASSUME NEW u \in Uri, StrayOpens(u) \/ StrayEnds(u) PROVE PermitInv'
  BY <1>1, <1>10 DEF StrayOpens, StrayEnds, queryVars
<1>11. CASE Restart
  <2>1. Reading' = {} /\ coldFree' = ColdPermits
    BY <1>11 DEF Restart, Reading, HoldsPermit, Registering, HoldsLock
  <2>2. Cardinality(Reading') = 0
    BY <2>1, FS_EmptySet
  <2>3. QED
    BY <2>1, <2>2, CacheAssumption DEF PermitInv
<1>12. CASE UNCHANGED vars
  BY <1>1, <1>12 DEF vars, queryVars
<1>13. QED
  BY <1>2, <1>3, <1>4, <1>5, <1>6, <1>7, <1>8, <1>9, <1>10, <1>11, <1>12,
     PermitMoveConserves DEF Next, Progress, Locking, QueryStep

LEMMA PermitInit == Init => PermitInv
<1> SUFFICES ASSUME Init PROVE PermitInv
  OBVIOUS
<1>1. Reading = {} /\ coldFree = ColdPermits
  BY DEF Init, Reading, HoldsPermit, Registering, HoldsLock
<1>2. Cardinality(Reading) = 0
  BY <1>1, FS_EmptySet
<1>3. QED
  BY <1>1, <1>2, CacheAssumption DEF PermitInv

-----------------------------------------------------------------------------
(* The account of bytes                                                      *)
(*                                                                           *)
(* BytesAccounted and SizeBound rest on the order of get_or_fetch: what is   *)
(* evicted before the write leaves room for it, or nothing else in the cache,*)
(* and under the mutex it stays so until the entry is put.                   *)

AccountInv == current \in Nat /\ drift \in Nat /\ BytesAccounted

RoomMade ==
    \A q \in Query, u \in Uri :
        phase[q] \in {"opening", "writing"} /\ u \in inWork[q] =>
            current + SizeOf[u] <= MaxBytes \/ lru = <<>>

\* What a query is asked to read, has fetched and has registered.
WorkInv ==
    \A q \in Query :
        /\ phase[q] \in {"idle", "waiting"} => registered[q] = {} /\ inWork[q] = {}
        /\ phase[q] = "waiting" => todo[q] \in Plans
        /\ registered[q] \cap todo[q] = {} /\ inWork[q] \subseteq todo[q]

\* The files the query has fetched or registered while it was registering.
Touched(q) ==
    registered[q] \cup (IF phase[q] = "fetched" THEN inWork[q] ELSE {})

\* A lone query: its files have been used last, and are whole if they fit.
Lone(a) ==
    /\ phase[a[1]] \in HoldsPermit
    /\ \A r \in Query \ {a[1]} : phase[r] \in {"idle", "waiting"}
    /\ strayQueued = {} /\ strayRunning = {}
    /\ registered[a[1]] \cup todo[a[1]] \subseteq a[2]
    /\ phase[a[1]] # "scanning" => Recent(lru, Touched(a[1]))
    /\ Bytes(a[2]) + drift <= MaxBytes => Touched(a[1]) \subseteq whole

LoneInv == alone \subseteq Query \X Plans /\ \A a \in alone : Lone(a)

-----------------------------------------------------------------------------
(* Sums of sizes, and the loop that evicts *)

LEMMA BytesIsSum == \A S : Bytes(S) = SumOf(SizeOf, S)
  BY DEF Bytes, SumOf

LEMMA BytesType ==
    ASSUME NEW S, S \subseteq Uri
    PROVE  IsFiniteSet(S) /\ Bytes(S) \in Nat /\ \A u \in S : SizeOf[u] \in Nat
<1>1. IsFiniteSet(S) /\ \A u \in S : SizeOf[u] \in Nat
  BY CacheAssumption, FS_Subset
<1>2. SumOf(SizeOf, S) \in Nat
  BY <1>1, SumType
<1>3. QED
  BY <1>1, <1>2, BytesIsSum

LEMMA BytesWithout ==
    ASSUME NEW S, S \subseteq Uri, NEW T, T \subseteq S
    PROVE  Bytes(S) = Bytes(T) + Bytes(S \ T) /\ Bytes(T) <= Bytes(S)
<1>1. IsFiniteSet(S) /\ \A u \in S : SizeOf[u] \in Nat /\ SizeOf[u] \in Int
  BY BytesType
<1>2. SumOf(SizeOf, S) = SumOf(SizeOf, T) + SumOf(SizeOf, S \ T)
  BY <1>1, SumSplit
<1>3. SumOf(SizeOf, T) <= SumOf(SizeOf, S)
  BY <1>1, SumMonotone
<1>4. QED
  BY <1>2, <1>3, BytesIsSum

LEMMA BytesWith ==
    ASSUME NEW S, S \subseteq Uri, NEW u \in Uri, u \notin S
    PROVE  Bytes(S \cup {u}) = Bytes(S) + SizeOf[u]
<1>1. IsFiniteSet(S) /\ \A v \in S \cup {u} : SizeOf[v] \in Int
  BY BytesType, CacheAssumption
<1>2. SumOf(SizeOf, S \cup {u}) = SumOf(SizeOf, S) + SizeOf[u]
  BY <1>1, SumAdd
<1>3. QED
  BY <1>2, BytesIsSum

LEMMA IndexedIsElems == Indexed = Elems(lru)
  BY DEF Indexed, Elems

\* What is left of the account when the k oldest entries are popped is the
\* size of the other entries, and what the count cap has dropped.
LEMMA LeftIsRest ==
    ASSUME CacheInv, AccountInv, NEW k \in 0 .. Len(lru)
    PROVE  Left(k) = Bytes(Elems(lru) \ First(k)) + drift
<1>1. Elems(lru) \subseteq Uri /\ First(k) \subseteq Elems(lru)
  <2>1. \A i \in 1 .. k : i \in DOMAIN lru
    BY DEF CacheInv, CacheTypes
  <2>2. QED
    BY <2>1 DEF CacheInv, CacheTypes, Elems, First
<1>2. Bytes(Elems(lru)) = Bytes(First(k)) + Bytes(Elems(lru) \ First(k))
  BY <1>1, BytesWithout
<1>3. Bytes(First(k)) \in Nat /\ Bytes(Elems(lru) \ First(k)) \in Nat
  BY <1>1, BytesType
<1>4. current = Bytes(Elems(lru)) + drift /\ drift \in Nat
  BY IndexedIsElems DEF AccountInv, BytesAccounted
<1>5. current - Bytes(First(k)) = Bytes(Elems(lru) \ First(k)) + drift
  BY <1>2, <1>3, <1>4
<1>6. QED
  BY <1>3, <1>4, <1>5 DEF Left

\* The loop ends with room for the file or with no entry left, and has had no
\* room before.
LEMMA PopsEnough ==
    ASSUME lru \in Seq(Uri), NEW u
    PROVE  /\ \A j \in 0 .. Popped(u) - 1 : ~HasRoom(j, u)
           /\ HasRoom(Popped(u), u) \/ Popped(u) = Len(lru)
<1> DEFINE K == {k \in 1 .. Len(lru) : \A j \in 0 .. k - 1 : ~HasRoom(j, u)}
           Ends == {j \in 0 .. Len(lru) : HasRoom(j, u) \/ j = Len(lru)}
<1>1. Len(lru) \in Nat /\ Ends \subseteq Nat /\ Ends # {}
  OBVIOUS
<1>2. PICK m \in Ends : \A j \in Ends : m <= j
  BY <1>1, LeastNatural
<1>3. m \in 0 .. Len(lru) /\ (HasRoom(m, u) \/ m = Len(lru))
  OBVIOUS
<1>4. \A j \in 0 .. m - 1 : ~HasRoom(j, u)
  BY <1>1, <1>2, <1>3
<1> HIDE DEF Ends
<1>5. K = 1 .. m
  <2>1. \A k \in 1 .. m : k \in K
    BY <1>1, <1>3, <1>4
  <2>2. ASSUME NEW k \in K, ~(k <= m) PROVE FALSE
    <3>1. m \in 0 .. k - 1 /\ k \in 1 .. Len(lru)
      BY <1>1, <1>3, <2>2
    <3>2. ~HasRoom(m, u)
      BY <3>1
    <3>3. m = Len(lru)
      BY <1>3, <3>2
    <3>4. QED
      BY <1>1, <1>3, <2>2, <3>1, <3>3
  <2>3. QED
    BY <1>1, <1>3, <2>1, <2>2
<1>6. Cardinality(1 .. m) = m
  BY <1>3, FS_Interval
<1>7. Popped(u) = m
  BY <1>5, <1>6 DEF Popped
<1>8. QED
  BY <1>3, <1>4, <1>7

\* An eviction that makes room for u spares the files T that were used last
\* and that fit together with u.
LEMMA EvictionSparesRecent ==
    ASSUME CacheInv, AccountInv, NEW u \in Uri, u \notin Elems(lru),
           NEW T, T \subseteq Uri, Recent(lru, T), Bytes(T \cup {u}) + drift <= MaxBytes
    PROVE  First(Popped(u)) \cap T = {}
<1>1. lru \in Seq(Uri) /\ Len(lru) \in Nat /\ DOMAIN lru = 1 .. Len(lru)
  BY DEF CacheInv, CacheTypes
<1>2. Popped(u) \in 0 .. Len(lru)
  BY <1>1, PoppedInRange
<1> SUFFICES ASSUME NEW i \in 1 .. Popped(u), lru[i] \in T
             PROVE  FALSE
  BY DEF First
<1> DEFINE rest == Elems(lru) \ First(i - 1)
<1>3. i - 1 \in 0 .. Popped(u) - 1 /\ i - 1 \in 0 .. Len(lru) /\ i \in DOMAIN lru
  BY <1>1, <1>2
<1>4. rest \subseteq T
  <2> SUFFICES ASSUME NEW j \in DOMAIN lru, lru[j] \notin First(i - 1)
               PROVE  lru[j] \in T
    BY DEF Elems
  <2>1. ~(j <= i - 1)
    BY <1>1, <1>3 DEF First
  <2>2. i <= j
    BY <1>1, <1>3, <2>1
  <2>3. QED
    BY <1>1, <1>3, <2>2 DEF Recent
<1>5. rest \subseteq Uri /\ u \notin rest
  BY <1>1 DEF Elems
<1> HIDE DEF rest
<1>6. Bytes(rest \cup {u}) = Bytes(rest) + SizeOf[u]
  BY <1>5, BytesWith
<1>7. Bytes(rest \cup {u}) <= Bytes(T \cup {u})
  BY <1>4, BytesWithout
<1>8. Left(i - 1) = Bytes(rest) + drift
  BY <1>3, LeftIsRest DEF rest
<1>9. Bytes(rest) \in Nat /\ Bytes(T \cup {u}) \in Nat /\ SizeOf[u] \in Nat
  BY <1>5, BytesType, CacheAssumption
<1>10. HasRoom(i - 1, u)
  BY <1>6, <1>7, <1>8, <1>9, CacheAssumption DEF HasRoom, AccountInv
<1>11. QED
  BY <1>1, <1>3, <1>10, PopsEnough

-----------------------------------------------------------------------------
(* The account, step by step *)

FullInv ==
    /\ CacheInv /\ PermitInv
    /\ AccountInv /\ SizeBound /\ RoomMade /\ WorkInv /\ LoneInv

\* Every step but four leaves the index and its account alone.
LEMMA AccountStep == CacheInv /\ AccountInv /\ [Next]_vars => AccountInv'
<1> SUFFICES ASSUME CacheInv, AccountInv, [Next]_vars PROVE AccountInv'
  OBVIOUS
<1>1. ASSUME UNCHANGED cacheVars PROVE AccountInv'
  BY <1>1 DEF cacheVars, AccountInv, BytesAccounted, Indexed
<1>2. lru \in Seq(Uri) /\ Distinct(lru) /\ Elems(lru) \subseteq Uri
  BY DEF CacheInv, CacheTypes, Elems
<1>3. Indexed' = Elems(lru')
  BY DEF Indexed, Elems
<1>4. current = Bytes(Elems(lru)) + drift /\ current \in Nat /\ drift \in Nat
  BY IndexedIsElems DEF AccountInv, BytesAccounted
<1>5. ASSUME NEW q \in Query, NEW u \in todo[q], Hit(q, u) PROVE AccountInv'
  <2>1. u \in Elems(lru)
    BY <1>5, IndexedIsElems DEF Hit
  <2>2. Elems(lru') = Elems(lru)
    BY <1>2, <1>5, <2>1, Promoting DEF Hit
  <2>3. current' = current /\ drift' = drift
    BY <1>5 DEF Hit
  <2>4. QED
    BY <1>3, <1>4, <2>2, <2>3 DEF AccountInv, BytesAccounted
<1>6. ASSUME NEW q \in Query, NEW S \in SUBSET Indexed, Downloaded(q, S)
      PROVE AccountInv'
  <2>1. PICK u \in inWork[q] :
          /\ lru' = SubSeq(lru, Popped(u) + 1, Len(lru))
          /\ current' = Left(Popped(u)) /\ drift' = drift
    BY <1>6 DEF Downloaded
  <2>2. Popped(u) \in 0 .. Len(lru)
    BY <1>2, PoppedInRange
  <2>3. Elems(lru') = Elems(lru) \ First(Popped(u))
    BY <1>2, <2>1, <2>2, Popping DEF First
  <2>4. current' = Bytes(Elems(lru')) + drift
    BY <2>1, <2>2, <2>3, LeftIsRest
  <2>5. Bytes(Elems(lru')) \in Nat
    BY <1>2, <2>3, BytesType
  <2>6. QED
    BY <1>3, <1>4, <2>1, <2>4, <2>5 DEF AccountInv, BytesAccounted
<1>7. ASSUME NEW q \in Query, Written(q) PROVE AccountInv'
  <2>1. PICK u \in Uri : inWork[q] = {u} /\ u \notin Elems(lru)
    BY <1>7 DEF Written, WriteDone, CacheInv, MissedInv, HoldsLock
  <2>2. /\ current' = current + SizeOf[u] /\ lru' = Put(u)
        /\ drift' = IF OverCap THEN drift + SizeOf[lru[1]] ELSE drift
    BY <1>7, <2>1 DEF Written
  <2>3. SizeOf[u] \in Nat
    BY CacheAssumption
  <2>4. CASE OverCap
    <3> DEFINE rest == Elems(lru) \ {lru[1]}
    <3>1. lru[1] \in Elems(lru) /\ Elems(lru') = rest \cup {u}
      BY <1>2, <2>1, <2>2, <2>4, Putting
    <3>2. rest \subseteq Uri /\ u \notin rest /\ lru[1] \in Uri /\ lru[1] \notin rest
          /\ rest \cup {lru[1]} = Elems(lru)
      BY <1>2, <2>1, <3>1
    <3> HIDE DEF rest
    <3>3. /\ Bytes(rest \cup {u}) = Bytes(rest) + SizeOf[u]
          /\ Bytes(Elems(lru)) = Bytes(rest) + SizeOf[lru[1]]
      BY <3>2, BytesWith
    <3>4. Bytes(rest) \in Nat /\ SizeOf[lru[1]] \in Nat
      BY <3>2, BytesType, CacheAssumption
    <3>5. current' = Bytes(Elems(lru')) + drift' /\ current' \in Nat /\ drift' \in Nat
      BY <1>4, <2>2, <2>3, <2>4, <3>1, <3>3, <3>4
    <3>6. QED
      BY <1>3, <3>5 DEF AccountInv, BytesAccounted
  <2>5. CASE ~OverCap
    <3>1. Elems(lru') = Elems(lru) \cup {u}
      BY <1>2, <2>1, <2>2, <2>5, Putting
    <3>2. Bytes(Elems(lru')) = Bytes(Elems(lru)) + SizeOf[u]
      BY <1>2, <2>1, <3>1, BytesWith
    <3>3. Bytes(Elems(lru)) \in Nat
      BY <1>2, BytesType
    <3>4. current' = Bytes(Elems(lru')) + drift' /\ current' \in Nat /\ drift' \in Nat
      BY <1>4, <2>2, <2>3, <2>5, <3>2, <3>3
    <3>5. QED
      BY <1>3, <3>4 DEF AccountInv, BytesAccounted
  <2>6. QED
    BY <2>4, <2>5
<1>8. CASE Restart
  <2>1. lru' = <<>> /\ current' = 0 /\ drift' = 0 /\ Elems(lru') = {}
    BY <1>8 DEF Restart, Elems
  <2>2. Bytes({}) = 0
    BY BytesIsSum, SumEmpty
  <2>3. QED
    BY <1>3, <2>1, <2>2 DEF AccountInv, BytesAccounted
<1>9. QED
  <2>1. ASSUME NEW q \in Query, NEW F \in Plans, Plan(q, F) PROVE AccountInv'
    BY <1>1, <2>1 DEF Plan
  <2>2. ASSUME NEW q \in Query,
               \/ AcquireCold(q) \/ Abandon(q) \/ Register(q) \/ DownloadFails(q)
               \/ WriteOpens(q) \/ WriteFails(q)
        PROVE AccountInv'
    BY <1>1, <2>2
    DEF AcquireCold, Abandon, Register, DownloadFails, WriteOpens, WriteFails
  <2>3. ASSUME NEW q \in Query, NEW u \in Uri, Scan(q, u) \/ Miss(q, u)
        PROVE AccountInv'
    BY <1>1, <2>3 DEF Scan, Miss
  <2>4. ASSUME NEW u \in Uri, StrayOpens(u) \/ StrayEnds(u) PROVE AccountInv'
    BY <1>1, <2>4 DEF StrayOpens, StrayEnds
  <2>5. CASE UNCHANGED vars
    BY <1>1, <2>5 DEF vars
  <2>6. \A q \in Query : registered[q] \subseteq Uri /\ todo[q] \subseteq Uri
    BY DEF CacheInv, CacheTypes
  <2>7. QED
    BY <1>5, <1>6, <1>7, <1>8, <2>1, <2>2, <2>3, <2>4, <2>5, <2>6
    DEF Next, Progress, Locking, QueryStep

\* Room is made before the file is handed to a thread and, since nobody else
\* can change the index before it is put, is still there then.
LEMMA RoomStep ==
    CacheInv /\ AccountInv /\ SizeBound /\ RoomMade /\ [Next]_vars
        => SizeBound' /\ RoomMade'
<1> SUFFICES ASSUME CacheInv, AccountInv, SizeBound, RoomMade, [Next]_vars
             PROVE  SizeBound' /\ RoomMade'
  OBVIOUS
<1> DEFINE Writing == {"opening", "writing"}
<1>1. lru \in Seq(Uri) /\ Distinct(lru) /\ \A q \in Query : inWork[q] \subseteq Uri
  BY DEF CacheInv, CacheTypes
<1>2. ASSUME UNCHANGED cacheVars,
             \A q \in Query : phase'[q] \in Writing =>
               phase[q] \in Writing /\ inWork'[q] \subseteq inWork[q]
      PROVE  SizeBound' /\ RoomMade'
  BY <1>2 DEF cacheVars, SizeBound, RoomMade
<1>3. ASSUME \A q \in Query : phase'[q] \notin Writing
      PROVE  RoomMade'
  BY <1>3 DEF RoomMade
<1>4. ASSUME NEW q \in Query, NEW u \in todo[q], Hit(q, u)
      PROVE  SizeBound' /\ RoomMade'
  <2>1. u \in Elems(lru)
    BY <1>4, IndexedIsElems DEF Hit
  <2>2. Len(lru') = Len(lru) /\ lru # <<>>
    BY <1>1, <1>4, <2>1, Promoting DEF Hit, Elems
  <2>3. current' = current /\ \A r \in Query : phase'[r] \notin Writing
    BY <1>4 DEF Hit, Move, Unlocked, HoldsLock, CacheInv, CacheTypes
  <2>4. QED
    BY <1>3, <2>2, <2>3 DEF SizeBound
<1>5. ASSUME NEW q \in Query, NEW S \in SUBSET Indexed, Downloaded(q, S)
      PROVE  SizeBound' /\ RoomMade'
  <2>1. PICK u \in Uri : inWork[q] = {u}
    BY <1>5 DEF Downloaded, CacheInv, MissedInv, HoldsLock
  <2>2. /\ lru' = SubSeq(lru, Popped(u) + 1, Len(lru)) /\ current' = Left(Popped(u))
        /\ inWork' = inWork
    BY <1>5, <2>1 DEF Downloaded
  <2>3. Popped(u) \in 0 .. Len(lru)
    BY <1>1, PoppedInRange
  <2>6. current' + SizeOf[u] <= MaxBytes \/ lru' = <<>>
    BY <1>1, <2>2, <2>3, PopsEnough DEF HasRoom
  <2>7. current' \in Nat /\ SizeOf[u] \in Nat /\ MaxBytes \in Nat
    BY AccountStep, CacheAssumption DEF AccountInv
  <2>8. SizeBound'
    BY <2>6, <2>7 DEF SizeBound
  <2>9. \A r \in Query : phase'[r] \in Writing => r = q
    BY <1>5 DEF Downloaded, Move, CacheInv, CacheTypes, MutexInv, HoldsLock
  <2>10. QED
    BY <2>1, <2>2, <2>6, <2>8, <2>9 DEF RoomMade
<1>6. ASSUME NEW q \in Query, Written(q) PROVE SizeBound' /\ RoomMade'
  <2>1. phase[q] = "writing"
    BY <1>6 DEF Written, WriteDone
  <2>2. PICK u \in Uri : inWork[q] = {u} /\ u \notin Elems(lru)
    BY <2>1 DEF CacheInv, MissedInv, HoldsLock
  <2>3. current' = current + SizeOf[u] /\ lru' = Put(u)
    BY <1>6, <2>2 DEF Written
  <2>4. current + SizeOf[u] <= MaxBytes \/ lru = <<>>
    BY <2>1, <2>2 DEF RoomMade
  <2>5. SizeBound'
    BY <1>1, <2>2, <2>3, <2>4, Putting DEF SizeBound
  <2>6. \A r \in Query : phase'[r] \notin Writing
    BY <1>6, <2>1 DEF Written, Move, CacheInv, CacheTypes, MutexInv, HoldsLock
  <2>7. QED
    BY <1>3, <2>5, <2>6
<1>7. CASE Restart
  <2>1. lru' = <<>> /\ \A r \in Query : phase'[r] \notin Writing
    BY <1>7 DEF Restart
  <2>2. QED
    BY <1>3, <2>1 DEF SizeBound
<1>8. QED
  <2> USE DEF CacheInv, CacheTypes
  <2>1. ASSUME NEW q \in Query, NEW F \in Plans, Plan(q, F)
        PROVE SizeBound' /\ RoomMade'
    BY <1>2, <2>1 DEF Plan, Move
  <2>2. ASSUME NEW q \in Query, AcquireCold(q) PROVE SizeBound' /\ RoomMade'
    BY <1>2, <2>2 DEF AcquireCold, Move
  <2>3. ASSUME NEW q \in Query, Abandon(q) \/ DownloadFails(q) \/ WriteFails(q)
        PROVE SizeBound' /\ RoomMade'
    BY <1>2, <2>3 DEF Abandon, DownloadFails, WriteFails, End
  <2>4. ASSUME NEW q \in Query, Register(q) PROVE SizeBound' /\ RoomMade'
    <3>1. CASE End(q)
      BY <1>2, <2>4, <3>1 DEF Register, End
    <3>2. CASE ~End(q)
      <4>1. PICK p \in {"scanning", "registering"} : phase' = [phase EXCEPT ![q] = p]
        BY <2>4, <3>2 DEF Register, Move
      <4>2. inWork' = [inWork EXCEPT ![q] = {}] /\ UNCHANGED cacheVars
        BY <2>4, <3>2 DEF Register
      <4>3. QED
        BY <1>2, <4>1, <4>2
    <3>3. QED
      BY <3>1, <3>2
  <2>5. ASSUME NEW q \in Query, NEW u \in Uri, Scan(q, u)
        PROVE SizeBound' /\ RoomMade'
    BY <1>2, <2>5 DEF Scan, End
  <2>6. ASSUME NEW q \in Query, NEW u \in Uri, Miss(q, u)
        PROVE SizeBound' /\ RoomMade'
    BY <1>2, <2>6 DEF Miss, Move
  <2>7. ASSUME NEW q \in Query, WriteOpens(q) PROVE SizeBound' /\ RoomMade'
    BY <1>2, <2>7 DEF WriteOpens, Move
  <2>8. ASSUME NEW u \in Uri, StrayOpens(u) \/ StrayEnds(u)
        PROVE SizeBound' /\ RoomMade'
    BY <1>2, <2>8 DEF StrayOpens, StrayEnds, queryVars
  <2>9. CASE UNCHANGED vars
    BY <1>2, <2>9 DEF vars, queryVars
  <2>10. \A q \in Query : registered[q] \subseteq Uri /\ todo[q] \subseteq Uri
    OBVIOUS
  <2>11. QED
    BY <1>4, <1>5, <1>6, <1>7, <2>1, <2>2, <2>3, <2>4, <2>5, <2>6, <2>7, <2>8,
       <2>9, <2>10 DEF Next, Progress, Locking, QueryStep

-----------------------------------------------------------------------------
(* A query that has the cache to itself *)

LEMMA WorkStep == CacheTypes /\ WorkInv /\ [Next]_vars => WorkInv'
<1> SUFFICES ASSUME CacheTypes, WorkInv, [Next]_vars PROVE WorkInv'
  OBVIOUS
<1> USE DEF WorkInv, CacheTypes
<1>1. ASSUME NEW q \in Query, NEW F \in Plans, Plan(q, F) PROVE WorkInv'
  BY <1>1 DEF Plan, Move
<1>2. ASSUME NEW q \in Query, AcquireCold(q) PROVE WorkInv'
  BY <1>2 DEF AcquireCold, Move
<1>3. ASSUME NEW q \in Query, End(q) PROVE WorkInv'
  BY <1>3 DEF End
<1>4. ASSUME NEW q \in Query, Register(q), ~End(q) PROVE WorkInv'
  <2>1. PICK p \in {"scanning", "registering"} : phase' = [phase EXCEPT ![q] = p]
    BY <1>4 DEF Register, Move
  <2>2. /\ registered' = [registered EXCEPT ![q] = @ \cup inWork[q]]
        /\ todo' = [todo EXCEPT ![q] = @ \ inWork[q]]
        /\ inWork' = [inWork EXCEPT ![q] = {}]
    BY <1>4 DEF Register
  <2>3. QED
    BY <2>1, <2>2
<1>5. ASSUME NEW q \in Query, NEW u \in Uri, Scan(q, u), ~End(q) PROVE WorkInv'
  BY <1>5 DEF Scan
<1>6. ASSUME NEW q \in Query, NEW u \in todo[q], Hit(q, u) \/ Miss(q, u)
      PROVE WorkInv'
  BY <1>6 DEF Hit, Miss, Move
<1>7. ASSUME NEW q \in Query, NEW S, Downloaded(q, S) PROVE WorkInv'
  BY <1>7 DEF Downloaded, Move
<1>8. ASSUME NEW q \in Query, WriteOpens(q) \/ Written(q) PROVE WorkInv'
  BY <1>8 DEF WriteOpens, Written, WriteDone, Move
<1>9. ASSUME NEW u \in Uri, StrayOpens(u) \/ StrayEnds(u) PROVE WorkInv'
  BY <1>9 DEF StrayOpens, StrayEnds, queryVars
<1>10. CASE Restart
  BY <1>10 DEF Restart
<1>11. CASE UNCHANGED vars
  BY <1>11 DEF vars, queryVars
<1>12. \A q \in Query : Abandon(q) \/ DownloadFails(q) \/ WriteFails(q) => End(q)
  BY DEF Abandon, DownloadFails, WriteFails
<1>13. QED
  BY <1>1, <1>2, <1>3, <1>4, <1>5, <1>6, <1>7, <1>8, <1>9, <1>10, <1>11, <1>12
  DEF Next, Progress, Locking, QueryStep

\* What another query does while it may do no more than wait.
LEMMA LoneLeftAlone ==
    ASSUME CacheTypes, NEW a \in Query \X Plans, Lone(a),
           UNCHANGED <<cacheVars, whole>>,
           strayQueued' = {}, strayRunning' = {},
           phase'[a[1]] = phase[a[1]], inWork'[a[1]] = inWork[a[1]],
           todo'[a[1]] = todo[a[1]], registered'[a[1]] = registered[a[1]],
           \A r \in Query \ {a[1]} : phase'[r] \in {"idle", "waiting"}
    PROVE Lone(a)'
  BY DEF Lone, Touched, cacheVars

\* A step of the lone query in get_or_fetch.
LEMMA LoneFetches ==
    ASSUME CacheInv, AccountInv, WorkInv, NEW a \in Query \X Plans, Lone(a),
           \/ \E u \in todo[a[1]] : Hit(a[1], u) \/ Miss(a[1], u)
           \/ \E S \in SUBSET Indexed : Downloaded(a[1], S)
           \/ WriteOpens(a[1]) \/ Written(a[1])
    PROVE Lone(a)'
<1> DEFINE q == a[1]
           fits == Bytes(a[2]) + drift <= MaxBytes
<1>1. q \in Query /\ a[2] \subseteq Uri
  BY CacheAssumption
<1> HIDE DEF q
<1>2. /\ lru \in Seq(Uri) /\ Distinct(lru)
      /\ phase \in [Query -> {"idle", "waiting"} \cup HoldsPermit]
      /\ inWork \in [Query -> SUBSET Uri] /\ registered \in [Query -> SUBSET Uri]
  BY DEF CacheInv, CacheTypes
<1>3. /\ \A r \in Query \ {q} : phase[r] \in {"idle", "waiting"}
      /\ strayQueued = {} /\ strayRunning = {}
      /\ registered[q] \cup todo[q] \subseteq a[2]
      /\ phase[q] # "scanning" => Recent(lru, Touched(q))
      /\ fits => Touched(q) \subseteq whole
  BY DEF Lone, q
<1>4. registered[q] \cap todo[q] = {} /\ inWork[q] \subseteq todo[q]
  BY <1>1 DEF WorkInv
\* What is the same for every such step.
<1>5. ASSUME NEW to \in {"fetching", "fetched", "opening", "writing"}, Move(q, to),
             UNCHANGED <<registered, todo>>,
             strayQueued' = {}, strayRunning' = {},
             Recent(lru', registered[q] \cup (IF to = "fetched" THEN inWork'[q] ELSE {})),
             Bytes(a[2]) + drift' <= MaxBytes =>
               registered[q] \cup (IF to = "fetched" THEN inWork'[q] ELSE {}) \subseteq whole'
      PROVE  Lone(a)'
  <2>1. phase'[q] = to /\ \A r \in Query \ {q} : phase'[r] = phase[r]
    BY <1>1, <1>2, <1>5 DEF Move
  <2>2. Touched(q)' = registered[q] \cup (IF to = "fetched" THEN inWork'[q] ELSE {})
    BY <1>5, <2>1 DEF Touched
  <2>3. QED
    BY <1>3, <1>5, <2>1, <2>2 DEF Lone, q, HoldsPermit, Registering, HoldsLock
<1>6. ASSUME NEW u \in todo[q], Hit(q, u) PROVE Lone(a)'
  <2>1. phase[q] = "registering" /\ u \in Elems(lru) /\ Touched(q) = registered[q]
    BY <1>6, IndexedIsElems DEF Hit, Touched
  <2>2. Recent(lru', registered[q] \cup {u})
    BY <1>2, <1>3, <1>6, <2>1, Promoting DEF Hit
  <2>3. inWork'[q] = {u}
    BY <1>1, <1>2, <1>6 DEF Hit
  <2>4. u \in whole
    BY <1>3, <2>1 DEF CacheInv, OnDisk
  <2>5. /\ Move(q, "fetched") /\ UNCHANGED <<registered, todo, drift, diskVars>>
    BY <1>6 DEF Hit
  <2>6. QED
    BY <1>3, <1>5, <2>1, <2>2, <2>3, <2>4, <2>5 DEF diskVars
<1>7. ASSUME NEW u \in todo[q], Miss(q, u) PROVE Lone(a)'
  <2>1. phase[q] = "registering" /\ Touched(q) = registered[q]
    BY <1>7 DEF Miss, Touched
  <2>2. Move(q, "fetching") /\ UNCHANGED <<registered, todo, cacheVars, diskVars>>
    BY <1>7 DEF Miss
  <2>3. QED
    BY <1>3, <1>5, <2>1, <2>2 DEF cacheVars, diskVars
<1>8. ASSUME NEW S \in SUBSET Indexed, Downloaded(q, S) PROVE Lone(a)'
  <2>1. phase[q] = "fetching" /\ Touched(q) = registered[q]
    BY <1>8 DEF Downloaded, Touched
  <2>2. PICK u \in Uri : inWork[q] = {u} /\ u \notin Elems(lru)
    BY <1>1, <2>1 DEF CacheInv, MissedInv, HoldsLock
  <2>3. /\ lru' = SubSeq(lru, Popped(u) + 1, Len(lru))
        /\ whole' = whole \ (First(Popped(u)) \ S)
        /\ strayRunning' = strayRunning \ (First(Popped(u)) \ S)
        /\ UNCHANGED <<drift, strayQueued, registered, todo>> /\ Move(q, "opening")
    BY <1>8, <2>2 DEF Downloaded
  <2>4. Popped(u) \in 0 .. Len(lru)
    BY <1>2, PoppedInRange
  <2>5. Recent(lru', registered[q])
    BY <1>2, <1>3, <2>1, <2>3, <2>4, Popping
  <2>6. ASSUME fits PROVE registered[q] \subseteq whole'
    <3>1. registered[q] \cup {u} \subseteq a[2]
      BY <1>3, <1>4, <2>2
    <3>2. Bytes(registered[q] \cup {u}) <= Bytes(a[2])
      BY <1>1, <3>1, BytesWithout
    <3>3. Bytes(registered[q] \cup {u}) \in Nat /\ Bytes(a[2]) \in Nat
      BY <1>1, <3>1, BytesType
    <3>4. Bytes(registered[q] \cup {u}) + drift <= MaxBytes
      BY <2>6, <3>2, <3>3, CacheAssumption DEF AccountInv
    <3>5. First(Popped(u)) \cap registered[q] = {}
      <4>1. registered[q] \subseteq Uri /\ Recent(lru, registered[q])
        BY <1>1, <1>2, <1>3, <2>1
      <4>2. QED
        BY <2>2, <3>4, <4>1, EvictionSparesRecent
    <3>6. QED
      BY <1>3, <2>1, <2>3, <2>6, <3>5
  <2>7. QED
    BY <1>3, <1>5, <2>3, <2>5, <2>6
<1>9. ASSUME WriteOpens(q) PROVE Lone(a)'
  <2>1. phase[q] = "opening" /\ Touched(q) = registered[q]
    BY <1>9 DEF WriteOpens, Touched
  <2>2. /\ Move(q, "writing") /\ UNCHANGED <<registered, todo, cacheVars, strayQueued>>
        /\ whole' = whole \ inWork[q] /\ strayRunning' = strayRunning \ inWork[q]
    BY <1>9 DEF WriteOpens
  <2>3. QED
    BY <1>3, <1>4, <1>5, <2>1, <2>2 DEF cacheVars
<1>10. ASSUME Written(q) PROVE Lone(a)'
  <2>1. phase[q] = "writing" /\ Touched(q) = registered[q]
    BY <1>10 DEF Written, WriteDone, Touched
  <2>2. PICK u \in Uri : inWork[q] = {u} /\ u \notin Elems(lru)
    BY <1>1, <2>1 DEF CacheInv, MissedInv, HoldsLock
  <2>3. /\ lru' = Put(u) /\ whole' = whole \cup {u}
        /\ drift' = IF OverCap THEN drift + SizeOf[lru[1]] ELSE drift
        /\ UNCHANGED <<strayQueued, strayRunning, registered, todo, inWork>>
        /\ Move(q, "fetched")
    BY <1>3, <1>10, <2>1, <2>2 DEF Written
  <2>4. Recent(lru', registered[q] \cup {u})
    BY <1>2, <1>3, <2>1, <2>2, <2>3, Putting
  <2>5. Bytes(a[2]) + drift' <= MaxBytes => fits
    <3>1. Bytes(a[2]) \in Nat /\ drift \in Nat /\ MaxBytes \in Nat
      BY <1>1, BytesType, CacheAssumption DEF AccountInv
    <3>2. OverCap => SizeOf[lru[1]] \in Nat
      <4>1. OverCap => lru[1] \in Uri
        BY <1>2, <2>2, Putting DEF Elems
      <4>2. QED
        BY <4>1, CacheAssumption
    <3>3. QED
      BY <2>3, <3>1, <3>2
  <2>6. QED
    BY <1>3, <1>5, <2>1, <2>2, <2>3, <2>4, <2>5
<1>11. QED
  BY <1>6, <1>7, <1>8, <1>9, <1>10 DEF q

LEMMA LoneStep ==
    CacheInv /\ AccountInv /\ WorkInv /\ LoneInv /\ [Next]_vars => LoneInv'
<1> SUFFICES ASSUME CacheInv, AccountInv, WorkInv, LoneInv, [Next]_vars
             PROVE  LoneInv'
  OBVIOUS
<1> USE DEF CacheInv, CacheTypes
\* Only the lone query moves on; what it or another does when it ends.
<1>1. ASSUME NEW q \in Query, NEW a \in alone, phase[q] \notin {"idle", "waiting"}
      PROVE  a[1] = q
  BY <1>1 DEF LoneInv, Lone
<1>2. ASSUME alone' \subseteq alone, \A a \in alone' : Lone(a)'
      PROVE  LoneInv'
  BY <1>2 DEF LoneInv
<1>3. ASSUME NEW q \in Query, End(q), phase[q] \notin {"idle", "waiting"}
      PROVE  LoneInv'
  BY <1>1, <1>2, <1>3 DEF End
<1>4. ASSUME NEW q \in Query, NEW F \in Plans, Plan(q, F) PROVE LoneInv'
  <2>1. ASSUME NEW a \in alone PROVE Lone(a)'
    <3>1. a \in Query \X Plans /\ Lone(a)
      BY DEF LoneInv
    <3>2. a[1] # q
      BY <1>4, <3>1 DEF Plan, Lone, HoldsPermit, Registering, HoldsLock
    <3>3. QED
      BY <1>4, <3>1, <3>2, LoneLeftAlone DEF Plan, Move, diskVars, Lone
  <2>2. QED
    BY <1>2, <1>4, <2>1 DEF Plan
<1>5. ASSUME NEW q \in Query, AcquireCold(q) PROVE LoneInv'
  <2>1. CASE alone' = {}
    BY <2>1 DEF LoneInv
  <2>2. CASE alone' # {}
    <3>1. /\ alone' = {<<q, todo[q]>>} /\ strayQueued \cup strayRunning = {}
          /\ \A r \in Query \ {q} : phase[r] \in {"idle", "waiting"}
      BY <1>5, <2>2 DEF AcquireCold
    <3>2. phase[q] = "waiting" /\ Move(q, "registering")
          /\ UNCHANGED <<cacheVars, diskVars, inWork, todo, registered>>
      BY <1>5 DEF AcquireCold
    <3>3. registered[q] = {} /\ todo[q] \in Plans
      BY <3>2 DEF WorkInv
    <3>4. PICK F \in Plans : F = todo[q]
      BY <3>3
    <3>5. Lone(<<q, F>>)'
      BY <3>1, <3>2, <3>3, <3>4
      DEF Lone, Touched, Move, Recent, HoldsPermit, Registering, diskVars
    <3>6. alone' = {<<q, F>>}
      BY <3>1, <3>4
    <3>7. QED
      BY <3>5, <3>6 DEF LoneInv
  <2>3. QED
    BY <2>1, <2>2
<1>6. ASSUME NEW q \in Query, Register(q) PROVE LoneInv'
  <2>1. phase[q] = "fetched"
    BY <1>6 DEF Register
  <2>2. CASE End(q)
    BY <1>3, <2>1, <2>2
  <2>3. CASE ~End(q)
    <3>1. PICK p \in {"scanning", "registering"} : phase' = [phase EXCEPT ![q] = p]
      BY <1>6, <2>3 DEF Register, Move
    <3>2. /\ registered' = [registered EXCEPT ![q] = @ \cup inWork[q]]
          /\ todo' = [todo EXCEPT ![q] = @ \ inWork[q]]
          /\ UNCHANGED <<alone, cacheVars, diskVars>>
      BY <1>6, <2>3 DEF Register
    <3>3. ASSUME NEW a \in alone PROVE Lone(a)'
      <4>1. a[1] = q /\ Lone(a)
        BY <1>1, <2>1 DEF LoneInv
      <4>2. /\ Touched(q)' = Touched(q)
            /\ registered'[q] \cup todo'[q] \subseteq registered[q] \cup todo[q]
        BY <2>1, <3>1, <3>2 DEF Touched, WorkInv
      <4>3. QED
        BY <2>1, <3>1, <3>2, <4>1, <4>2
        DEF Lone, HoldsPermit, Registering, cacheVars, diskVars
    <3>4. QED
      BY <1>2, <3>2, <3>3
  <2>4. QED
    BY <2>2, <2>3
<1>7. ASSUME NEW q \in Query, NEW u \in Uri, Scan(q, u) PROVE LoneInv'
  <2>1. phase[q] = "scanning"
    BY <1>7 DEF Scan
  <2>2. CASE End(q)
    BY <1>3, <2>1, <2>2
  <2>3. CASE ~End(q)
    <3>1. /\ registered' = [registered EXCEPT ![q] = @ \ {u}]
          /\ UNCHANGED <<phase, inWork, todo, alone, cacheVars, diskVars>>
      BY <1>7, <2>3 DEF Scan
    <3>2. ASSUME NEW a \in alone PROVE Lone(a)'
      <4>1. a[1] = q /\ Lone(a)
        BY <1>1, <2>1 DEF LoneInv
      <4>2. Touched(q)' \subseteq Touched(q)
        BY <3>1 DEF Touched
      <4>3. QED
        BY <2>1, <3>1, <4>1, <4>2 DEF Lone, cacheVars, diskVars
    <3>3. QED
      BY <1>2, <3>1, <3>2
  <2>4. QED
    BY <2>2, <2>3
<1>8. ASSUME NEW q \in Query, Abandon(q) PROVE LoneInv'
  <2>1. CASE phase[q] = "waiting"
    <3>1. ASSUME NEW a \in alone, a[1] # q PROVE Lone(a)'
      <4>1. a \in Query \X Plans /\ Lone(a)
        BY DEF LoneInv
      <4>2. QED
        BY <1>8, <2>1, <3>1, <4>1, LoneLeftAlone DEF Abandon, End, Lone
    <3>2. QED
      BY <1>2, <1>8, <3>1 DEF Abandon, End
  <2>2. CASE phase[q] # "waiting"
    BY <1>3, <1>8, <2>2 DEF Abandon, Registering, HoldsLock
  <2>3. QED
    BY <2>1, <2>2
<1>9. ASSUME NEW q \in Query, DownloadFails(q) \/ WriteFails(q) PROVE LoneInv'
  BY <1>3, <1>9 DEF DownloadFails, WriteFails
<1>10. ASSUME NEW q \in Query,
              \/ \E u \in todo[q] : Hit(q, u) \/ Miss(q, u)
              \/ \E S \in SUBSET Indexed : Downloaded(q, S)
              \/ WriteOpens(q) \/ Written(q)
       PROVE  LoneInv'
  <2>1. phase[q] \notin {"idle", "waiting"}
    BY <1>10 DEF Hit, Miss, Downloaded, WriteOpens, Written, WriteDone
  <2>2. alone' = alone
    BY <1>10 DEF Hit, Miss, Downloaded, WriteOpens, Written
  <2>3. ASSUME NEW a \in alone PROVE Lone(a)'
    <3>1. a[1] = q /\ a \in Query \X Plans /\ Lone(a)
      BY <1>1, <2>1 DEF LoneInv
    <3>2. QED
      BY <1>10, <3>1, LoneFetches
  <2>4. QED
    BY <1>2, <2>2, <2>3
<1>11. ASSUME NEW u \in Uri, StrayOpens(u) \/ StrayEnds(u) PROVE LoneInv'
  BY <1>2, <1>11 DEF StrayOpens, StrayEnds, LoneInv, Lone, queryVars
<1>12. CASE Restart
  BY <1>2, <1>12 DEF Restart
<1>13. CASE UNCHANGED vars
  BY <1>13 DEF vars, cacheVars, diskVars, queryVars, LoneInv, Lone, Touched
<1>14. \A q \in Query : registered[q] \subseteq Uri /\ todo[q] \subseteq Uri
  OBVIOUS
<1>15. QED
  BY <1>4, <1>5, <1>6, <1>7, <1>8, <1>9, <1>10, <1>11, <1>12, <1>13, <1>14
  DEF Next, Progress, Locking, QueryStep

LEMMA FullInvariance == Spec => []FullInv
<1>1. Init => AccountInv /\ SizeBound /\ RoomMade /\ WorkInv /\ LoneInv
  <2> SUFFICES ASSUME Init
               PROVE  AccountInv /\ SizeBound /\ RoomMade /\ WorkInv /\ LoneInv
    OBVIOUS
  <2>1. Indexed = {} /\ Bytes({}) = 0
    BY BytesIsSum, SumEmpty DEF Init, Indexed
  <2>2. QED
    BY <2>1
    DEF Init, AccountInv, BytesAccounted, SizeBound, RoomMade, WorkInv, LoneInv
<1>2. FullInv /\ [Next]_vars => FullInv'
  BY CacheStep, PermitStep, AccountStep, RoomStep, WorkStep, LoneStep
  DEF FullInv, CacheInv
<1>3. QED
  BY <1>1, <1>2, CacheInit, PermitInit, PTL DEF Spec, FullInv

-----------------------------------------------------------------------------
\* Every variable of the cache keeps its type: the account is never negative
\* and no permit is given back twice.
THEOREM CacheTypeCorrect == Spec => []TypeOK
<1>1. FullInv => TypeOK
  BY DEF FullInv, CacheInv, CacheTypes, AccountInv, PermitInv, LoneInv, TypeOK
<1>2. QED
  BY <1>1, FullInvariance, PTL

\* current_bytes is the size of the indexed files and of what the count cap
\* has dropped, for any sizes and limits, wherever a query fails.
THEOREM CacheBytesAccounted == Spec => []BytesAccounted
<1>1. FullInv => BytesAccounted
  BY DEF FullInv, AccountInv
<1>2. QED
  BY <1>1, FullInvariance, PTL

\* The account is over the limit only for a file that is alone in the cache.
THEOREM CacheSizeBounded == Spec => []SizeBound
<1>1. FullInv => SizeBound
  BY DEF FullInv
<1>2. QED
  BY <1>1, FullInvariance, PTL

\* A query that has the cache to itself and whose files fit, evicts none that
\* it has registered, however many files it reads and whatever their sizes.
THEOREM LoneQueryEvictsNone == Spec => []LoneQueryKeepsFiles
<1>1. FullInv => LoneQueryKeepsFiles
  BY DEF FullInv, LoneInv, Lone, Touched, LoneQueryKeepsFiles
<1>2. QED
  BY <1>1, FullInvariance, PTL

\* The index names only files that are there and whole, but for one that the
\* thread of an abandoned write is at, for any number of queries, files,
\* failures and restarts.
THEOREM IndexIsOnDisk == Spec => []IndexedOnDisk
<1>1. FullInv => IndexedOnDisk
  BY DEF FullInv, CacheInv, OnDisk, Elems, IndexedOnDisk, Indexed
<1>2. QED
  BY <1>1, FullInvariance, PTL

\* No query loses a cold permit or gives one back twice, wherever it fails,
\* is abandoned or ends: what is not free is with a query past the semaphore.
THEOREM ColdPermitsConserved ==
    Spec => [](coldFree + Cardinality(Reading) = ColdPermits)
<1>1. FullInv => coldFree + Cardinality(Reading) = ColdPermits
  BY DEF FullInv, PermitInv
<1>2. QED
  BY <1>1, FullInvariance, PTL

=============================================================================
