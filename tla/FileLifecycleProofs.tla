------------------------ MODULE FileLifecycleProofs ------------------------
(***************************************************************************)
(* What flush, compaction, tiering and the sweeper promise together about  *)
(* files, proved for any set of events and any number of files: no event   *)
(* is lost before retention, active rows can be read, the races between    *)
(* the tasks forget no local file, and the lifecycle implements            *)
(* EventStore.                                                             *)
(*                                                                         *)
(* The four tasks work on lists that are stale. What saves them is that a  *)
(* file that is doomed stays doomed: once its row is superseded or gone,   *)
(* or all it holds is past hot retention, nothing makes it matter again.   *)
(* FilesInv says that everything on the sweeper's list and everything      *)
(* compaction deletes is doomed, that a file in tiering is in the object   *)
(* store or doomed, and that files without a row yet are on no list.       *)
(***************************************************************************)
EXTENDS FileLifecycle, FiniteSetTheorems, TLAPS

\* Files that are written and whose row is still to come.
Pending == cNew \cup ({flushing} \ {None})

\* f has no part in what is promised any more.
Doomed(f) == \/ row[f] # "active" /\ f \notin Pending
             \/ OlderThan(f, HotExpired)

\* A file that is written and has no row yet is on the local disk, and no
\* task has it on a list.
PendingInv ==
    /\ flushing \notin cNew
    /\ \A f \in Pending : row[f] = "none" /\ f \in local
    /\ Pending \cap (cOld \cup tQueue \cup {tFile}) = {}
    /\ \A x \in sQueue \cup sItem : x.f \in 1 .. made /\ x.f \notin Pending

\* A row exists only for a file that is made; without one the tier is hot.
RowInv ==
    /\ \A f \in File : row[f] # "none" => f \in 1 .. made
    /\ \A f \in File : row[f] = "none" => tier[f] = "hot"

\* No file is empty, and no compaction begins without files.
FilledInv ==
    /\ \A f \in 1 .. made : evs[f] # {}
    /\ cPhase = "listed" => cOld # {}

\* What compaction has written and has still to write is what it has read.
MergeInv ==
    /\ cPhase = "writing" =>
         \A e \in Event :
           (\E f \in cOld : e \in evs[f]) =>
              (\E f \in cNew : e \in evs[f]) \/ (\E E \in cPlan : e \in E)
    /\ cPhase # "writing" => cNew = {} /\ cPlan = {}

\* What compaction deletes is doomed.
DeletionInv == cPhase = "deleting" => \A f \in cOld : Doomed(f)

\* The file in tiering is in the object store; when tiering deletes the local
\* copy, the row says so.
TierInv ==
    /\ tPhase # "idle" =>
         tFile \in File /\ (tFile \in objects \/ Doomed(tFile))
    /\ tPhase = "recorded" =>
         row[tFile] = "none" \/ tier[tFile] = "cold"

\* All the sweeper works on is doomed; a file listed as cold is cold as long
\* as it has a row, and a file listed as hot is deleted before its row.
SweepInv ==
    /\ \A x \in sQueue \cup sItem : Doomed(x.f)
    /\ \A x \in sQueue \cup sItem :
         x.tier = "cold" => row[x.f] = "none" \/ tier[x.f] = "cold"
    /\ \A x \in sItem : x.tier = "hot" => x.f \notin local \ leftover

ListsInv == TypeOK /\ PendingInv /\ RowInv
TasksInv == FilledInv /\ MergeInv /\ DeletionInv /\ TierInv /\ SweepInv
FilesInv == ListsInv /\ TasksInv /\ KeptUntilRetention /\ ActiveReadable
            /\ NoLocalOrphan

-----------------------------------------------------------------------------
\* What listing the files in F gives.
LEMMA EntriesOf ==
    ASSUME TypeOK, NEW F \in SUBSET File
    PROVE  \A x \in Entries(F) : x \in Listed /\ x.f \in F /\ x.tier = tier[x.f]
  BY DEF TypeOK, Entries, Listed

\* Making a file adds one file with the events it is given.
LEMMA MadeFile ==
    ASSUME TypeOK, NEW E, MakeFile(E)
    PROVE  /\ made' = made + 1 /\ made' \in File
           /\ evs'[made'] = E
           /\ \A f \in 1 .. made : evs'[f] = evs[f]
           /\ \A f \in 1 .. made' : f \in 1 .. made \/ f = made'
  BY FileAssumption DEF TypeOK, MakeFile, File

\* What the sweeper's deletion of x does, whether or not it fails.
LEMMA DeleteEffect ==
    ASSUME NEW x \in sQueue, NEW ok \in BOOLEAN, SweepDelete(x, ok)
    PROVE  /\ local' \subseteq local /\ local \ LocalFileOf(x) \subseteq local'
           /\ objects' \subseteq objects
           /\ x.tier = "cold" \/ objects' = objects
           /\ objects \ {x.f} \subseteq objects'
           /\ leftover \subseteq leftover' /\ leftover' \subseteq leftover \cup local
           /\ sItem' \subseteq {x} /\ sQueue' = sQueue \ {x} /\ sItem = {}
           /\ sItem' = {x} => LocalFileOf(x) \cap local' \subseteq leftover'
           /\ UNCHANGED <<row, tier, pastGrace, made, evs, flushing, cPhase, cOld,
                          cNew, cPlan, tPhase, tQueue, tFile, sPhase, age, stored>>
<1>1. CASE SweepDeleteExpired(x, ok)
  BY <1>1 DEF SweepDelete, SweepDeleteExpired, manifestVars, compactVars, tierVars
<1>2. CASE SweepDeleteSuperseded(x, ok)
  BY <1>2 DEF SweepDelete, SweepDeleteSuperseded, manifestVars, compactVars, tierVars
<1>3. QED
  BY <1>1, <1>2 DEF SweepDelete

\* Dropping the row of x removes that row or, when it fails, nothing.
LEMMA DropEffect ==
    ASSUME TypeOK, NEW x \in sItem, NEW ok \in BOOLEAN, SweepDropRow(x, ok)
    PROVE  /\ row' \in [File -> {"none", "active", "superseded"}]
           /\ tier' \in [File -> {"hot", "cold"}]
           /\ pastGrace' \subseteq pastGrace
           /\ \A f \in File :
                \/ row'[f] = row[f] /\ tier'[f] = tier[f]
                \/ f = x.f /\ row'[f] = "none" /\ tier'[f] = "hot"
           /\ sItem' = {}
           /\ UNCHANGED <<made, evs, local, objects, flushing, cPhase, cOld, cNew,
                          cPlan, tPhase, tQueue, tFile, sPhase, sQueue, age, stored,
                          leftover>>
<1>1. CASE ok = TRUE
  BY <1>1 DEF SweepDropRow, TypeOK, Listed, diskVars, compactVars, tierVars
<1>2. CASE ok = FALSE
  BY <1>2 DEF SweepDropRow, TypeOK, manifestVars, diskVars, compactVars, tierVars
<1>3. QED
  BY <1>1, <1>2

\* The number of faults stays a number.
LEMMA FaultType ==
    ASSUME TypeOK, NEW ok \in BOOLEAN, Fault(ok)
    PROVE  faults' \in Nat
  BY DEF Fault, TypeOK

\* Splitting E into chunks loses none of its elements and gives no empty chunk.
LEMMA SplitsCover ==
    ASSUME NEW E, NEW S \in Splits(E)
    PROVE  /\ \A A \in S : A # {} /\ A \subseteq E
           /\ \A e \in E : \E A \in S : e \in A
  BY DEF Splits

\* Every action keeps the types; compaction writes no empty chunk.
LEMMA TypeStep == FilesInv /\ [Next]_vars => TypeOK'
<1> SUFFICES ASSUME FilesInv, [Next]_vars PROVE TypeOK'
  OBVIOUS
<1> USE FileAssumption DEF FilesInv, ListsInv, TypeOK, File, Age, Listed,
       None, ColdExpired
<1>1. CASE UNCHANGED vars
  BY <1>1 DEF vars, manifestVars, diskVars, compactVars, tierVars, sweepVars,
     history
<1>2. ASSUME NEW E \in Batches, FlushWrite(E) PROVE TypeOK'
  BY <1>2 DEF FlushWrite, MakeFile, Unlocked, manifestVars, compactVars,
     tierVars, sweepVars, history
<1>3. ASSUME NEW ok \in BOOLEAN, FlushCommit(ok) PROVE TypeOK'
  <2>1. flushing \in File /\ evs[flushing] \in SUBSET Event
    BY <1>3 DEF FlushCommit
  <2>2. row' \in [File -> {"none", "active", "superseded"}]
    BY <1>3, <2>1 DEF FlushCommit
  <2>3. stored' \subseteq Event /\ leftover' \subseteq File
    BY <1>3, <2>1 DEF FlushCommit
  <2>4. flushing' \in 0 .. made'
    BY <1>3 DEF FlushCommit, diskVars
  <2>5. QED
    BY <1>3, <2>2, <2>3, <2>4 DEF FlushCommit, diskVars, compactVars, tierVars,
       sweepVars
<1>4. CASE CompactList
  BY <1>4 DEF CompactList, Unlocked, ActiveHot, manifestVars, diskVars,
     tierVars, sweepVars, history, RowInv
<1>5. CASE CompactRead
  <2>1. CASE cOld \subseteq local
    <3>1. Merged \in SUBSET Event
      BY DEF Merged
    <3>2. Merged # {}
      <4>1. PICK f \in cOld : evs[f] # {}
        BY <1>5 DEF CompactRead, TasksInv, FilledInv
      <4>2. QED
        BY <4>1 DEF Merged
    <3>3. cPlan' \in Splits(Merged)
      BY <1>5, <2>1 DEF CompactRead
    <3>4. \A A \in cPlan' : A # {} /\ A \subseteq Merged
      BY <3>3, SplitsCover
    <3>5. cPlan' \subseteq (SUBSET Event) \ {{}}
      BY <3>1, <3>4
    <3>6. QED
      BY <1>5, <2>1, <3>5 DEF CompactRead, manifestVars, diskVars, tierVars,
         sweepVars, history
  <2>2. CASE ~(cOld \subseteq local)
    BY <1>5, <2>2 DEF CompactRead, manifestVars, diskVars, tierVars, sweepVars, history
  <2>3. QED
    BY <2>1, <2>2
<1>6. ASSUME NEW E \in cPlan, CompactChunk(E) PROVE TypeOK'
  BY <1>6 DEF CompactChunk, MakeFile, manifestVars, tierVars, sweepVars,
     history
<1>7. CASE CompactFail
  BY <1>7 DEF CompactFail, manifestVars, diskVars, tierVars, sweepVars
<1>8. CASE CompactSwap
  BY <1>8 DEF CompactSwap, Unlocked, Superseded, diskVars, tierVars,
     sweepVars, history
<1>9. ASSUME NEW f \in cOld, NEW ok \in BOOLEAN, CompactDelete(f, ok) PROVE TypeOK'
  <2>1. faults' \in Nat
    BY <1>9, FaultType DEF CompactDelete
  <2>2. QED
    BY <1>9, <2>1 DEF CompactDelete, manifestVars, tierVars, sweepVars
<1>10. CASE TierList
  BY <1>10 DEF TierList, Unlocked, ActiveHot, manifestVars, diskVars,
     compactVars, sweepVars, history, RowInv
<1>11. ASSUME NEW f \in tQueue, NEW ok \in BOOLEAN, TierPut(f, ok) PROVE TypeOK'
  <2>1. f \in 1 .. made /\ tQueue' \subseteq 1 .. made
    BY <1>11 DEF TierPut
  <2>2. objects' \in {objects, objects \cup {f}} /\ tFile' \in {tFile, f}
    BY <1>11 DEF TierPut
  <2>3. tPhase' \in {"idle", "uploaded", "recorded"}
    BY <1>11 DEF TierPut
  <2>4. QED
    BY <1>11, <2>1, <2>2, <2>3 DEF TierPut, manifestVars, compactVars, sweepVars, history
<1>12. ASSUME NEW ok \in BOOLEAN, TierSetCold(ok) PROVE TypeOK'
  <2>1. faults' \in Nat
    BY <1>12, FaultType DEF TierSetCold
  <2>2. CASE ok = TRUE
    BY <1>12, <2>1, <2>2 DEF TierSetCold, diskVars, compactVars, sweepVars
  <2>3. CASE ok = FALSE
    BY <1>12, <2>1, <2>3 DEF TierSetCold, diskVars, compactVars, sweepVars
  <2>4. QED
    BY <2>2, <2>3
<1>13. ASSUME NEW ok \in BOOLEAN, TierRemoveLocal(ok) PROVE TypeOK'
  <2>1. faults' \in Nat
    BY <1>13, FaultType DEF TierRemoveLocal
  <2>2. local' \subseteq local /\ leftover' \subseteq leftover \cup local
    BY <1>13 DEF TierRemoveLocal
  <2>3. QED
    BY <1>13, <2>1, <2>2 DEF TierRemoveLocal, manifestVars, compactVars, sweepVars
<1>14. CASE SweepExpired
  <2>1. Expired \in SUBSET File
    BY DEF Expired, ActiveHot
  <2>2. sQueue' \subseteq Listed
    BY <1>14, <2>1, EntriesOf DEF SweepExpired
  <2>3. QED
    BY <1>14, <2>2 DEF SweepExpired, manifestVars, diskVars, compactVars, tierVars, history
<1>15. ASSUME NEW x \in sQueue, NEW ok \in BOOLEAN, SweepDelete(x, ok) PROVE TypeOK'
  <2>1. faults' \in Nat
    <3>1. \E b \in BOOLEAN : Fault(b)
      BY <1>15 DEF SweepDelete, SweepDeleteExpired, SweepDeleteSuperseded
    <3>2. QED
      BY <3>1, FaultType
  <2>2. /\ local' \subseteq local /\ objects' \subseteq objects
        /\ leftover' \subseteq leftover \cup local
        /\ sItem' \subseteq {x} /\ sQueue' = sQueue \ {x}
        /\ UNCHANGED <<row, tier, pastGrace, made, evs, flushing, cPhase, cOld,
                       cNew, cPlan, tPhase, tQueue, tFile, sPhase, age, stored>>
    BY <1>15, DeleteEffect
  <2>3. QED
    BY <2>1, <2>2
<1>16. ASSUME NEW x \in sItem, NEW ok \in BOOLEAN, SweepDropRow(x, ok) PROVE TypeOK'
  <2>1. faults' \in Nat
    BY <1>16, FaultType DEF SweepDropRow
  <2>2. /\ row' \in [File -> {"none", "active", "superseded"}]
        /\ tier' \in [File -> {"hot", "cold"}]
        /\ pastGrace' \subseteq pastGrace /\ sItem' = {}
        /\ UNCHANGED <<made, evs, local, objects, flushing, cPhase, cOld, cNew, cPlan,
                       tPhase, tQueue, tFile, sPhase, sQueue, age, stored, leftover>>
    BY <1>16, DropEffect
  <2>3. QED
    BY <2>1, <2>2
<1>17. CASE SweepSuperseded
  BY <1>17 DEF SweepSuperseded, Unlocked, Entries, PastGrace, manifestVars,
     diskVars, compactVars, tierVars, history
<1>18. CASE SweepEnd
  BY <1>18 DEF SweepEnd, manifestVars, diskVars, compactVars, tierVars,
     history
<1>19. ASSUME NEW e \in Event, GrowOlder(e) PROVE TypeOK'
  BY <1>19 DEF GrowOlder, manifestVars, diskVars, compactVars, tierVars,
     sweepVars
<1>20. ASSUME NEW f \in File, GraceEnds(f) PROVE TypeOK'
  BY <1>20 DEF GraceEnds, diskVars, compactVars, tierVars, sweepVars, history
<1>21. CASE Crash
  <2>1. faults' \in Nat
    BY <1>21, FaultType DEF Crash
  <2>2. QED
    BY <1>21, <2>1 DEF Crash, manifestVars, diskVars, TasksInv, TierInv
\* The definitions that the cases have used are hidden where the cases are put
\* together, here and below.
<1> HIDE FileAssumption DEF FilesInv, ListsInv, TypeOK, File, Age, Listed,
       None, ColdExpired
<1>22. QED
  BY <1>1, <1>2, <1>3, <1>4, <1>5, <1>6, <1>7, <1>8, <1>9, <1>10, <1>11,
     <1>12, <1>13, <1>14, <1>15, <1>16, <1>17, <1>18, <1>19, <1>20, <1>21 DEF
     Next, Flush, CompactStep, TierStep, SweepStep, Time

\* New files are on no list, and lists are made of files that have a row.
LEMMA PendingStep == FilesInv /\ [Next]_vars => PendingInv'
<1> SUFFICES ASSUME FilesInv, [Next]_vars PROVE PendingInv'
  OBVIOUS
<1> USE FileAssumption DEF FilesInv, ListsInv, TasksInv, TypeOK, File, None,
       Listed, Pending, PendingInv, RowInv
<1>1. CASE UNCHANGED vars
  BY <1>1 DEF vars, manifestVars, diskVars, compactVars, tierVars, sweepVars,
     history
<1>2. CASE \/ SweepEnd
           \/ \E e \in Event : GrowOlder(e)
           \/ \E f \in File : GraceEnds(f)
  BY <1>2 DEF SweepEnd, GrowOlder, GraceEnds, manifestVars,
     diskVars, compactVars, tierVars, sweepVars, history
<1>3. ASSUME NEW E \in Batches, FlushWrite(E) PROVE PendingInv'
  BY <1>3 DEF FlushWrite, MakeFile, Unlocked, manifestVars, compactVars,
     tierVars, sweepVars, history
<1>4. ASSUME NEW ok \in BOOLEAN, FlushCommit(ok) PROVE PendingInv'
  BY <1>4 DEF FlushCommit, diskVars, compactVars, tierVars, sweepVars
<1>5. CASE CompactList
  BY <1>5 DEF CompactList, Unlocked, ActiveHot, manifestVars, diskVars,
     tierVars, sweepVars, history
<1>6. CASE CompactRead
  BY <1>6 DEF CompactRead, manifestVars, diskVars, tierVars, sweepVars,
     history, MergeInv
<1>7. ASSUME NEW E \in cPlan, CompactChunk(E) PROVE PendingInv'
  BY <1>7 DEF CompactChunk, MakeFile, manifestVars, tierVars, sweepVars,
     history
<1>8. CASE CompactFail
  BY <1>8 DEF CompactFail, manifestVars, diskVars, tierVars, sweepVars
<1>9. CASE CompactSwap
  BY <1>9 DEF CompactSwap, Unlocked, Superseded, diskVars, tierVars,
     sweepVars, history
<1>10. ASSUME NEW f \in cOld, NEW ok \in BOOLEAN, CompactDelete(f, ok) PROVE PendingInv'
  BY <1>10 DEF CompactDelete, manifestVars, tierVars, sweepVars, history
<1>11. CASE TierList
  BY <1>11 DEF TierList, Unlocked, ActiveHot, manifestVars, diskVars,
     compactVars, sweepVars, history
<1>12. ASSUME NEW f \in tQueue, NEW ok \in BOOLEAN, TierPut(f, ok) PROVE PendingInv'
  <2>1. f \in 1 .. made /\ f \notin Pending
    OBVIOUS
  <2>2. tQueue' \subseteq tQueue /\ tFile' \in tQueue \cup {tFile}
    BY <1>12 DEF TierPut
  <2>3. UNCHANGED <<row, flushing, cOld, cNew, local, made, sQueue, sItem>>
    BY <1>12 DEF TierPut, manifestVars, compactVars, sweepVars
  <2>4. QED
    BY <2>1, <2>2, <2>3
<1>13. CASE \E ok \in BOOLEAN : TierRemoveLocal(ok)
  BY <1>13 DEF TierRemoveLocal, ColdRecorded, manifestVars, compactVars,
     sweepVars, history
<1>14. CASE SweepExpired
  <2>1. \A x \in sQueue' : x.f \in File /\ row[x.f] = "active"
    <3>1. Expired \in SUBSET File /\ \A f \in Expired : row[f] = "active"
      BY DEF Expired, ActiveHot
    <3>2. QED
      BY <1>14, <3>1, EntriesOf DEF SweepExpired
  <2>2. QED
    BY <1>14, <2>1 DEF SweepExpired, manifestVars, diskVars, compactVars, tierVars, history
<1>15. ASSUME NEW x \in sQueue, NEW ok \in BOOLEAN, SweepDelete(x, ok) PROVE PendingInv'
  <2>1. /\ x.f \notin Pending /\ LocalFileOf(x) \subseteq {x.f}
        /\ local' \subseteq local /\ local \ LocalFileOf(x) \subseteq local'
        /\ sItem' \subseteq sQueue /\ sQueue' \subseteq sQueue
        /\ UNCHANGED <<row, made, flushing, cOld, cNew, tQueue, tFile>>
    BY <1>15, DeleteEffect DEF LocalFileOf
  <2>2. QED
    BY <2>1
<1>16. ASSUME NEW x \in sItem, NEW ok \in BOOLEAN, SweepDropRow(x, ok) PROVE PendingInv'
  <2>1. /\ \A f \in Pending : f \in File /\ row[f] = "none"
        /\ \A f \in File : row[f] = "none" => row'[f] = "none"
        /\ sItem' = {}
        /\ UNCHANGED <<local, made, flushing, cOld, cNew, tQueue, tFile, sQueue>>
    BY <1>16, DropEffect
  <2>2. QED
    BY <2>1
<1>17. CASE SweepSuperseded
  BY <1>17 DEF SweepSuperseded, Unlocked, Entries, PastGrace, manifestVars,
     diskVars, compactVars, tierVars, history
<1>18. ASSUME NEW ok \in BOOLEAN, TierSetCold(ok) PROVE PendingInv'
  <2>1. tFile' \in {tFile, None}
    BY <1>18 DEF TierSetCold
  <2>2. UNCHANGED <<row, made, local, flushing, cOld, cNew, tQueue, sQueue, sItem>>
    BY <1>18 DEF TierSetCold, diskVars, compactVars, sweepVars
  <2>3. QED
    BY <2>1, <2>2
<1>19. CASE Crash
  BY <1>19 DEF Crash, manifestVars, diskVars
<1> HIDE FileAssumption DEF FilesInv, ListsInv, TasksInv, TypeOK, File, None,
       Listed, Pending, PendingInv, RowInv
<1>20. QED
  BY <1>1, <1>2, <1>3, <1>4, <1>5, <1>6, <1>7, <1>8, <1>9, <1>10, <1>11,
     <1>12, <1>13, <1>14, <1>15, <1>16, <1>17, <1>18, <1>19 DEF
     Next, Flush, CompactStep, TierStep, SweepStep, Time

\* Rows are inserted for files that are made, and removed with their tier.
LEMMA RowStep == FilesInv /\ [Next]_vars => RowInv'
<1> SUFFICES ASSUME FilesInv, [Next]_vars PROVE RowInv'
  OBVIOUS
<1> USE FileAssumption DEF FilesInv, ListsInv, TasksInv, TypeOK, File, None,
       Listed, Pending, PendingInv, RowInv
<1>1. CASE UNCHANGED vars
  BY <1>1 DEF vars, manifestVars, diskVars, compactVars, tierVars, sweepVars,
     history
<1>2. CASE \/ CompactList
           \/ CompactRead
           \/ CompactFail
           \/ \E f \in cOld, ok \in BOOLEAN : CompactDelete(f, ok)
           \/ TierList
           \/ \E f \in tQueue, ok \in BOOLEAN : TierPut(f, ok)
           \/ \E ok \in BOOLEAN : TierRemoveLocal(ok)
           \/ SweepExpired
           \/ \E x \in sQueue, ok \in BOOLEAN : SweepDelete(x, ok)
           \/ SweepSuperseded
           \/ SweepEnd
           \/ \E e \in Event : GrowOlder(e)
           \/ \E f \in File : GraceEnds(f)
           \/ Crash
  BY <1>2 DEF CompactList, CompactRead, CompactFail, CompactDelete, TierList,
     TierPut, TierRemoveLocal, SweepExpired, SweepDelete, SweepSuperseded,
     SweepEnd, GrowOlder, GraceEnds, Crash, manifestVars, diskVars,
     compactVars, tierVars, sweepVars, history
<1>3. ASSUME NEW E \in Batches, FlushWrite(E) PROVE RowInv'
  BY <1>3 DEF FlushWrite, MakeFile, Unlocked, manifestVars, compactVars,
     tierVars, sweepVars, history
<1>4. ASSUME NEW ok \in BOOLEAN, FlushCommit(ok) PROVE RowInv'
  <2>1. CASE ok = TRUE
    BY <1>4, <2>1 DEF FlushCommit, diskVars, compactVars, tierVars, sweepVars
  <2>2. CASE ok = FALSE
    BY <1>4, <2>2 DEF FlushCommit, diskVars, compactVars, tierVars, sweepVars
  <2>3. QED
    BY <2>1, <2>2
<1>5. ASSUME NEW E \in cPlan, CompactChunk(E) PROVE RowInv'
  BY <1>5 DEF CompactChunk, MakeFile, manifestVars, tierVars, sweepVars,
     history
<1>6. CASE CompactSwap
  BY <1>6 DEF CompactSwap, Unlocked, Superseded, diskVars, tierVars,
     sweepVars, history
<1>7. CASE \E ok \in BOOLEAN : TierSetCold(ok)
  BY <1>7 DEF TierSetCold, Unlocked, diskVars, compactVars, sweepVars, history
<1>8. ASSUME NEW x \in sItem, NEW ok \in BOOLEAN, SweepDropRow(x, ok) PROVE RowInv'
  BY <1>8, DropEffect
<1> HIDE FileAssumption DEF FilesInv, ListsInv, TasksInv, TypeOK, File, None,
       Listed, Pending, PendingInv, RowInv
<1>9. QED
  BY <1>1, <1>2, <1>3, <1>4, <1>5, <1>6, <1>7, <1>8 DEF
     Next, Flush, CompactStep, TierStep, SweepStep, Time

\* Files get the events of a batch or of a chunk, never none.
LEMMA FilledStep == FilesInv /\ [Next]_vars => FilledInv'
<1> SUFFICES ASSUME FilesInv, [Next]_vars PROVE FilledInv'
  OBVIOUS
<1> USE FileAssumption DEF FilesInv, ListsInv, TasksInv, TypeOK, File, None,
       Listed, Pending, PendingInv, RowInv, FilledInv
<1>1. CASE UNCHANGED vars
  BY <1>1 DEF vars, manifestVars, diskVars, compactVars, tierVars, sweepVars,
     history
<1>2. CASE \/ \E ok \in BOOLEAN : FlushCommit(ok)
           \/ TierList
           \/ \E f \in tQueue, ok \in BOOLEAN : TierPut(f, ok)
           \/ \E ok \in BOOLEAN : TierSetCold(ok)
           \/ \E ok \in BOOLEAN : TierRemoveLocal(ok)
           \/ SweepExpired
           \/ \E x \in sQueue, ok \in BOOLEAN : SweepDelete(x, ok)
           \/ \E x \in sItem, ok \in BOOLEAN : SweepDropRow(x, ok)
           \/ SweepSuperseded
           \/ SweepEnd
           \/ \E e \in Event : GrowOlder(e)
           \/ \E f \in File : GraceEnds(f)
  BY <1>2 DEF FlushCommit, TierList, TierPut, TierSetCold, TierRemoveLocal,
     SweepExpired, SweepDelete, SweepDropRow, SweepSuperseded, SweepEnd,
     GrowOlder, GraceEnds, manifestVars, diskVars, compactVars, tierVars,
     sweepVars, history
<1>3. ASSUME NEW E \in Batches, FlushWrite(E) PROVE FilledInv'
  <2>1. MakeFile(E) /\ UNCHANGED <<cPhase, cOld>>
    BY <1>3 DEF FlushWrite, compactVars
  <2>2. E # {}
    OBVIOUS
  <2>3. /\ evs'[made'] = E
        /\ \A f \in 1 .. made : evs'[f] = evs[f]
        /\ \A f \in 1 .. made' : f \in 1 .. made \/ f = made'
    BY <2>1, MadeFile
  <2>4. QED
    BY <2>1, <2>2, <2>3
<1>4. CASE CompactList
  <2>1. ASSUME ActiveHot = {} PROVE FALSE
    <3>1. Cardinality(ActiveHot) = 0
      BY <2>1, FS_EmptySet
    <3>2. QED
      BY <1>4, <3>1 DEF CompactList
  <2>2. QED
    BY <1>4, <2>1 DEF CompactList, diskVars
<1>5. CASE CompactRead
  BY <1>5 DEF CompactRead, manifestVars, diskVars, tierVars, sweepVars,
     history
<1>6. ASSUME NEW E \in cPlan, CompactChunk(E) PROVE FilledInv'
  <2>1. MakeFile(E) /\ UNCHANGED <<cPhase, cOld>>
    BY <1>6 DEF CompactChunk
  <2>2. E # {}
    OBVIOUS
  <2>3. /\ evs'[made'] = E
        /\ \A f \in 1 .. made : evs'[f] = evs[f]
        /\ \A f \in 1 .. made' : f \in 1 .. made \/ f = made'
    BY <2>1, MadeFile
  <2>4. QED
    BY <2>1, <2>2, <2>3
<1>7. CASE CompactFail
  BY <1>7 DEF CompactFail, manifestVars, diskVars, tierVars, sweepVars
<1>8. CASE CompactSwap
  BY <1>8 DEF CompactSwap, Unlocked, Superseded, diskVars, tierVars,
     sweepVars, history
<1>9. ASSUME NEW f \in cOld, NEW ok \in BOOLEAN, CompactDelete(f, ok) PROVE FilledInv'
  BY <1>9 DEF CompactDelete, manifestVars, tierVars, sweepVars, history
<1>10. CASE Crash
  BY <1>10 DEF Crash, manifestVars, diskVars
<1> HIDE FileAssumption DEF FilesInv, ListsInv, TasksInv, TypeOK, File, None,
       Listed, Pending, PendingInv, RowInv, FilledInv
<1>11. QED
  BY <1>1, <1>2, <1>3, <1>4, <1>5, <1>6, <1>7, <1>8, <1>9, <1>10 DEF
     Next, Flush, CompactStep, TierStep, SweepStep, Time

\* A chunk moves its events from the plan to a file.
LEMMA MergeStep == FilesInv /\ [Next]_vars => MergeInv'
<1> SUFFICES ASSUME FilesInv, [Next]_vars PROVE MergeInv'
  OBVIOUS
<1> USE FileAssumption DEF FilesInv, ListsInv, TasksInv, TypeOK, File, None,
       Listed, Pending, PendingInv, RowInv, MergeInv
<1>1. CASE UNCHANGED vars
  BY <1>1 DEF vars, manifestVars, diskVars, compactVars, tierVars, sweepVars,
     history
<1>2. CASE \/ \E ok \in BOOLEAN : FlushCommit(ok)
           \/ TierList
           \/ \E f \in tQueue, ok \in BOOLEAN : TierPut(f, ok)
           \/ \E ok \in BOOLEAN : TierSetCold(ok)
           \/ \E ok \in BOOLEAN : TierRemoveLocal(ok)
           \/ SweepExpired
           \/ \E x \in sQueue, ok \in BOOLEAN : SweepDelete(x, ok)
           \/ \E x \in sItem, ok \in BOOLEAN : SweepDropRow(x, ok)
           \/ SweepSuperseded
           \/ SweepEnd
           \/ \E e \in Event : GrowOlder(e)
           \/ \E f \in File : GraceEnds(f)
  BY <1>2 DEF FlushCommit, TierList, TierPut, TierSetCold, TierRemoveLocal,
     SweepExpired, SweepDelete, SweepDropRow, SweepSuperseded, SweepEnd,
     GrowOlder, GraceEnds, manifestVars, diskVars, compactVars, tierVars,
     sweepVars, history
<1>3. ASSUME NEW E \in Batches, FlushWrite(E) PROVE MergeInv'
  BY <1>3 DEF FlushWrite, MakeFile, Unlocked, manifestVars, compactVars,
     tierVars, sweepVars, history
<1>4. CASE CompactList
  BY <1>4 DEF CompactList, Unlocked, ActiveHot, manifestVars, diskVars,
     tierVars, sweepVars, history
<1>5. CASE CompactRead
  <2>1. CASE cOld \subseteq local
    <3>1. Merged # {} /\ \A f \in cOld, e \in Event : e \in evs[f] => e \in Merged
      BY <1>5 DEF CompactRead, FilledInv, Merged
    <3>2. \A e \in Merged : \E E \in cPlan' : e \in E
      BY <1>5, <2>1, <3>1, SplitsCover DEF CompactRead
    <3>3. QED
      BY <1>5, <2>1, <3>1, <3>2 DEF CompactRead, diskVars
  <2>2. CASE ~(cOld \subseteq local)
    BY <1>5, <2>2 DEF CompactRead
  <2>3. QED
    BY <2>1, <2>2
<1>6. ASSUME NEW E \in cPlan, CompactChunk(E) PROVE MergeInv'
  BY <1>6 DEF CompactChunk, MakeFile, manifestVars, tierVars, sweepVars,
     history
<1>7. CASE CompactFail
  BY <1>7 DEF CompactFail, manifestVars, diskVars, tierVars, sweepVars
<1>8. CASE CompactSwap
  BY <1>8 DEF CompactSwap, Unlocked, Superseded, diskVars, tierVars,
     sweepVars, history
<1>9. ASSUME NEW f \in cOld, NEW ok \in BOOLEAN, CompactDelete(f, ok) PROVE MergeInv'
  BY <1>9 DEF CompactDelete, manifestVars, tierVars, sweepVars, history
<1>10. CASE Crash
  BY <1>10 DEF Crash, manifestVars, diskVars
<1> HIDE FileAssumption DEF FilesInv, ListsInv, TasksInv, TypeOK, File, None,
       Listed, Pending, PendingInv, RowInv, MergeInv
<1>11. QED
  BY <1>1, <1>2, <1>3, <1>4, <1>5, <1>6, <1>7, <1>8, <1>9, <1>10 DEF
     Next, Flush, CompactStep, TierStep, SweepStep, Time

\* A file that has been made, is not waiting for its row and is doomed stays
\* doomed: rows come back to life for nothing but pending files, and nothing
\* grows younger.
LEMMA DoomedStays ==
    ASSUME FilesInv, [Next]_vars, NEW d \in 1 .. made, d \notin Pending,
           Doomed(d)
    PROVE  Doomed(d)'
<1> USE FileAssumption DEF FilesInv, ListsInv, TasksInv, TypeOK, File, None,
       Listed, Pending, PendingInv, RowInv, Doomed, OlderThan, Age,
       HotExpired, Tierable, ColdExpired
<1>1. CASE UNCHANGED vars
  BY <1>1 DEF vars, manifestVars, diskVars, compactVars, tierVars, sweepVars,
     history
<1>2. CASE \/ CompactList
           \/ CompactRead
           \/ \E f \in cOld, ok \in BOOLEAN : CompactDelete(f, ok)
           \/ TierList
           \/ \E f \in tQueue, ok \in BOOLEAN : TierPut(f, ok)
           \/ \E ok \in BOOLEAN : TierSetCold(ok)
           \/ \E ok \in BOOLEAN : TierRemoveLocal(ok)
           \/ SweepExpired
           \/ \E x \in sQueue, ok \in BOOLEAN : SweepDelete(x, ok)
           \/ SweepSuperseded
           \/ SweepEnd
           \/ \E f \in File : GraceEnds(f)
  BY <1>2 DEF CompactList, CompactRead, CompactDelete, TierList, TierPut,
     TierSetCold, TierRemoveLocal, SweepExpired, SweepDelete, SweepSuperseded,
     SweepEnd, GraceEnds, manifestVars, diskVars, compactVars, tierVars,
     sweepVars, history
<1>3. ASSUME NEW E \in Batches, FlushWrite(E) PROVE Doomed(d)'
  BY <1>3 DEF FlushWrite, MakeFile, Unlocked, manifestVars, compactVars,
     tierVars, sweepVars, history
<1>4. ASSUME NEW ok \in BOOLEAN, FlushCommit(ok) PROVE Doomed(d)'
  <2>1. CASE ok = TRUE
    BY <1>4, <2>1 DEF FlushCommit, diskVars, compactVars, tierVars, sweepVars
  <2>2. CASE ok = FALSE
    BY <1>4, <2>2 DEF FlushCommit, diskVars, compactVars, tierVars, sweepVars
  <2>3. QED
    BY <2>1, <2>2
<1>5. ASSUME NEW E \in cPlan, CompactChunk(E) PROVE Doomed(d)'
  BY <1>5 DEF CompactChunk, MakeFile, manifestVars, tierVars, sweepVars,
     history
<1>6. CASE CompactFail
  BY <1>6 DEF CompactFail, manifestVars, diskVars, tierVars, sweepVars
<1>7. CASE CompactSwap
  BY <1>7 DEF CompactSwap, Unlocked, Superseded, diskVars, tierVars,
     sweepVars, history
<1>8. ASSUME NEW x \in sItem, NEW ok \in BOOLEAN, SweepDropRow(x, ok) PROVE Doomed(d)'
  BY <1>8, DropEffect
<1>9. ASSUME NEW e \in Event, GrowOlder(e) PROVE Doomed(d)'
  BY <1>9 DEF GrowOlder, manifestVars, diskVars, compactVars, tierVars,
     sweepVars
<1>10. CASE Crash
  BY <1>10 DEF Crash, manifestVars, diskVars
<1> HIDE FileAssumption DEF FilesInv, ListsInv, TasksInv, TypeOK, File, None,
       Listed, Pending, PendingInv, RowInv, Doomed, OlderThan, Age,
       HotExpired, Tierable, ColdExpired
<1>11. QED
  BY <1>1, <1>2, <1>3, <1>4, <1>5, <1>6, <1>7, <1>8, <1>9, <1>10 DEF
     Next, Flush, CompactStep, TierStep, SweepStep, Time

\* The swap dooms the files it replaces, and no file joins them later.
LEMMA DeletionStep == FilesInv /\ [Next]_vars => DeletionInv'
<1> SUFFICES ASSUME FilesInv, [Next]_vars PROVE DeletionInv'
  OBVIOUS
<1>1. \A f \in cOld : f \in 1 .. made /\ f \notin Pending
  BY DEF FilesInv, ListsInv, TypeOK, PendingInv
<1>2. CASE CompactSwap
  BY <1>1, <1>2, FileAssumption DEF CompactSwap, Unlocked, Superseded, DeletionInv, Doomed,
     Pending, None, FilesInv, ListsInv, TypeOK, File
<1>3. CASE ~CompactSwap
  <2>1. cPhase' = "deleting" => cPhase = "deleting" /\ cOld' \subseteq cOld
    BY <1>3 DEF Next, Flush, CompactStep, TierStep, SweepStep, Time, FlushWrite, FlushCommit,
       CompactList, CompactRead, CompactChunk, CompactFail, CompactSwap,
       CompactDelete, TierList, TierPut, TierSetCold, TierRemoveLocal,
       SweepExpired, SweepDelete, SweepDropRow, SweepSuperseded, SweepEnd,
       GrowOlder, GraceEnds, Crash, vars, manifestVars, diskVars, compactVars,
       tierVars, sweepVars, history
  <2>2. cPhase = "deleting" => \A f \in cOld : Doomed(f)'
    BY <1>1, DoomedStays DEF FilesInv, TasksInv, DeletionInv
  <2>3. QED
    BY <2>1, <2>2 DEF DeletionInv
<1>4. QED
  BY <1>2, <1>3

\* Tiering uploads before it says so and says so before it deletes; what the
\* sweeper takes from the object store is doomed.
LEMMA TieringStep == FilesInv /\ [Next]_vars => TierInv'
<1> SUFFICES ASSUME FilesInv, [Next]_vars PROVE TierInv'
  OBVIOUS
<1> USE FileAssumption DEF FilesInv, ListsInv, TasksInv, TypeOK, File, None,
       Listed, Pending, PendingInv, RowInv, Doomed, OlderThan, Age,
       HotExpired, Tierable, ColdExpired, TierInv, SweepInv
<1>1. CASE UNCHANGED vars
  BY <1>1 DEF vars, manifestVars, diskVars, compactVars, tierVars, sweepVars,
     history
<1>2. CASE \/ CompactList
           \/ CompactRead
           \/ \E f \in cOld, ok \in BOOLEAN : CompactDelete(f, ok)
           \/ TierList
           \/ SweepExpired
           \/ SweepSuperseded
           \/ SweepEnd
           \/ \E f \in File : GraceEnds(f)
  BY <1>2 DEF CompactList, CompactRead, CompactDelete, TierList, SweepExpired,
     SweepSuperseded, SweepEnd, GraceEnds, manifestVars, diskVars,
     compactVars, tierVars, sweepVars, history
<1>3. ASSUME NEW E \in Batches, FlushWrite(E) PROVE TierInv'
  BY <1>3 DEF FlushWrite, MakeFile, Unlocked, manifestVars, compactVars,
     tierVars, sweepVars, history
<1>4. ASSUME NEW ok \in BOOLEAN, FlushCommit(ok) PROVE TierInv'
  <2>1. CASE ok = TRUE
    BY <1>4, <2>1 DEF FlushCommit, diskVars, compactVars, tierVars, sweepVars
  <2>2. CASE ok = FALSE
    BY <1>4, <2>2 DEF FlushCommit, diskVars, compactVars, tierVars, sweepVars
  <2>3. QED
    BY <2>1, <2>2
<1>5. ASSUME NEW E \in cPlan, CompactChunk(E) PROVE TierInv'
  BY <1>5 DEF CompactChunk, MakeFile, manifestVars, tierVars, sweepVars,
     history
<1>6. CASE CompactFail
  BY <1>6 DEF CompactFail, manifestVars, diskVars, tierVars, sweepVars
<1>7. CASE CompactSwap
  BY <1>7 DEF CompactSwap, Unlocked, Superseded, diskVars, tierVars,
     sweepVars, history
<1>8. ASSUME NEW f \in tQueue, NEW ok \in BOOLEAN, TierPut(f, ok) PROVE TierInv'
  <2>1. CASE ok = TRUE
    BY <1>8, <2>1 DEF TierPut, manifestVars, compactVars, sweepVars, history
  <2>2. CASE ok = FALSE
    BY <1>8, <2>2 DEF TierPut, manifestVars, compactVars, sweepVars, history
  <2>3. QED
    BY <2>1, <2>2
<1>9. CASE \E ok \in BOOLEAN : TierSetCold(ok)
  BY <1>9 DEF TierSetCold, Unlocked, diskVars, compactVars, sweepVars, history
<1>10. CASE \E ok \in BOOLEAN : TierRemoveLocal(ok)
  BY <1>10 DEF TierRemoveLocal, ColdRecorded, manifestVars, compactVars,
     sweepVars, history
<1>11. ASSUME NEW x \in sQueue, NEW ok \in BOOLEAN, SweepDelete(x, ok) PROVE TierInv'
  BY <1>11, DeleteEffect DEF LocalFileOf
<1>12. ASSUME NEW x \in sItem, NEW ok \in BOOLEAN, SweepDropRow(x, ok) PROVE TierInv'
  BY <1>12, DropEffect
<1>13. ASSUME NEW e \in Event, GrowOlder(e) PROVE TierInv'
  BY <1>13 DEF GrowOlder, manifestVars, diskVars, compactVars, tierVars,
     sweepVars
<1>14. CASE Crash
  BY <1>14 DEF Crash, manifestVars, diskVars
<1> HIDE FileAssumption DEF FilesInv, ListsInv, TasksInv, TypeOK, File, None,
       Listed, Pending, PendingInv, RowInv, Doomed, OlderThan, Age,
       HotExpired, Tierable, ColdExpired, TierInv, SweepInv
<1>15. QED
  BY <1>1, <1>2, <1>3, <1>4, <1>5, <1>6, <1>7, <1>8, <1>9, <1>10, <1>11,
     <1>12, <1>13, <1>14 DEF
     Next, Flush, CompactStep, TierStep, SweepStep, Time

\* The sweeper lists doomed files only, and deletes a local one before its row.
LEMMA SweepingStep == FilesInv /\ [Next]_vars => SweepInv'
<1> SUFFICES ASSUME FilesInv, [Next]_vars PROVE SweepInv'
  OBVIOUS
<1> USE FileAssumption DEF FilesInv, ListsInv, TasksInv, TypeOK, File, None,
       Listed, Pending, PendingInv, RowInv, Doomed, OlderThan, Age,
       HotExpired, Tierable, ColdExpired, SweepInv
<1>1. CASE UNCHANGED vars
  BY <1>1 DEF vars, manifestVars, diskVars, compactVars, tierVars, sweepVars,
     history
<1>2. CASE \/ CompactList
           \/ CompactRead
           \/ TierList
           \/ \E f \in tQueue, ok \in BOOLEAN : TierPut(f, ok)
           \/ SweepEnd
           \/ \E f \in File : GraceEnds(f)
  BY <1>2 DEF CompactList, CompactRead, TierList, TierPut, SweepEnd,
     GraceEnds, manifestVars, diskVars, compactVars, tierVars, sweepVars,
     history
<1>3. ASSUME NEW E \in Batches, FlushWrite(E) PROVE SweepInv'
  BY <1>3 DEF FlushWrite, MakeFile, Unlocked, manifestVars, compactVars,
     tierVars, sweepVars, history
<1>4. ASSUME NEW ok \in BOOLEAN, FlushCommit(ok) PROVE SweepInv'
  <2>1. CASE ok = TRUE
    BY <1>4, <2>1 DEF FlushCommit, diskVars, compactVars, tierVars, sweepVars
  <2>2. CASE ok = FALSE
    BY <1>4, <2>2 DEF FlushCommit, diskVars, compactVars, tierVars, sweepVars
  <2>3. QED
    BY <2>1, <2>2
<1>5. ASSUME NEW E \in cPlan, CompactChunk(E) PROVE SweepInv'
  BY <1>5 DEF CompactChunk, MakeFile, manifestVars, tierVars, sweepVars,
     history
<1>6. CASE CompactFail
  BY <1>6 DEF CompactFail, manifestVars, diskVars, tierVars, sweepVars
<1>7. CASE CompactSwap
  BY <1>7 DEF CompactSwap, Unlocked, Superseded, diskVars, tierVars,
     sweepVars, history
<1>8. ASSUME NEW f \in cOld, NEW ok \in BOOLEAN, CompactDelete(f, ok) PROVE SweepInv'
  BY <1>8 DEF CompactDelete, manifestVars, tierVars, sweepVars, history
<1>9. CASE \E ok \in BOOLEAN : TierSetCold(ok)
  BY <1>9 DEF TierSetCold, Unlocked, diskVars, compactVars, sweepVars, history
<1>10. CASE \E ok \in BOOLEAN : TierRemoveLocal(ok)
  BY <1>10 DEF TierRemoveLocal, ColdRecorded, manifestVars, compactVars,
     sweepVars, history
<1>11. CASE SweepExpired
  <2>1. \A f \in Expired : f \in File /\ OlderThan(f, HotExpired)
    BY DEF Expired, ActiveHot
  <2>2. \A x \in sQueue' : OlderThan(x.f, HotExpired) /\ x.tier = tier[x.f]
    BY <1>11, <2>1, EntriesOf DEF SweepExpired
  <2>3. QED
    BY <1>11, <2>2 DEF SweepExpired, manifestVars, diskVars, compactVars, tierVars, history
<1>12. ASSUME NEW x \in sQueue, NEW ok \in BOOLEAN, SweepDelete(x, ok) PROVE SweepInv'
  <2>1. /\ local' \subseteq local /\ leftover \subseteq leftover'
        /\ sQueue' \subseteq sQueue /\ sItem' \subseteq {x}
        /\ sItem' = {x} => LocalFileOf(x) \cap local' \subseteq leftover'
        /\ UNCHANGED <<row, tier, evs, age, flushing, cNew>>
    <3> HIDE DEF Listed, Doomed, Pending, TypeOK, SweepInv
    <3>1. QED
      BY <1>12, DeleteEffect
  <2>2. \A y \in sQueue' \cup sItem' : y \in sQueue
    BY <2>1
  <2>3. \A y \in sItem' : y.tier = "hot" => y.f \notin local' \ leftover'
    BY <2>1 DEF LocalFileOf
  <2>4. QED
    BY <2>1, <2>2, <2>3
<1>13. ASSUME NEW x \in sItem, NEW ok \in BOOLEAN, SweepDropRow(x, ok) PROVE SweepInv'
  <2>1. /\ sItem' = {}
        /\ \A f \in File : \/ row'[f] = row[f] /\ tier'[f] = tier[f]
                          \/ row'[f] = "none"
        /\ UNCHANGED <<evs, age, flushing, cNew, sQueue>>
    BY <1>13, DropEffect
  <2>2. QED
    BY <2>1
<1>14. CASE SweepSuperseded
  BY <1>14 DEF SweepSuperseded, Unlocked, Entries, PastGrace, manifestVars,
     diskVars, compactVars, tierVars, history
<1>15. ASSUME NEW e \in Event, GrowOlder(e) PROVE SweepInv'
  BY <1>15 DEF GrowOlder, manifestVars, diskVars, compactVars, tierVars,
     sweepVars
<1>16. CASE Crash
  BY <1>16 DEF Crash, manifestVars, diskVars
<1> HIDE FileAssumption DEF FilesInv, ListsInv, TasksInv, TypeOK, File, None,
       Listed, Pending, PendingInv, RowInv, Doomed, OlderThan, Age,
       HotExpired, Tierable, ColdExpired, SweepInv
<1>17. QED
  BY <1>1, <1>2, <1>3, <1>4, <1>5, <1>6, <1>7, <1>8, <1>9, <1>10, <1>11,
     <1>12, <1>13, <1>14, <1>15, <1>16 DEF
     Next, Flush, CompactStep, TierStep, SweepStep, Time

\* Rows end by a swap, which has the events in new rows, or by the sweeper,
\* which works on doomed files.
LEMMA KeptStep == FilesInv /\ [Next]_vars => KeptUntilRetention'
<1> SUFFICES ASSUME FilesInv, [Next]_vars PROVE KeptUntilRetention'
  OBVIOUS
<1> USE FileAssumption DEF FilesInv, ListsInv, TasksInv, TypeOK, File, None,
       Listed, Pending, PendingInv, RowInv, Doomed, OlderThan, Age,
       HotExpired, Tierable, ColdExpired, SweepInv, KeptUntilRetention
<1>1. CASE UNCHANGED vars
  BY <1>1 DEF vars, manifestVars, diskVars, compactVars, tierVars, sweepVars,
     history
<1>2. CASE \/ CompactList
           \/ CompactRead
           \/ CompactFail
           \/ \E f \in cOld, ok \in BOOLEAN : CompactDelete(f, ok)
           \/ TierList
           \/ \E f \in tQueue, ok \in BOOLEAN : TierPut(f, ok)
           \/ \E ok \in BOOLEAN : TierSetCold(ok)
           \/ \E ok \in BOOLEAN : TierRemoveLocal(ok)
           \/ SweepExpired
           \/ \E x \in sQueue, ok \in BOOLEAN : SweepDelete(x, ok)
           \/ SweepSuperseded
           \/ SweepEnd
           \/ \E f \in File : GraceEnds(f)
  BY <1>2 DEF CompactList, CompactRead, CompactFail, CompactDelete, TierList,
     TierPut, TierSetCold, TierRemoveLocal, SweepExpired, SweepDelete,
     SweepSuperseded, SweepEnd, GraceEnds, manifestVars, diskVars,
     compactVars, tierVars, sweepVars, history
<1>3. ASSUME NEW E \in Batches, FlushWrite(E) PROVE KeptUntilRetention'
  BY <1>3 DEF FlushWrite, MakeFile, Unlocked, manifestVars, compactVars,
     tierVars, sweepVars, history
<1>4. ASSUME NEW ok \in BOOLEAN, FlushCommit(ok) PROVE KeptUntilRetention'
  <2>1. CASE ok = TRUE
    BY <1>4, <2>1 DEF FlushCommit, diskVars, compactVars, tierVars, sweepVars
  <2>2. CASE ok = FALSE
    BY <1>4, <2>2 DEF FlushCommit, diskVars, compactVars, tierVars, sweepVars
  <2>3. QED
    BY <2>1, <2>2
<1>5. ASSUME NEW E \in cPlan, CompactChunk(E) PROVE KeptUntilRetention'
  BY <1>5 DEF CompactChunk, MakeFile, manifestVars, tierVars, sweepVars,
     history
<1>6. CASE CompactSwap
  BY <1>6 DEF CompactSwap, Unlocked, Superseded, diskVars, tierVars,
     sweepVars, history, MergeInv
<1>7. ASSUME NEW x \in sItem, NEW ok \in BOOLEAN, SweepDropRow(x, ok) PROVE KeptUntilRetention'
  <2>1. row[x.f] = "active" => OlderThan(x.f, HotExpired)
    OBVIOUS
  <2>2. \A f \in File : row[f] = "active" /\ row'[f] # "active" => f = x.f
    BY <1>7, DropEffect
  <2>3. age' = age /\ evs' = evs /\ stored' = stored
    BY <1>7, DropEffect
  <2>4. SUFFICES ASSUME NEW e \in stored, age[e] < HotExpired
                 PROVE \E f \in File : row'[f] = "active" /\ e \in evs[f]
    BY <2>3
  <2>5. PICK f \in File : row[f] = "active" /\ e \in evs[f]
    BY <2>4
  <2>6. e \in Event /\ age[e] \in Nat
    OBVIOUS
  <2>7. ~OlderThan(f, HotExpired)
    BY <2>4, <2>5, <2>6
  <2>8. QED
    BY <2>1, <2>2, <2>5, <2>7
<1>8. ASSUME NEW e \in Event, GrowOlder(e) PROVE KeptUntilRetention'
  BY <1>8 DEF GrowOlder, manifestVars, diskVars, compactVars, tierVars,
     sweepVars
<1>9. CASE Crash
  BY <1>9 DEF Crash, manifestVars, diskVars
<1> HIDE FileAssumption DEF FilesInv, ListsInv, TasksInv, TypeOK, File, None,
       Listed, Pending, PendingInv, RowInv, Doomed, OlderThan, Age,
       HotExpired, Tierable, ColdExpired, SweepInv, KeptUntilRetention
<1>10. QED
  BY <1>1, <1>2, <1>3, <1>4, <1>5, <1>6, <1>7, <1>8, <1>9 DEF
     Next, Flush, CompactStep, TierStep, SweepStep, Time

\* A file leaves its place only when it is doomed, or for the object store.
LEMMA ReadableStep == FilesInv /\ [Next]_vars => ActiveReadable'
<1> SUFFICES ASSUME FilesInv, [Next]_vars PROVE ActiveReadable'
  OBVIOUS
<1> USE FileAssumption DEF FilesInv, ListsInv, TasksInv, TypeOK, File, None,
       Listed, Pending, PendingInv, RowInv, Doomed, OlderThan, Age,
       HotExpired, Tierable, ColdExpired, SweepInv, TierInv, ActiveReadable
<1>1. CASE UNCHANGED vars
  BY <1>1 DEF vars, manifestVars, diskVars, compactVars, tierVars, sweepVars,
     history
<1>2. CASE \/ CompactList
           \/ CompactRead
           \/ CompactFail
           \/ TierList
           \/ SweepExpired
           \/ SweepSuperseded
           \/ SweepEnd
           \/ \E f \in File : GraceEnds(f)
           \/ Crash
  BY <1>2 DEF CompactList, CompactRead, CompactFail, TierList, SweepExpired,
     SweepSuperseded, SweepEnd, GraceEnds, Crash, manifestVars, diskVars,
     compactVars, tierVars, sweepVars, history
<1>3. ASSUME NEW E \in Batches, FlushWrite(E) PROVE ActiveReadable'
  BY <1>3 DEF FlushWrite, MakeFile, Unlocked, manifestVars, compactVars,
     tierVars, sweepVars, history
<1>4. ASSUME NEW ok \in BOOLEAN, FlushCommit(ok) PROVE ActiveReadable'
  <2>1. CASE ok = TRUE
    BY <1>4, <2>1 DEF FlushCommit, diskVars, compactVars, tierVars, sweepVars
  <2>2. CASE ok = FALSE
    BY <1>4, <2>2 DEF FlushCommit, diskVars, compactVars, tierVars, sweepVars
  <2>3. QED
    BY <2>1, <2>2
<1>5. ASSUME NEW E \in cPlan, CompactChunk(E) PROVE ActiveReadable'
  BY <1>5 DEF CompactChunk, MakeFile, manifestVars, tierVars, sweepVars,
     history
<1>6. CASE CompactSwap
  BY <1>6 DEF CompactSwap, Unlocked, Superseded, diskVars, tierVars,
     sweepVars, history
<1>7. ASSUME NEW f \in cOld, NEW ok \in BOOLEAN, CompactDelete(f, ok) PROVE ActiveReadable'
  BY <1>7 DEF CompactDelete, manifestVars, tierVars, sweepVars, history,
     DeletionInv
<1>8. ASSUME NEW f \in tQueue, NEW ok \in BOOLEAN, TierPut(f, ok) PROVE ActiveReadable'
  BY <1>8 DEF TierPut, manifestVars, compactVars, sweepVars, history
<1>9. CASE \E ok \in BOOLEAN : TierSetCold(ok)
  BY <1>9 DEF TierSetCold, Unlocked, diskVars, compactVars, sweepVars, history
<1>10. CASE \E ok \in BOOLEAN : TierRemoveLocal(ok)
  BY <1>10 DEF TierRemoveLocal, ColdRecorded, manifestVars, compactVars,
     sweepVars, history
<1>11. ASSUME NEW x \in sQueue, NEW ok \in BOOLEAN, SweepDelete(x, ok) PROVE ActiveReadable'
  BY <1>11, DeleteEffect DEF LocalFileOf
<1>12. ASSUME NEW x \in sItem, NEW ok \in BOOLEAN, SweepDropRow(x, ok) PROVE ActiveReadable'
  BY <1>12, DropEffect
<1>13. ASSUME NEW e \in Event, GrowOlder(e) PROVE ActiveReadable'
  <2>1. /\ UNCHANGED <<row, tier, local, objects, evs>>
        /\ age' = [age EXCEPT ![e] = age[e] + 1]
    BY <1>13 DEF GrowOlder, manifestVars, diskVars
  <2>2. \A d \in Event : age[d] \in Nat /\ (age[d] >= HotExpired => age'[d] >= HotExpired)
    BY <2>1
  <2>3. \A f \in File : OlderThan(f, HotExpired) => OlderThan(f, HotExpired)'
    BY <2>1, <2>2
  <2>4. QED
    BY <2>1, <2>3
<1> HIDE FileAssumption DEF FilesInv, ListsInv, TasksInv, TypeOK, File, None,
       Listed, Pending, PendingInv, RowInv, Doomed, OlderThan, Age,
       HotExpired, Tierable, ColdExpired, SweepInv, TierInv, ActiveReadable
<1>14. QED
  BY <1>1, <1>2, <1>3, <1>4, <1>5, <1>6, <1>7, <1>8, <1>9, <1>10, <1>11,
     <1>12, <1>13 DEF
     Next, Flush, CompactStep, TierStep, SweepStep, Time

\* A local file whose row goes away is deleted, or already left to someone.
LEMMA OrphanStep == FilesInv /\ [Next]_vars => NoLocalOrphan'
<1> SUFFICES ASSUME FilesInv, [Next]_vars PROVE NoLocalOrphan'
  OBVIOUS
<1> USE FileAssumption DEF FilesInv, ListsInv, TasksInv, TypeOK, File, None,
       Listed, Pending, PendingInv, RowInv, Doomed, OlderThan, Age,
       HotExpired, Tierable, ColdExpired, SweepInv, TierInv, NoLocalOrphan
<1>1. CASE UNCHANGED vars
  BY <1>1 DEF vars, manifestVars, diskVars, compactVars, tierVars, sweepVars,
     history
<1>2. CASE \/ CompactList
           \/ CompactRead
           \/ TierList
           \/ SweepExpired
           \/ SweepSuperseded
           \/ SweepEnd
           \/ \E e \in Event : GrowOlder(e)
           \/ \E f \in File : GraceEnds(f)
  <2>1. UNCHANGED <<row, tier, local, flushing, cNew, leftover, tPhase, tFile>>
    BY <1>2 DEF CompactList, CompactRead, TierList, SweepExpired,
       SweepSuperseded, SweepEnd, GrowOlder, GraceEnds, manifestVars, diskVars,
       compactVars, tierVars, sweepVars, history
  <2>2. QED
    BY <2>1
<1>3. ASSUME NEW E \in Batches, FlushWrite(E) PROVE NoLocalOrphan'
  BY <1>3 DEF FlushWrite, MakeFile, Unlocked, manifestVars, compactVars,
     tierVars, sweepVars, history
<1>4. ASSUME NEW ok \in BOOLEAN, FlushCommit(ok) PROVE NoLocalOrphan'
  <2>1. CASE ok = TRUE
    BY <1>4, <2>1 DEF FlushCommit, diskVars, compactVars, tierVars, sweepVars
  <2>2. CASE ok = FALSE
    BY <1>4, <2>2 DEF FlushCommit, diskVars, compactVars, tierVars, sweepVars
  <2>3. QED
    BY <2>1, <2>2
<1>5. ASSUME NEW E \in cPlan, CompactChunk(E) PROVE NoLocalOrphan'
  BY <1>5 DEF CompactChunk, MakeFile, manifestVars, tierVars, sweepVars,
     history
<1>6. CASE CompactFail
  BY <1>6 DEF CompactFail, manifestVars, diskVars, tierVars, sweepVars
<1>7. CASE CompactSwap
  BY <1>7 DEF CompactSwap, Unlocked, Superseded, diskVars, tierVars,
     sweepVars, history
<1>8. ASSUME NEW f \in cOld, NEW ok \in BOOLEAN, CompactDelete(f, ok) PROVE NoLocalOrphan'
  BY <1>8 DEF CompactDelete, manifestVars, tierVars, sweepVars, history
<1>9. ASSUME NEW f \in tQueue, NEW ok \in BOOLEAN, TierPut(f, ok) PROVE NoLocalOrphan'
  BY <1>9 DEF TierPut, manifestVars, compactVars, sweepVars, history
<1>10. CASE \E ok \in BOOLEAN : TierSetCold(ok)
  BY <1>10 DEF TierSetCold, Unlocked, diskVars, compactVars, sweepVars,
     history
<1>11. ASSUME NEW ok \in BOOLEAN, TierRemoveLocal(ok) PROVE NoLocalOrphan'
  <2>1. /\ local' \subseteq local /\ leftover \subseteq leftover'
        /\ local' \cap {tFile} \subseteq leftover'
        /\ UNCHANGED <<row, tier, flushing, cNew>>
    BY <1>11 DEF TierRemoveLocal, manifestVars, compactVars
  <2>2. QED
    BY <2>1
<1>12. ASSUME NEW x \in sQueue, NEW ok \in BOOLEAN, SweepDelete(x, ok) PROVE NoLocalOrphan'
  <2>1. /\ local' \subseteq local /\ leftover \subseteq leftover'
        /\ UNCHANGED <<row, tier, flushing, cNew, tPhase, tFile>>
    BY <1>12, DeleteEffect
  <2>2. QED
    BY <2>1
<1>13. ASSUME NEW x \in sItem, NEW ok \in BOOLEAN, SweepDropRow(x, ok) PROVE NoLocalOrphan'
  <2>1. TypeOK
    OBVIOUS
  <2>2. /\ \A f \in File :
             \/ row'[f] = row[f] /\ tier'[f] = tier[f]
             \/ f = x.f /\ row'[f] = "none" /\ tier'[f] = "hot"
        /\ UNCHANGED <<local, leftover, flushing, cNew, tPhase, tFile>>
    <3> HIDE DEF File, Listed, Doomed, Pending, TypeOK, SweepInv, NoLocalOrphan
    <3>1. QED
      BY <1>13, <2>1, DropEffect
  <2>3. x.tier = "hot" => x.f \notin local \ leftover
    OBVIOUS
  <2>4. x.tier # "hot" => row[x.f] = "none" \/ tier[x.f] = "cold"
    OBVIOUS
  <2>5. QED
    BY <2>2, <2>3, <2>4
<1>14. CASE Crash
  BY <1>14 DEF Crash, manifestVars, diskVars
<1> HIDE FileAssumption DEF FilesInv, ListsInv, TasksInv, TypeOK, File, None,
       Listed, Pending, PendingInv, RowInv, Doomed, OlderThan, Age,
       HotExpired, Tierable, ColdExpired, SweepInv, TierInv, NoLocalOrphan
<1>15. QED
  BY <1>1, <1>2, <1>3, <1>4, <1>5, <1>6, <1>7, <1>8, <1>9, <1>10, <1>11,
     <1>12, <1>13, <1>14 DEF
     Next, Flush, CompactStep, TierStep, SweepStep, Time

-----------------------------------------------------------------------------
LEMMA FilesInit == Init => FilesInv
<1> SUFFICES ASSUME Init PROVE FilesInv
  OBVIOUS
<1>1. ListsInv
  BY FileAssumption DEF Init, ListsInv, TypeOK, PendingInv, RowInv, Pending, File, Age,
     ColdExpired, None
<1>2. TasksInv
  BY DEF Init, TasksInv, FilledInv, MergeInv, DeletionInv, TierInv, SweepInv
<1>3. KeptUntilRetention /\ ActiveReadable /\ NoLocalOrphan
  BY DEF Init, KeptUntilRetention, ActiveReadable, NoLocalOrphan
<1>4. QED
  BY <1>1, <1>2, <1>3 DEF FilesInv

LEMMA FilesStep == FilesInv /\ [Next]_vars => FilesInv'
<1>1. FilesInv /\ [Next]_vars => ListsInv'
  BY TypeStep, PendingStep, RowStep DEF ListsInv
<1>2. FilesInv /\ [Next]_vars => TasksInv'
  BY FilledStep, MergeStep, DeletionStep, TieringStep, SweepingStep DEF TasksInv
<1>3. QED
  BY <1>1, <1>2, KeptStep, ReadableStep, OrphanStep DEF FilesInv

LEMMA FilesInvariance == Spec => []FilesInv
  BY FilesInit, FilesStep, PTL DEF Spec

-----------------------------------------------------------------------------
\* Every variable has its type in every behaviour.
THEOREM TypeCorrect == Spec => []TypeOK
<1>1. FilesInv => TypeOK
  BY DEF FilesInv, ListsInv
<1>2. QED
  BY <1>1, FilesInvariance, PTL

\* What a flush has put into the manifest stays in an active row until hot
\* retention ends, whatever compaction, tiering, the sweeper and crashes do.
THEOREM EventsAreKept == Spec => []KeptUntilRetention
<1>1. FilesInv => KeptUntilRetention
  BY DEF FilesInv
<1>2. QED
  BY <1>1, FilesInvariance, PTL

\* The file of an active row is where the row says, until all it holds has
\* expired.
THEOREM ActiveRowsReadable == Spec => []ActiveReadable
<1>1. FilesInv => ActiveReadable
  BY DEF FilesInv
<1>2. QED
  BY <1>1, FilesInvariance, PTL

\* Every local file is named by a hot row, is being worked on, or was left in
\* one of four ways: a crash, a write that failed, a removal that failed after
\* tiering had made the row cold, or one that failed in the superseded pass.
THEOREM NoFileForgotten == Spec => []NoLocalOrphan
<1>1. FilesInv => NoLocalOrphan
  BY DEF FilesInv
<1>2. QED
  BY <1>1, FilesInvariance, PTL


-----------------------------------------------------------------------------
(* The file lifecycle implements EventStore.                               *)
(*                                                                         *)
(* That nothing stored is missing is KeptUntilRetention. That nothing else *)
(* appears is OriginInv: every row, and everything compaction reads and    *)
(* writes, holds stored events only. Together they make the visible events *)
(* the stored ones that are not expired, and only a flush and the clock    *)
(* change those.                                                           *)

\* What has a row, or will get one from compaction, was stored by a flush.
OriginInv ==
    /\ \A f \in File : row[f] # "none" => evs[f] \subseteq stored
    /\ cPhase \in {"listed", "writing"} => \A f \in cOld : evs[f] \subseteq stored
    /\ \A f \in cNew : evs[f] \subseteq stored
    /\ \A E \in cPlan : E \subseteq stored

-----------------------------------------------------------------------------
LEMMA OriginInit == Init => OriginInv
  BY DEF Init, OriginInv

\* The actions that make no file and change neither what is stored nor what
\* compaction has in hand.
LEMMA OriginKept ==
    ASSUME OriginInv, UNCHANGED <<evs, stored, compactVars>>,
           \A f \in File : row'[f] # "none" => row[f] # "none"
    PROVE  OriginInv'
  BY DEF OriginInv, compactVars

LEMMA OriginStep == FilesInv /\ OriginInv /\ [Next]_vars => OriginInv'
<1> SUFFICES ASSUME FilesInv, OriginInv, [Next]_vars PROVE OriginInv'
  OBVIOUS
<1> USE DEF FilesInv, ListsInv, TasksInv
<1>1. CASE UNCHANGED vars
  BY <1>1, OriginKept DEF vars, manifestVars, diskVars, history
<1>2. ASSUME NEW E \in Batches, FlushWrite(E) PROVE OriginInv'
  <2>1. \A f \in 1 .. made : evs'[f] = evs[f]
    BY <1>2, MadeFile DEF FlushWrite
  <2>2. /\ \A f \in File : row[f] # "none" => f \in 1 .. made
        /\ cOld \subseteq 1 .. made /\ cNew \subseteq 1 .. made
    BY DEF RowInv, TypeOK
  <2>3. UNCHANGED <<row, cPhase, cOld, cNew, cPlan, stored>>
    BY <1>2 DEF FlushWrite, manifestVars, compactVars, history
  <2>4. QED
    BY <2>1, <2>2, <2>3 DEF OriginInv
<1>3. ASSUME NEW ok \in BOOLEAN, FlushCommit(ok) PROVE OriginInv'
  <2>1. /\ stored \subseteq stored' /\ UNCHANGED <<evs, cPhase, cOld, cNew, cPlan>>
    BY <1>3 DEF FlushCommit, diskVars, compactVars
  <2>2. \A f \in File : row'[f] # "none" =>
           row[f] # "none" \/ evs[f] \subseteq stored'
    BY <1>3 DEF FlushCommit, TypeOK
  <2>3. QED
    BY <2>1, <2>2 DEF OriginInv
<1>4. CASE CompactList
  <2>1. /\ cOld' = ActiveHot /\ UNCHANGED <<row, evs, cNew, cPlan, stored>>
    BY <1>4 DEF CompactList, manifestVars, diskVars, history
  <2>2. QED
    BY <2>1 DEF OriginInv, ActiveHot
<1>5. CASE CompactRead
  <2>1. UNCHANGED <<row, evs, cNew, stored>>
    BY <1>5 DEF CompactRead, manifestVars, diskVars, history
  <2>2. CASE cOld \subseteq local
    <3>1. cPhase = "listed" /\ cPlan' \in Splits(Merged) /\ UNCHANGED cOld
      BY <1>5, <2>2 DEF CompactRead
    <3>2. Merged \subseteq stored
      BY <3>1 DEF OriginInv, Merged
    <3>3. \A E \in cPlan' : E \subseteq Merged
      BY <3>1 DEF Splits
    <3>4. QED
      BY <2>1, <3>1, <3>2, <3>3 DEF OriginInv
  <2>3. CASE ~(cOld \subseteq local)
    BY <1>5, <2>1, <2>3 DEF CompactRead, OriginInv
  <2>4. QED
    BY <2>2, <2>3
<1>6. ASSUME NEW E \in cPlan, CompactChunk(E) PROVE OriginInv'
  <2>1. /\ evs'[made'] = E /\ made' = made + 1
        /\ \A f \in 1 .. made : evs'[f] = evs[f]
    BY <1>6, MadeFile DEF CompactChunk
  <2>2. /\ \A f \in File : row[f] # "none" => f \in 1 .. made
        /\ cOld \subseteq 1 .. made /\ cNew \subseteq 1 .. made
    BY DEF RowInv, TypeOK
  <2>3. /\ UNCHANGED <<row, cPhase, cOld, stored>>
        /\ cPlan' \subseteq cPlan /\ cNew' = cNew \cup {made'}
    BY <1>6, <2>1 DEF CompactChunk, manifestVars, history
  <2>4. E \subseteq stored
    BY DEF OriginInv
  <2>5. QED
    BY <2>1, <2>2, <2>3, <2>4 DEF OriginInv
<1>7. CASE CompactFail
  BY <1>7 DEF CompactFail, OriginInv, manifestVars, diskVars
<1>8. CASE CompactSwap
  <2>1. /\ UNCHANGED <<evs, stored, cPlan>> /\ cNew' = {} /\ cPhase' = "deleting"
    BY <1>8 DEF CompactSwap, diskVars, history
  <2>2. \A f \in File : row'[f] # "none" => row[f] # "none" \/ f \in cNew
    BY <1>8 DEF CompactSwap, Superseded
  <2>3. QED
    BY <2>1, <2>2 DEF OriginInv
<1>9. ASSUME NEW f \in cOld, NEW ok \in BOOLEAN, CompactDelete(f, ok) PROVE OriginInv'
  BY <1>9 DEF CompactDelete, OriginInv, manifestVars, history
<1>10. CASE TierList \/ TierStep
  BY <1>10, OriginKept DEF TierList, TierStep, TierPut, TierSetCold, TierRemoveLocal,
     manifestVars, diskVars, history
<1>11. CASE SweepExpired \/ SweepSuperseded \/ SweepEnd
  BY <1>11, OriginKept DEF SweepExpired, SweepSuperseded, SweepEnd, manifestVars,
     diskVars, history
<1>12. ASSUME NEW x \in sQueue, NEW ok \in BOOLEAN, SweepDelete(x, ok)
       PROVE OriginInv'
  BY <1>12, DeleteEffect, OriginKept DEF compactVars
<1>13. ASSUME NEW x \in sItem, NEW ok \in BOOLEAN, SweepDropRow(x, ok) PROVE OriginInv'
  BY <1>13, DropEffect, OriginKept DEF compactVars
<1>14. CASE Time
  BY <1>14, OriginKept DEF Time, GrowOlder, GraceEnds, manifestVars, diskVars,
     history
<1>15. CASE Crash
  BY <1>15 DEF Crash, OriginInv, manifestVars, diskVars
<1>16. QED
  BY <1>1, <1>2, <1>3, <1>4, <1>5, <1>6, <1>7, <1>8, <1>9, <1>10, <1>11, <1>12,
     <1>13, <1>14, <1>15 DEF Next, Flush, CompactStep, TierStep, SweepStep

-----------------------------------------------------------------------------
\* What flush_events is about to record is a whole batch.
BatchInv == flushing # None => evs[flushing] \in Batches

LEMMA BatchInit == Init => BatchInv
  BY DEF Init, BatchInv

LEMMA BatchStep == FilesInv /\ BatchInv /\ [Next]_vars => BatchInv'
<1> SUFFICES ASSUME FilesInv, BatchInv, [Next]_vars PROVE BatchInv'
  OBVIOUS
<1> USE DEF FilesInv, ListsInv
<1>1. ASSUME NEW E \in Batches, FlushWrite(E) PROVE BatchInv'
  BY <1>1, MadeFile DEF FlushWrite, MakeFile, BatchInv
<1>2. CASE Crash \/ \E ok \in BOOLEAN : FlushCommit(ok)
  BY <1>2 DEF Crash, FlushCommit, BatchInv
<1>3. ASSUME NEW E \in cPlan, CompactChunk(E) PROVE BatchInv'
  <2>1. UNCHANGED flushing /\ \A f \in 1 .. made : evs'[f] = evs[f]
    BY <1>3, MadeFile DEF CompactChunk
  <2>2. flushing # None => flushing \in 1 .. made
    BY DEF TypeOK, None
  <2>3. QED
    BY <2>1, <2>2 DEF BatchInv
<1>4. CASE UNCHANGED <<evs, flushing>>
  BY <1>4 DEF BatchInv
<1>5. QED
  BY <1>1, <1>2, <1>3, <1>4 DEF Next, Flush, CompactStep, TierStep, SweepStep, Time,
     CompactList, CompactRead, CompactFail, CompactSwap, CompactDelete, TierList,
     TierPut, TierSetCold, TierRemoveLocal, SweepExpired, SweepDelete, SweepDropRow,
     SweepSuperseded, SweepEnd, GrowOlder, GraceEnds, vars, diskVars

-----------------------------------------------------------------------------
\* What queries see is what is stored and not expired.
SeesStored == Visible = stored \ ExpiredEvents

LEMMA VisibleIsStored == FilesInv /\ OriginInv => SeesStored
<1> SUFFICES ASSUME FilesInv, OriginInv PROVE Visible = stored \ ExpiredEvents
  BY DEF SeesStored
<1>1. /\ stored \subseteq Event /\ age \in [Event -> Age]
      /\ \A f \in File : evs[f] \subseteq Event
  BY DEF FilesInv, ListsInv, TypeOK
<1>2. ASSUME NEW e \in Visible PROVE e \in stored \ ExpiredEvents
  BY <1>2 DEF Visible, OriginInv
<1>3. ASSUME NEW e \in stored \ ExpiredEvents PROVE e \in Visible
  <2>1. age[e] < HotExpired
    BY <1>1 DEF ExpiredEvents, Age, HotExpired, ColdExpired
  <2>2. QED
    BY <1>1, <2>1 DEF FilesInv, KeptUntilRetention, Visible
<1>4. QED
  BY <1>2, <1>3

\* Apart from a flush and the clock nothing changes what is stored or how old
\* it is.
LEMMA StoredKept ==
    ASSUME Next, UNCHANGED age, \A ok \in BOOLEAN : ~FlushCommit(ok)
    PROVE  UNCHANGED stored
  BY DEF Next, Flush, CompactStep, TierStep, SweepStep, Time, FlushWrite, CompactList,
     CompactRead, CompactChunk, CompactFail, CompactSwap, CompactDelete, TierList,
     TierPut, TierSetCold, TierRemoveLocal, SweepExpired, SweepDelete, SweepDropRow,
     SweepSuperseded, SweepEnd, GrowOlder, GraceEnds, Crash, history

LEMMA AgeKept ==
    ASSUME Next, \A e \in Event : ~GrowOlder(e)
    PROVE  UNCHANGED age
  BY DEF Next, Flush, CompactStep, TierStep, SweepStep, Time, FlushWrite, FlushCommit,
     CompactList, CompactRead, CompactChunk, CompactFail, CompactSwap, CompactDelete,
     TierList, TierPut, TierSetCold, TierRemoveLocal, SweepExpired, SweepDelete,
     SweepDropRow, SweepSuperseded, SweepEnd, GraceEnds, Crash, history

\* Every step is a step of the event store or leaves it alone.
LEMMA StepStores ==
    ASSUME TypeOK, BatchInv, SeesStored, SeesStored', Next
    PROVE  Store!Next \/ UNCHANGED <<stored, Visible, ExpiredEvents>>
<1>1. /\ Visible = stored \ ExpiredEvents
      /\ Visible' = stored' \ ExpiredEvents'
  BY DEF SeesStored
<1>2. ASSUME NEW ok \in BOOLEAN, FlushCommit(ok)
      PROVE  Store!Next \/ UNCHANGED <<stored, Visible, ExpiredEvents>>
  <2>1. UNCHANGED age /\ UNCHANGED ExpiredEvents
    BY <1>2 DEF FlushCommit, ExpiredEvents
  <2>2. CASE ok = TRUE
    <3>1. stored' = stored \cup evs[flushing] /\ evs[flushing] \in Batches
      BY <1>2, <2>2 DEF FlushCommit, BatchInv
    <3>2. Store!Store(evs[flushing])
      BY <1>1, <2>1, <3>1 DEF Store!Store
    <3>3. QED
      BY <3>1, <3>2 DEF Store!Next
  <2>3. CASE ok = FALSE
    BY <1>1, <1>2, <2>1, <2>3 DEF FlushCommit
  <2>4. QED
    BY <2>2, <2>3
<1>3. CASE \E e \in Event : GrowOlder(e)
  <2>1. PICK e \in Event : GrowOlder(e)
    BY <1>3
  <2>2. UNCHANGED stored /\ age \in [Event -> Age] /\ age' = [age EXCEPT ![e] = @ + 1]
    BY <2>1 DEF GrowOlder, TypeOK
  <2>3. \/ ExpiredEvents' = ExpiredEvents
        \/ e \notin ExpiredEvents /\ ExpiredEvents' = ExpiredEvents \cup {e}
    <3>1. /\ age[e] \in 0 .. 3 /\ age'[e] = age[e] + 1
          /\ \A k \in Event \ {e} : age'[k] = age[k]
      BY <2>2 DEF Age, ColdExpired
    <3>2. CASE age[e] = 1
      BY <3>1, <3>2 DEF ExpiredEvents, HotExpired
    <3>3. CASE age[e] # 1
      BY <3>1, <3>3 DEF ExpiredEvents, HotExpired
    <3>4. QED
      BY <3>2, <3>3
  <2>4. CASE ExpiredEvents' = ExpiredEvents
    BY <1>1, <2>2, <2>4
  <2>5. CASE e \notin ExpiredEvents /\ ExpiredEvents' = ExpiredEvents \cup {e}
    <3>1. Visible' = stored \ ExpiredEvents'
      BY <1>1, <2>2
    <3>2. QED
      BY <2>2, <2>5, <3>1 DEF Store!Next, Store!Expire
  <2>6. QED
    BY <2>3, <2>4, <2>5
<1>4. CASE /\ \A ok \in BOOLEAN : ~FlushCommit(ok)
           /\ \A e \in Event : ~GrowOlder(e)
  <2>1. UNCHANGED <<stored, age>>
    BY <1>4, StoredKept, AgeKept
  <2>2. UNCHANGED ExpiredEvents
    BY <2>1 DEF ExpiredEvents
  <2>3. QED
    BY <1>1, <2>1, <2>2
<1>5. QED
  BY <1>2, <1>3, <1>4

\* Files may be merged, split, moved, deleted and left behind by crashes: only
\* a flush adds events, a batch at a time, and at every moment what queries see
\* is what flushes have stored and is not past retention, no more and no less.
THEOREM LifecycleImplementsEventStore == Spec => ImplementsEventStore
<1>1. Init => Store!Init
  BY DEF Init, Store!Init, Visible, ExpiredEvents, HotExpired
<1>2. FilesInv /\ BatchInv /\ SeesStored /\ SeesStored' /\ [Next]_vars
      => [Store!Next]_<<stored, Visible, ExpiredEvents>>
  <2>1. CASE UNCHANGED vars
    BY <2>1 DEF vars, manifestVars, diskVars, history, Visible, ExpiredEvents
  <2>2. ASSUME FilesInv, BatchInv, SeesStored, SeesStored', Next
        PROVE Store!Next \/ UNCHANGED <<stored, Visible, ExpiredEvents>>
    BY <2>2, StepStores DEF FilesInv, ListsInv
  <2>3. QED
    BY <2>1, <2>2
<1>3. QED
  BY <1>1, <1>2, FilesInvariance, OriginInit, OriginStep, BatchInit, BatchStep,
     VisibleIsStored, PTL DEF Spec, ImplementsEventStore, Store!Spec

=============================================================================
