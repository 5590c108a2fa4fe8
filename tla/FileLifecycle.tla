---------------------------- MODULE FileLifecycle ----------------------------
(***************************************************************************)
(* The life of a Parquet file in the log-ingest server: written by a flush *)
(* (src/server/src/flush.rs) or by compaction (compact.rs), moved to the   *)
(* object store by tiering (tier.rs), deleted by compaction or by the      *)
(* sweeper (sweeper.rs), with the manifest (src/crates/manifest) as the    *)
(* only thing the four share.                                              *)
(*                                                                         *)
(* Each of the four takes the manifest's lock to list files or to change   *)
(* rows, and works on its list without the lock; every such section and    *)
(* every effect on a disk is an action of its own. The files are those of  *)
(* one (service, time_bucket); compaction never mixes buckets and nothing  *)
(* else looks at them. A file's number stands for its id, its path and its *)
(* key in the object store, all three unique to it.                        *)
(***************************************************************************)
EXTENDS Integers, FiniteSets

CONSTANTS
    Event,          \* events, identified by partition and offset
    Batches,        \* the sets of events that a flush may be given
    MaxFiles,       \* bound: files ever made
    MaxAge,         \* bound: how old events grow
    MaxFaults       \* bound: crashes, and failures of the local disk or the
                    \* manifest after a file is written

ASSUME FileAssumption ==
    /\ IsFiniteSet(Event) /\ Batches \subseteq (SUBSET Event) \ {{}}
    /\ MaxFiles \in Nat \ {0} /\ MaxAge \in 0 .. 3 /\ MaxFaults \in Nat

File == 1 .. MaxFiles
None == 0

\* An event's age: young, past the tiering threshold, past hot retention,
\* past cold retention (7, 14 and 90 days by default).
Tierable == 1
HotExpired == 2
ColdExpired == 3
Age == 0 .. ColdExpired

Listed == [f : File, tier : {"hot", "cold"}]   \* a FileEntry in hand

VARIABLES
    \* the manifest
    row,            \* per file: "none", "active" or "superseded"
    tier,           \* per row: "hot" or "cold", and so its path (no row: "hot")
    pastGrace,      \* superseded rows older than the grace period
    \* the disks
    made,           \* files made so far
    evs,            \* per file: its events; files never change
    local, objects, \* files on the local disk and in the object store
    \* the four tasks
    flushing,       \* the file flush_events has written, holding the lock
    cPhase, cOld, cNew, cPlan,  \* compaction: old files, new ones, chunks to write
    tPhase, tQueue, tFile,      \* tiering: its list and the file in work
    sPhase, sQueue, sItem,      \* the sweeper: its list and the file in work
    \* time and history
    age,
    stored,         \* events that a flush has put into the manifest
    leftover,       \* files that a crash, a failed write or a removal that
                    \* failed and is not tried again left behind
    faults

manifestVars == <<row, tier, pastGrace>>
diskVars == <<made, evs, local, objects>>
compactVars == <<cPhase, cOld, cNew, cPlan>>
tierVars == <<tPhase, tQueue, tFile>>
sweepVars == <<sPhase, sQueue, sItem>>
history == <<age, stored, leftover, faults>>
vars == <<manifestVars, diskVars, flushing, compactVars, tierVars, sweepVars,
          history>>

-----------------------------------------------------------------------------
(* Helpers *)

\* Every event of f is at least that old: max_ts < now - limit.
OlderThan(f, limit) == \A e \in evs[f] : age[e] >= limit

ActiveHot == {f \in File : row[f] = "active" /\ tier[f] = "hot"}

\* Slips of the code that the properties must notice: compaction that keeps
\* one file's rows, that writes an empty chunk or forgets one; tiering that
\* deletes before the row is cold; a sweeper without the cold tier, without
\* the grace pass, or that drops rows only.
MergedFromOne == IF cOld = {} THEN {} ELSE evs[CHOOSE f \in cOld : TRUE]
SplitAnywhere(E) == {{A, E \ A} : A \in SUBSET E}
ChunkForgotten(E) == {{A} : A \in (SUBSET E) \ {{}}}
UploadedIsEnough == tPhase \in {"uploaded", "recorded"}
ExpiredHotOnly == {f \in ActiveHot : OlderThan(f, HotExpired)}
NothingPastGrace == {}
RowOnly(x) == {}

\* Only flush_events keeps the manifest locked while it writes a file.
Unlocked == flushing = None

\* The rows of the files to merge, deduplicated.
Merged == UNION {evs[f] : f \in cOld}

\* split_by_ipc_size: any cut of E into chunks, none of them empty.
Splits(E) ==
    {P \in SUBSET ((SUBSET E) \ {{}}) :
        UNION P = E /\ \A A, B \in P : A = B \/ A \cap B = {}}

\* expired_active_files, superseded_files_past_grace
Expired ==
    {f \in ActiveHot : OlderThan(f, HotExpired)} \cup
    {f \in File : row[f] = "active" /\ tier[f] = "cold" /\ OlderThan(f, ColdExpired)}
PastGrace == {f \in pastGrace : row[f] = "superseded"}

Entries(F) == {[f |-> f, tier |-> tier[f]] : f \in F}

\* What delete_local is asked to remove: an s3 URI names no local file.
LocalFileOf(x) == IF x.tier = "hot" THEN {x.f} ELSE {}

\* set_cold has returned.
ColdRecorded == tPhase = "recorded"

\* Rows that swap_compacted marks, if they are still there.
Superseded == {f \in cOld : row[f] # "none"}

-----------------------------------------------------------------------------
Init ==
    /\ row = [f \in File |-> "none"] /\ tier = [f \in File |-> "hot"]
    /\ pastGrace = {}
    /\ made = 0 /\ evs = [f \in File |-> {}] /\ local = {} /\ objects = {}
    /\ flushing = None
    /\ cPhase = "idle" /\ cOld = {} /\ cNew = {} /\ cPlan = {}
    /\ tPhase = "idle" /\ tQueue = {} /\ tFile = None
    /\ sPhase = "idle" /\ sQueue = {} /\ sItem = {}
    /\ age = [e \in Event |-> 0]
    /\ stored = {} /\ leftover = {} /\ faults = 0

\* What may go wrong goes wrong, as long as the bound on faults allows it.
Fault(ok) == IF ok THEN UNCHANGED faults
             ELSE faults < MaxFaults /\ faults' = faults + 1

\* A new file with events E is on the local disk.
MakeFile(E) ==
    /\ made < MaxFiles /\ made' = made + 1
    /\ evs' = [evs EXCEPT ![made + 1] = E]
    /\ local' = local \cup {made + 1}
    /\ UNCHANGED objects

-----------------------------------------------------------------------------
(* flush_events *)

\* Events may be stored again: Kafka delivers at least once.
FlushWrite(E) ==
    /\ Unlocked /\ MakeFile(E) /\ flushing' = made + 1
    /\ UNCHANGED <<manifestVars, compactVars, tierVars, sweepVars, history>>

FlushCommit(ok) ==
    /\ flushing # None
    /\ IF ok
       THEN /\ row' = [row EXCEPT ![flushing] = "active"]
            /\ stored' = stored \cup evs[flushing]
            /\ UNCHANGED leftover
       ELSE /\ leftover' = leftover \cup {flushing}
            /\ UNCHANGED <<row, stored>>
    /\ flushing' = None
    /\ UNCHANGED <<tier, pastGrace, diskVars, compactVars, tierVars, sweepVars,
                   age, faults>>

-----------------------------------------------------------------------------
(* compact_bucket *)

\* No compaction is begun when the bound on files leaves no room for it.
CompactList ==
    /\ Unlocked /\ cPhase = "idle" /\ made < MaxFiles
    /\ Cardinality(ActiveHot) >= 2
    /\ cPhase' = "listed" /\ cOld' = ActiveHot
    /\ UNCHANGED <<manifestVars, diskVars, flushing, cNew, cPlan, tierVars,
                   sweepVars, history>>

\* One missing file fails the whole compaction.
CompactRead ==
    /\ cPhase = "listed"
    /\ IF cOld \subseteq local
       THEN /\ cPhase' = "writing" /\ cPlan' \in Splits(Merged)
            /\ UNCHANGED cOld
       ELSE /\ cPhase' = "idle" /\ cOld' = {} /\ UNCHANGED cPlan
    /\ UNCHANGED <<manifestVars, diskVars, flushing, cNew, tierVars, sweepVars,
                   history>>

CompactChunk(E) ==
    /\ cPhase = "writing" /\ E \in cPlan
    /\ MakeFile(E)
    /\ cPlan' = cPlan \ {E} /\ cNew' = cNew \cup {made + 1}
    /\ UNCHANGED <<manifestVars, flushing, cPhase, cOld, tierVars, sweepVars,
                   history>>

\* A chunk cannot be written, or the transaction fails: what is already
\* written stays where it is.
CompactFail ==
    /\ cPhase = "writing"
    /\ leftover' = leftover \cup cNew
    /\ cPhase' = "idle" /\ cOld' = {} /\ cNew' = {} /\ cPlan' = {}
    /\ UNCHANGED <<manifestVars, diskVars, flushing, tierVars, sweepVars, age,
                   stored, faults>>

\* swap_compacted, one transaction. An UPDATE of a row that is gone changes
\* nothing; the state and the tier of one that is there are not looked at.
CompactSwap ==
    /\ Unlocked /\ cPhase = "writing" /\ cPlan = {}
    /\ row' = [f \in File |-> IF f \in cNew THEN "active"
                              ELSE IF f \in Superseded THEN "superseded" ELSE row[f]]
    /\ cPhase' = "deleting" /\ cNew' = {}
    /\ UNCHANGED <<tier, pastGrace, diskVars, flushing, cOld, cPlan, tierVars,
                   sweepVars, history>>

\* The old files are deleted at once, not after the grace period. A removal
\* that fails is logged; the superseded row still names the file.
CompactDelete(f, ok) ==
    /\ cPhase = "deleting" /\ f \in cOld
    /\ local' = IF ok THEN local \ {f} ELSE local
    /\ Fault(ok)
    /\ cOld' = cOld \ {f} /\ cPhase' = IF cOld' = {} THEN "idle" ELSE cPhase
    /\ UNCHANGED <<manifestVars, made, evs, objects, flushing, cNew, cPlan,
                   tierVars, sweepVars, age, stored, leftover>>

-----------------------------------------------------------------------------
(* run_tiering and tier_file *)

TierList ==
    /\ Unlocked /\ tPhase = "idle" /\ tQueue = {}
    /\ tQueue' = {f \in ActiveHot : OlderThan(f, Tierable)}
    /\ tQueue' # {}
    /\ UNCHANGED <<manifestVars, diskVars, flushing, compactVars, tPhase, tFile,
                   sweepVars, history>>

\* Read and upload. The file may be gone, the upload may fail; both are
\* logged and the next file is taken.
TierPut(f, ok) ==
    /\ tPhase = "idle" /\ f \in tQueue
    /\ tQueue' = tQueue \ {f}
    /\ IF ok /\ f \in local
       THEN /\ objects' = objects \cup {f}
            /\ tPhase' = "uploaded" /\ tFile' = f
       ELSE UNCHANGED <<objects, tPhase, tFile>>
    /\ UNCHANGED <<manifestVars, made, evs, local, flushing, compactVars,
                   sweepVars, history>>

\* An UPDATE by id, whatever became of the row since it was listed. When it
\* fails the row stays hot, and the file is listed again.
TierSetCold(ok) ==
    /\ Unlocked /\ tPhase = "uploaded"
    /\ IF ok
       THEN /\ tier' = IF row[tFile] = "none" THEN tier
                       ELSE [tier EXCEPT ![tFile] = "cold"]
            /\ tPhase' = "recorded" /\ UNCHANGED tFile
       ELSE tPhase' = "idle" /\ tFile' = None /\ UNCHANGED tier
    /\ Fault(ok)
    /\ UNCHANGED <<row, pastGrace, diskVars, flushing, compactVars, tQueue,
                   sweepVars, age, stored, leftover>>

\* A removal that fails is logged and not tried again: the row is cold.
TierRemoveLocal(ok) ==
    /\ ColdRecorded
    /\ IF ok
       THEN local' = local \ {tFile} /\ UNCHANGED leftover
       ELSE leftover' = leftover \cup (local \cap {tFile}) /\ UNCHANGED local
    /\ Fault(ok) /\ tPhase' = "idle" /\ tFile' = None
    /\ UNCHANGED <<manifestVars, made, evs, objects, flushing, compactVars,
                   tQueue, sweepVars, age, stored>>

-----------------------------------------------------------------------------
(* run_sweeper: sweep_expired, then sweep_superseded *)

SweepExpired ==
    /\ Unlocked /\ sPhase = "idle"
    /\ sPhase' = "expired" /\ sQueue' = Entries(Expired)
    /\ UNCHANGED <<manifestVars, diskVars, flushing, compactVars, tierVars,
                   sItem, history>>

\* sweep_expired: delete_local or delete_cold. When it fails the row is kept
\* and the file tried again in the next sweep.
SweepDeleteExpired(x, ok) ==
    /\ sPhase = "expired"
    /\ local' = IF ok THEN local \ LocalFileOf(x) ELSE local
    /\ objects' = IF ok /\ x.tier = "cold" THEN objects \ {x.f} ELSE objects
    /\ sItem' = IF ok THEN {x} ELSE {}
    /\ Fault(ok \/ x.tier = "cold") /\ UNCHANGED leftover

\* sweep_superseded: delete_local, for a cold file too. The row is dropped
\* even when it fails, and with it the only name of the file.
SweepDeleteSuperseded(x, ok) ==
    /\ sPhase = "superseded"
    /\ IF ok
       THEN local' = local \ LocalFileOf(x) /\ UNCHANGED leftover
       ELSE leftover' = leftover \cup (local \cap LocalFileOf(x)) /\ UNCHANGED local
    /\ Fault(ok) /\ sItem' = {x} /\ UNCHANGED objects

SweepDelete(x, ok) ==
    /\ sItem = {} /\ x \in sQueue
    /\ sQueue' = sQueue \ {x}
    /\ SweepDeleteExpired(x, ok) \/ SweepDeleteSuperseded(x, ok)
    /\ UNCHANGED <<manifestVars, made, evs, flushing, compactVars, tierVars,
                   sPhase, age, stored>>

\* delete_file: by id, whatever the row has become. When it fails the row is
\* listed again by the next sweep.
SweepDropRow(x, ok) ==
    /\ Unlocked /\ x \in sItem
    /\ sItem' = {}
    /\ IF ok
       THEN /\ row' = [row EXCEPT ![x.f] = "none"]
            /\ tier' = [tier EXCEPT ![x.f] = "hot"]
            /\ pastGrace' = pastGrace \ {x.f}
       ELSE UNCHANGED manifestVars
    /\ Fault(ok)
    /\ UNCHANGED <<diskVars, flushing, compactVars, tierVars, sPhase, sQueue,
                   age, stored, leftover>>

SweepSuperseded ==
    /\ Unlocked /\ sPhase = "expired" /\ sQueue = {} /\ sItem = {}
    /\ sPhase' = "superseded" /\ sQueue' = Entries(PastGrace)
    /\ UNCHANGED <<manifestVars, diskVars, flushing, compactVars, tierVars,
                   sItem, history>>

SweepEnd ==
    /\ sPhase = "superseded" /\ sQueue = {} /\ sItem = {}
    /\ sPhase' = "idle"
    /\ UNCHANGED <<manifestVars, diskVars, flushing, compactVars, tierVars,
                   sQueue, sItem, history>>

-----------------------------------------------------------------------------
(* Time, and the process *)

\* An event has no age before it is in a file: one that is flushed late grows
\* old before anything else happens.
GrowOlder(e) ==
    /\ age[e] < MaxAge /\ \E f \in 1 .. made : e \in evs[f]
    /\ age' = [age EXCEPT ![e] = @ + 1]
    /\ UNCHANGED <<manifestVars, diskVars, flushing, compactVars, tierVars,
                   sweepVars, stored, leftover, faults>>

GraceEnds(f) ==
    /\ row[f] = "superseded" /\ f \notin pastGrace
    /\ pastGrace' = pastGrace \cup {f}
    /\ UNCHANGED <<row, tier, diskVars, flushing, compactVars, tierVars,
                   sweepVars, history>>

\* The process dies: the four tasks forget their lists. Whatever they had on
\* the local disk and no hot row names is never looked at again; what is
\* superseded is left to the sweeper.
Crash ==
    /\ Fault(FALSE)
    /\ leftover' = leftover \cup cNew \cup ({flushing} \ {None})
                            \cup (IF tPhase = "recorded" THEN {tFile} ELSE {})
    /\ flushing' = None
    /\ cPhase' = "idle" /\ cOld' = {} /\ cNew' = {} /\ cPlan' = {}
    /\ tPhase' = "idle" /\ tQueue' = {} /\ tFile' = None
    /\ sPhase' = "idle" /\ sQueue' = {} /\ sItem' = {}
    /\ UNCHANGED <<manifestVars, diskVars, age, stored>>

-----------------------------------------------------------------------------
Flush == \/ \E E \in Batches : FlushWrite(E)
         \/ \E ok \in BOOLEAN : FlushCommit(ok)

CompactStep ==
    \/ CompactRead \/ CompactFail \/ CompactSwap
    \/ \E E \in cPlan : CompactChunk(E)
    \/ \E f \in cOld, ok \in BOOLEAN : CompactDelete(f, ok)

TierStep ==
    \/ \E f \in tQueue, ok \in BOOLEAN : TierPut(f, ok)
    \/ \E ok \in BOOLEAN : TierSetCold(ok)
    \/ \E ok \in BOOLEAN : TierRemoveLocal(ok)

SweepStep ==
    \/ SweepExpired \/ SweepSuperseded \/ SweepEnd
    \/ \E x \in sItem, ok \in BOOLEAN : SweepDropRow(x, ok)

Time == \/ \E e \in Event : GrowOlder(e)
        \/ \E f \in File : GraceEnds(f)

Next ==
    \/ Flush \/ CompactList \/ CompactStep \/ TierList \/ TierStep \/ SweepStep
    \/ \E x \in sQueue, ok \in BOOLEAN : SweepDelete(x, ok)
    \/ Time \/ Crash

Spec == Init /\ [][Next]_vars

\* The tasks run on and time passes (WF); a disk, the object store and the
\* manifest do in the end what they are asked again and again (SF). A row that
\* is dropped never comes back and files are finitely many, so fairness for
\* all of them together is fairness for each.
Fairness ==
    /\ WF_vars(\E ok \in BOOLEAN : FlushCommit(ok))
    /\ WF_vars(CompactStep) /\ WF_vars(TierStep) /\ WF_vars(SweepStep)
    /\ SF_vars(\E x \in sQueue : SweepDelete(x, TRUE))
    /\ SF_vars(\E x \in sItem : SweepDropRow(x, TRUE))
    /\ WF_vars(Time)

FairSpec == Spec /\ Fairness

-----------------------------------------------------------------------------
(* Properties *)

TypeOK ==
    /\ row \in [File -> {"none", "active", "superseded"}]
    /\ tier \in [File -> {"hot", "cold"}]
    /\ pastGrace \subseteq File
    /\ made \in 0 .. MaxFiles /\ evs \in [File -> SUBSET Event]
    /\ local \subseteq 1 .. made /\ objects \subseteq 1 .. made
    /\ flushing \in 0 .. made
    /\ cPhase \in {"idle", "listed", "writing", "deleting"}
    /\ cOld \subseteq 1 .. made /\ cNew \subseteq 1 .. made
    /\ cPlan \subseteq (SUBSET Event) \ {{}}
    /\ tPhase \in {"idle", "uploaded", "recorded"}
    /\ tQueue \subseteq 1 .. made /\ tFile \in 0 .. made
    /\ sPhase \in {"idle", "expired", "superseded"}
    /\ sQueue \subseteq Listed /\ sItem \subseteq Listed
    /\ age \in [Event -> Age]
    /\ stored \subseteq Event /\ leftover \subseteq File
    /\ faults \in Nat

\* No event is lost: what a flush has put into the manifest stays in an
\* active row until it is past hot retention, whatever compaction, tiering,
\* the sweeper and a crash do to the files it is in.
KeptUntilRetention ==
    \A e \in stored :
        age[e] < HotExpired => \E f \in File : row[f] = "active" /\ e \in evs[f]

\* A query that lists the active rows finds every file at the row's path,
\* but for those the sweeper is deleting because all they hold has expired:
\* compaction deletes after its swap, tiering after its upload and update.
ActiveReadable ==
    \A f \in File : row[f] = "active" =>
        \/ f \in (IF tier[f] = "hot" THEN local ELSE objects)
        \/ OlderThan(f, HotExpired)

\* A local file is forgotten in four ways only: a crash, a write that fails,
\* a removal that fails after tiering has made the row cold (tier.rs:105), and
\* one that fails in the superseded pass, which drops the row all the same
\* (sweeper.rs:134). Otherwise a hot row names it, or the task that will name
\* or delete it is at work: races between compaction, tiering and the sweeper,
\* and the removals that fail elsewhere, leave none behind.
NoLocalOrphan ==
    \A f \in local :
        \/ row[f] # "none" /\ tier[f] = "hot"
        \/ f \in {flushing} \cup cNew \cup leftover
        \/ tPhase = "recorded" /\ f = tFile

\* A superseded row is removed in the end, though its removal may fail for a
\* while, and the file that compaction could not remove with it: whichever of
\* compaction, tiering and the sweeper comes first, the file is gone or is one
\* of those that NoLocalOrphan calls forgotten. (Files are finitely many and a
\* row that is superseded never comes back, so what is true of each in the end
\* is true of all.)
SupersededReclaimed ==
    <>[](\A f \in File :
           /\ row[f] # "superseded"
           /\ row[f] = "none" => f \notin local \ leftover)

\* Retention is enforced: when everything is past cold retention, no row
\* stays active.
RetentionEnforced == <>[](\A f \in File : row[f] # "active")

\* Flush, compaction, tiering, the sweeper and crashes implement EventStore:
\* only a flush adds events, a whole batch at a time, and the active rows hold
\* at every moment exactly those that flushes have recorded and that are not
\* past hot retention. An expired one may still be answered, or not.
ExpiredEvents == {e \in Event : age[e] >= HotExpired}
Visible == {e \in Event \ ExpiredEvents :
              \E f \in File : row[f] = "active" /\ e \in evs[f]}

Store == INSTANCE EventStore WITH visible <- Visible, expired <- ExpiredEvents

ImplementsEventStore == Store!Spec

\* sweeper.rs:12 ("Retention window for cold-tier files"): the row of a file
\* in the cold tier is removed only when it is past cold retention.
ColdRetentionKept ==
    [][\A f \in File :
         row[f] = "active" /\ tier[f] = "cold" /\ row'[f] = "none"
           => OlderThan(f, ColdExpired)]_vars

=============================================================================
