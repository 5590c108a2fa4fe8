--------------------------- MODULE CompactionPlan ---------------------------
(***************************************************************************)
(* What flush (src/server/src/flush.rs), compaction (compact.rs) and a     *)
(* query (stream_query in main.rs) make of the metadata in the manifest:   *)
(* the bucket and the bounds of a file, the statistics that choose buckets *)
(* to compact, the split of a merged bucket into files, and the pruning of *)
(* files outside a query's window.                                         *)
(*                                                                         *)
(* A compaction is one step here and files are hot and active; what may    *)
(* happen in the middle of it, and to files later, is in FileLifecycle.    *)
(***************************************************************************)
EXTENDS Integers, Sequences, FiniteSets, Bags, Functions, SequencesExt,
        FiniteSetsExt

CONSTANTS
    Event,          \* records [svc, part, off, ts, size]
    Batches,        \* the sequences of events that a flush may be given
    HourLen,        \* length of a time bucket
    TargetBytes,    \* target_file_bytes
    BatchRows,      \* rows in a record batch
    Header,         \* bytes of an IPC stream beside its rows
    MinFiles,       \* min_files_per_bucket
    SmallFiles,     \* small_file_threshold
    MaxDuplicates,  \* max_duplicate_ratio, in percent
    MaxFlushes      \* bound: flushes

\* An event keeps its partition and offset when Kafka delivers it again.
ASSUME PlanAssumption ==
    /\ IsFiniteSet(Event)
    /\ \A e \in Event : /\ e.part \in Int /\ e.off \in Int /\ e.ts \in Int
                        /\ e.size \in Nat
    /\ \A d, e \in Event : d.part = e.part /\ d.off = e.off => d = e
    /\ Batches \subseteq Seq(Event) \ {<<>>}
    /\ HourLen \in Nat \ {0} /\ TargetBytes \in Nat /\ BatchRows \in Nat \ {0}
    /\ Header \in Nat /\ MinFiles \in Nat \ {0} /\ SmallFiles \in Nat \ {0}
    /\ MaxDuplicates \in 0 .. 100 /\ MaxFlushes \in Nat

VARIABLES
    files,          \* the active hot rows of the manifest, a bag
    todo,           \* buckets that run_compaction has still to compact
    flushes,        \* flushes so far
    stored          \* history: events in them

vars == <<files, todo, flushes, stored>>

-----------------------------------------------------------------------------
(* Files and buckets *)

Times(rows) == {rows[i].ts : i \in DOMAIN rows}
Offsets(rows) == {rows[i].off : i \in DOMAIN rows}

\* A slip: the bounds of a batch that is taken to be in order.
BoundsOfEnds(rows, bucket) ==
    [bucket |-> bucket, rows |-> rows,
     minTs |-> rows[1].ts, maxTs |-> Last(rows).ts,
     minOff |-> rows[1].off, maxOff |-> Last(rows).off]

\* FlushMeta, with the rows that are in the file.
FileOf(rows, bucket) ==
    [bucket |-> bucket, rows |-> rows,
     minTs |-> Min(Times(rows)), maxTs |-> Max(Times(rows)),
     minOff |-> Min(Offsets(rows)), maxOff |-> Max(Offsets(rows))]

\* A batch is filed under the service of its first event and the hour of its
\* earliest one, whatever else is in it.
BucketOf(rows) ==
    [svc |-> rows[1].svc, hour |-> Min(Times(rows)) \div HourLen]

Bucket == [svc : {e.svc : e \in Event}, hour : {e.ts \div HourLen : e \in Event}]

FilesOf(b) == {f \in DOMAIN files : f.bucket = b}
FileCount(b) == MapThenSumSet(LAMBDA f : files[f], FilesOf(b))

RowsOf(fs) == UNION {ToSet(f.rows) : f \in fs}

\* Slips of the code that the properties must notice: bounds that exclude
\* their ends, a split that may start with an empty chunk, a span that is one
\* too short, a bucket that must have more than the minimum of files.
OverlapsInside(f, from, to) == f.maxTs > from /\ f.minTs < to
FullAlways(acc, size) == acc.bytes + size > TargetBytes
SpanShort(fs) == Max({f.maxOff : f \in fs}) - Min({f.minOff : f \in fs})
AboveMinFiles(b) == FileCount(b) > MinFiles

-----------------------------------------------------------------------------
(* Statistics *)

\* The record counts of the rows, each as often as the row is there.
Records == [f \in DOMAIN files |-> files[f] * Len(f.rows)]

TotalRecords(b) == MapThenSumSet(LAMBDA f : Records[f], FilesOf(b))

OffsetSpan(fs) == Max({f.maxOff : f \in fs}) - Min({f.minOff : f \in fs}) + 1

\* The records that hot_bucket_stats takes for duplicates.
Surplus(b) == Max({TotalRecords(b) - OffsetSpan(FilesOf(b)), 0})

DenseEnough(b) == Surplus(b) * 100 >= MaxDuplicates * TotalRecords(b)

\* compactable_buckets
EnoughFiles(b) == FileCount(b) >= MinFiles

-----------------------------------------------------------------------------
(* Merging and splitting *)

\* Events of one time come in any order; this is one.
Before(d, e) ==
    \/ d.ts < e.ts
    \/ d.ts = e.ts /\ (d.part < e.part \/ (d.part = e.part /\ d.off < e.off))

InOrder(S) ==
    [i \in 1 .. Cardinality(S) |->
        CHOOSE e \in S : Cardinality({d \in S : Before(d, e)}) = i - 1]

\* The earliest copy of each partition and offset, in the order of time.
Merged(S) ==
    InOrder({e \in S : \A d \in S : d.part = e.part /\ d.off = e.off => e.ts <= d.ts})

\* The result of a query comes in batches of BatchRows rows.
Batched(rows) ==
    [i \in 1 .. (Len(rows) + BatchRows - 1) \div BatchRows |->
        SubSeq(rows, (i - 1) * BatchRows + 1, Min({i * BatchRows, Len(rows)}))]

Total(sizes) == FoldSeq(LAMBDA m, n : m + n, 0, sizes)
IpcSize(batch) == Header + Total([i \in DOMAIN batch |-> batch[i].size])
ChunkSize(chunk) == Total([i \in DOMAIN chunk |-> IpcSize(chunk[i])])

\* A chunk is closed when one more batch would make it too large, unless
\* there is nothing in it yet.
Full(acc, size) == acc.bytes + size > TargetBytes /\ acc.current # <<>>

Closed(acc) == Append(acc.chunks, acc.current)

\* The loop of split_by_ipc_size, for one batch.
WithBatch(acc, batch) ==
    LET size == IpcSize(batch)
    IN  IF Full(acc, size)
        THEN [chunks |-> Closed(acc), current |-> <<batch>>, bytes |-> size]
        ELSE [acc EXCEPT !.current = Append(@, batch), !.bytes = @ + size]

Split(batches) ==
    LET acc[i \in 0 .. Len(batches)] ==
            IF i = 0 THEN [chunks |-> <<>>, current |-> <<>>, bytes |-> 0]
            ELSE WithBatch(acc[i - 1], batches[i])
        last == acc[Len(batches)]
    IN  IF last.current # <<>> THEN Closed(last) ELSE last.chunks

ChunksOf(b) == Split(Batched(Merged(RowsOf(FilesOf(b)))))

\* The rows of two chunks differ, and so do the files.
Compacted(b) == {FileOf(FlattenSeq(chunk), b) : chunk \in ToSet(ChunksOf(b))}

-----------------------------------------------------------------------------
Init == files = EmptyBag /\ todo = {} /\ flushes = 0 /\ stored = {}

Flush(batch) ==
    /\ flushes < MaxFlushes /\ flushes' = flushes + 1
    /\ files' = files (+) SetToBag({FileOf(batch, BucketOf(batch))})
    /\ stored' = stored \cup ToSet(batch)
    /\ UNCHANGED todo

\* The two timers of run_compaction; it looks at them when its list is empty.
ThresholdTick ==
    /\ todo = {}
    /\ todo' = {b \in Bucket : /\ FilesOf(b) # {}
                               /\ FileCount(b) >= SmallFiles \/ DenseEnough(b)}
    /\ UNCHANGED <<files, flushes, stored>>

ScheduleTick ==
    /\ todo = {}
    /\ todo' = {b \in Bucket : FilesOf(b) # {} /\ EnoughFiles(b)}
    /\ UNCHANGED <<files, flushes, stored>>

\* compact_bucket, for the files that are there now.
Compact(b) ==
    /\ b \in todo /\ todo' = todo \ {b}
    /\ files' = IF FileCount(b) < 2 THEN files
                ELSE Restrict(files, DOMAIN files \ FilesOf(b))
                       (+) SetToBag(Compacted(b))
    /\ UNCHANGED <<flushes, stored>>

\* It is logged and the bucket left to the next tick.
CompactFails(b) ==
    /\ b \in todo /\ todo' = todo \ {b}
    /\ UNCHANGED <<files, flushes, stored>>

Next ==
    \/ \E batch \in Batches : Flush(batch)
    \/ ThresholdTick \/ ScheduleTick
    \/ \E b \in Bucket : Compact(b) \/ CompactFails(b)

Spec == Init /\ [][Next]_vars

\* The scheduled timer fires again and again, and a compaction that is tried
\* again and again succeeds. (The second part is SF_vars(Compact(b)), whose
\* ENABLED is b \in todo and costs TLC much more.)
Fairness ==
    /\ SF_vars(ScheduleTick)
    /\ \A b \in Bucket : []<>(b \in todo) => []<><<Compact(b)>>_vars

FairSpec == Spec /\ Fairness

-----------------------------------------------------------------------------
(* stream_query *)

\* Not pruned.
Overlaps(f, from, to) == ~(f.maxTs < from \/ f.minTs > to)

Scanned(from, to) == {f \in DOMAIN files : Overlaps(f, from, to)}

\* The view of the scanned files. The window prunes files, not rows: the
\* events of a scanned file that are outside it are there too.
Answer(from, to) == RowsOf(Scanned(from, to))

-----------------------------------------------------------------------------
(* Properties *)

TypeOK ==
    /\ IsABag(files)
    /\ \A f \in DOMAIN files :
         /\ f.bucket \in Bucket /\ f.rows \in Seq(Event) \ {<<>>}
         /\ f.minTs <= f.maxTs /\ f.minOff <= f.maxOff
    /\ todo \subseteq Bucket /\ flushes \in 0 .. MaxFlushes /\ stored \subseteq Event

\* A query finds every event of its window that was ever flushed, and none
\* that was not: not the bounds of a file, the hour and the service it is filed
\* under, a merge, a split or a batch that spans hours and services ever hide
\* one. (It may find others outside the window; the user's SQL has to tell.)
AnswerComplete ==
    \A from, to \in {e.ts : e \in Event} :
        /\ {e \in stored : from <= e.ts /\ e.ts <= to} \subseteq Answer(from, to)
        /\ Answer(from, to) \subseteq stored

\* The chunks are the merged rows cut in pieces: none is empty, each is within
\* the target or a single batch, and none ends earlier than the target demands.
\* Without it write_chunk panics, or files grow past the target or stay small.
SplitSound ==
    \A b \in todo :
        LET chunks == ChunksOf(b)
        IN  /\ FlattenSeq(chunks) = Batched(Merged(RowsOf(FilesOf(b))))
            /\ \A i \in DOMAIN chunks :
                 /\ chunks[i] # <<>>
                 /\ ChunkSize(chunks[i]) <= TargetBytes \/ Len(chunks[i]) = 1
                 /\ i < Len(chunks) =>
                      ChunkSize(chunks[i]) + IpcSize(chunks[i + 1][1]) > TargetBytes

\* With one partition in a bucket, hot_bucket_stats never takes an event for a
\* duplicate that is none: the ratio cannot keep compaction busy for nothing.
\* (With two it may, although manifest/src/lib.rs:276 says that it
\* underestimates then.)
SurplusAreDuplicates ==
    \A b \in Bucket :
        LET rows == RowsOf(FilesOf(b))
        IN  Cardinality({e.part : e \in rows}) = 1
            => Surplus(b) <= TotalRecords(b) - Cardinality(rows)

\* The files of a bucket settle: when flushes end, the scheduled pass leaves
\* too few files for it, or files that another compaction would write again,
\* with no event in them twice ("now applied once permanently", compact.rs:112).
\* Compaction itself does not end: several files that cannot be one still meet
\* MinFiles and SmallFiles, and every tick rewrites them as they are. Nor does
\* a single file lose the copies that it may hold.
BucketsSettle ==
    \A b \in Bucket :
        <>[](\/ FileCount(b) < MinFiles
             \/ /\ FilesOf(b) = Compacted(b)
                /\ TotalRecords(b) = Cardinality(RowsOf(FilesOf(b))))

=============================================================================
