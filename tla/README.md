# A verification of log-ingest in TLA+

log-ingest (`src/`) reads log events from Kafka, buffers them per partition,
writes them to Parquet files that a SQLite manifest lists, compacts, tiers and
expires those files, and answers SQL queries, some of them as asynchronous
jobs. These modules model the parts of the server where threads, tasks,
failures and time interleave and the algorithms they rest on, check them with
TLC on small instances, and prove their main properties with TLAPS for every
value of the constants.

## The system

| Component | State | Operations | Hard because | Correct if |
|---|---|---|---|---|
| Kafka consumer, `server/src/consumer.rs` | per partition: buffer, pending and committed offset, paused; channel of flush results | select! loop (message, result, tick, shutdown), flush tasks, rebalance callback | callback on another thread; flushes end in any order, fail, and outlive the loop; Kafka is called outside the lock | what is committed is stored; no event is skipped; pauses end |
| Batch buffer, `crates/batch-buffer` | events, their bytes, start time | push, poll, drain | limits, a wall clock that is set | counts are right, a batch leaves for a reason and in time |
| Flush, `server/src/flush.rs` | none | write a file, insert its row | crash between the two; batches that span hours and services | the row is there only with the file, and its bounds cover it |
| Manifest, `crates/manifest` | rows: path, tier, state, times | insert, list, set_cold, swap, delete | shared by four tasks that work on stale lists | every stored event is in an active row until retention |
| Compaction, `server/src/compact.rs` | list of old files, new chunks | choose buckets, list, merge, split, write, swap, delete | many steps without the lock; statistics that only estimate | the swap loses nothing; old files go away; the files of a bucket settle |
| Tiering, `server/src/tier.rs` | list of old hot files | upload, set_cold, delete | the same | the local copy goes last |
| Sweeper, `server/src/sweeper.rs` | list of expired or superseded rows | delete file, delete row | the same; the object store fails | retention is kept and enforced |
| Job queue, `server/src/main.rs` | job store, tokens, two semaphores, result files | submit, run, cancel, time out, poll | cancellation meets every step; scans outlive jobs | a cancelled job ends cancelled, a complete one has its rows, every job ends |
| Query path, `server/src/main.rs` | none of its own | list files, register, scan | files vanish under it | all stored events, once |
| Cold cache, `server/src/cold_cache.rs` | LRU index, size, directory | get_or_fetch | eviction under readers, dropped futures whose write goes on, restart | the account is right, indexed files are there, a lone query keeps its files |
| Front end, `frontend/src/app/page.tsx` | current job, timer, table, busy flag | submit, poll, cancel, revisit | fetches that overtake each other and clicks, or fail | shows what is true, settles on the job's state, does not stay busy |

The consumer's loop, its flush tasks and the callback share the store behind a
mutex, the flush semaphore (with compaction) and the result channel. Flush,
compaction, tiering, sweeper and queries share the manifest behind its mutex
and the files outside any lock. Jobs share the job store and two semaphores;
queries share the cold cache behind its mutex and its files outside it. The page
knows the jobs only through its requests.
`PROJECT.json` lists every hazard found at its line with the properties about
it, and the components that are not modelled with the reason.

## Modules

| Module | Models | Uses |
|---|---|---|
| Consumer | `consumer.rs` | |
| BatchBuffer | `crates/batch-buffer` | |
| FileLifecycle | `flush.rs`, `compact.rs`, `tier.rs`, `sweeper.rs`, statements of the manifest | EventStore as its abstraction |
| CompactionPlan | buckets, bounds, statistics, merge, split and pruning | |
| JobQueue | jobs in `main.rs` | JobService as its abstraction |
| JobPage | the page and the GET handlers | extends JobQueue |
| ColdCache | `cold_cache.rs` and the queries that read through it | |
| EventStore, JobService | what storage and jobs promise | |
| MCFileLifecycle, MCCompactionPlan, MCJobPage, MCColdCache | values of the constants for TLC | |
| *Proofs | theorems, see below | the module of that name |
| Sums | nothing: induction and sums for the proofs | |

**Consumer** models all of `consumer.rs`. An event is its offset. One action is
one critical section of the store's mutex, one call to Kafka, or one end of a
flush: `Process`, `TickFlush`, `TakeSuccess`, `CommitRecord`, `ShutdownDrain`
and `RevokeDrain` are the critical sections; `PauseCall`, `CommitCall` and
`ResumeCall` the calls between them, where the callback may run; `FlushStart`
and `FlushEnd` a spawned task; `CbFlushStart`, `CbFlushEnd` and `RevokeEnd` the
callback. `pc` says where the loop is. `durable` is what files and manifest
hold, `lost` (history) what a failed flush or a death dropped, `ep` in a batch
(history) how often its partition had been revoked when it was read, `failed`
and `late` (history) the two ways in which a pause may stay (see below).

External, modelled from their use: the broker takes a commit from any member;
a revocation ends deliveries and forgets pauses; consumption starts at the
committed offset; another member stores what it reads before it commits
(`PeerConsume`); the process dies at any moment (`ProcessDeath`). The callback
is concurrent with the loop, as the comments at `consumer.rs:57` and `:81` say.
A flush of the shutdown drain is one step, and removing from `paused` is one
step with the resume call, as only the loop adds to it.

**BatchBuffer** is one partition's buffer with events of several sizes. An event
is its size. `Push`, `Poll` and `DrainAll` are the three operations, `Pass` and
`SetClock` the wall clock. Consumer keeps of it that a buffer leaves at a byte or
record limit, and that one that is not empty may be old at any time. The time
that really passes and what the clock was set by are history.

**FileLifecycle** models `flush_events`, `compact_bucket`, `run_tiering` and
`run_sweeper` on one (service, time bucket), with the manifest's rows, the
local disk and the object store. Each of the four lists rows under the lock
and works on the list without it; `CompactSwap`, `TierSetCold` and
`SweepDropRow` are the statements by id that do not look at what the row has
become. A flush holds the lock from its file to its row (`Unlocked`). Reading
several immutable files is one step: that one of them vanishes meanwhile gives
no outcome that a later failure does not give. An event's age has four steps
(young, past tiering, past hot, past cold retention), and a file is as old as
its youngest event, since the code compares `max_ts`. The wall clock only moves
on. `Splits` allows every cut of a merged bucket into any number of chunks; which
one the code takes is in CompactionPlan. What may fail: writing a file or a row
(`FlushCommit`, `CompactFail`), an upload (`TierPut`), the update to cold
(`TierSetCold`), and every removal of a file or a row. The code meets a failing
removal in four ways: compaction logs it and leaves the superseded row to the
sweeper (`CompactDelete`); `sweep_expired` keeps the row and tries again
(`SweepDeleteExpired`); `sweep_superseded` drops the row all the same
(`SweepDeleteSuperseded`); tiering logs it, with the row already cold
(`TierRemoveLocal`). In the last two nothing names the file any more; it is in
`leftover` (history). **EventStore** is what the module implements: the events of
the batches that were stored, of which a query sees at every moment exactly those
not past retention.

**CompactionPlan** is what flush, compaction and a query compute from contents
and metadata: the bucket and the bounds of a file (`FileOf`, `BucketOf`), the
statistics by which buckets are chosen (`DenseEnough`, `EnoughFiles`), the merge
without duplicates in the order of time, the split into chunks by size (`Split`),
the pruning of files by a query's window (`Overlaps`). The view that a query's
SQL reads (`Answer`) has all rows of the files that were not pruned, those
outside the window too. An event has a service,
partition, offset, time and size; `Event` holds no two of one partition and
offset, as Kafka delivers an event again unchanged. The rows of the manifest are
a bag, since a batch that is delivered twice gives two files that are alike.
`Split` is the loop of `split_by_ipc_size`, one value of `acc` for each turn of
it, and `Compacted` the files that come out. A compaction is one step here.

**JobQueue** models `submit_job_handler`, the background task,
`delete_job_handler`, and `stream_query` as a job sees it. `task` is the program
counter of a job's task, `entry` the job store. Each lock of the store is an
action. The two biased select! blocks appear as the token in the guards of
`AcquirePermit` and `StartQuery`; later steps of the query may overtake a token
that was not looked at yet. The scan (`ScanEnd`) and the file write
(`FileWrite`) go on after the task has dropped them. `RunFail` covers any error
of the query. Whether a query touches cold files is a free choice. The permit
counters are changed where the code takes or drops a permit, so that their
conservation is a property and not a definition. **JobService** is what it
implements: a job is submitted, may start while fewer than the limit run, ends
once, and is cancelled at once by an accepted DELETE. The mapping counts a job
as cancelled from its DELETE on, since `main.rs:413` may set its entry to
Running once more for a moment.

**JobPage** puts the page in front of JobQueue. The page is one thread; an action
is what runs between two awaits: a click (`ClickCancel`, `ClickRevisit`), a
timer, the answer to a fetch, or its failure (`PollLost` and the like). The button
that cancels stays until the first answer has changed the page, so several
DELETEs may be under way; `deleting` counts them. The
handlers' reads (`PollHandler`, `DeleteHandler`) happen at the server, so that
an answer is old when it is shown. `polling` is the chain of `pollJob` calls:
clearing a timer ends it, a request under way goes on. `Results` is GET
/jobs/{id}/results: the state under the lock and the file after it.

**ColdCache** models `get_or_fetch` and the queries that call it. `phase` is
where a query is. The mutex is held from `Miss` to the end of the write
(`HoldsLock`); evictions happen in `Downloaded`, and only `Written` puts the
entry. The write runs on a blocking thread, which truncates the file
(`WriteOpens`) and goes on when its future is dropped (`strayQueued`,
`strayRunning`). `Register` and `Scan` open the files without the mutex; a file
that is gone or torn fails the query. `Restart` empties the index and keeps the
directory, as `ColdCache::new` does. `alone` (history) is a query that has had
the cache to itself since it started, together with its plan, the set of cold
files it has to read: what `todo` and `registered` hold of the plan shrinks
while the query scans, so whether the plan fits is a question to the plan.

## Runs

| Run | Instance | Shows |
|---|---|---|
| consumer_safety | 1 partition, 3 offsets of which 1 does not parse, 1 permit, flushes and commits may fail, 1 revocation, 1 death, shutdown | `CommitBacked`, `NothingSkipped`, `PausedHasWaker`, `RegressOnlyByStaleResult` |
| consumer_liveness | 1 partition, 4 offsets, no failures | `EventuallyStored`, `EventuallyCommitted`, `PausedPartitionResumes` |
| consumer_overtaking | 2 permits | violated: `AtLeastOnceCommit` |
| consumer_backward | 1 revocation | violated: `NoBackwardCommit` |
| consumer_stall | failing flushes, fairness | violated: `PausedPartitionResumes` |
| batch_buffer | events of sizes 0, 1 and 3, limits of 4 bytes, 4 records and age 2, a clock up to 5 that is set twice per batch | `Accounted`, `CutForReason`, `OldLeaves` |
| jobs | 2 jobs, 1 permit of each semaphore, without a page, or 1 job and its page with 2 DELETEs | `CancelSticks`, `CompleteHasRows`, `PermitsConserved`, `EveryJobSettles`, `ImplementsService`; `ShownIsTrue`, `PageSettles`, `LoadingEnds` |
| files_safety | 2 events, 3 files, 1 fault | `KeptUntilRetention`, `ActiveReadable`, `NoLocalOrphan`, `ImplementsEventStore` |
| files_liveness | 1 event, 3 files, 1 fault, failing object store | `SupersededReclaimed`, `RetentionEnforced` |
| files_cold_retention | 2 events, 3 files | violated: `ColdRetentionKept` |
| compaction_plan | 5 events, 5 batches, 8 flushes, two services, partitions and hours | `AnswerComplete`, `SplitSound`, `SurplusAreDuplicates`, `BucketsSettle` |
| cold_cache | 2 queries, 3 files, room for 3 by size and 2 by count, 1 abandoned write | `BytesAccounted`, `SizeBound`, `IndexedOnDisk`, `LoneQueryKeepsFiles`, `QueriesEnd` |

Every passing run also checks, or shares its module with one that checks, the
module's `TypeOK`. Deadlock is checked in consumer_liveness, where the consumer
is never shut down, and in batch_buffer and compaction_plan, whose timers never
stop. The other instances end, when the consumer has shut down, or when their
jobs are done, their files made, or one process has done all its queries.

*Bounds.* Consumer: three offsets and 20 bytes at 9 bytes an event give a buffer
below and above the high-water mark and full, so two batches of one partition
are under way at once; `Poison` separates a commit point from the end of the
log. Partitions meet only at the permits, and the compaction worker and the
callback already compete for those in the instance with one partition; two
partitions pass the liveness run too, but their safety run is too large.

BatchBuffer: size 0 separates the record limit from the byte limit, size 3 and
limit 4 let an event overshoot; a clock of 5 with an age limit of 2 lets a batch
be cut early, late and in time.

Jobs: two jobs compete for both semaphores; more of them only wait. While the
page is open its job is the only one: others are to it a longer wait for a
permit, or a POST that is refused. Two DELETEs are under way at most, of which
the server accepts one; the page goes to the history once and one fetch fails: a
second failure ends a chain that the first has ended already.

Files: three files are two flushes and one compaction of them into one file; two
events are enough for a file that is partly old and for an event that is stored
twice. A swap of two files for two chunks needs a fourth file, with which the run
does not end in time: in the run a second chunk is written only to fail, and that
`Splits` into several chunks loses nothing rests on the theorems. `MaxFaults`
bounds the faults of a behaviour: a crash, a removal or an update that fails.
Flushes, uploads, compactions and deletions in the object store fail without bound.

CompactionPlan: the batches are one that spans two hours, one that holds an
event twice and overlaps another in its events, one that spans two services, one
event too large for a file, and one of another partition; partition 0 has a gap
in its offsets. Eight flushes reach every threshold by each of the timers, and
`BatchRows` 1 gives the split its smallest pieces.

ColdCache: two queries share one file and want another each. The three files
fit by size, not by count, so that the count cap drops an entry, and the bytes
it leaves in the account make the next miss evict.

*Fairness.* Consumer: the loop never stays in an arm; select! picks at random
among ready arms, and tokio's semaphores are FIFO, so an arm or a waiter that is
ready again and again is served (SF); flushes and compactions end; the group
assigns partitions. Jobs: the runtime polls what is ready and timers fire;
nothing is assumed of scans, file writes or clients. Page: timers fire, and
every fetch is answered or fails; nobody has to click. Files: tasks run on, time
passes, and a disk, the object store or the manifest removes a file or a row in the
end if asked again and again (SF); the sweeper asks again in its next pass.
CompactionPlan: the scheduled timer fires again and again, and a bucket
that is tried again and again is compacted in the end; this is SF for each
bucket, spelled out. ColdCache: a query's own steps go on, and it is not passed
over for ever at the mutex or the semaphore (SF); abandoned writes need not end.
Where a failure may repeat, the code tries again: the timer, the sweeper's next pass, the next tick.

*What the violated properties say.* Each states a comment or a sentence of the
documentation that the code does not keep; `PROJECT.json`, under "findings",
quotes it. `CommitBacked` and `NothingSkipped` are what remains true of
"at-least-once": what the code does lose is in `lost`, the batches of flushes
that failed (`consumer.rs:295`) and what a death takes from memory while a later
batch was committed. `RegressOnlyByStaleResult` is what remains of the commit
guard. `PausedHasWaker` is what remains of backpressure, for the store's `paused`
and the client's: a pause has something that will end it, unless a flush of the
partition failed meanwhile (`failed`), or the pause call came late (`late`).

*Read off the models, without a run of their own.*

* The pause call is made after the store's lock is released (`consumer.rs:268`).
  If the partition is revoked and assigned again in between, the revocation has
  taken it out of the store's `paused`, and the call then pauses it in the client.
  No result finds it in `paused`, so none resumes it: it gets no messages until
  the next rebalance. `PausedHasWaker` excepts this case by name.
* `sweep_superseded` drops the row of a file whatever `delete_local` returned
  (`sweeper.rs:134-145`). If the file could not be removed, it stays for good,
  with no row that names it, and the log calls it "already-missing". A local copy
  that tiering cannot remove (`tier.rs:105`) stays too: its row is cold.
  `NoLocalOrphan` and `SupersededReclaimed` except both by name.
* Compaction does not end. `compactable_buckets` and `small_file_threshold` count
  files and do not ask whether they can be fewer: a bucket whose rows need several
  files is merged and written again, the same, at every tick. `BucketsSettle` says
  that its contents settle.
* A manifest error while files are listed ends the compaction or the tiering task
  until the server is restarted (`compact.rs:62`, `:72`, `tier.rs:53`, `:65`: the
  `?` leaves the loop). The fairness of the runs assumes that it does not happen.
* `time_from` and `time_to` of a query choose files, not rows (`main.rs:146`): SQL
  without a condition on the time also gets rows outside the window.
* A second click on Cancel while the first DELETE is under way is answered 409, and
  the page shows an error beside the job that it has cancelled.
* A visit from the history shows its job as complete whatever it is, and a fetch
  that rejects there leaves the page busy (`page.tsx:389`); hence the exceptions
  in `ShownIsTrue` and `LoadingEnds`.
* A refused DELETE leaves the page on the last state shown, with an error and no
  polling (`PageSettles`). The answer to DELETE is applied to whichever job is
  current.
* The comment at `manifest/src/lib.rs:276` says that duplicates are
  underestimated when a bucket holds several partitions. The offset span of all
  of them together may also be shorter than their events are many, and then the
  surplus is too high; `SurplusAreDuplicates` is about one partition.
* The comment at `main.rs:178`, that DataFusion always reads a local file, is
  false once another query has evicted it: `LoneQueryKeepsFiles` is about a
  query that is alone.
* A message that was in hand when its partition was revoked is buffered after
  the drain, and delivered again to the next owner, so a batch or two files may
  hold an event twice. Queries drop duplicates, and so does compaction, which a
  bucket of one file never sees.

## Proofs

Eight modules, checked by tlapm from the named assumptions on the constants; no
bound of a run is used. The inductive invariants were checked by TLC on small
instances before they were proved.

* `ConsumerProofs`: `TypeCorrect`, action by action. `CommitsAreBacked` and
  `NoEventSkipped`, from `DeliveryInv`. Neither is inductive; the invariant adds
  where every offset is:
  between the committed offset and the position of the reader, each event that
  parses is in the buffer, in a batch on its way, in a result, stored or lost;
  and each batch whose flush has succeeded is stored, so that whatever the loop
  may commit ends with a stored event.
  `PausedAlwaysHasWaker`, from `WakerInv`, which says when a waker may be the
  batch in hand: `TakeSuccess` decides to resume before the commit, and the
  waker must survive `CommitRecord`. What the client has paused is in the
  store's `paused` or was paused late.
  `RegressionsAreStale`, from `RegressInv`: every offset that was read in the
  partition's present epoch (in hand, buffered, in a batch, in a result, or still
  to be read) and passes the loop's guard is not below the group's offset. The
  group's offset and the guard's are equal only up to failed commits and the
  step between `CommitCall` and `CommitRecord`, which `Passed` bridges.
* `JobQueueProofs`: `TypeCorrect`; `CancellationSticks`, `CompletionHasRows` and
  `OutcomesAreFinal` from `JobInv`, which says for each place of the task what
  entry, token, verdict, scan and result file can be. The token decides the entry
  everywhere but between `MarkRunning` and the first poll, and between the
  verdict and the write-back; there the biased select! and the write-back's test
  settle it. `PermitsAreConserved`: a step moves at most one permit of each
  semaphore, and moving one conserves the sum by the cardinality of sets that
  differ in one job. `QueueImplementsService`: every step of the queue is one of
  JobService or a stutter; that a start respects the limit is the permits' sum.
* `JobPageProofs`: `PageKeepsQueue`, `PageSpec => Spec`, so that the theorems on
  jobs hold behind a page; `PageTypeCorrect`; `OutcomesShownAreTrue`, since a
  final answer that is old is still true.
* `FileLifecycleProofs`: `TypeCorrect`, `EventsAreKept`, `ActiveRowsReadable`,
  `NoFileForgotten`, from `FilesInv`. The tasks work on stale lists; the key is
  that a file whose row is superseded or gone, or whose events are past hot
  retention, stays so (`DoomedStays`). All the sweeper works on and all that
  compaction deletes is doomed, what tiering holds is uploaded or doomed, files
  without a row yet are on no list, and a compaction's chunks, written and
  unwritten, hold all that it has read. All this holds with every failure of
  the model, whose effects `DeleteEffect` and `DropEffect` state once for the
  sweeper. `LifecycleImplementsEventStore`:
  `OriginInv` adds that what files and chunks hold was stored by a flush, and
  `BatchInv` that a flush records a whole batch; then what is visible is exactly
  what is stored and not expired, and each step of the lifecycle changes what is
  stored, visible and expired as EventStore does or not at all.
* `Sums`: what the next three need. Induction over the numbers is stated with a
  set in the place of a predicate (from the well-foundedness of < and the library's
  minimal elements), so that it needs no operator as a parameter. From it, what
  the sum over a sequence or a finite set is when one element comes or goes, and
  how sums of two functions compare.
* `BatchBufferProofs`: `TypeCorrect` and `OldBatchesLeave`: the age by the clock
  differs from the true one by what the clock was set by, in each direction.
  `BytesCounted` and `BatchesLeaveForReason`, from `CountInv`: as the
  bytes counted are those of the events buffered, the test that `Push` makes on
  the count is a test on the batch that it hands out.
* `ColdCacheProofs`: `IndexIsOnDisk`, from `CacheInv` (the entries are distinct,
  one query at most is in `get_or_fetch`, and the file it has missed has no
  entry), and `ColdPermitsConserved`. `CacheTypeCorrect`, `CacheBytesAccounted`,
  `CacheSizeBounded` and `LoneQueryEvictsNone`, from `FullInv`. It adds that the
  account is the bytes of the entries and what the count cap has dropped from
  them; that from the eviction to the entry there is room for the file that was
  fetched; and for a query that is alone, that the files it has registered are
  the most recent entries of the index, so that an eviction that reaches one of
  them would mean that its plan does not fit.
* `CompactionPlanProofs`: `PlanTypeCorrect`, `QueriesFindAll`, `SplitIsSound`,
  `SurplusIsDuplicates`, `CompactionLeavesNoDuplicate` and `CompactionIsStable`,
  from `PlanInv`: every file has the bounds of its rows,
  and the files together hold what was flushed. A compaction keeps it because
  its operators compute what they should. `InOrder` lists each event of a set
  once, as the number of events before it is a bijection of the set to
  1 .. n. `Batched` cuts a sequence into pieces that are not empty and join to it.
  The loop of `Split` keeps `AccInv`: closed chunks and the current one join to
  the batches seen, the bytes are those of the current chunk, and every closed
  chunk obeys the target and could not have taken the next batch. For the surplus,
  the offsets of one partition are distinct and lie in the span of the files'
  bounds, so there are no more events than the span is long. That no duplicate is
  left follows by counting: the pieces together are as long as the merged rows,
  which are as many as the events, and files never have fewer rows than events;
  for the same reason `Compacted` loses no file by being a set. And what a
  compaction writes depends on the events alone, so that compacting it again
  writes the same. These two are the safety half of `BucketsSettle`; that a bucket
  gets there stays with TLC.

Model-checked only: the liveness properties of the runs, since the prover handles
neither fairness nor ENABLED (`EventuallyStored`, `EventuallyCommitted`,
`PausedPartitionResumes`, `EveryJobSettles`, `PageSettles`, `LoadingEnds`,
`SupersededReclaimed`, `RetentionEnforced`, `BucketsSettle`, `QueriesEnd`). Every
type invariant, safety invariant, action property and refinement of a passing run
is the statement of a theorem.

## Not modelled

Contents of events beyond what the modules name, the Arrow conversion, SQL, the
filter of a query by service, the inline POST /query, metrics, configuration,
schema migration of the manifest, the health endpoints and static files. POST
/ingest is one `flush_events` under the manifest's lock and adds no behaviour to
FileLifecycle's flush. The job store is lost at a restart and never shrinks;
JobPage has only its effect on a client, the 404. A panic inside a flush or a
scan task is not modelled. Of the page: several jobs at once, CSV export, saved
views and everything that is only presentation.

## Plan

Done: all the modules above. What is left, in this order:

1. Queries in FileLifecycle: a query that lists rows and opens the files later
   races with compaction's deletions; and a property of the object store, whose
   files a superseded cold row leaks; a run of four files.
2. The page with several jobs and the inline query.
3. The order of pause calls and revocations (`consumer.rs:268`), with a client
   library that is modelled in more detail than its documentation gives.
