------------------------------ MODULE Consumer ------------------------------
(***************************************************************************)
(* The Kafka consumer of the log-ingest server                             *)
(* (src/server/src/consumer.rs): the select! loop of run_consumer, the     *)
(* flush tasks it spawns, the rebalance callback that runs on another      *)
(* thread, and the semaphore they share with the compaction worker.        *)
(*                                                                         *)
(* An event is its offset; offsets 0 .. LogLen - 1 of every partition are  *)
(* in the topic from the start and the consumer reads them at any pace.    *)
(* Atomicity follows the code: one action per critical section of the      *)
(* std Mutex around PartitionStore, one per call to Kafka that another     *)
(* thread can overtake, two per flush (permit taken, flush finished).      *)
(***************************************************************************)
EXTENDS Integers, FiniteSets, Sequences

CONSTANTS
    Partition,      \* the topic's partitions
    LogLen,         \* bound: events per partition
    Poison,         \* offsets with no payload or one that does not parse
    EventBytes,     \* estimated_byte_size of an event (all alike here)
    MaxBytes,       \* batch_max_bytes
    MaxRecords,     \* DEFAULT_MAX_RECORDS
    Permits,        \* permits of flush_semaphore
    FlushOutcomes,  \* what flush_events may return
    CommitOutcomes, \* what the broker may answer to a commit
    MayShutdown,    \* whether the shutdown broadcast may arrive
    MaxEpoch,       \* bound: revocations per partition
    MaxDeaths       \* bound: times the process dies and restarts

ASSUME BoundsAssumption ==
    /\ LogLen \in Nat \ {0} /\ MaxRecords \in Nat \ {0}
    /\ EventBytes \in Nat /\ MaxBytes \in Nat \ {0}
    /\ Permits \in Nat \ {0} /\ MaxEpoch \in Nat /\ MaxDeaths \in Nat
ASSUME OutcomesAssumption ==
    /\ FlushOutcomes \subseteq BOOLEAN /\ CommitOutcomes \subseteq BOOLEAN
    /\ MayShutdown \in BOOLEAN
ASSUME PoisonAssumption == Poison \subseteq 0 .. LogLen - 1

Offset == 0 .. LogLen - 1
NextOffset == 0 .. LogLen           \* a next-to-read offset, as Kafka commits
Good == Offset \ Poison
Below(n) == {o \in Offset : o < n}

Message == [p : Partition, off : Offset, ep : Nat]
Buffer == [evs : SUBSET Offset, n : Nat, ep : Nat]
Batch == [p : Partition, evs : SUBSET Offset, upTo : NextOffset, ep : Nat]
Result == [b : Batch, ok : BOOLEAN]

VARIABLES
    \* the broker and the client library (external)
    kcommitted,     \* per partition: the group's committed offset
    assigned,       \* partitions assigned to this consumer
    position,       \* per assigned partition: next offset recv delivers
    kpaused,        \* partitions paused in the client library
    epoch,          \* history: how often a partition was revoked
    \* PartitionStore; an absent key is an empty buffer, or 0
    buffers, pending, committed, paused,
    \* the run_consumer loop
    pc,             \* where the loop is
    inHand,         \* the message recv returned, until it is buffered
    toPause,        \* the partition the pause call is about
    held,           \* the batch the current arm works on
    after,          \* where the loop goes after a commit
    draining,       \* batches the shutdown arm has still to flush
    \* flush tasks, the callback, compaction
    spawned,        \* tasks that hold no permit yet
    flushing,       \* tasks that hold one
    revoking,       \* partitions the running callback is about
    cbTodo, cbFlight, \* batches it has still to flush, and flushes now
    results,        \* the unbounded mpsc channel to the loop
    compacting,     \* compaction holds a permit
    \* what outlives the process, and history
    durable,        \* per partition: offsets in Parquet and in the manifest
    lost,           \* history: offsets dropped by a failed flush or a death
    deaths,
    failed,         \* history: a flush of them failed while they were paused
    late            \* history: paused in the client after a revocation had
                    \* taken them out of the store's paused

brokerVars == <<kcommitted, assigned, position, kpaused, epoch>>
storeVars == <<buffers, pending, committed, paused>>
loopVars == <<pc, inHand, toPause, held, after, draining>>
taskVars == <<spawned, flushing>>
callbackVars == <<revoking, cbTodo, cbFlight>>
diskVars == <<durable, lost, deaths, failed, late>>
vars == <<brokerVars, storeVars, loopVars, taskVars, callbackVars, results,
          compacting, diskVars>>

-----------------------------------------------------------------------------
(* Helpers *)

Empty == [evs |-> {}, n |-> 0, ep |-> 0]

\* Slips of the code that the properties must notice: a commit point one too
\* far, a result used without its success flag, a commit without the guard,
\* a low-water test that never holds, a revocation that flushes nothing, a
\* tick that never polls.
PointTooFar(m) == m.off + 2
SuccessIgnored(r) == TRUE
CommitUnguarded(b) == TRUE
NeverBelowLowWater(p) == FALSE
NothingDrained(R) == {}
NeverOld(p) == FALSE

\* pending.insert(partition, offset + 1)
CommitPoint(m) == m.off + 1

\* Permits left in the semaphore.
Available == Permits - Cardinality(flushing) - Cardinality(cbFlight)
                     - (IF compacting THEN 1 ELSE 0)

\* The batch a drain of p's buffer takes out, with the offset after it.
BatchOf(p) == [p |-> p, evs |-> buffers[p].evs, upTo |-> pending[p],
               ep |-> buffers[p].ep]

\* BatchBuffer::over_any_limit with n events, and occupancy() against the
\* water marks 0.8 and 0.4. old is the outcome of the wall-clock test.
OverLimit(n, old) == n * EventBytes >= MaxBytes \/ n >= MaxRecords \/ old
AboveHighWater(n) == 10 * n * EventBytes > 8 * MaxBytes
BelowLowWater(p) == 10 * buffers[p].n * EventBytes < 4 * MaxBytes

\* up_to_offset > last, the guard before every commit.
AdvancesCommit(b) == b.upTo > committed[b.p]

\* if result.success
Succeeded(r) == r.ok

\* The channel's receiver is gone once the loop has returned.
Send(b, ok) == results' = IF pc = "exited" THEN results
                          ELSE Append(results, [b |-> b, ok |-> ok])

\* What a finished do_flush leaves: the batch on disk, or nowhere.
Finish(b, ok) ==
    /\ durable' = IF ok THEN [durable EXCEPT ![b.p] = @ \cup b.evs] ELSE durable
    /\ lost' = IF ok THEN lost ELSE [lost EXCEPT ![b.p] = @ \cup b.evs]
    /\ failed' = IF ok THEN failed ELSE failed \cup ({b.p} \cap paused)
    /\ UNCHANGED <<deaths, late>>

\* poll(): a buffer that is not empty may be old enough.
MayBeOld(p) == buffers[p].n > 0

\* Batches taken out of a buffer and not yet written.
Unwritten == held \cup spawned \cup flushing \cup cbTodo \cup cbFlight \cup draining

\* Events of p that exist only in the process's memory.
InMemory(p) == buffers[p].evs
               \cup {m.off : m \in {x \in inHand : x.p = p}}
               \cup UNION {b.evs : b \in {x \in Unwritten : x.p = p}}

-----------------------------------------------------------------------------
Init ==
    /\ kcommitted = [p \in Partition |-> 0]
    /\ assigned = {} /\ kpaused = {} /\ paused = {}
    /\ position = [p \in Partition |-> 0]
    /\ epoch = [p \in Partition |-> 0]
    /\ buffers = [p \in Partition |-> Empty]
    /\ pending = [p \in Partition |-> 0]
    /\ committed = [p \in Partition |-> 0]
    /\ pc = "select" /\ after = "select"
    /\ inHand = {} /\ toPause = {} /\ held = {} /\ draining = {}
    /\ spawned = {} /\ flushing = {}
    /\ revoking = {} /\ cbTodo = {} /\ cbFlight = {}
    /\ results = <<>>
    /\ compacting = FALSE
    /\ durable = [p \in Partition |-> {}] /\ lost = [p \in Partition |-> {}]
    /\ deaths = 0 /\ failed = {} /\ late = {}

-----------------------------------------------------------------------------
(* The group coordinator and other members (external)                      *)

\* p is assigned; consumption starts at the committed offset ("earliest"
\* when there is none). post_rebalance(Assign) only logs.
Assign(p) ==
    /\ pc # "exited" /\ p \notin assigned \cup revoking
    /\ assigned' = assigned \cup {p}
    /\ position' = [position EXCEPT ![p] = kcommitted[p]]
    /\ UNCHANGED <<kcommitted, kpaused, epoch, storeVars, loopVars, taskVars,
                   callbackVars, results, compacting, diskVars>>

\* Another member of the group owns p: it stores the events up to n and
\* commits n, the offset after an event it could parse.
PeerConsume(p, n) ==
    /\ p \notin assigned \cup revoking
    /\ n > kcommitted[p] /\ n - 1 \in Good
    /\ kcommitted' = [kcommitted EXCEPT ![p] = n]
    /\ durable' = [durable EXCEPT ![p] =
                     @ \cup {o \in Good : kcommitted[p] <= o /\ o < n}]
    /\ UNCHANGED <<assigned, position, kpaused, epoch, storeVars, loopVars,
                   taskVars, callbackVars, results, compacting, lost, deaths,
                   failed, late>>

-----------------------------------------------------------------------------
(* select! arm: consumer.recv()                                            *)

\* The client delivers p's next message. One that does not parse is dropped
\* here and nothing is recorded about it.
Recv(p) ==
    /\ pc = "select"
    /\ p \in assigned \ kpaused /\ position[p] < LogLen
    /\ position' = [position EXCEPT ![p] = @ + 1]
    /\ IF position[p] \in Poison
       THEN UNCHANGED <<pc, inHand>>
       ELSE /\ pc' = "process"
            /\ inHand' = {[p |-> p, off |-> position[p], ep |-> epoch[p]]}
    /\ UNCHANGED <<kcommitted, assigned, kpaused, epoch, storeVars, toPause,
                   held, after, draining, taskVars, callbackVars, results,
                   compacting, diskVars>>

\* The critical section of the arm: buffer m, and take the batch out when a
\* limit is reached. The partition may have been revoked since recv.
\* Pauses on a full buffer without a batch, on no free permit with one.
Process(m, old) ==
    LET p == m.p
        n == buffers[p].n + 1
        full == [evs |-> buffers[p].evs \cup {m.off}, n |-> n, ep |-> m.ep]
        flush == OverLimit(n, old)
        pausing == /\ p \notin paused
                   /\ IF flush THEN Available = 0 ELSE AboveHighWater(n)
        batch == [p |-> p, evs |-> full.evs, upTo |-> CommitPoint(m), ep |-> m.ep]
        out == IF flush THEN {batch} ELSE {}
    IN  /\ pc = "process" /\ m \in inHand
        /\ old => buffers[p].n > 0
        /\ inHand' = {}
        /\ pending' = [pending EXCEPT ![p] = CommitPoint(m)]
        /\ buffers' = [buffers EXCEPT ![p] = IF flush THEN Empty ELSE full]
        /\ IF pausing
           THEN /\ paused' = paused \cup {p} /\ toPause' = {p}
                /\ pc' = "pause" /\ held' = out
                /\ UNCHANGED spawned
           ELSE /\ pc' = "select" /\ spawned' = spawned \cup out
                /\ UNCHANGED <<paused, toPause, held>>
        /\ UNCHANGED <<brokerVars, committed, after, draining, flushing,
                       callbackVars, results, compacting, diskVars>>

\* pause_partition, outside the lock, then spawn_flush. Kafka refuses to
\* pause a partition that is no longer assigned; the error is only logged.
\* One that was revoked and assigned again meanwhile is paused all the same.
PauseCall ==
    /\ pc = "pause"
    /\ kpaused' = kpaused \cup (toPause \cap assigned)
    /\ late' = late \cup ((toPause \cap assigned) \ paused)
    /\ spawned' = spawned \cup held
    /\ toPause' = {} /\ held' = {} /\ pc' = "select"
    /\ UNCHANGED <<kcommitted, assigned, position, epoch, storeVars, inHand,
                   after, draining, flushing, callbackVars, results,
                   compacting, durable, lost, deaths, failed>>

-----------------------------------------------------------------------------
(* select! arm: tick.tick(), one partition of its loop. poll() drains a    *)
(* buffer that is old enough, which may be any one that is not empty.      *)
TickFlush(p) ==
    LET sem == Available = 0 /\ p \notin paused
    IN  /\ pc = "select" /\ MayBeOld(p)
        /\ buffers' = [buffers EXCEPT ![p] = Empty]
        /\ IF sem
           THEN /\ paused' = paused \cup {p} /\ toPause' = {p}
                /\ pc' = "pause" /\ held' = {BatchOf(p)}
                /\ UNCHANGED spawned
           ELSE /\ spawned' = spawned \cup {BatchOf(p)}
                /\ UNCHANGED <<paused, toPause, pc, held>>
        /\ UNCHANGED <<brokerVars, pending, committed, inHand, after, draining,
                       flushing, callbackVars, results, compacting, diskVars>>

-----------------------------------------------------------------------------
(* select! arm: flush_rx.recv()                                            *)

\* A failed flush changes nothing: its batch is gone, its partition stays
\* paused if it was.
TakeFailure ==
    /\ pc = "select" /\ results # <<>> /\ ~Succeeded(Head(results))
    /\ results' = Tail(results)
    /\ UNCHANGED <<brokerVars, storeVars, loopVars, taskVars, callbackVars,
                   compacting, diskVars>>

\* The critical section that computes do_commit and do_resume.
TakeSuccess ==
    LET b == Head(results).b
        doCommit == AdvancesCommit(b)
        doResume == b.p \in paused /\ BelowLowWater(b.p)
    IN  /\ pc = "select" /\ results # <<>> /\ Succeeded(Head(results))
        /\ results' = Tail(results)
        /\ held' = IF doCommit \/ doResume THEN {b} ELSE {}
        /\ pc' = IF doCommit THEN "commit" ELSE IF doResume THEN "resume" ELSE pc
        /\ after' = IF doResume THEN "resume" ELSE "select"
        /\ UNCHANGED <<brokerVars, storeVars, inHand, toPause, draining,
                       taskVars, callbackVars, compacting, diskVars>>

\* commit_offset: synchronous, outside the lock, errors logged. The broker
\* takes an offset from any member of the group, whoever owns the partition.
CommitCall(ok) ==
    /\ pc = "commit"
    /\ \E b \in held :
         kcommitted' = IF ok THEN [kcommitted EXCEPT ![b.p] = b.upTo] ELSE kcommitted
    /\ pc' = "record"
    /\ UNCHANGED <<assigned, position, kpaused, epoch, storeVars, inHand,
                   toPause, held, after, draining, taskVars, callbackVars,
                   results, compacting, diskVars>>

\* The second critical section: committed.insert, whatever the commit gave
\* and whether or not the partition was revoked meanwhile.
CommitRecord ==
    /\ pc = "record"
    /\ \E b \in held : committed' = [committed EXCEPT ![b.p] = b.upTo]
    /\ pc' = after
    /\ held' = IF after = "resume" THEN held ELSE {}
    /\ UNCHANGED <<brokerVars, buffers, pending, paused, inHand, toPause, after,
                   draining, taskVars, callbackVars, results, compacting, diskVars>>

\* resume_partition, then paused.remove. Only this loop adds to paused, so
\* the two are one step.
ResumeCall ==
    /\ pc = "resume"
    /\ \E b \in held :
         /\ kpaused' = kpaused \ {b.p} /\ paused' = paused \ {b.p}
         /\ failed' = failed \ {b.p} /\ late' = late \ {b.p}
    /\ pc' = "select" /\ held' = {}
    /\ UNCHANGED <<kcommitted, assigned, position, epoch, buffers, pending,
                   committed, inHand, toPause, after, draining, taskVars,
                   callbackVars, results, compacting, durable, lost, deaths>>

-----------------------------------------------------------------------------
(* Flush tasks: spawn_flush and flush_gated                                *)

FlushStart(b) ==
    /\ b \in spawned /\ Available > 0
    /\ spawned' = spawned \ {b} /\ flushing' = flushing \cup {b}
    /\ UNCHANGED <<brokerVars, storeVars, loopVars, callbackVars, results,
                   compacting, diskVars>>

\* The file and its manifest row are there, or the flush failed; the permit
\* is returned and the result sent.
FlushEnd(b, ok) ==
    /\ b \in flushing
    /\ flushing' = flushing \ {b}
    /\ Finish(b, ok) /\ Send(b, ok)
    /\ UNCHANGED <<brokerVars, storeVars, loopVars, spawned, callbackVars,
                   compacting>>

\* run_compaction takes one permit of the same semaphore per bucket.
CompactionAcquire ==
    /\ ~compacting /\ Available > 0
    /\ compacting' = TRUE
    /\ UNCHANGED <<brokerVars, storeVars, loopVars, taskVars, callbackVars,
                   results, diskVars>>

CompactionRelease ==
    /\ compacting /\ compacting' = FALSE
    /\ UNCHANGED <<brokerVars, storeVars, loopVars, taskVars, callbackVars,
                   results, diskVars>>

-----------------------------------------------------------------------------
(* Rebalance callback: pre_rebalance(Revoke)                               *)

\* What the callback takes out of the store for the partitions in R.
RevokedBatches(R) == {BatchOf(p) : p \in {q \in R : buffers[q].n > 0}}

\* The callback's critical section: everything about R leaves the store.
\* The client library delivers no more messages of R and forgets pauses.
RevokeDrain(R) ==
    /\ pc # "exited" /\ revoking = {}
    /\ R # {} /\ R \subseteq assigned /\ \A p \in R : epoch[p] < MaxEpoch
    /\ revoking' = R /\ cbTodo' = RevokedBatches(R)
    /\ buffers' = [p \in Partition |-> IF p \in R THEN Empty ELSE buffers[p]]
    /\ pending' = [p \in Partition |-> IF p \in R THEN 0 ELSE pending[p]]
    /\ committed' = [p \in Partition |-> IF p \in R THEN 0 ELSE committed[p]]
    /\ paused' = paused \ R
    /\ assigned' = assigned \ R /\ kpaused' = kpaused \ R
    /\ failed' = failed \ R /\ late' = late \ R
    /\ epoch' = [p \in Partition |-> IF p \in R THEN epoch[p] + 1 ELSE epoch[p]]
    /\ UNCHANGED <<kcommitted, position, loopVars, taskVars, cbFlight, results,
                   compacting, durable, lost, deaths>>

\* block_on(flush_gated(..)), one batch after the other.
CbFlushStart(b) ==
    /\ b \in cbTodo /\ cbFlight = {} /\ Available > 0
    /\ cbTodo' = cbTodo \ {b} /\ cbFlight' = {b}
    /\ UNCHANGED <<brokerVars, storeVars, loopVars, taskVars, revoking, results,
                   compacting, diskVars>>

CbFlushEnd(b, ok) ==
    /\ b \in cbFlight
    /\ cbFlight' = {}
    /\ Finish(b, ok) /\ Send(b, ok)
    /\ UNCHANGED <<brokerVars, storeVars, loopVars, taskVars, revoking, cbTodo,
                   compacting>>

\* The callback returns; the partitions are free for other members.
RevokeEnd ==
    /\ revoking # {} /\ cbTodo = {} /\ cbFlight = {}
    /\ revoking' = {}
    /\ UNCHANGED <<brokerVars, storeVars, loopVars, taskVars, cbTodo, cbFlight,
                   results, compacting, diskVars>>

-----------------------------------------------------------------------------
(* select! arm: shutdown.recv()                                            *)

ShutdownDrain ==
    /\ MayShutdown /\ pc = "select"
    /\ draining' = {BatchOf(p) : p \in {q \in Partition : buffers[q].n > 0}}
    /\ buffers' = [p \in Partition |-> Empty]
    /\ pc' = "drain" /\ after' = "drain"
    /\ UNCHANGED <<brokerVars, pending, committed, paused, inHand, toPause, held,
                   taskVars, callbackVars, results, compacting, diskVars>>

\* One round of the drain loop: flush_gated awaited inline, then the same
\* commit guard as in the result arm.
DrainFlush(b, ok) ==
    /\ pc = "drain" /\ b \in draining /\ Available > 0
    /\ draining' = draining \ {b}
    /\ Finish(b, ok)
    /\ IF ok /\ AdvancesCommit(b)
       THEN pc' = "commit" /\ held' = {b}
       ELSE UNCHANGED <<pc, held>>
    /\ UNCHANGED <<brokerVars, storeVars, inHand, toPause, after, taskVars,
                   callbackVars, results, compacting>>

\* run_consumer returns: the channel's receiver and the Kafka client are
\* dropped, so the group takes the partitions back.
Exit ==
    /\ pc = "drain" /\ draining = {}
    /\ pc' = "exited"
    /\ results' = <<>> /\ assigned' = {} /\ kpaused' = {}
    /\ UNCHANGED <<kcommitted, position, epoch, storeVars, inHand, toPause, held,
                   after, draining, taskVars, callbackVars, compacting, diskVars>>

-----------------------------------------------------------------------------
\* The process dies at any point (or exits after a shutdown) and is started
\* again: only Kafka, the files and the manifest survive.
ProcessDeath ==
    /\ deaths < MaxDeaths /\ deaths' = deaths + 1
    /\ lost' = [p \in Partition |-> lost[p] \cup InMemory(p)]
    /\ assigned' = {} /\ kpaused' = {} /\ paused' = {}
    /\ buffers' = [p \in Partition |-> Empty]
    /\ pending' = [p \in Partition |-> 0]
    /\ committed' = [p \in Partition |-> 0]
    /\ pc' = "select" /\ after' = "select"
    /\ inHand' = {} /\ toPause' = {} /\ held' = {} /\ draining' = {}
    /\ spawned' = {} /\ flushing' = {}
    /\ revoking' = {} /\ cbTodo' = {} /\ cbFlight' = {}
    /\ results' = <<>> /\ compacting' = FALSE
    /\ failed' = {} /\ late' = {}
    /\ UNCHANGED <<kcommitted, position, epoch, durable>>

-----------------------------------------------------------------------------
Loop ==
    \/ \E p \in Partition : Recv(p) \/ TickFlush(p)
    \/ \E m \in inHand, old \in BOOLEAN : Process(m, old)
    \/ PauseCall
    \/ TakeFailure \/ TakeSuccess
    \/ \E ok \in CommitOutcomes : CommitCall(ok)
    \/ CommitRecord \/ ResumeCall
    \/ ShutdownDrain
    \/ \E b \in draining, ok \in FlushOutcomes : DrainFlush(b, ok)
    \/ Exit

Tasks ==
    \/ \E b \in spawned : FlushStart(b)
    \/ \E b \in flushing, ok \in FlushOutcomes : FlushEnd(b, ok)
    \/ CompactionAcquire \/ CompactionRelease

Callback ==
    \/ \E R \in SUBSET Partition : RevokeDrain(R)
    \/ \E b \in cbTodo : CbFlushStart(b)
    \/ \E b \in cbFlight, ok \in FlushOutcomes : CbFlushEnd(b, ok)
    \/ RevokeEnd

Group ==
    \/ \E p \in Partition : Assign(p)
    \/ \E p \in Partition, n \in NextOffset : PeerConsume(p, n)

Next == Loop \/ Tasks \/ Callback \/ Group \/ ProcessDeath

Spec == Init /\ [][Next]_vars

\* The loop never stays in an arm (WF); select! picks among ready arms at
\* random, so an arm that is ready again and again is taken (SF); a buffer
\* gets old, so the tick eventually drains it. tokio's semaphore is FIFO, so
\* a waiter competing with compaction gets its permit (SF). Flushes and
\* compactions end, and the group eventually assigns every partition.
LoopStep ==
    \/ \E m \in inHand, old \in BOOLEAN : Process(m, old)
    \/ PauseCall
    \/ \E ok \in CommitOutcomes : CommitCall(ok)
    \/ CommitRecord \/ ResumeCall \/ Exit

CallbackStep ==
    \/ \E b \in cbFlight, ok \in FlushOutcomes : CbFlushEnd(b, ok)
    \/ RevokeEnd

Fairness ==
    /\ WF_vars(LoopStep)
    /\ \A p \in Partition : SF_vars(Recv(p)) /\ SF_vars(TickFlush(p))
    /\ SF_vars(TakeFailure \/ TakeSuccess)
    /\ SF_vars(\E b \in draining, ok \in FlushOutcomes : DrainFlush(b, ok))
    /\ SF_vars(\E b \in spawned : FlushStart(b))
    /\ WF_vars(\E b \in flushing, ok \in FlushOutcomes : FlushEnd(b, ok))
    /\ SF_vars(\E b \in cbTodo : CbFlushStart(b))
    /\ WF_vars(CallbackStep)
    /\ WF_vars(CompactionRelease)
    /\ \A p \in Partition : WF_vars(Assign(p))

FairSpec == Spec /\ Fairness

-----------------------------------------------------------------------------
(* Properties                                                              *)

TypeOK ==
    /\ kcommitted \in [Partition -> NextOffset]
    /\ assigned \subseteq Partition /\ kpaused \subseteq Partition
    /\ position \in [Partition -> NextOffset]
    /\ epoch \in [Partition -> Nat]
    /\ buffers \in [Partition -> Buffer]
    /\ pending \in [Partition -> NextOffset]
    /\ committed \in [Partition -> NextOffset]
    /\ paused \subseteq Partition
    /\ pc \in {"select", "process", "pause", "commit", "record", "resume",
               "drain", "exited"}
    /\ after \in {"select", "resume", "drain"}
    /\ inHand \subseteq Message /\ toPause \subseteq Partition
    /\ held \subseteq Batch /\ draining \subseteq Batch
    /\ spawned \subseteq Batch /\ flushing \subseteq Batch
    /\ revoking \subseteq Partition
    /\ cbTodo \subseteq Batch /\ cbFlight \subseteq Batch
    /\ results \in Seq(Result)
    /\ compacting \in BOOLEAN
    /\ durable \in [Partition -> SUBSET Offset]
    /\ lost \in [Partition -> SUBSET Offset]
    /\ deaths \in Nat
    /\ failed \subseteq Partition /\ late \subseteq Partition

\* Every offset the group commits is the one after an event that is on disk
\* and in the manifest: no commit is made for a batch before, or without,
\* its own successful flush, on any of the three paths to commit_offset.
CommitBacked ==
    \A p \in Partition : kcommitted[p] > 0 => kcommitted[p] - 1 \in durable[p]

\* Below the committed offset every event is stored, or still on its way in
\* this process, or was in a batch whose flush failed or that a death took:
\* buffering, revocation, reassignment, shutdown and commits that overtake
\* each other drop no event by themselves.
NothingSkipped ==
    \A p \in Partition :
        Below(kcommitted[p]) \cap Good \subseteq durable[p] \cup InMemory(p) \cup lost[p]

\* The committed offset of a partition moves backwards only when the loop
\* commits a batch read before the partition's last revocation.
RegressOnlyByStaleResult ==
    [][\A p \in Partition :
         kcommitted'[p] < kcommitted[p] =>
             \E b \in held : b.p = p /\ b.ep < epoch[p]]_vars

\* Backpressure leaves a partition without something that will resume it in
\* two ways only. Whether it is the store or the client that has p paused, p
\* has an event in its buffer (the tick will flush it), or a batch on its way
\* to disk, or the result of one in the channel, unless a flush of p failed
\* while it was paused (consumer.rs:295), or the loop's pause call reached
\* the client after a revocation had taken p out of `paused` and p had been
\* assigned again, so that no result will find it there (consumer.rs:269 and 363).
PausedHasWaker ==
    pc = "select" =>
        \A p \in paused \cup kpaused :
            \/ buffers[p].n > 0
            \/ \E b \in Unwritten : b.p = p
            \/ \E i \in DOMAIN results : results[i].ok /\ results[i].b.p = p
            \/ p \in failed \cup late

\* README.md:30 and consumer.rs:171: everything below the committed offset
\* has been flushed.
AtLeastOnceCommit ==
    \A p \in Partition : Below(kcommitted[p]) \cap Good \subseteq durable[p]

\* consumer.rs:26: a commit never moves a partition's offset backwards.
NoBackwardCommit ==
    [][\A p \in Partition : kcommitted'[p] >= kcommitted[p]]_vars

\* consumer.rs:163 and 527: a paused partition is resumed.
PausedPartitionResumes ==
    \A p \in Partition : p \in kpaused ~> p \notin kpaused

\* Every event that parses is stored.
EventuallyStored == \A p \in Partition : <>(Good \subseteq durable[p])

\* The committed offset settles on the one after the last event that parses.
CommitTarget == CHOOSE n \in NextOffset : Good \subseteq Below(n) /\ (n > 0 => n - 1 \in Good)
EventuallyCommitted == \A p \in Partition : <>[](kcommitted[p] = CommitTarget)

=============================================================================
