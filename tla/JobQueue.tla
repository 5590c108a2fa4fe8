------------------------------ MODULE JobQueue ------------------------------
(***************************************************************************)
(* The asynchronous query jobs of the log-ingest server                    *)
(* (src/server/src/main.rs): POST /jobs, the background task it spawns for *)
(* every job, DELETE /jobs/{id}, and the scan task that stream_query       *)
(* spawns and that nothing cancels.                                        *)
(*                                                                         *)
(* The job store is a HashMap behind a Mutex that is locked separately for *)
(* the cap check, the insert, the change to Running, the write-back and    *)
(* DELETE; each is an action of its own.  A biased select! looks at the    *)
(* cancellation token first, every time it is polled; an action that polls *)
(* it for the first time has the token in its guard, later steps of the    *)
(* query may overtake a cancellation that is not noticed yet.              *)
(***************************************************************************)
EXTENDS Integers, FiniteSets

CONSTANTS
    Job,            \* bound: the requests that are made
    ClientOf,       \* the address a request comes from
    QueueCap,       \* per_client_queue_cap
    JobPermits,     \* permits of job_semaphore
    ColdPermits     \* permits of cold_semaphore

ASSUME JobAssumption ==
    /\ IsFiniteSet(Job) /\ DOMAIN ClientOf = Job
    /\ QueueCap \in Nat \ {0} /\ JobPermits \in Nat \ {0} /\ ColdPermits \in Nat \ {0}

VARIABLES
    entry,          \* job_store: the entry's state, or "absent"
    admitted,       \* requests past the cap check and not inserted yet
    token,          \* jobs whose CancellationToken is cancelled
    task,           \* where the job's background task is
    verdict,        \* new_state, "none" until it is known
    scan,           \* the task stream_query spawns
    coldScan,       \* jobs whose scan holds a cold permit
    writing,        \* jobs whose result file a blocking thread is writing
    written,        \* jobs whose result file is complete
    jobFree,        \* permits left in job_semaphore
    coldFree        \* permits left in cold_semaphore

storeVars == <<entry, admitted, token>>
scanVars == <<scan, coldScan>>
fileVars == <<writing, written>>
permits == <<jobFree, coldFree>>
vars == <<storeVars, task, verdict, scanVars, fileVars, permits>>

\* "marked": Running is set and the second select! not polled yet.
\* "planning": stream_query before it knows its files; "coldWait": waiting
\* for a cold permit; "registering", "coldRegistering": up to the spawn of
\* the scan, the latter with a cold permit; then run_job gathers the rows
\* and stores them.
Querying == {"planning", "coldWait", "registering", "coldRegistering",
             "collecting", "storing"}
HoldsPermit == {"permitted", "marked", "deciding"} \cup Querying
Final == {"complete", "failed", "cancelled"}

-----------------------------------------------------------------------------
(* Helpers *)

\* Slips of the code that the properties must notice.
ReleasedTwice(n) == n + 2
ReleaseForgotten(n) == n
DroppedAtOnce(n) == n
AnyTime(j) == TRUE
StillWriting(j) == j \in writing \cup written
NeverDropped(j) == FALSE

\* Binding an OwnedSemaphorePermit, and dropping it.
Taken(n) == n - 1
Released(n) == n + 1

\* Queued jobs of the client that makes request j.
QueuedBeside(j) == {k \in Job : entry[k] = "queued" /\ ClientOf[k] = ClientOf[j]}

\* biased; cancel.cancelled() is polled before run_job.
NotCancelled(j) == j \notin token

\* tokio::fs::write has returned.
RowsStored(j) == j \in written

\* The future of run_job owns a cold permit until it hands it to the scan.
OwnsColdPermit(j) == task[j] = "coldRegistering"

\* matches!(entry.state, JobState::Cancelled)
DeletedMeanwhile(j) == entry[j] = "cancelled"

\* JobState::Queued | JobState::Running
Deletable(j) == entry[j] \in {"queued", "running"}

\* The inner select! is over with v; whatever run_job still held is dropped.
Decide(j, v) ==
    /\ task' = [task EXCEPT ![j] = "deciding"]
    /\ verdict' = [verdict EXCEPT ![j] = v]
    /\ coldFree' = IF OwnsColdPermit(j) THEN Released(coldFree) ELSE coldFree
    /\ UNCHANGED <<storeVars, scanVars, fileVars, jobFree>>

-----------------------------------------------------------------------------
Init ==
    /\ entry = [j \in Job |-> "absent"] /\ admitted = {} /\ token = {}
    /\ task = [j \in Job |-> "none"] /\ verdict = [j \in Job |-> "none"]
    /\ scan = [j \in Job |-> "none"] /\ coldScan = {}
    /\ writing = {} /\ written = {}
    /\ jobFree = JobPermits /\ coldFree = ColdPermits

-----------------------------------------------------------------------------
(* submit_job_handler *)

\* The cap check, under the first lock. A request over the cap gets 429 and
\* changes nothing.
SubmitCheck(j) ==
    /\ entry[j] = "absent" /\ j \notin admitted
    /\ Cardinality(QueuedBeside(j)) < QueueCap
    /\ admitted' = admitted \cup {j}
    /\ UNCHANGED <<entry, token, task, verdict, scanVars, fileVars, permits>>

\* The insert, under the second lock, and the spawn.
SubmitInsert(j) ==
    /\ j \in admitted
    /\ admitted' = admitted \ {j}
    /\ entry' = [entry EXCEPT ![j] = "queued"]
    /\ task' = [task EXCEPT ![j] = "waiting"]
    /\ UNCHANGED <<token, verdict, scanVars, fileVars, permits>>

-----------------------------------------------------------------------------
(* The background task *)

AcquirePermit(j) ==
    /\ task[j] = "waiting" /\ NotCancelled(j) /\ jobFree > 0
    /\ jobFree' = Taken(jobFree)
    /\ task' = [task EXCEPT ![j] = "permitted"]
    /\ UNCHANGED <<storeVars, verdict, scanVars, fileVars, coldFree>>

CancelledWhileQueued(j) ==
    /\ task[j] = "waiting" /\ j \in token
    /\ task' = [task EXCEPT ![j] = "done"]
    /\ UNCHANGED <<storeVars, verdict, scanVars, fileVars, permits>>

\* Running is set whatever the entry is, a cancellation included.
MarkRunning(j) ==
    /\ task[j] = "permitted"
    /\ entry' = [entry EXCEPT ![j] = "running"]
    /\ task' = [task EXCEPT ![j] = "marked"]
    /\ UNCHANGED <<admitted, token, verdict, scanVars, fileVars, permits>>

\* run_job is polled for the first time.
StartQuery(j) ==
    /\ task[j] = "marked" /\ NotCancelled(j)
    /\ task' = [task EXCEPT ![j] = "planning"]
    /\ UNCHANGED <<storeVars, verdict, scanVars, fileVars, permits>>

\* stream_query has read the manifest: it scans no file, hot files only, or
\* cold files too.
PlanNothing(j) ==
    /\ task[j] = "planning"
    /\ task' = [task EXCEPT ![j] = "storing"]
    /\ writing' = writing \cup {j}
    /\ UNCHANGED <<storeVars, verdict, scanVars, written, permits>>

PlanScan(j, cold) ==
    /\ task[j] = "planning"
    /\ task' = [task EXCEPT ![j] = IF cold THEN "coldWait" ELSE "registering"]
    /\ UNCHANGED <<storeVars, verdict, scanVars, fileVars, permits>>

AcquireCold(j) ==
    /\ task[j] = "coldWait" /\ coldFree > 0
    /\ coldFree' = Taken(coldFree)
    /\ task' = [task EXCEPT ![j] = "coldRegistering"]
    /\ UNCHANGED <<storeVars, verdict, scanVars, fileVars, jobFree>>

\* The scan is spawned; the cold permit moves into it.
SpawnScan(j) ==
    /\ task[j] \in {"registering", "coldRegistering"}
    /\ scan' = [scan EXCEPT ![j] = "open"]
    /\ coldScan' = IF OwnsColdPermit(j) THEN coldScan \cup {j} ELSE coldScan
    /\ task' = [task EXCEPT ![j] = "collecting"]
    /\ UNCHANGED <<storeVars, verdict, fileVars, permits>>

\* All rows are in memory; the file write goes to a blocking thread.
Collect(j) ==
    /\ task[j] = "collecting" /\ scan[j] = "ended"
    /\ task' = [task EXCEPT ![j] = "storing"]
    /\ writing' = writing \cup {j}
    /\ UNCHANGED <<storeVars, verdict, scanVars, written, permits>>

RunOk(j) ==
    /\ task[j] = "storing" /\ RowsStored(j)
    /\ Decide(j, "complete")

RunFail(j) ==
    /\ \/ task[j] \in {"planning", "registering", "coldRegistering"}
       \/ task[j] = "collecting" /\ scan[j] = "failed"
       \/ task[j] = "storing" /\ j \notin writing \cup written
    /\ Decide(j, "failed")

Timeout(j) ==
    /\ task[j] \in Querying
    /\ Decide(j, "failed")

CancelSeen(j) ==
    /\ task[j] \in Querying \cup {"marked"} /\ j \in token
    /\ Decide(j, "cancelled")

\* The verdict is stored unless DELETE was faster; the task ends and with it
\* its permit.
WriteBack(j) ==
    /\ task[j] = "deciding"
    /\ entry' = IF DeletedMeanwhile(j) THEN entry
                ELSE [entry EXCEPT ![j] = verdict[j]]
    /\ task' = [task EXCEPT ![j] = "done"]
    /\ jobFree' = Released(jobFree)
    /\ UNCHANGED <<admitted, token, verdict, scanVars, fileVars, coldFree>>

-----------------------------------------------------------------------------
(* What outlives the task: the scan and the blocking write *)

\* The scan reads on until its input ends or fails, whether or not anyone
\* receives its rows.
ScanEnd(j, ok) ==
    /\ scan[j] = "open"
    /\ scan' = [scan EXCEPT ![j] = IF ok THEN "ended" ELSE "failed"]
    /\ coldScan' = coldScan \ {j}
    /\ coldFree' = IF j \in coldScan THEN Released(coldFree) ELSE coldFree
    /\ UNCHANGED <<storeVars, task, verdict, fileVars, jobFree>>

FileWrite(j, ok) ==
    /\ j \in writing
    /\ writing' = writing \ {j}
    /\ written' = IF ok THEN written \cup {j} ELSE written
    /\ UNCHANGED <<storeVars, task, verdict, scanVars, permits>>

-----------------------------------------------------------------------------
\* delete_job_handler, under one lock: 204 for a job that is queued or
\* running, 404 or 409 and no change otherwise.
Delete(j) ==
    /\ Deletable(j)
    /\ token' = token \cup {j}
    /\ entry' = [entry EXCEPT ![j] = "cancelled"]
    /\ UNCHANGED <<admitted, task, verdict, scanVars, fileVars, permits>>

-----------------------------------------------------------------------------
TaskStep(j) ==
    \/ CancelledWhileQueued(j) \/ MarkRunning(j) \/ StartQuery(j)
    \/ PlanNothing(j) \/ \E cold \in BOOLEAN : PlanScan(j, cold)
    \/ SpawnScan(j) \/ Collect(j) \/ RunOk(j) \/ RunFail(j)
    \/ CancelSeen(j) \/ WriteBack(j)

Step(j) ==
    \/ SubmitCheck(j) \/ SubmitInsert(j) \/ Delete(j)
    \/ AcquirePermit(j) \/ AcquireCold(j) \/ Timeout(j) \/ TaskStep(j)
    \/ \E ok \in BOOLEAN : ScanEnd(j, ok) \/ FileWrite(j, ok)

Next == \E j \in Job : Step(j)

Spec == Init /\ [][Next]_vars

\* The runtime polls a task that is ready and the timer of tokio's timeout
\* fires (WF); the semaphore is FIFO, so a waiter is not overtaken for ever
\* (SF). Nothing is assumed of scans, of file writes or of clients.
Fairness ==
    \A j \in Job :
        WF_vars(TaskStep(j)) /\ WF_vars(Timeout(j)) /\ SF_vars(AcquirePermit(j))

FairSpec == Spec /\ Fairness

-----------------------------------------------------------------------------
(* Properties *)

TypeOK ==
    /\ entry \in [Job -> {"absent", "queued", "running"} \cup Final]
    /\ admitted \subseteq Job /\ token \subseteq Job
    /\ task \in [Job -> {"none", "waiting", "done"} \cup HoldsPermit]
    /\ verdict \in [Job -> {"none"} \cup Final]
    /\ scan \in [Job -> {"none", "open", "ended", "failed"}]
    /\ coldScan \subseteq Job
    /\ writing \subseteq Job /\ written \subseteq Job
    /\ jobFree \in 0 .. JobPermits /\ coldFree \in 0 .. ColdPermits

\* A job whose DELETE was answered 204 ends Cancelled, wherever its task was
\* when the token was cancelled: the unconditional Running of a task that
\* has just got its permit, a query that completes or times out while DELETE
\* runs, and the write-back notwithstanding.
CancelSticks ==
    \A j \in token : task[j] = "done" => entry[j] = "cancelled"

\* A job that is seen Complete has all its rows on disk: GET /jobs/{id} reads
\* the file after it has released the lock, and maps any error to no rows.
CompleteHasRows ==
    \A j \in Job : entry[j] = "complete" =>
        j \in written \ writing /\ scan[j] \in {"none", "ended"}

\* No path through cancellation, timeout and failure loses or duplicates a
\* permit of either semaphore: what is not free is held by a task that still
\* runs, or by a scan that outlives its job.
PermitsConserved ==
    /\ jobFree + Cardinality({j \in Job : task[j] \in HoldsPermit}) = JobPermits
    /\ coldFree + Cardinality(coldScan)
                + Cardinality({j \in Job : task[j] = "coldRegistering"}) = ColdPermits

\* A job that is Complete or Failed stays so: no late write-back, timeout or
\* DELETE changes what a client has seen.
OutcomeIsFinal ==
    [][\A j \in Job : entry[j] \in {"complete", "failed"} => entry'[j] = entry[j]]_vars

\* Every job that is accepted reaches a final state and stays there, even if
\* its scan or its file write never ends: the timeout frees its permit.
EveryJobSettles ==
    \A j \in Job :
        task[j] = "waiting" ~> task[j] = "done" /\ entry[j] \in Final

\* The queue implements JobService, if a cancelled job counts as cancelled
\* from its DELETE on: its entry may say Running once more, for the moment
\* between the permit and the select! that notices the token.
Status == [j \in Job |-> IF j \in token THEN "cancelled" ELSE entry[j]]

Service == INSTANCE JobService WITH status <- Status, Limit <- JobPermits

ImplementsService == Service!Spec

=============================================================================
