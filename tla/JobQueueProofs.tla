--------------------------- MODULE JobQueueProofs ---------------------------
(***************************************************************************)
(* What a job's entry shows to clients, proved for any number of jobs,     *)
(* clients and permits: a cancellation sticks, a complete job has its      *)
(* rows, and an outcome is final; that every permit is free or held by a   *)
(* task or a scan; and that the queue implements JobService.               *)
(*                                                                         *)
(* The first three are not inductive. JobInv says, for every place the     *)
(* background task may be in, what the entry, the token, the verdict, the  *)
(* scan and the result file can be; each action changes them for one job.  *)
(*                                                                         *)
(* A step is about one job, so it moves at most one permit of each         *)
(* semaphore; JobMove and ColdMove name the ways, and one lemma of each    *)
(* counts. That a permit moves into a scan only when the scan has none     *)
(* rests on JobInv, which knows that a job is scanned once.                *)
(***************************************************************************)
EXTENDS JobQueue, FiniteSetTheorems, TLAPS

JobTypes ==
    /\ entry \in [Job -> {"absent", "queued", "running"} \cup Final]
    /\ task \in [Job -> {"none", "waiting", "done"} \cup HoldsPermit]
    /\ verdict \in [Job -> {"none"} \cup Final]
    /\ scan \in [Job -> {"none", "open", "ended", "failed"}]
    /\ admitted \subseteq Job /\ token \subseteq Job
    /\ writing \subseteq Job /\ written \subseteq Job

\* The entry, given where the task is: Cancelled exactly from the DELETE on,
\* but for a task that has just marked itself Running or is about to store
\* its own verdict.
EntryInv(j) ==
    /\ task[j] = "none" => entry[j] = "absent" /\ j \notin token
    /\ task[j] \in {"waiting", "permitted"} =>
         entry[j] = (IF j \in token THEN "cancelled" ELSE "queued")
    /\ task[j] = "marked" =>
         entry[j] = "running" \/ (entry[j] = "cancelled" /\ j \in token)
    /\ task[j] \in Querying =>
         entry[j] = (IF j \in token THEN "cancelled" ELSE "running")
    /\ task[j] = "deciding" =>
         \/ entry[j] = "running" /\ (j \in token => verdict[j] = "cancelled")
         \/ entry[j] = "cancelled" /\ j \in token
    /\ task[j] = "deciding" => verdict[j] \in Final
    /\ task[j] = "done" => entry[j] \in Final
    /\ task[j] = "done" /\ j \in token => entry[j] = "cancelled"
    /\ j \in admitted => task[j] = "none"

\* The scan and the result file, given where the task is.
RowsInv(j) ==
    /\ task[j] \notin {"storing", "deciding", "done"} => j \notin writing \cup written
    /\ j \notin writing \cap written
    /\ task[j] \notin {"collecting", "storing", "deciding", "done"} => scan[j] = "none"
    /\ task[j] = "storing" => scan[j] \in {"none", "ended"}
    /\ task[j] = "deciding" /\ verdict[j] = "complete" =>
         j \in written /\ scan[j] \in {"none", "ended"}
    /\ entry[j] = "complete" =>
         task[j] = "done" /\ j \in written /\ scan[j] \in {"none", "ended"}

JobInv == JobTypes /\ \A j \in Job : EntryInv(j) /\ RowsInv(j)

-----------------------------------------------------------------------------
LEMMA JobInit == Init => JobInv
  BY DEF Init, JobInv, JobTypes, EntryInv, RowsInv, Final, HoldsPermit, Querying

\* Every action is about one job j and leaves the other jobs' parts alone,
\* so it is enough to look at the types, at j, and at any other job k.
LEMMA JobStep == JobInv /\ [Next]_vars => JobInv'
<1> SUFFICES ASSUME JobInv, [Next]_vars PROVE JobInv'
  OBVIOUS
<1> USE DEF JobInv, JobTypes, EntryInv, RowsInv, Final, HoldsPermit, Querying
<1>1. CASE UNCHANGED vars
  BY <1>1 DEF vars, storeVars, scanVars, fileVars, permits
<1>2. ASSUME NEW j \in Job, Step(j) PROVE JobInv'
  <2>1. CASE SubmitCheck(j)
    BY <2>1 DEF SubmitCheck, scanVars, fileVars, permits
  <2>2. CASE SubmitInsert(j)
    BY <2>2 DEF SubmitInsert, scanVars, fileVars, permits
  <2>3. CASE Delete(j)
    BY <2>3 DEF Delete, Deletable, scanVars, fileVars, permits
  <2>4. CASE AcquirePermit(j)
    BY <2>4 DEF AcquirePermit, NotCancelled, storeVars, scanVars, fileVars
  <2>5. CASE AcquireCold(j)
    BY <2>5 DEF AcquireCold, storeVars, scanVars, fileVars
  <2>6. CASE Timeout(j)
    BY <2>6 DEF Timeout, Decide, storeVars, scanVars, fileVars
  <2>7. CASE TaskStep(j)
    <3>1. CASE CancelledWhileQueued(j)
      BY <3>1 DEF CancelledWhileQueued, storeVars, scanVars, fileVars, permits
    <3>2. CASE MarkRunning(j)
      BY <3>2 DEF MarkRunning, scanVars, fileVars, permits
    <3>3. CASE StartQuery(j)
      BY <3>3 DEF StartQuery, NotCancelled, storeVars, scanVars, fileVars, permits
    <3>4. CASE PlanNothing(j)
      BY <3>4 DEF PlanNothing, storeVars, scanVars, permits
    <3>5. ASSUME NEW cold \in BOOLEAN, PlanScan(j, cold) PROVE JobInv'
      BY <3>5 DEF PlanScan, storeVars, scanVars, fileVars, permits
    <3>6. CASE SpawnScan(j)
      BY <3>6 DEF SpawnScan, storeVars, fileVars, permits
    <3>7. CASE Collect(j)
      BY <3>7 DEF Collect, storeVars, scanVars, permits
    <3>8. CASE RunOk(j)
      BY <3>8 DEF RunOk, RowsStored, Decide, storeVars, scanVars, fileVars
    <3>9. CASE RunFail(j)
      BY <3>9 DEF RunFail, Decide, storeVars, scanVars, fileVars
    <3>10. CASE CancelSeen(j)
      BY <3>10 DEF CancelSeen, Decide, storeVars, scanVars, fileVars
    <3>11. CASE WriteBack(j)
      BY <3>11 DEF WriteBack, DeletedMeanwhile, scanVars, fileVars
    <3>12. QED
      BY <2>7, <3>1, <3>2, <3>3, <3>4, <3>5, <3>6, <3>7, <3>8, <3>9, <3>10,
         <3>11 DEF TaskStep
  <2>8. ASSUME NEW ok \in BOOLEAN, ScanEnd(j, ok) PROVE JobInv'
    BY <2>8 DEF ScanEnd, storeVars, fileVars
  <2>9. ASSUME NEW ok \in BOOLEAN, FileWrite(j, ok) PROVE JobInv'
    BY <2>9 DEF FileWrite, storeVars, scanVars, permits
  <2>10. QED
    BY <1>2, <2>1, <2>2, <2>3, <2>4, <2>5, <2>6, <2>7, <2>8, <2>9 DEF Step
<1>3. QED
  BY <1>1, <1>2 DEF Next

LEMMA JobInvariance == Spec => []JobInv
  BY JobInit, JobStep, PTL DEF Spec

-----------------------------------------------------------------------------
\* A job whose DELETE was answered 204 ends Cancelled, for every interleaving
\* of DELETE with the steps of its task.
THEOREM CancellationSticks == Spec => []CancelSticks
<1>1. JobInv => CancelSticks
  BY DEF JobInv, JobTypes, EntryInv, CancelSticks
<1>2. QED
  BY <1>1, JobInvariance, PTL

\* A job that is seen Complete has a complete result file of a scan that came
\* to its end.
THEOREM CompletionHasRows == Spec => []CompleteHasRows
<1>1. JobInv => CompleteHasRows
  BY DEF JobInv, JobTypes, RowsInv, CompleteHasRows
<1>2. QED
  BY <1>1, JobInvariance, PTL

\* Complete and Failed are final: only tasks that have ended show them, and
\* DELETE refuses them.
THEOREM OutcomesAreFinal == Spec => OutcomeIsFinal
<1>1. ASSUME JobInv, [Next]_vars
      PROVE [\A j \in Job : entry[j] \in {"complete", "failed"}
                              => entry'[j] = entry[j]]_vars
  <2> SUFFICES ASSUME NEW i \in Job, Step(i), NEW k \in Job,
                      entry[k] \in {"complete", "failed"}
               PROVE entry'[k] = entry[k]
    BY <1>1 DEF Next
  <2>1. task[k] = "done" \/ UNCHANGED entry
    BY <1>1 DEF JobInv, JobTypes, EntryInv, Final, HoldsPermit
  <2>2. QED
    BY <1>1, <2>1 DEF JobInv, JobTypes, EntryInv, Step, TaskStep, SubmitCheck,
       SubmitInsert, Delete, Deletable, AcquirePermit, AcquireCold, Timeout,
       CancelledWhileQueued, MarkRunning, StartQuery, PlanNothing, PlanScan,
       SpawnScan, Collect, RunOk, RunFail, CancelSeen, WriteBack, ScanEnd,
       FileWrite, Decide, storeVars
<1>2. QED
  BY <1>1, JobInvariance, PTL DEF Spec, OutcomeIsFinal

-----------------------------------------------------------------------------
(* Permits *)

\* Who holds a permit of job_semaphore, and who owns one of cold_semaphore
\* that has not been handed to a scan.
Holders == {j \in Job : task[j] \in HoldsPermit}
Owners == {j \in Job : task[j] = "coldRegistering"}

PermitInv ==
    /\ jobFree \in 0 .. JobPermits /\ coldFree \in 0 .. ColdPermits
    /\ coldScan \subseteq Job
    /\ \A j \in coldScan : scan[j] = "open"
    /\ PermitsConserved

\* What a step of job j does with the permits of job_semaphore: nothing,
\* take one, or give one back.
JobMove(j) ==
    \/ jobFree' = jobFree /\ Holders' = Holders
    \/ /\ jobFree > 0 /\ jobFree' = jobFree - 1
       /\ j \notin Holders /\ Holders' = Holders \cup {j}
    \/ /\ jobFree' = jobFree + 1
       /\ j \in Holders /\ Holders' = Holders \ {j}

\* The same for cold_semaphore, where a permit may also move from the task
\* to its scan, and either may give it back.
ColdMove(j) ==
    \/ coldFree' = coldFree /\ coldScan' = coldScan /\ Owners' = Owners
    \/ /\ coldFree > 0 /\ coldFree' = coldFree - 1 /\ coldScan' = coldScan
       /\ j \notin Owners /\ Owners' = Owners \cup {j}
    \/ /\ coldFree' = coldFree /\ j \in Owners \ coldScan
       /\ coldScan' = coldScan \cup {j} /\ Owners' = Owners \ {j}
    \/ /\ coldFree' = coldFree + 1 /\ coldScan' = coldScan
       /\ j \in Owners /\ Owners' = Owners \ {j}
    \/ /\ coldFree' = coldFree + 1 /\ Owners' = Owners
       /\ j \in coldScan /\ coldScan' = coldScan \ {j}

-----------------------------------------------------------------------------
\* Cardinality of a set of jobs, one job more and one job less.
LEMMA JobsCounted ==
    ASSUME NEW S \in SUBSET Job
    PROVE /\ Cardinality(S) \in Nat
          /\ \A j \in Job \ S : Cardinality(S \cup {j}) = Cardinality(S) + 1
          /\ \A j \in S : Cardinality(S \ {j}) = Cardinality(S) - 1
<1>1. IsFiniteSet(S)
  BY JobAssumption, FS_Subset
<1>2. QED
  BY <1>1, FS_CardinalityType, FS_AddElement, FS_RemoveElement

\* Conservation of the job permits survives every move.
LEMMA JobMoveConserves ==
    ASSUME NEW j \in Job, JobMove(j), jobFree \in 0 .. JobPermits,
           jobFree + Cardinality(Holders) = JobPermits
    PROVE /\ jobFree' \in 0 .. JobPermits
          /\ jobFree' + Cardinality(Holders') = JobPermits
<1>1. Holders \in SUBSET Job /\ Holders' \in SUBSET Job
  BY DEF Holders
<1>2. Cardinality(Holders) \in Nat /\ Cardinality(Holders') \in Nat
  BY <1>1, JobsCounted
<1>3. JobPermits \in Nat
  BY JobAssumption
<1>4. CASE jobFree' = jobFree /\ Holders' = Holders
  BY <1>4
<1>5. CASE /\ jobFree > 0 /\ jobFree' = jobFree - 1
           /\ j \notin Holders /\ Holders' = Holders \cup {j}
  <2>1. Cardinality(Holders') = Cardinality(Holders) + 1
    BY <1>1, <1>5, JobsCounted
  <2>2. QED
    BY <1>2, <1>3, <1>5, <2>1
<1>6. CASE jobFree' = jobFree + 1 /\ j \in Holders /\ Holders' = Holders \ {j}
  <2>1. Cardinality(Holders') = Cardinality(Holders) - 1
    BY <1>1, <1>6, JobsCounted
  <2>2. QED
    BY <1>2, <1>3, <1>6, <2>1
<1>7. QED
  BY <1>4, <1>5, <1>6 DEF JobMove

\* Conservation of the cold permits survives every move.
LEMMA ColdMoveConserves ==
    ASSUME NEW j \in Job, ColdMove(j), coldFree \in 0 .. ColdPermits,
           coldScan \subseteq Job,
           coldFree + Cardinality(coldScan) + Cardinality(Owners) = ColdPermits
    PROVE /\ coldFree' \in 0 .. ColdPermits
          /\ coldFree' + Cardinality(coldScan') + Cardinality(Owners') = ColdPermits
<1>1. /\ Owners \in SUBSET Job /\ Owners' \in SUBSET Job
      /\ coldScan \in SUBSET Job /\ coldScan' \in SUBSET Job
  BY DEF Owners, ColdMove
<1>2. /\ Cardinality(Owners) \in Nat /\ Cardinality(Owners') \in Nat
      /\ Cardinality(coldScan) \in Nat /\ Cardinality(coldScan') \in Nat
  BY <1>1, JobsCounted
<1>3. ColdPermits \in Nat
  BY JobAssumption
<1>4. CASE coldFree' = coldFree /\ coldScan' = coldScan /\ Owners' = Owners
  BY <1>4
<1>5. CASE /\ coldFree > 0 /\ coldFree' = coldFree - 1 /\ coldScan' = coldScan
           /\ j \notin Owners /\ Owners' = Owners \cup {j}
  <2>1. Cardinality(Owners') = Cardinality(Owners) + 1
    BY <1>1, <1>5, JobsCounted
  <2>2. QED
    BY <1>2, <1>3, <1>5, <2>1
<1>6. CASE /\ coldFree' = coldFree /\ j \in Owners \ coldScan
           /\ coldScan' = coldScan \cup {j} /\ Owners' = Owners \ {j}
  <2>1. /\ Cardinality(Owners') = Cardinality(Owners) - 1
        /\ Cardinality(coldScan') = Cardinality(coldScan) + 1
    BY <1>1, <1>6, JobsCounted
  <2>2. QED
    BY <1>2, <1>3, <1>6, <2>1
<1>7. CASE /\ coldFree' = coldFree + 1 /\ coldScan' = coldScan
           /\ j \in Owners /\ Owners' = Owners \ {j}
  <2>1. Cardinality(Owners') = Cardinality(Owners) - 1
    BY <1>1, <1>7, JobsCounted
  <2>2. QED
    BY <1>2, <1>3, <1>7, <2>1
<1>8. CASE /\ coldFree' = coldFree + 1 /\ Owners' = Owners
           /\ j \in coldScan /\ coldScan' = coldScan \ {j}
  <2>1. Cardinality(coldScan') = Cardinality(coldScan) - 1
    BY <1>1, <1>8, JobsCounted
  <2>2. QED
    BY <1>2, <1>3, <1>8, <2>1
<1>9. QED
  BY <1>4, <1>5, <1>6, <1>7, <1>8 DEF ColdMove

-----------------------------------------------------------------------------
LEMMA PermitInit == Init => PermitInv
<1> SUFFICES ASSUME Init PROVE PermitInv
  OBVIOUS
<1>1. Holders = {} /\ Owners = {} /\ coldScan = {}
  BY DEF Init, Holders, Owners, HoldsPermit, Querying
<1>2. Cardinality({}) = 0
  BY FS_EmptySet
<1>3. QED
  BY <1>1, <1>2, JobAssumption DEF Init, PermitInv, PermitsConserved, Holders, Owners

\* Every action moves permits in one of the named ways.
LEMMA StepMoves ==
    ASSUME JobInv, PermitInv, NEW j \in Job, Step(j)
    PROVE /\ JobMove(j) /\ ColdMove(j)
          /\ \A k \in coldScan' : scan'[k] = "open"
<1> USE DEF JobMove, ColdMove, Holders, Owners, HoldsPermit, Querying,
            PermitInv, JobInv, JobTypes
<1>1. CASE SubmitCheck(j)
  BY <1>1 DEF SubmitCheck, scanVars, permits
<1>2. CASE SubmitInsert(j)
  BY <1>2 DEF SubmitInsert, EntryInv, scanVars, permits
<1>3. CASE Delete(j)
  BY <1>3 DEF Delete, scanVars, permits
<1>4. CASE AcquirePermit(j)
  BY <1>4 DEF AcquirePermit, Taken, scanVars
<1>5. CASE AcquireCold(j)
  BY <1>5 DEF AcquireCold, Taken, scanVars
<1>6. CASE Timeout(j)
  BY <1>6 DEF Timeout, Decide, OwnsColdPermit, Released, scanVars
<1>7. CASE TaskStep(j)
  <2>1. CASE CancelledWhileQueued(j)
    BY <2>1 DEF CancelledWhileQueued, scanVars, permits
  <2>2. CASE MarkRunning(j)
    BY <2>2 DEF MarkRunning, scanVars, permits
  <2>3. CASE StartQuery(j)
    BY <2>3 DEF StartQuery, scanVars, permits
  <2>4. CASE PlanNothing(j)
    BY <2>4 DEF PlanNothing, scanVars, permits
  <2>5. ASSUME NEW cold \in BOOLEAN, PlanScan(j, cold)
        PROVE /\ JobMove(j) /\ ColdMove(j)
              /\ \A k \in coldScan' : scan'[k] = "open"
    BY <2>5 DEF PlanScan, scanVars, permits
  <2>6. CASE SpawnScan(j)
    BY <2>6 DEF SpawnScan, OwnsColdPermit, RowsInv, permits
  <2>7. CASE Collect(j)
    BY <2>7 DEF Collect, scanVars, permits
  <2>8. CASE RunOk(j)
    BY <2>8 DEF RunOk, Decide, OwnsColdPermit, Released, scanVars
  <2>9. CASE RunFail(j)
    BY <2>9 DEF RunFail, Decide, OwnsColdPermit, Released, scanVars
  <2>10. CASE CancelSeen(j)
    BY <2>10 DEF CancelSeen, Decide, OwnsColdPermit, Released, scanVars
  <2>11. CASE WriteBack(j)
    BY <2>11 DEF WriteBack, Released, scanVars
  <2>12. QED
    BY <1>7, <2>1, <2>2, <2>3, <2>4, <2>5, <2>6, <2>7, <2>8, <2>9, <2>10,
       <2>11 DEF TaskStep
<1>8. ASSUME NEW ok \in BOOLEAN, ScanEnd(j, ok)
      PROVE /\ JobMove(j) /\ ColdMove(j)
            /\ \A k \in coldScan' : scan'[k] = "open"
  BY <1>8 DEF ScanEnd, Released
<1>9. ASSUME NEW ok \in BOOLEAN, FileWrite(j, ok)
      PROVE /\ JobMove(j) /\ ColdMove(j)
            /\ \A k \in coldScan' : scan'[k] = "open"
  BY <1>9 DEF FileWrite, scanVars, permits
<1>10. QED
  BY <1>1, <1>2, <1>3, <1>4, <1>5, <1>6, <1>7, <1>8, <1>9 DEF Step

LEMMA PermitStep == JobInv /\ PermitInv /\ [Next]_vars => PermitInv'
<1> SUFFICES ASSUME JobInv, PermitInv, [Next]_vars PROVE PermitInv'
  OBVIOUS
<1>1. CASE UNCHANGED vars
  BY <1>1 DEF vars, PermitInv, PermitsConserved, scanVars, permits
<1>2. ASSUME NEW j \in Job, Step(j) PROVE PermitInv'
  <2>1. /\ JobMove(j) /\ ColdMove(j)
        /\ \A k \in coldScan' : scan'[k] = "open"
    BY <1>2, StepMoves
  <2>2. coldScan \subseteq Job /\ coldScan' \subseteq Job
    BY <2>1 DEF PermitInv, ColdMove
  <2>3. /\ jobFree' \in 0 .. JobPermits
        /\ jobFree' + Cardinality(Holders') = JobPermits
    BY <2>1, JobMoveConserves DEF PermitInv, PermitsConserved, Holders
  <2>4. /\ coldFree' \in 0 .. ColdPermits
        /\ coldFree' + Cardinality(coldScan') + Cardinality(Owners') = ColdPermits
    BY <2>1, <2>2, ColdMoveConserves DEF PermitInv, PermitsConserved, Owners
  <2>5. QED
    BY <2>1, <2>2, <2>3, <2>4 DEF PermitInv, PermitsConserved, Holders, Owners
<1>3. QED
  BY <1>1, <1>2 DEF Next

LEMMA PermitInvariance == Spec => [](JobInv /\ PermitInv)
  BY JobInvariance, PermitInit, PermitStep, PTL DEF Spec

-----------------------------------------------------------------------------
\* Every variable of the job queue has its type; of the permit counters that
\* says that neither ever leaves its range.
THEOREM TypeCorrect == Spec => []TypeOK
<1>1. JobInv /\ PermitInv => TypeOK
  BY DEF JobInv, JobTypes, PermitInv, TypeOK
<1>2. QED
  BY <1>1, PermitInvariance, PTL

\* No interleaving of cancellation, timeout, failure and scans that outlive
\* their jobs loses or duplicates a permit of either semaphore.
THEOREM PermitsAreConserved == Spec => []PermitsConserved
<1>1. PermitInv => PermitsConserved
  BY DEF PermitInv
<1>2. QED
  BY <1>1, PermitInvariance, PTL

-----------------------------------------------------------------------------
\* The jobs that run, as their clients see it, hold permits, all of them and
\* not only on the way through a step.
LEMMA RunningHold ==
    ASSUME JobInv, PermitInv, NEW j \in Job, task[j] = "permitted"
    PROVE j \notin token => Cardinality(Service!Running) < JobPermits
<1> SUFFICES ASSUME j \notin token PROVE Cardinality(Service!Running) < JobPermits
  OBVIOUS
<1>1. Service!Running \subseteq Holders \ {j}
  BY DEF JobInv, JobTypes, EntryInv, Service!Running, Status, Holders, HoldsPermit,
     Querying, Final
<1>2. Holders \in SUBSET Job /\ j \in Holders /\ IsFiniteSet(Holders \ {j})
  BY JobAssumption, FS_Subset DEF Holders, HoldsPermit
<1>3. Cardinality(Service!Running) <= Cardinality(Holders \ {j})
  BY <1>1, <1>2, FS_Subset
<1>4. Cardinality(Holders \ {j}) = Cardinality(Holders) - 1 /\ Cardinality(Holders) \in Nat
  BY <1>2, JobsCounted
<1>5. Cardinality(Holders) <= JobPermits
  BY <1>4, JobAssumption DEF PermitInv, PermitsConserved, Holders
<1>6. Cardinality(Service!Running) \in Nat
  BY <1>1, <1>2, FS_Subset, FS_CardinalityType
<1>7. QED
  BY <1>3, <1>4, <1>5, <1>6, JobAssumption

\* What job k shows after a step that makes job j show s.
Shows(k) == IF k \in token THEN "cancelled" ELSE entry[k]

LEMMA BecomesShown ==
    ASSUME NEW j \in Job, NEW s,
           \A k \in Job : Shows(k)' = IF k = j THEN s ELSE Shows(k)
    PROVE Service!Become(j, s)
<1>1. DOMAIN Status = Job /\ DOMAIN Status' = Job
  BY DEF Status
<1>2. \A k \in Job : Status'[k] = [Status EXCEPT ![j] = s][k]
  BY DEF Status, Shows
<1>3. Status' = [k \in Job |-> Status'[k]]
  BY DEF Status
<1>4. [Status EXCEPT ![j] = s] = [k \in Job |-> [Status EXCEPT ![j] = s][k]]
  BY DEF Status
<1>5. QED
  BY <1>2, <1>3, <1>4 DEF Service!Become

\* Each step of one job is a step of the service for that job, or none.
LEMMA StepImplements ==
    ASSUME JobInv, JobInv', PermitInv, NEW j \in Job, Step(j)
    PROVE Service!Next \/ UNCHANGED Status
<1> USE DEF JobInv, JobTypes, EntryInv, Final, HoldsPermit, Querying
<1>1. CASE SubmitInsert(j)
  <2>1. Status[j] = "absent"
    BY <1>1 DEF SubmitInsert, Status
  <2>2. Service!Become(j, "queued")
    BY <1>1, BecomesShown DEF SubmitInsert, Shows
  <2>3. QED
    BY <2>1, <2>2 DEF Service!Submit, Service!Next
<1>2. CASE Delete(j)
  <2>1. CASE j \in token
    BY <1>2, <2>1 DEF Delete, Status
  <2>2. CASE j \notin token
    <3>1. Status[j] \in {"queued", "running"}
      BY <1>2, <2>2 DEF Delete, Deletable, Status
    <3>2. Service!Become(j, "cancelled")
      BY <1>2, BecomesShown DEF Delete, Shows
    <3>3. QED
      BY <3>1, <3>2 DEF Service!Cancel, Service!Next
  <2>3. QED
    BY <2>1, <2>2
<1>3. CASE MarkRunning(j)
  <2>1. CASE j \in token
    BY <1>3, <2>1 DEF MarkRunning, Status
  <2>2. CASE j \notin token
    <3>1. Cardinality(Service!Running) < JobPermits
      BY <1>3, <2>2, RunningHold DEF MarkRunning
    <3>2. Status[j] = "queued"
      BY <1>3, <2>2 DEF MarkRunning, Status
    <3>3. Service!Become(j, "running")
      BY <1>3, <2>2, BecomesShown DEF MarkRunning, Shows
    <3>4. QED
      BY <3>1, <3>2, <3>3 DEF Service!Start, Service!Next, Service!Cardinality, Cardinality,
         Service!IsFiniteSet, IsFiniteSet
  <2>3. QED
    BY <2>1, <2>2
<1>4. CASE WriteBack(j)
  <2>1. CASE j \in token
    BY <1>4, <2>1 DEF WriteBack, Status
  <2>2. CASE j \notin token
    <3>1. Status[j] = "running" /\ verdict[j] \in {"complete", "failed", "cancelled"}
      BY <1>4, <2>2 DEF WriteBack, Status
    <3>2. ASSUME NEW s, verdict[j] = s PROVE Service!Become(j, s)
      BY <1>4, <2>2, <3>2, BecomesShown DEF WriteBack, DeletedMeanwhile, Shows
    <3>3. CASE verdict[j] = "cancelled"
      BY <3>1, <3>2, <3>3 DEF Service!Cancel, Service!Next
    <3>4. CASE verdict[j] \in {"complete", "failed"}
      BY <3>1, <3>2, <3>4 DEF Service!Finish, Service!Next
    <3>5. QED
      BY <3>1, <3>3, <3>4
  <2>3. QED
    BY <2>1, <2>2
<1>5. CASE UNCHANGED <<entry, token>>
  BY <1>5 DEF Status
<1>6. QED
  BY <1>1, <1>2, <1>3, <1>4, <1>5 DEF Step, TaskStep, SubmitCheck, AcquirePermit,
     AcquireCold, Timeout, CancelledWhileQueued, StartQuery, PlanNothing, PlanScan,
     SpawnScan, Collect, RunOk, RunFail, CancelSeen, ScanEnd, FileWrite, Decide,
     storeVars

\* The job queue implements the abstract service: for any number of jobs and
\* permits, no more than JobPermits run, a cancellation is final from its
\* DELETE on, and a job ends once.
THEOREM QueueImplementsService == Spec => ImplementsService
<1>1. Init => Service!Init
  BY DEF Init, Service!Init, Status
<1>2. JobInv /\ JobInv' /\ PermitInv /\ [Next]_vars => [Service!Next]_Status
  <2>1. CASE UNCHANGED vars
    BY <2>1 DEF vars, storeVars, Status
  <2>2. ASSUME JobInv, JobInv', PermitInv, Next PROVE Service!Next \/ UNCHANGED Status
    BY <2>2, StepImplements DEF Next
  <2>3. QED
    BY <2>1, <2>2
<1>3. QED
  BY <1>1, <1>2, PermitInvariance, PTL DEF Spec, ImplementsService, Service!Spec

=============================================================================
