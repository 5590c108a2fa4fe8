---------------------------- MODULE JobPageProofs ----------------------------
(***************************************************************************)
(* The page that follows a job, proved for any other jobs, clients and     *)
(* permits beside it. Its steps are steps of the job queue or none of it,  *)
(* so that all that JobQueueProofs shows holds with the page as well; what *)
(* the page shows as an outcome is one, because outcomes are final and the *)
(* page forgets nothing but what it has asked for.                         *)
(***************************************************************************)
EXTENDS JobPage, JobQueueProofs

\* A state on its way to the page: it was read from the entry, which may have
\* moved on, but not out of Complete and Failed.
Outcome == {"complete", "failed"}

PageInv ==
    /\ JobInv
    /\ PageTypeOK
    /\ polling # "none" => entry[Mine] # "absent"
    /\ polling \in Outcome => entry[Mine] = polling
    /\ ShownIsTrue

-----------------------------------------------------------------------------
\* A step of the page is a step of the job queue or leaves it alone.
LEMMA PageStepsQueue == [PageNext]_allVars => [Next]_vars
<1> SUFFICES ASSUME [PageNext]_allVars PROVE [Next]_vars
  OBVIOUS
<1>1. CASE UNCHANGED allVars
  BY <1>1 DEF allVars
<1>2. CASE PostStep
  BY <1>2 DEF PostStep, PostAccepted, PostFailed
<1>3. CASE PollStep
  BY <1>3 DEF PollStep, TimerFires, PollHandler, PollAnswered, PollLoaded, PollLost
<1>4. CASE DeleteStep
  BY <1>4, MineAssumption
     DEF DeleteStep, DeleteHandler, CancelAnswered, CancelLost, Next, Step
<1>5. CASE ClickCancel \/ ClickRevisit \/ RevisitLoaded
  BY <1>5 DEF ClickCancel, ClickRevisit, RevisitLoaded
<1>6. CASE QueueStep
  BY <1>6, MineAssumption DEF QueueStep, Next
<1>7. QED
  BY <1>1, <1>2, <1>3, <1>4, <1>5, <1>6 DEF PageNext

\* An entry does not vanish, and an outcome does not change.
LEMMA EntryStays ==
    ASSUME JobInv, [Next]_vars, NEW k \in Job
    PROVE /\ entry[k] # "absent" => entry'[k] # "absent"
          /\ entry[k] \in Outcome => entry'[k] = entry[k]
<1>1. CASE UNCHANGED vars
  BY <1>1 DEF vars, storeVars
<1>2. ASSUME NEW j \in Job, Step(j)
      PROVE /\ entry[k] # "absent" => entry'[k] # "absent"
            /\ entry[k] \in Outcome => entry'[k] = entry[k]
  <2>1. task[k] = "done" \/ entry[k] \notin Outcome
    BY DEF JobInv, JobTypes, EntryInv, Final, HoldsPermit, Querying, Outcome
  <2>2. QED
    BY <1>2, <2>1 DEF JobInv, JobTypes, EntryInv, Step, TaskStep, SubmitCheck,
       SubmitInsert, Delete, Deletable, AcquirePermit, AcquireCold, Timeout,
       CancelledWhileQueued, MarkRunning, StartQuery, PlanNothing, PlanScan,
       SpawnScan, Collect, RunOk, RunFail, CancelSeen, WriteBack, ScanEnd,
       FileWrite, Decide, storeVars, Final, HoldsPermit, Querying, Outcome
<1>3. QED
  BY <1>1, <1>2 DEF Next

-----------------------------------------------------------------------------
LEMMA PageInitial == PageInit => PageInv
<1> SUFFICES ASSUME PageInit PROVE PageInv
  OBVIOUS
<1>1. JobInv
  BY JobInit DEF PageInit
<1>2. PageTypeOK /\ ShownIsTrue /\ polling = "none"
  BY DEF PageInit, PageTypeOK, ShownIsTrue, Chain, DeleteState, InFlight, Final
<1>3. QED
  BY <1>1, <1>2 DEF PageInv, Outcome

\* One step per group of actions; the state of the job moves only in
\* QueueStep and DeleteHandler, what is shown only in the others.
LEMMA PageStep == PageInv /\ [PageNext]_allVars => PageInv'
<1> SUFFICES ASSUME PageInv, [PageNext]_allVars PROVE PageInv'
  OBVIOUS
<1>1. JobInv'
  BY PageStepsQueue, JobStep DEF PageInv
<1>2. /\ entry[Mine] # "absent" => entry'[Mine] # "absent"
      /\ entry[Mine] \in Outcome => entry'[Mine] = entry[Mine]
  BY PageStepsQueue, EntryStays, MineAssumption DEF PageInv
<1>3. entry[Mine] \in {"absent", "queued", "running"} \cup Final
  BY MineAssumption DEF PageInv, JobInv, JobTypes
<1> USE DEF PageInv, PageTypeOK, ShownIsTrue, Chain, InFlight, Final, Outcome,
            DeleteState
<1>4. CASE UNCHANGED allVars
  BY <1>1, <1>4 DEF allVars, vars, storeVars, pageVars, viewVars
<1>5. CASE PostStep
  BY <1>1, <1>2, <1>5
     DEF PostStep, PostAccepted, PostFailed, Loses, vars, storeVars
<1>6. CASE PollStep
  <2>1. CASE TimerFires
    BY <1>1, <1>2, <2>1 DEF TimerFires, viewVars
  <2>2. CASE PollHandler
    BY <1>1, <1>2, <1>3, <2>2 DEF PollHandler, Answer, viewVars, vars, storeVars
  <2>3. CASE PollAnswered
    BY <1>1, <1>2, <2>3 DEF PollAnswered, Chained
  <2>4. CASE PollLoaded
    <3>1. entry' = entry
      BY <2>4 DEF PollLoaded, vars, storeVars
    <3>2. rows' \in {"null", "all", "no"} /\ (rows' = "all" => entry[Mine] = "complete")
      BY <2>4 DEF PollLoaded, Results
    <3>3. PageTypeOK'
      <4>1. loading' \in BOOLEAN
        BY <2>4 DEF PollLoaded
      <4>2. UNCHANGED <<posting, shown, error, deleting, revisit, lost>> /\ polling' = "none"
        BY <2>4 DEF PollLoaded
      <4>3. QED
        BY <3>2, <4>1, <4>2
    <3>4. QED
      BY <1>1, <2>4, <3>1, <3>2, <3>3 DEF PollLoaded
  <2>5. CASE PollLost
    BY <1>1, <1>2, <2>5 DEF PollLost, Loses
  <2>6. QED
    BY <1>6, <2>1, <2>2, <2>3, <2>4, <2>5 DEF PollStep
<1>7. CASE DeleteStep
  <2>1. CASE DeleteHandler
    <3>1. deleting' \in [DeleteState -> Nat]
      BY <2>1 DEF DeleteHandler
    <3>2. UNCHANGED <<posting, shown, loading, error, rows, polling, revisit, lost>>
      BY <2>1 DEF DeleteHandler, viewVars
    <3>3. QED
      BY <1>1, <1>2, <3>1, <3>2
  <2>2. ASSUME NEW status \in {"204", "409"}, CancelAnswered(status) PROVE PageInv'
    <3>1. entry' = entry
      BY <2>2 DEF CancelAnswered, vars, storeVars
    <3>2. error' \in BOOLEAN /\ deleting' \in [DeleteState -> Nat]
      BY <2>2 DEF CancelAnswered
    <3>3. PageTypeOK'
      BY <2>2, <3>2 DEF CancelAnswered
    <3>4. QED
      BY <1>1, <2>2, <3>1, <3>3 DEF CancelAnswered
  <2>3. ASSUME NEW s \in DeleteState, CancelLost(s) PROVE PageInv'
    <3>1. entry' = entry
      BY <2>3 DEF CancelLost, vars, storeVars
    <3>2. deleting' \in [DeleteState -> Nat]
      BY <2>3 DEF CancelLost
    <3>3. PageTypeOK'
      BY <2>3, <3>2 DEF CancelLost, Loses
    <3>4. QED
      BY <1>1, <2>3, <3>1, <3>3 DEF CancelLost
  <2>4. QED
    BY <1>7, <2>1, <2>2, <2>3 DEF DeleteStep
<1>8. CASE ClickCancel
  BY <1>1, <1>2, <1>8 DEF ClickCancel, viewVars
<1>9. CASE ClickRevisit
  BY <1>1, <1>2, <1>9 DEF ClickRevisit
<1>10. CASE RevisitLoaded
  <2>1. entry' = entry
    BY <1>10 DEF RevisitLoaded, vars, storeVars
  <2>2. /\ rows' \in {"null", "all", "no"}
        /\ rows' = rows \/ (rows' = "all" => entry[Mine] = "complete")
    BY <1>10 DEF RevisitLoaded, Results
  <2>3. PageTypeOK'
    <3>1. loading' \in BOOLEAN
      BY <1>10 DEF RevisitLoaded
    <3>2. /\ UNCHANGED <<posting, shown, error, polling, deleting>>
          /\ revisit' = "done" /\ lost' \in {lost, "revisit"}
      BY <1>10 DEF RevisitLoaded, Loses
    <3>3. QED
      BY <2>2, <3>1, <3>2
  <2>4. QED
    BY <1>1, <1>10, <2>1, <2>2, <2>3 DEF RevisitLoaded
<1>11. CASE QueueStep
  BY <1>1, <1>2, <1>11 DEF QueueStep, pageVars, viewVars
<1>12. QED
  BY <1>4, <1>5, <1>6, <1>7, <1>8, <1>9, <1>10, <1>11 DEF PageNext

LEMMA PageInvariance == PageSpec => []PageInv
  BY PageInitial, PageStep, PTL DEF PageSpec

-----------------------------------------------------------------------------
\* The job queue behind the page is the job queue: every property of Spec is
\* one of PageSpec.
THEOREM PageKeepsQueue == PageSpec => Spec
<1>1. PageInit => Init
  BY DEF PageInit
<1>2. QED
  BY <1>1, PageStepsQueue, PTL DEF PageSpec, Spec

\* Every variable of the page keeps its type; its polls never ask for a job
\* that was not admitted.
THEOREM PageTypeCorrect == PageSpec => []PageTypeOK
<1>1. PageInv => PageTypeOK
  BY DEF PageInv
<1>2. QED
  BY <1>1, PageInvariance, PTL

\* What the page shows as an outcome is one, in whatever order its fetches
\* are answered, and a table with rows belongs to a job that is Complete.
THEOREM OutcomesShownAreTrue == PageSpec => []ShownIsTrue
<1>1. PageInv => ShownIsTrue
  BY DEF PageInv
<1>2. QED
  BY <1>1, PageInvariance, PTL

=============================================================================
