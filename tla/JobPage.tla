------------------------------- MODULE JobPage -------------------------------
(***************************************************************************)
(* The page that follows a job (src/frontend/src/app/page.tsx), with the   *)
(* job queue behind it and the two handlers it reads the job with, GET     *)
(* /jobs/{id} and GET /jobs/{id}/results.                                  *)
(*                                                                         *)
(* The page is one thread: a click, a timer or a fetch that answers runs   *)
(* up to its next await. Its fetches overtake each other and the clicks.   *)
(* The model follows one job, Mine, from the POST of submitJob on; other   *)
(* jobs on the same page, the inline query and the CSV file are left out.  *)
(* All pages of the results are one fetch: the file of a complete job      *)
(* never changes.                                                          *)
(***************************************************************************)
EXTENDS JobQueue

CONSTANTS
    Mine,           \* the job on the page
    MaxDeletes      \* bound: DELETEs under way at once

ASSUME MineAssumption == Mine \in Job /\ MaxDeletes \in Nat

VARIABLES
    posting,        \* POST: "closed" without a page, "sent", "answered"
    shown,          \* job.state, or "none" while job is null
    loading, error, \* loading, and whether an error is shown
    rows,           \* the table: "null", "all" of the job's rows, "no" rows
    polling,        \* where the chain of polls is
    deleting,       \* how many DELETEs are asked, or answered with a status
    revisit,        \* revisitJob: "none", "asked", "done" (bound: once)
    lost            \* history: the fetch that failed (bound: one)

viewVars == <<shown, loading, error, rows>>
pageVars == <<posting, viewVars, polling, deleting, revisit, lost>>
allVars == <<vars, pageVars>>

InFlight == {"queued", "running"}

\* No chain; its timer is set; GET is under way; the answer, a state, is; the
\* results are being fetched.
Chain == {"none", "timer", "asked", "loading"} \cup InFlight \cup Final

DeleteState == {"asked", "204", "409"}

-----------------------------------------------------------------------------
(* Helpers *)

\* Slips of the code that the properties must notice.
TaskAsState == task[Mine]
FileIsEnough == IF Mine \in written THEN "complete" ELSE entry[Mine]
OnlyRunningGoesOn(s) == IF s = "running" THEN "timer" ELSE "none"
AnyAnswer(status) == status \in {"204", "409"}

\* poll_job_handler: the state under the lock. A job the page knows is there.
Answer == entry[Mine]

\* results_job_handler: the state under the lock, the file after it; a file
\* that cannot be read has no rows, 409 ends the page's loop with none.
Results == IF entry[Mine] = "complete" /\ RowsStored(Mine) THEN "all" ELSE "no"

\* Where the answer s takes the chain.
Chained(s) ==
    CASE s = "complete" -> "loading"
      [] s \in InFlight -> "timer"
      [] OTHER -> "none"

\* res.status === 204
CancelAccepted(status) == status = "204"

\* fetch rejects; for a poll and a DELETE also 404, from a server that has
\* restarted and knows no job.
Loses(fetch) == lost = "none" /\ lost' = fetch

-----------------------------------------------------------------------------
\* The page is open, with its POST under way, or there is none.
PageInit ==
    /\ Init
    /\ posting \in {"closed", "sent"}
    /\ shown = "none" /\ loading = (posting = "sent") /\ error = FALSE
    /\ rows = "null" /\ polling = "none"
    /\ deleting = [s \in DeleteState |-> 0] /\ revisit = "none" /\ lost = "none"

-----------------------------------------------------------------------------
(* submitJob *)

PostAccepted ==
    /\ posting = "sent" /\ entry[Mine] # "absent"
    /\ posting' = "answered" /\ shown' = "queued" /\ polling' = "timer"
    /\ UNCHANGED <<vars, loading, error, rows, deleting, revisit, lost>>

\* 400, 429, or no answer at all; the job may exist all the same.
PostFailed ==
    /\ posting = "sent" /\ posting' = "answered"
    /\ \/ entry[Mine] = "absent" /\ Mine \notin admitted /\ UNCHANGED lost
       \/ Loses("post")
    /\ error' = TRUE /\ loading' = FALSE
    /\ UNCHANGED <<vars, shown, rows, polling, deleting, revisit>>

-----------------------------------------------------------------------------
(* pollJob *)

TimerFires ==
    /\ polling = "timer" /\ polling' = "asked"
    /\ UNCHANGED <<vars, posting, viewVars, deleting, revisit, lost>>

PollHandler ==
    /\ polling = "asked" /\ polling' = Answer
    /\ UNCHANGED <<vars, posting, viewVars, deleting, revisit, lost>>

\* The answer is shown whatever has been clicked since it was asked for.
PollAnswered ==
    /\ polling \in InFlight \cup Final
    /\ shown' = polling /\ polling' = Chained(polling)
    /\ loading' = (loading /\ polling \notin {"failed", "cancelled"})
    /\ UNCHANGED <<vars, posting, error, rows, deleting, revisit, lost>>

PollLoaded ==
    /\ polling = "loading" /\ polling' = "none"
    /\ rows' = Results /\ loading' = FALSE
    /\ UNCHANGED <<vars, posting, shown, error, deleting, revisit, lost>>

\* The catch of pollJob: polling ends, without a word to the user.
PollLost ==
    /\ polling \notin {"none", "timer"} /\ polling' = "none"
    /\ Loses("poll") /\ loading' = FALSE
    /\ UNCHANGED <<vars, posting, shown, error, rows, deleting, revisit>>

-----------------------------------------------------------------------------
(* cancelJob. The button stays until an answer has changed job.state, and  *)
(* may be clicked again: several DELETEs are answered in any order.        *)

\* stopPolling clears a timer; it does not reach a request under way.
ClickCancel ==
    /\ shown \in InFlight
    /\ deleting["asked"] + deleting["204"] + deleting["409"] < MaxDeletes
    /\ deleting' = [deleting EXCEPT !["asked"] = @ + 1]
    /\ polling' = IF polling = "timer" THEN "none" ELSE polling
    /\ UNCHANGED <<vars, posting, viewVars, revisit, lost>>

DeleteHandler ==
    /\ deleting["asked"] > 0
    /\ \E status \in {"204", "409"} :
         /\ deleting' = [deleting EXCEPT !["asked"] = @ - 1, ![status] = @ + 1]
         /\ IF status = "204" THEN Delete(Mine)
            ELSE ~Deletable(Mine) /\ UNCHANGED vars
    /\ UNCHANGED <<posting, viewVars, polling, revisit, lost>>

CancelAnswered(status) ==
    /\ deleting[status] > 0 /\ deleting' = [deleting EXCEPT ![status] = @ - 1]
    /\ shown' = IF CancelAccepted(status) THEN "cancelled" ELSE shown
    /\ error' = (error \/ ~CancelAccepted(status)) /\ loading' = FALSE
    /\ UNCHANGED <<vars, posting, rows, polling, revisit, lost>>

\* Before or after the server has done its part.
CancelLost(s) ==
    /\ deleting[s] > 0 /\ deleting' = [deleting EXCEPT ![s] = @ - 1]
    /\ Loses("delete") /\ error' = TRUE /\ loading' = FALSE
    /\ UNCHANGED <<vars, posting, shown, rows, polling, revisit>>

-----------------------------------------------------------------------------
(* revisitJob *)

\* The entry of the history is taken for a complete job; polling goes on.
ClickRevisit ==
    /\ shown # "none" /\ revisit = "none" /\ revisit' = "asked"
    /\ shown' = "complete" /\ loading' = TRUE /\ error' = FALSE /\ rows' = "null"
    /\ UNCHANGED <<vars, posting, polling, deleting, lost>>

\* Nothing catches a fetch that rejects here.
RevisitLoaded ==
    /\ revisit = "asked" /\ revisit' = "done"
    /\ \/ rows' = Results /\ loading' = FALSE /\ UNCHANGED lost
       \/ Loses("revisit") /\ UNCHANGED <<rows, loading>>
    /\ UNCHANGED <<vars, posting, shown, error, polling, deleting>>

-----------------------------------------------------------------------------
PostStep == PostAccepted \/ PostFailed
PollStep == TimerFires \/ PollHandler \/ PollAnswered \/ PollLoaded \/ PollLost
DeleteStep ==
    \/ DeleteHandler
    \/ \E status \in {"204", "409"} : CancelAnswered(status)
    \/ \E s \in DeleteState : CancelLost(s)

\* Bound: while the page is open no other job is submitted. To Mine other
\* jobs are a longer wait for a permit, or a POST that is refused.
QueueStep ==
    /\ \/ posting = "closed" /\ Next
       \/ posting # "closed" /\ Step(Mine)
    /\ UNCHANGED pageVars

PageNext ==
    \/ PostStep \/ PollStep \/ DeleteStep
    \/ ClickCancel \/ ClickRevisit \/ RevisitLoaded
    \/ QueueStep

PageSpec == PageInit /\ [][PageNext]_allVars

\* Timers fire, the server answers, a request that it has admitted is
\* queued, and every fetch answers or fails. Nobody has to click.
PageFairness ==
    /\ Fairness
    /\ WF_vars(SubmitInsert(Mine))
    /\ WF_allVars(PostStep) /\ WF_allVars(PollStep) /\ WF_allVars(DeleteStep)
    /\ WF_allVars(RevisitLoaded)

FairPageSpec == PageSpec /\ PageFairness

-----------------------------------------------------------------------------
(* Properties *)

PageTypeOK ==
    /\ posting \in {"closed", "sent", "answered"}
    /\ shown \in {"none"} \cup InFlight \cup Final
    /\ loading \in BOOLEAN /\ error \in BOOLEAN /\ rows \in {"null", "all", "no"}
    /\ polling \in Chain
    /\ deleting \in [DeleteState -> Nat]
    /\ revisit \in {"none", "asked", "done"}
    /\ lost \in {"none", "post", "poll", "delete", "revisit"}

\* A job that the page shows Complete or Failed is so, however late the
\* answer came, unless the page took it from the history; and a table with
\* rows is that of a job that is Complete.
ShownIsTrue ==
    /\ shown \in {"complete", "failed"} => entry[Mine] = shown \/ revisit # "none"
    /\ rows = "all" => entry[Mine] = "complete"

\* In the end the page shows the state that the job has in the store: a poll
\* answer that sets a cancelled job back to running starts the polling again,
\* and that brings the final state. Exceptions, all for good: an error is
\* shown instead (a DELETE that was refused has stopped the polling), a poll
\* failed, or the user went through the history.
PageSettles ==
    <>[](\/ shown \in {"none", entry[Mine]}
         \/ error \/ lost = "poll" \/ revisit # "none")

\* The page does not stay busy, whatever is clicked and whichever fetch fails,
\* but for the results of a job from the history, whose failure nothing
\* catches: the button that submits the next query is disabled while it is.
LoadingEnds == loading ~> ~loading \/ lost = "revisit"

=============================================================================
