----------------------------- MODULE JobService -----------------------------
(***************************************************************************)
(* What the job queue promises its clients: a job is queued, runs beside   *)
(* no more than Limit others, and ends once. A cancellation takes effect   *)
(* at once and for good; nothing leaves a final state.                     *)
(***************************************************************************)
EXTENDS Integers, FiniteSets

CONSTANTS Job, Limit

VARIABLE status

Running == {j \in Job : status[j] = "running"}

Init == status = [j \in Job |-> "absent"]

Become(j, s) == status' = [status EXCEPT ![j] = s]

Submit(j) == status[j] = "absent" /\ Become(j, "queued")

Start(j) ==
    /\ status[j] = "queued" /\ Cardinality(Running) < Limit
    /\ Become(j, "running")

Finish(j) ==
    /\ status[j] = "running"
    /\ \E s \in {"complete", "failed"} : Become(j, s)

Cancel(j) == status[j] \in {"queued", "running"} /\ Become(j, "cancelled")

Next == \E j \in Job : Submit(j) \/ Start(j) \/ Finish(j) \/ Cancel(j)

Spec == Init /\ [][Next]_status

=============================================================================
