----------------------------- MODULE EventStore -----------------------------
(***************************************************************************)
(* What the storage of the server promises to queries: they see the events *)
(* that were stored and are not past retention, and at no moment others or *)
(* fewer. Merging, moving and deleting files are not visible.              *)
(***************************************************************************)
CONSTANTS
    Event,
    Batches         \* the sets of events that a flush may be given

VARIABLES
    stored,         \* every event of a batch that was stored
    visible,        \* what a query sees
    expired         \* events past retention

Init == stored = {} /\ visible = {} /\ expired = {}

\* A batch is stored; what it repeats changes nothing.
Store(E) ==
    /\ stored' = stored \cup E /\ visible' = stored' \ expired
    /\ UNCHANGED expired

Expire(e) ==
    /\ expired' = expired \cup {e} /\ visible' = stored \ expired'
    /\ UNCHANGED stored

Next == \/ \E E \in Batches : Store(E)
        \/ \E e \in Event \ expired : Expire(e)

Spec == Init /\ [][Next]_<<stored, visible, expired>>

=============================================================================
