----------------------------- MODULE BatchBuffer -----------------------------
(***************************************************************************)
(* One partition's batch buffer (src/crates/batch-buffer): push, poll and  *)
(* drain on events of different sizes, with an age taken from a wall clock *)
(* that somebody may set back or forward while a batch is open.            *)
(*                                                                         *)
(* An event is its size: nothing here looks at its content. The true time  *)
(* that passes, and what the clock is set by, are history.                 *)
(***************************************************************************)
EXTENDS Integers, Sequences, SequencesExt

CONSTANTS
    Sizes,          \* sizes an event may have
    MaxBytes,       \* max_bytes
    MaxRecords,     \* max_records
    MaxAge,         \* max_age_ms
    MaxJumps,       \* bound: how often it is set while a batch is open
    MaxNow          \* bound: what the clock shows

ASSUME BufferAssumption ==
    /\ Sizes \subseteq Nat
    /\ MaxBytes \in Nat \ {0} /\ MaxRecords \in Nat \ {0} /\ MaxAge \in Nat \ {0}
    /\ MaxJumps \in Nat /\ MaxNow \in Nat

None == -1

VARIABLES
    events,         \* events
    bytes,          \* current_bytes
    started,        \* batch_started_ms, or None
    now,            \* the wall clock
    op,             \* the operation that has returned last
    out,            \* the batch it returned, <<>> for None
    \* history of the open batch
    elapsed,        \* the time since its first event
    back, forward,  \* what the clock was set back and forward by since then
    jumps,
    waited          \* elapsed and forward, in sum, of the batch in out

bufferVars == <<events, bytes, started>>
history == <<elapsed, back, forward, jumps>>
vars == <<bufferVars, now, op, out, history, waited>>

-----------------------------------------------------------------------------
(* Helpers *)

\* Slips of the code that the properties must notice: a batch that is as
\* young as its last event, a start that is the deadline, a drain that keeps
\* the start or the bytes.
StartOfLast == now
StartIsDeadline == IF started = None THEN now + MaxAge ELSE started
StartKept == started
BytesKept == bytes

TotalSize(es) == FoldSeq(LAMBDA x, y : x + y, 0, es)

\* batch_started_ms after a push, and both counters after a drain.
StartAtPush == IF started = None THEN now ELSE started
NoStart == None
NoBytes == 0

BytesWith(size) == bytes + size
TooMany(es) == Len(es) >= MaxRecords

\* now.saturating_sub(start) >= max_age_ms
AgeSince(start) == IF now < start THEN 0 ELSE now - start
AgeExceeded(start) == start # None /\ AgeSince(start) >= MaxAge

\* over_any_limit, once an event of this size is in the buffer.
OverAnyLimit(size) ==
    \/ BytesWith(size) >= MaxBytes
    \/ TooMany(Append(events, size))
    \/ AgeExceeded(StartAtPush)

\* The operation o has drained the batch es, or returned None.
Drain(o, es) ==
    /\ events' = <<>> /\ bytes' = NoBytes /\ started' = NoStart
    /\ op' = o /\ out' = es /\ waited' = elapsed + forward
    /\ elapsed' = 0 /\ back' = 0 /\ forward' = 0 /\ jumps' = 0
    /\ UNCHANGED now

ReturnNone(o) == op' = o /\ out' = <<>> /\ waited' = 0

-----------------------------------------------------------------------------
Init ==
    /\ events = <<>> /\ bytes = 0 /\ started = None
    /\ now = 0 /\ op = "new" /\ out = <<>>
    /\ elapsed = 0 /\ back = 0 /\ forward = 0 /\ jumps = 0 /\ waited = 0

Push(size) ==
    IF OverAnyLimit(size) THEN Drain("push", Append(events, size))
    ELSE /\ events' = Append(events, size)
         /\ bytes' = bytes + size /\ started' = StartAtPush
         /\ ReturnNone("push")
         /\ UNCHANGED <<now, history>>

Poll ==
    IF events # <<>> /\ AgeExceeded(started) THEN Drain("poll", events)
    ELSE ReturnNone("poll") /\ UNCHANGED <<bufferVars, now, history>>

\* Called by a revocation and by the shutdown.
DrainAll == Drain("drain", events)

-----------------------------------------------------------------------------
(* The clock. What it is set by is counted while a batch is open. *)

Pass ==
    /\ now < MaxNow /\ now' = now + 1
    /\ elapsed' = IF events = <<>> THEN 0 ELSE elapsed + 1
    /\ ReturnNone("time")
    /\ UNCHANGED <<bufferVars, back, forward, jumps>>

SetClock(to) ==
    /\ events # <<>> /\ jumps < MaxJumps /\ jumps' = jumps + 1
    /\ now' = to
    /\ forward' = IF to > now THEN forward + to - now ELSE forward
    /\ back' = IF to < now THEN back + now - to ELSE back
    /\ ReturnNone("time")
    /\ UNCHANGED <<bufferVars, elapsed>>

-----------------------------------------------------------------------------
Next ==
    \/ \E size \in Sizes : Push(size)
    \/ Poll \/ DrainAll \/ Pass
    \/ \E to \in 0 .. MaxNow : SetClock(to)

Spec == Init /\ [][Next]_vars

-----------------------------------------------------------------------------
(* Properties *)

TypeOK ==
    /\ events \in Seq(Sizes) /\ bytes \in Nat
    /\ started \in {None} \cup 0 .. MaxNow /\ now \in 0 .. MaxNow
    /\ op \in {"new", "push", "poll", "drain", "time"}
    /\ out \in Seq(Sizes) /\ waited \in Nat
    /\ elapsed \in Nat /\ back \in Nat /\ forward \in Nat /\ jumps \in 0 .. MaxJumps

\* The byte count is that of the events in the buffer, which is under every
\* limit, and the batch has a start exactly when it has an event, through
\* every order of push, poll and drain: backpressure and the age trigger rest
\* on it, and a batch leaves with the event that reaches a limit, none later.
Accounted ==
    /\ bytes = TotalSize(events) /\ bytes < MaxBytes /\ Len(events) < MaxRecords
    /\ started = None <=> events = <<>>

\* A push or a poll hands out a batch only for a reason: it is full, or it is
\* old by the clock, which may be early by what the clock was set forward.
CutForReason ==
    op \in {"push", "poll"} /\ out # <<>> =>
        \/ Len(out) >= MaxRecords \/ TotalSize(out) >= MaxBytes
        \/ waited >= MaxAge

\* A poll, and a push, leave no batch in the buffer that is older than
\* max_age_ms, or than that and what the clock was set back by: events that
\* keep coming do not put it off.
OldLeaves ==
    op \in {"push", "poll"} /\ events # <<>> => elapsed < MaxAge + back

=============================================================================
