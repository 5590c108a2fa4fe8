-------------------------- MODULE BatchBufferProofs --------------------------
(* For every limit, every size and every jump of the clock: an open batch   *)
(* gets no older than max_age_ms, or than that and what the clock was set   *)
(* back by; its bytes are counted right; and it leaves for a reason. The    *)
(* strengthening ties the start of the batch, which the code keeps, to the  *)
(* true time, which it does not know.                                       *)
EXTENDS BatchBuffer, Sums

\* What the age test sees of a batch: the time that has passed, as far as the
\* clock shows it. A batch has a start exactly when it has an event.
StartInv ==
    /\ started # None <=> events # <<>>
    /\ events # <<>> => started + elapsed + forward = now + back
    /\ events = <<>> => elapsed = 0 /\ back = 0 /\ forward = 0

AgeInv == TypeOK /\ StartInv /\ OldLeaves

LEMMA InitAge == Init => AgeInv
  BY BufferAssumption DEF Init, AgeInv, TypeOK, StartInv, OldLeaves, None

\* A drain leaves nothing behind that the age depends on.
LEMMA DrainAge ==
    ASSUME AgeInv, NEW o \in {"push", "poll", "drain"},
           NEW es \in Seq(Sizes), Drain(o, es)
    PROVE  AgeInv'
<1>1. TypeOK'
  BY BufferAssumption DEF AgeInv, TypeOK, Drain, NoBytes, NoStart, None
<1>2. StartInv' /\ OldLeaves'
  BY DEF Drain, NoStart, None, StartInv, OldLeaves
<1> QED  BY <1>1, <1>2 DEF AgeInv

LEMMA PushAge == AgeInv /\ (\E size \in Sizes : Push(size)) => AgeInv'
<1> SUFFICES ASSUME AgeInv, NEW size \in Sizes, Push(size)
             PROVE  AgeInv'
  OBVIOUS
<1> DEFINE es == Append(events, size)
<1>1. es \in Seq(Sizes) /\ es # <<>>
  BY DEF AgeInv, TypeOK
<1>2. CASE OverAnyLimit(size)
  BY <1>1, <1>2, DrainAge DEF Push
<1>3. CASE ~OverAnyLimit(size)
  <2>1. /\ events' = es /\ bytes' = bytes + size /\ started' = StartAtPush
        /\ op' = "push" /\ out' = <<>> /\ waited' = 0
        /\ UNCHANGED <<now, elapsed, back, forward, jumps>>
    BY <1>3 DEF Push, ReturnNone, history
  <2>2. StartAtPush \in 0 .. MaxNow /\ StartAtPush # None
    BY DEF AgeInv, TypeOK, StartAtPush, None
  <2>3. TypeOK'
    BY <1>1, <2>1, <2>2, BufferAssumption DEF AgeInv, TypeOK
  <2>4. StartAtPush + elapsed + forward = now + back
    BY DEF AgeInv, StartInv, TypeOK, StartAtPush, None
  <2>5. StartInv'
    BY <1>1, <2>1, <2>2, <2>4 DEF StartInv
  <2>6. AgeSince(StartAtPush) < MaxAge
    BY <1>3, <2>2, BufferAssumption
    DEF OverAnyLimit, AgeExceeded, AgeSince, AgeInv, TypeOK
  <2>7. elapsed < MaxAge + back
    BY <2>2, <2>4, <2>6, BufferAssumption DEF AgeSince, AgeInv, TypeOK
  <2>8. OldLeaves'
    BY <2>1, <2>7 DEF OldLeaves
  <2> QED  BY <2>3, <2>5, <2>8 DEF AgeInv
<1> QED  BY <1>2, <1>3

LEMMA PollAge == AgeInv /\ Poll => AgeInv'
<1> SUFFICES ASSUME AgeInv, Poll PROVE AgeInv'
  OBVIOUS
<1>1. CASE events # <<>> /\ AgeExceeded(started)
  BY <1>1, DrainAge DEF Poll, AgeInv, TypeOK
<1>2. CASE ~(events # <<>> /\ AgeExceeded(started))
  <2>1. op' = "poll" /\ out' = <<>> /\ waited' = 0
        /\ UNCHANGED <<bufferVars, now, history>>
    BY <1>2 DEF Poll, ReturnNone
  <2>2. TypeOK' /\ StartInv'
    BY <2>1 DEF AgeInv, TypeOK, StartInv, bufferVars, history
  <2>3. ASSUME events # <<>> PROVE elapsed < MaxAge + back
    BY <1>2, <2>3, BufferAssumption
    DEF AgeInv, TypeOK, StartInv, AgeExceeded, AgeSince, None
  <2>4. OldLeaves'
    BY <2>1, <2>3 DEF OldLeaves, bufferVars, history
  <2> QED  BY <2>2, <2>4 DEF AgeInv
<1> QED  BY <1>1, <1>2

LEMMA DrainAllAge == AgeInv /\ DrainAll => AgeInv'
  BY DrainAge DEF DrainAll, AgeInv, TypeOK

LEMMA PassAge == AgeInv /\ Pass => AgeInv'
<1> SUFFICES ASSUME AgeInv, Pass PROVE AgeInv'
  OBVIOUS
<1>1. TypeOK'
  BY BufferAssumption DEF AgeInv, TypeOK, Pass, ReturnNone, bufferVars
<1>2. StartInv'
  BY BufferAssumption DEF AgeInv, TypeOK, StartInv, Pass, bufferVars, None
<1>3. OldLeaves'
  BY DEF Pass, ReturnNone, OldLeaves
<1> QED  BY <1>1, <1>2, <1>3 DEF AgeInv

LEMMA SetClockAge == AgeInv /\ (\E to \in 0 .. MaxNow : SetClock(to)) => AgeInv'
<1> SUFFICES ASSUME AgeInv, NEW to \in 0 .. MaxNow, SetClock(to) PROVE AgeInv'
  OBVIOUS
<1>1. TypeOK'
  BY BufferAssumption DEF AgeInv, TypeOK, SetClock, ReturnNone, bufferVars
<1>2. StartInv'
  BY BufferAssumption DEF AgeInv, TypeOK, StartInv, SetClock, bufferVars, None
<1>3. OldLeaves'
  BY DEF SetClock, ReturnNone, OldLeaves
<1> QED  BY <1>1, <1>2, <1>3 DEF AgeInv

LEMMA StepAge == AgeInv /\ [Next]_vars => AgeInv'
<1> SUFFICES ASSUME AgeInv, [Next]_vars PROVE AgeInv'
  OBVIOUS
<1>1. CASE \E size \in Sizes : Push(size)
  BY <1>1, PushAge
<1>2. CASE Poll
  BY <1>2, PollAge
<1>3. CASE DrainAll
  BY <1>3, DrainAllAge
<1>4. CASE Pass
  BY <1>4, PassAge
<1>5. CASE \E to \in 0 .. MaxNow : SetClock(to)
  BY <1>5, SetClockAge
<1>6. CASE UNCHANGED vars
  BY <1>6 DEF AgeInv, TypeOK, StartInv, OldLeaves, vars, bufferVars, history
<1> QED  BY <1>1, <1>2, <1>3, <1>4, <1>5, <1>6 DEF Next

LEMMA AlwaysAge == Spec => []AgeInv
  BY InitAge, StepAge, PTL DEF Spec

\* Every variable of the buffer keeps its type: the start is a time the clock
\* has shown, whatever it was set to since.
THEOREM TypeCorrect == Spec => []TypeOK
<1>1. AgeInv => TypeOK
  BY DEF AgeInv
<1> QED  BY <1>1, AlwaysAge, PTL

\* After a push or a poll no batch in the buffer is older than max_age_ms, but
\* for what the clock was set back by.
THEOREM OldBatchesLeave == Spec => []OldLeaves
<1>1. AgeInv => OldLeaves
  BY DEF AgeInv
<1> QED  BY <1>1, AlwaysAge, PTL

-----------------------------------------------------------------------------
(* The byte count, and the reasons for which a batch leaves                  *)

CountInv == AgeInv /\ Accounted /\ CutForReason

LEMMA TotalIsSum == \A es : TotalSize(es) = SumOf(es, DOMAIN es)
  BY DEF TotalSize, FoldSeq, FoldFunction, FoldFunctionOnSet, SumOf, MapThenSumSet

LEMMA TotalOfNone == TotalSize(<<>>) = 0
<1>1. DOMAIN <<>> = {}
  OBVIOUS
<1> QED BY <1>1, TotalIsSum, SumEmpty

LEMMA TotalAppend ==
    ASSUME NEW es \in Seq(Sizes), NEW size \in Sizes
    PROVE  TotalSize(Append(es, size)) = TotalSize(es) + size
<1>1. Sizes \subseteq Int
  BY BufferAssumption
<1> QED BY <1>1, TotalIsSum, SumAppend

LEMMA InitCount == Init => CountInv
  BY InitAge, TotalOfNone, BufferAssumption
  DEF CountInv, Init, Accounted, CutForReason, None

\* A drain leaves a buffer that holds nothing and accounts for nothing.
LEMMA DrainCount ==
    ASSUME NEW o, NEW es, Drain(o, es)
    PROVE  Accounted'
  BY TotalOfNone, BufferAssumption DEF Accounted, Drain, NoBytes, NoStart, None

\* When the clock shows max_age_ms since the start, that much has gone by since
\* the first event, in time or in what the clock was set forward.
LEMMA AgeIsWaited ==
    ASSUME AgeInv, events # <<>>, AgeExceeded(started)
    PROVE  elapsed + forward >= MaxAge
  BY BufferAssumption
  DEF AgeInv, TypeOK, StartInv, AgeExceeded, AgeSince, None

LEMMA PushCount ==
    CountInv /\ (\E size \in Sizes : Push(size)) => Accounted' /\ CutForReason'
<1> SUFFICES ASSUME CountInv, NEW size \in Sizes, Push(size)
             PROVE  Accounted' /\ CutForReason'
  OBVIOUS
<1> DEFINE es == Append(events, size)
<1>1. TypeOK /\ StartInv /\ Accounted
  BY DEF CountInv, AgeInv
<1>2. TotalSize(es) = bytes + size /\ size \in Nat
  BY <1>1, TotalAppend, BufferAssumption DEF TypeOK, Accounted
<1>3. es \in Seq(Sizes) /\ es # <<>> /\ Len(es) \in Nat
  BY <1>1 DEF TypeOK
<1> HIDE DEF es
<1>4. CASE OverAnyLimit(size)
  <2>1. Drain("push", es)
    BY <1>4 DEF Push, es
  <2>2. Accounted'
    BY <2>1, DrainCount
  <2>3. /\ op' = "push" /\ out' = es /\ waited' = elapsed + forward
    BY <2>1 DEF Drain
  <2>4. \/ Len(es) >= MaxRecords \/ TotalSize(es) >= MaxBytes
        \/ elapsed + forward >= MaxAge
    <3>1. CASE BytesWith(size) >= MaxBytes
      BY <1>2, <3>1 DEF BytesWith
    <3>2. CASE TooMany(es)
      BY <3>2 DEF TooMany
    <3>3. CASE AgeExceeded(StartAtPush)
      <4>1. started # None
        BY <1>1, <3>3, BufferAssumption
        DEF TypeOK, StartAtPush, AgeExceeded, AgeSince, None
      <4>2. AgeExceeded(started) /\ events # <<>>
        BY <1>1, <3>3, <4>1 DEF StartAtPush, StartInv
      <4> QED BY <4>2, AgeIsWaited DEF CountInv
    <3> QED BY <1>4, <3>1, <3>2, <3>3 DEF OverAnyLimit, es
  <2> QED BY <2>2, <2>3, <2>4 DEF CutForReason
<1>5. CASE ~OverAnyLimit(size)
  <2>1. /\ events' = es /\ bytes' = bytes + size /\ started' = StartAtPush
        /\ out' = <<>>
    BY <1>5 DEF Push, ReturnNone, es
  <2>2. bytes + size < MaxBytes /\ Len(es) < MaxRecords
    BY <1>1, <1>2, <1>3, <1>5, BufferAssumption
    DEF OverAnyLimit, BytesWith, TooMany, TypeOK, es
  <2>3. StartAtPush # None
    BY <1>1 DEF TypeOK, StartAtPush, None
  <2>4. Accounted'
    BY <1>2, <1>3, <2>1, <2>2, <2>3 DEF Accounted
  <2> QED BY <2>1, <2>4 DEF CutForReason
<1> QED BY <1>4, <1>5

LEMMA PollCount == CountInv /\ Poll => Accounted' /\ CutForReason'
<1> SUFFICES ASSUME CountInv, Poll PROVE Accounted' /\ CutForReason'
  OBVIOUS
<1>1. CASE events # <<>> /\ AgeExceeded(started)
  <2>1. Drain("poll", events)
    BY <1>1 DEF Poll
  <2>2. elapsed + forward >= MaxAge
    BY <1>1, AgeIsWaited DEF CountInv
  <2> QED BY <2>1, <2>2, DrainCount DEF Drain, CutForReason
<1>2. CASE ~(events # <<>> /\ AgeExceeded(started))
  BY <1>2 DEF Poll, ReturnNone, bufferVars, CountInv, Accounted, CutForReason
<1> QED BY <1>1, <1>2

\* The buffer stays as it is and None is returned.
LEMMA IdleCount ==
    ASSUME Accounted, UNCHANGED bufferVars, out' = <<>>
    PROVE  Accounted' /\ CutForReason'
  BY DEF bufferVars, Accounted, CutForReason

LEMMA StepCount == CountInv /\ [Next]_vars => CountInv'
<1> SUFFICES ASSUME CountInv, [Next]_vars PROVE CountInv'
  OBVIOUS
<1>1. AgeInv'
  BY StepAge DEF CountInv
<1>2. Accounted' /\ CutForReason'
  <2>1. CASE \E size \in Sizes : Push(size)
    BY <2>1, PushCount
  <2>2. CASE Poll
    BY <2>2, PollCount
  <2>3. CASE DrainAll
    BY <2>3, DrainCount DEF DrainAll, Drain, CutForReason
  <2>4. CASE Pass
    BY <2>4, IdleCount DEF Pass, ReturnNone, CountInv
  <2>5. CASE \E to \in 0 .. MaxNow : SetClock(to)
    BY <2>5, IdleCount DEF SetClock, ReturnNone, CountInv
  <2>6. CASE UNCHANGED vars
    BY <2>6 DEF CountInv, Accounted, CutForReason, vars, bufferVars
  <2> QED BY <2>1, <2>2, <2>3, <2>4, <2>5, <2>6 DEF Next
<1> QED BY <1>1, <1>2 DEF CountInv

LEMMA AlwaysCount == Spec => []CountInv
  BY InitCount, StepCount, PTL DEF Spec

\* The byte count is that of the events, under every limit, through every
\* order of push, poll and drain and for every size of an event.
THEOREM BytesCounted == Spec => []Accounted
<1>1. CountInv => Accounted
  BY DEF CountInv
<1> QED BY <1>1, AlwaysCount, PTL

\* A push or a poll hands out a batch only when it is full or old.
THEOREM BatchesLeaveForReason == Spec => []CutForReason
<1>1. CountInv => CutForReason
  BY DEF CountInv
<1> QED BY <1>1, AlwaysCount, PTL

=============================================================================
