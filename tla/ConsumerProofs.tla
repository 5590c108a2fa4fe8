--------------------------- MODULE ConsumerProofs ---------------------------
(***************************************************************************)
(* What holds of the consumer for every number of partitions, events,      *)
(* permits, revocations and deaths: its variables keep their types,        *)
(* CommitBacked, NothingSkipped, PausedHasWaker, RegressOnlyByStaleResult. *)
(*                                                                         *)
(* The strengthening follows the offsets: wherever the program keeps a     *)
(* next-to-read offset (the committed offset, the fetch position, pending, *)
(* the up_to_offset of a batch or of a result), every event below it is    *)
(* stored, in memory, or was dropped by a failed flush or a death; and no  *)
(* step makes such an event unaccounted for. For the last property the     *)
(* offsets are followed again: what was read since the partition was       *)
(* assigned is never below the group's offset once it passes the guard.    *)
(***************************************************************************)
EXTENDS Consumer, TLAPS

USE BoundsAssumption, OutcomesAssumption, PoisonAssumption

-----------------------------------------------------------------------------
(* Types                                                                   *)

\* A batch drained from a buffer is a batch.
LEMMA BatchOfType ==
    ASSUME TypeOK, NEW p \in Partition
    PROVE  BatchOf(p) \in Batch
BY DEF TypeOK, BatchOf, Batch, Buffer

\* Send keeps the channel a sequence of results.
LEMMA SendType ==
    ASSUME TypeOK, NEW b \in Batch, NEW ok \in BOOLEAN, Send(b, ok)
    PROVE  results' \in Seq(Result)
<1>1. [b |-> b, ok |-> ok] \in Result
  BY DEF Result
<1>2. QED BY <1>1 DEF TypeOK, Send

\* Finish keeps the types of what is on disk.
LEMMA FinishType ==
    ASSUME TypeOK, NEW b \in Batch, NEW ok \in BOOLEAN, Finish(b, ok)
    PROVE  /\ durable' \in [Partition -> SUBSET Offset]
           /\ lost' \in [Partition -> SUBSET Offset]
           /\ deaths' \in Nat
           /\ failed' \subseteq Partition /\ late' \subseteq Partition
BY DEF TypeOK, Finish, Batch

\* Every step of the select! loop keeps the types.
LEMMA LoopType ==
    ASSUME TypeOK, Loop
    PROVE  TypeOK'
<1> USE DEF brokerVars, storeVars, loopVars, taskVars, callbackVars, diskVars
<1>1. ASSUME NEW p \in Partition, Recv(p)
      PROVE  TypeOK'
  <2>1. position'[p] \in NextOffset /\ position[p] \in Offset
    BY <1>1 DEF TypeOK, Recv, NextOffset, Offset
  <2>2. position' \in [Partition -> NextOffset]
    BY <1>1, <2>1 DEF TypeOK, Recv
  <2>3. inHand' \subseteq Message /\ pc' \in {"select", "process"}
    BY <1>1, <2>1 DEF TypeOK, Recv, Message
  <2>4. QED BY <1>1, <2>2, <2>3 DEF TypeOK, Recv
<1>2. ASSUME NEW p \in Partition, TickFlush(p)
      PROVE  TypeOK'
  <2>1. BatchOf(p) \in Batch
    BY BatchOfType
  <2>2. Empty \in Buffer
    BY DEF Empty, Buffer
  <2>3. QED BY <1>2, <2>1, <2>2 DEF TypeOK, TickFlush
<1>3. ASSUME NEW m \in inHand, NEW old \in BOOLEAN, Process(m, old)
      PROVE  TypeOK'
  <2>1. m \in Message
    BY DEF TypeOK
  <2>2. /\ m.p \in Partition /\ m.off \in Offset /\ m.ep \in Nat
        /\ CommitPoint(m) \in NextOffset
    BY <2>1 DEF Message, CommitPoint, Offset, NextOffset
  <2> DEFINE n == buffers[m.p].n + 1
             full == [evs |-> buffers[m.p].evs \cup {m.off}, n |-> n, ep |-> m.ep]
             batch == [p |-> m.p, evs |-> full.evs, upTo |-> CommitPoint(m), ep |-> m.ep]
  <2>3. full \in Buffer /\ Empty \in Buffer
    <3>1. buffers[m.p] \in Buffer
      BY <2>2 DEF TypeOK
    <3>2. QED BY <2>2, <3>1 DEF Buffer, Empty
  <2>4. batch \in Batch
    BY <2>2, <2>3 DEF Batch, Buffer
  <2> HIDE DEF full, batch
  <2>5. /\ pending' \in [Partition -> NextOffset]
        /\ buffers' \in [Partition -> Buffer]
        /\ paused' \subseteq Partition /\ toPause' \subseteq Partition
        /\ pc' \in {"select", "pause"}
        /\ held' \subseteq Batch /\ spawned' \subseteq Batch
    BY <1>3, <2>2, <2>3, <2>4 DEF Process, TypeOK, full, batch
  <2>6. QED BY <1>3, <2>5 DEF Process, TypeOK
<1>4. CASE PauseCall
  BY <1>4 DEF TypeOK, PauseCall
<1>5. CASE TakeFailure
  BY <1>5 DEF TypeOK, TakeFailure
<1>6. CASE TakeSuccess
  <2>1. Head(results) \in Result
    BY <1>6 DEF TypeOK, TakeSuccess
  <2>2. Head(results).b \in Batch
    BY <2>1 DEF Result
  <2>3. QED BY <1>6, <2>2 DEF TypeOK, TakeSuccess
<1>7. ASSUME NEW ok \in CommitOutcomes, CommitCall(ok)
      PROVE  TypeOK'
  BY <1>7 DEF TypeOK, CommitCall, Batch
<1>8. CASE CommitRecord
  BY <1>8 DEF TypeOK, CommitRecord, Batch
<1>9. CASE ResumeCall
  BY <1>9 DEF TypeOK, ResumeCall
<1>10. CASE ShutdownDrain
  <2>1. draining' \subseteq Batch
    BY <1>10, BatchOfType DEF ShutdownDrain
  <2>2. buffers' \in [Partition -> Buffer]
    BY <1>10 DEF ShutdownDrain, Empty, Buffer
  <2>3. QED BY <1>10, <2>1, <2>2 DEF TypeOK, ShutdownDrain
<1>11. ASSUME NEW b \in draining, NEW ok \in FlushOutcomes, DrainFlush(b, ok)
       PROVE  TypeOK'
  <2>1. b \in Batch /\ ok \in BOOLEAN
    BY DEF TypeOK
  <2>2. Finish(b, ok)
    BY <1>11 DEF DrainFlush
  <2>3. QED BY <1>11, <2>1, <2>2, FinishType DEF TypeOK, DrainFlush
<1>12. CASE Exit
  BY <1>12 DEF TypeOK, Exit
<1>13. QED
  BY <1>1, <1>2, <1>3, <1>4, <1>5, <1>6, <1>7, <1>8, <1>9, <1>10, <1>11, <1>12
     DEF Loop

\* So does every step of the tasks and of compaction.
LEMMA TasksType ==
    ASSUME TypeOK, Tasks
    PROVE  TypeOK'
<1> USE DEF brokerVars, storeVars, loopVars, taskVars, callbackVars, diskVars
<1>1. ASSUME NEW b \in spawned, FlushStart(b)
      PROVE  TypeOK'
  BY <1>1 DEF TypeOK, FlushStart
<1>2. ASSUME NEW b \in flushing, NEW ok \in FlushOutcomes, FlushEnd(b, ok)
      PROVE  TypeOK'
  <2>1. b \in Batch /\ ok \in BOOLEAN /\ Finish(b, ok) /\ Send(b, ok)
    BY <1>2 DEF TypeOK, FlushEnd
  <2>2. QED BY <1>2, <2>1, FinishType, SendType DEF TypeOK, FlushEnd
<1>3. CASE CompactionAcquire
  BY <1>3 DEF TypeOK, CompactionAcquire
<1>4. CASE CompactionRelease
  BY <1>4 DEF TypeOK, CompactionRelease
<1>5. QED BY <1>1, <1>2, <1>3, <1>4 DEF Tasks

\* And every step of the rebalance callback.
LEMMA CallbackType ==
    ASSUME TypeOK, Callback
    PROVE  TypeOK'
<1> USE DEF brokerVars, storeVars, loopVars, taskVars, callbackVars, diskVars
<1>1. ASSUME NEW R \in SUBSET Partition, RevokeDrain(R)
      PROVE  TypeOK'
  <2>1. cbTodo' \subseteq Batch
    BY <1>1, BatchOfType DEF RevokeDrain, RevokedBatches
  <2>2. buffers' \in [Partition -> Buffer]
    BY <1>1 DEF RevokeDrain, TypeOK, Empty, Buffer
  <2>3. /\ pending' \in [Partition -> NextOffset]
        /\ committed' \in [Partition -> NextOffset]
        /\ epoch' \in [Partition -> Nat]
    BY <1>1 DEF RevokeDrain, TypeOK, NextOffset
  <2>4. QED BY <1>1, <2>1, <2>2, <2>3 DEF TypeOK, RevokeDrain
<1>2. ASSUME NEW b \in cbTodo, CbFlushStart(b)
      PROVE  TypeOK'
  BY <1>2 DEF TypeOK, CbFlushStart
<1>3. ASSUME NEW b \in cbFlight, NEW ok \in FlushOutcomes, CbFlushEnd(b, ok)
      PROVE  TypeOK'
  <2>1. b \in Batch /\ ok \in BOOLEAN /\ Finish(b, ok) /\ Send(b, ok)
    BY <1>3 DEF TypeOK, CbFlushEnd
  <2>2. QED BY <1>3, <2>1, FinishType, SendType DEF TypeOK, CbFlushEnd
<1>4. CASE RevokeEnd
  BY <1>4 DEF TypeOK, RevokeEnd
<1>5. QED BY <1>1, <1>2, <1>3, <1>4 DEF Callback

\* What the process's memory holds are offsets.
LEMMA InMemoryType ==
    ASSUME TypeOK, NEW p \in Partition
    PROVE  InMemory(p) \subseteq Offset
<1>1. buffers[p].evs \subseteq Offset
  BY DEF TypeOK, Buffer
<1>2. {m.off : m \in {x \in inHand : x.p = p}} \subseteq Offset
  BY DEF TypeOK, Message
<1>3. \A b \in Unwritten : b.evs \subseteq Offset
  BY DEF TypeOK, Unwritten, Batch
<1>4. UNION {b.evs : b \in {x \in Unwritten : x.p = p}} \subseteq Offset
  BY <1>3
<1>5. QED BY <1>1, <1>2, <1>4 DEF InMemory

\* The group and a death keep the types too.
LEMMA OutsideType ==
    ASSUME TypeOK, Group \/ ProcessDeath
    PROVE  TypeOK'
<1> USE DEF brokerVars, storeVars, loopVars, taskVars, callbackVars, diskVars
<1>1. ASSUME NEW p \in Partition, Assign(p)
      PROVE  TypeOK'
  BY <1>1 DEF TypeOK, Assign
<1>2. ASSUME NEW p \in Partition, NEW n \in NextOffset, PeerConsume(p, n)
      PROVE  TypeOK'
  BY <1>2 DEF TypeOK, PeerConsume, Good
<1>3. CASE ProcessDeath
  <2>1. lost' \in [Partition -> SUBSET Offset]
    BY <1>3, InMemoryType DEF ProcessDeath, TypeOK
  <2>2. buffers' \in [Partition -> Buffer]
    BY <1>3 DEF ProcessDeath, Empty, Buffer
  <2>3. results' \in Seq(Result)
    BY <1>3 DEF ProcessDeath
  <2>4. /\ pending' \in [Partition -> NextOffset]
        /\ committed' \in [Partition -> NextOffset]
    BY <1>3 DEF ProcessDeath, NextOffset
  <2>5. /\ inHand' \subseteq Message /\ held' \subseteq Batch /\ draining' \subseteq Batch
        /\ spawned' \subseteq Batch /\ flushing' \subseteq Batch
        /\ cbTodo' \subseteq Batch /\ cbFlight' \subseteq Batch
    BY <1>3 DEF ProcessDeath
  <2>6. /\ assigned' \subseteq Partition /\ kpaused' \subseteq Partition
        /\ paused' \subseteq Partition /\ toPause' \subseteq Partition
        /\ revoking' \subseteq Partition
        /\ failed' \subseteq Partition /\ late' \subseteq Partition
    BY <1>3 DEF ProcessDeath
  <2>7. /\ deaths' \in Nat
        /\ compacting' \in BOOLEAN
        /\ pc' = "select" /\ after' = "select"
    <3>1. deaths' = deaths + 1 /\ deaths \in Nat
      BY <1>3 DEF ProcessDeath, TypeOK
    <3>2. compacting' \in BOOLEAN /\ pc' = "select" /\ after' = "select"
      BY <1>3, Zenon DEF ProcessDeath
    <3>3. QED BY <3>1, <3>2
  <2>8. UNCHANGED <<kcommitted, position, epoch, durable>>
    BY <1>3 DEF ProcessDeath
  <2>9. QED
    BY <2>1, <2>2, <2>3, <2>4, <2>5, <2>6, <2>7, <2>8 DEF TypeOK
<1>4. QED BY <1>1, <1>2, <1>3 DEF Group

\* Type correctness, for every value of the constants.
THEOREM TypeCorrect == Spec => []TypeOK
<1>1. Init => TypeOK
  <2> SUFFICES ASSUME Init PROVE TypeOK
    OBVIOUS
  <2>1. 0 \in NextOffset /\ Empty \in Buffer /\ <<>> \in Seq(Result)
    BY DEF NextOffset, Empty, Buffer
  <2>2. QED BY <2>1 DEF Init, TypeOK
<1>2. TypeOK /\ [Next]_vars => TypeOK'
  <2> SUFFICES ASSUME TypeOK, [Next]_vars PROVE TypeOK'
    OBVIOUS
  <2>1. CASE Next
    BY <2>1, LoopType, TasksType, CallbackType, OutsideType DEF Next
  <2>2. CASE UNCHANGED vars
    BY <2>2 DEF TypeOK, vars, brokerVars, storeVars, loopVars, taskVars,
                callbackVars, diskVars
  <2>3. QED BY <2>1, <2>2
<1>3. QED BY <1>1, <1>2, PTL DEF Spec


-----------------------------------------------------------------------------
(* Delivery *)

\* Event o of partition p exists in the process's memory.
InMem(p, o) ==
    \/ o \in buffers[p].evs
    \/ \E m \in inHand : m.p = p /\ m.off = o
    \/ \E b \in Unwritten : b.p = p /\ o \in b.evs

Accounted(p, o) ==
    o \in durable[p] \/ o \in lost[p] \/ o \in Poison \/ InMem(p, o)

Covered(p, n) == \A o \in Offset : o < n => Accounted(p, o)

\* Where the loop, the drain and the callback keep what they work on.
Control ==
    /\ pc # "process" => inHand = {}
    /\ \A m1, m2 \in inHand : m1 = m2
    /\ pc \in {"select", "process", "drain", "exited"} => held = {}
    /\ draining # {} => after = "drain" /\ pc \in {"drain", "commit", "record"}
    /\ pc = "drain" => after = "drain"
    /\ revoking = {} => cbTodo = {} /\ cbFlight = {}
    /\ \A b1, b2 \in cbFlight : b1 = b2

\* A buffer's pending offset is the one after an event it holds.
BufferSound ==
    \A p \in Partition :
        /\ buffers[p].n = 0 => buffers[p].evs = {}
        /\ buffers[p].n > 0 => /\ pending[p] > 0
                               /\ pending[p] - 1 \in buffers[p].evs
                               /\ Covered(p, pending[p])

\* So is a batch's up_to_offset.
Sound(b) == b.upTo > 0 /\ b.upTo - 1 \in b.evs /\ Covered(b.p, b.upTo)
BatchSound == \A b \in Unwritten : Sound(b)

\* A batch whose success is in the channel, or is being committed, is stored.
Stored(b) == b.evs \subseteq durable[b.p] /\ Sound(b)
Reported(b) == \E i \in 1 .. Len(results) : results[i].ok /\ results[i].b = b
ResultSound == \A b \in Batch : Reported(b) => Stored(b)
HeldStored ==
    pc \in {"commit", "record", "resume"} =>
        \A b \in held : b.evs \subseteq durable[b.p]

ReadSound ==
    /\ \A m \in inHand : Covered(m.p, m.off)
    /\ \A p \in assigned, n \in NextOffset : position[p] = n => Covered(p, n)

CommitSound ==
    \A p \in Partition :
        /\ Covered(p, kcommitted[p])
        /\ kcommitted[p] > 0 => kcommitted[p] - 1 \in durable[p]

DeliveryInv ==
    /\ TypeOK /\ Control /\ BufferSound /\ BatchSound /\ ResultSound
    /\ HeldStored /\ ReadSound /\ CommitSound

USE DEF brokerVars, storeVars, loopVars, taskVars, callbackVars, diskVars

-----------------------------------------------------------------------------
(* No step leaves an accounted event unaccounted                           *)

\* Buffering, draining and committing in the select! loop.
LEMMA LoopKeeps ==
    ASSUME TypeOK, Control, HeldStored, BufferSound, Loop, NEW p \in Partition,
           NEW o \in Offset, Accounted(p, o)
    PROVE  Accounted(p, o)'
<1> USE DEF Accounted, InMem, Unwritten
<1>1. ASSUME NEW q \in Partition, Recv(q)
      PROVE  Accounted(p, o)'
  BY <1>1 DEF Recv, Control
<1>2. ASSUME NEW q \in Partition, TickFlush(q)
      PROVE  Accounted(p, o)'
  <2>1. BatchOf(q) \in Unwritten' /\ Unwritten \subseteq Unwritten'
    BY <1>2 DEF TickFlush, Control
  <2>2. BatchOf(q).p = q /\ BatchOf(q).evs = buffers[q].evs
    BY DEF BatchOf
  <2>3. p # q => buffers'[p] = buffers[p]
    BY <1>2 DEF TickFlush, TypeOK
  <2>4. UNCHANGED <<inHand, durable, lost>>
    BY <1>2 DEF TickFlush
  <2> HIDE DEF Unwritten
  <2>5. QED BY <2>1, <2>2, <2>3, <2>4
<1>3. ASSUME NEW m \in inHand, NEW old \in BOOLEAN, Process(m, old)
      PROVE  Accounted(p, o)'
  <2> DEFINE batch == [p |-> m.p, evs |-> buffers[m.p].evs \cup {m.off},
                       upTo |-> CommitPoint(m), ep |-> m.ep]
  <2>1. m \in Message /\ m.p \in Partition /\ \A x \in inHand : x = m
    BY <1>3 DEF TypeOK, Message, Control
  <2>2. Unwritten \subseteq Unwritten'
    BY <1>3 DEF Process, Control
  <2>3. \/ batch \in Unwritten'
        \/ buffers'[m.p].evs = buffers[m.p].evs \cup {m.off}
    BY <1>3, <2>1 DEF Process, TypeOK
  <2>4. batch.p = m.p /\ batch.evs = buffers[m.p].evs \cup {m.off}
    OBVIOUS
  <2>5. p # m.p => buffers'[p] = buffers[p]
    BY <1>3, <2>1 DEF Process, TypeOK
  <2>6. UNCHANGED <<durable, lost>>
    BY <1>3 DEF Process
  <2> HIDE DEF Unwritten, batch
  <2>7. QED BY <2>1, <2>2, <2>3, <2>4, <2>5, <2>6
<1>4. CASE PauseCall
  BY <1>4 DEF PauseCall
<1>5. CASE TakeFailure
  BY <1>5 DEF TakeFailure
<1>6. CASE TakeSuccess
  BY <1>6 DEF TakeSuccess, Control
<1>7. ASSUME NEW ok \in CommitOutcomes, CommitCall(ok)
      PROVE  Accounted(p, o)'
  BY <1>7 DEF CommitCall
<1>8. CASE CommitRecord
  BY <1>8 DEF CommitRecord, HeldStored
<1>9. CASE ResumeCall
  BY <1>9 DEF ResumeCall, HeldStored
<1>10. CASE ShutdownDrain
  <2>1. Unwritten \subseteq Unwritten'
    BY <1>10 DEF ShutdownDrain, Control
  <2>2. buffers[p].n > 0 => BatchOf(p) \in Unwritten'
    BY <1>10 DEF ShutdownDrain
  <2>3. BatchOf(p).p = p /\ BatchOf(p).evs = buffers[p].evs
    BY DEF BatchOf
  <2>4. buffers[p].n > 0 \/ buffers[p].evs = {}
    BY DEF BufferSound, TypeOK, Buffer
  <2>5. UNCHANGED <<inHand, durable, lost>>
    BY <1>10 DEF ShutdownDrain
  <2> HIDE DEF Unwritten
  <2>6. QED BY <2>1, <2>2, <2>3, <2>4, <2>5
<1>11. ASSUME NEW b \in draining, NEW ok \in FlushOutcomes, DrainFlush(b, ok)
       PROVE  Accounted(p, o)'
  BY <1>11 DEF DrainFlush, Finish, Control, TypeOK
<1>12. CASE Exit
  BY <1>12 DEF Exit
<1>13. QED
  BY <1>1, <1>2, <1>3, <1>4, <1>5, <1>6, <1>7, <1>8, <1>9, <1>10, <1>11, <1>12
     DEF Loop

\* Flush tasks and compaction.
LEMMA TasksKeep ==
    ASSUME TypeOK, Control, Tasks, NEW p \in Partition,
           NEW o \in Offset, Accounted(p, o)
    PROVE  Accounted(p, o)'
<1> USE DEF Accounted, InMem, Unwritten
<1>1. ASSUME NEW b \in spawned, FlushStart(b)
      PROVE  Accounted(p, o)'
  BY <1>1 DEF FlushStart
<1>2. ASSUME NEW b \in flushing, NEW ok \in FlushOutcomes, FlushEnd(b, ok)
      PROVE  Accounted(p, o)'
  BY <1>2 DEF FlushEnd, Finish, TypeOK
<1>3. CASE CompactionAcquire \/ CompactionRelease
  BY <1>3 DEF CompactionAcquire, CompactionRelease
<1>4. QED BY <1>1, <1>2, <1>3 DEF Tasks

\* The rebalance callback.
LEMMA CallbackKeeps ==
    ASSUME TypeOK, Control, BufferSound, Callback, NEW p \in Partition,
           NEW o \in Offset, Accounted(p, o)
    PROVE  Accounted(p, o)'
<1> USE DEF Accounted, InMem, Unwritten
<1>1. ASSUME NEW R \in SUBSET Partition, RevokeDrain(R)
      PROVE  Accounted(p, o)'
  <2>1. Unwritten \subseteq Unwritten'
    BY <1>1 DEF RevokeDrain, Control
  <2>2. p \in R /\ buffers[p].n > 0 => BatchOf(p) \in Unwritten'
    BY <1>1 DEF RevokeDrain, RevokedBatches
  <2>3. BatchOf(p).p = p /\ BatchOf(p).evs = buffers[p].evs
    BY DEF BatchOf
  <2>4. buffers[p].n > 0 \/ buffers[p].evs = {}
    BY DEF BufferSound, TypeOK, Buffer
  <2>5. UNCHANGED <<inHand, durable, lost>> /\ (p \notin R => buffers'[p] = buffers[p])
    BY <1>1 DEF RevokeDrain
  <2> HIDE DEF Unwritten
  <2>6. QED BY <2>1, <2>2, <2>3, <2>4, <2>5
<1>2. ASSUME NEW b \in cbTodo, CbFlushStart(b)
      PROVE  Accounted(p, o)'
  BY <1>2 DEF CbFlushStart
<1>3. ASSUME NEW b \in cbFlight, NEW ok \in FlushOutcomes, CbFlushEnd(b, ok)
      PROVE  Accounted(p, o)'
  BY <1>3 DEF CbFlushEnd, Finish, Control, TypeOK
<1>4. CASE RevokeEnd
  BY <1>4 DEF RevokeEnd
<1>5. QED BY <1>1, <1>2, <1>3, <1>4 DEF Callback

\* The group, and a death: what memory held becomes lost.
LEMMA OutsideKeeps ==
    ASSUME TypeOK, Group \/ ProcessDeath, NEW p \in Partition,
           NEW o \in Offset, Accounted(p, o)
    PROVE  Accounted(p, o)'
<1> USE DEF Accounted
<1>1. ASSUME NEW q \in Partition, Assign(q)
      PROVE  Accounted(p, o)'
  BY <1>1 DEF Assign, InMem, Unwritten
<1>2. ASSUME NEW q \in Partition, NEW n \in NextOffset, PeerConsume(q, n)
      PROVE  Accounted(p, o)'
  BY <1>2 DEF PeerConsume, InMem, Unwritten, TypeOK
<1>3. CASE ProcessDeath
  <2>1. InMem(p, o) => o \in InMemory(p)
    BY DEF InMem, InMemory
  <2>2. QED BY <1>3, <2>1 DEF ProcessDeath, TypeOK
<1>4. QED BY <1>1, <1>2, <1>3 DEF Group

\* No step of the system.
LEMMA NextKeeps ==
    ASSUME DeliveryInv, Next
    PROVE  \A p \in Partition, o \in Offset : Accounted(p, o) => Accounted(p, o)'
BY LoopKeeps, TasksKeep, CallbackKeeps, OutsideKeeps DEF DeliveryInv, Next

-----------------------------------------------------------------------------
(* Each part of the invariant                                              *)

\* The loop works on one thing at a time, and so does the callback.
LEMMA ControlStep ==
    ASSUME TypeOK, Control, Next
    PROVE  Control'
<1> USE DEF Control
<1>1. ASSUME NEW q \in Partition, Recv(q)
      PROVE  Control'
  BY <1>1 DEF Recv
<1>2. ASSUME NEW q \in Partition, TickFlush(q)
      PROVE  Control'
  BY <1>2 DEF TickFlush
<1>3. ASSUME NEW m \in inHand, NEW old \in BOOLEAN, Process(m, old)
      PROVE  Control'
  BY <1>3 DEF Process
<1>4. CASE PauseCall
  BY <1>4 DEF PauseCall
<1>5. CASE TakeFailure
  BY <1>5 DEF TakeFailure
<1>6. CASE TakeSuccess
  BY <1>6 DEF TakeSuccess
<1>7. ASSUME NEW ok \in CommitOutcomes, CommitCall(ok)
      PROVE  Control'
  BY <1>7 DEF CommitCall
<1>8. CASE CommitRecord
  BY <1>8 DEF CommitRecord, TypeOK
<1>9. CASE ResumeCall
  BY <1>9 DEF ResumeCall
<1>10. CASE ShutdownDrain
  BY <1>10 DEF ShutdownDrain
<1>11. ASSUME NEW b \in draining, NEW ok \in FlushOutcomes, DrainFlush(b, ok)
       PROVE  Control'
  BY <1>11 DEF DrainFlush
<1>12. CASE Exit
  BY <1>12 DEF Exit
<1>13. CASE Tasks
  BY <1>13 DEF Tasks, FlushStart, FlushEnd, CompactionAcquire, CompactionRelease
<1>14. CASE Callback
  BY <1>14 DEF Callback, RevokeDrain, CbFlushStart, CbFlushEnd, RevokeEnd
<1>15. CASE Group
  BY <1>15 DEF Group, Assign, PeerConsume
<1>16. CASE ProcessDeath
  BY <1>16 DEF ProcessDeath
<1>17. QED
  BY <1>1, <1>2, <1>3, <1>4, <1>5, <1>6, <1>7, <1>8, <1>9, <1>10, <1>11, <1>12,
     <1>13, <1>14, <1>15, <1>16 DEF Next, Loop

\* The pending offset follows the event that Process buffered last; a drain
\* empties the buffer.
LEMMA BufferStep ==
    ASSUME DeliveryInv, Next
    PROVE  BufferSound'
<1> DEFINE Keep == \A p \in Partition, o \in Offset : Accounted(p, o) => Accounted(p, o)'
           Untouched == \A p \in Partition :
                          \/ buffers'[p] = Empty
                          \/ buffers'[p] = buffers[p] /\ pending'[p] = pending[p]
<1>0. Keep /\ TypeOK /\ BufferSound /\ ReadSound
  BY NextKeeps DEF DeliveryInv
<1> HIDE DEF Keep
<1>1. ASSUME NEW m \in inHand, NEW old \in BOOLEAN, Process(m, old)
      PROVE  BufferSound'
  <2>1. /\ m.p \in Partition /\ m.off \in Offset /\ m.off \in Nat
        /\ Covered(m.p, m.off)
    BY <1>0 DEF TypeOK, Message, Offset, ReadSound
  <2>2. ASSUME NEW p \in Partition, p # m.p
        PROVE  buffers'[p] = buffers[p] /\ pending'[p] = pending[p]
    BY <1>1, <2>2, <1>0 DEF Process, TypeOK
  <2>3. /\ pending'[m.p] = m.off + 1
        /\ \/ buffers'[m.p] = Empty
           \/ /\ buffers'[m.p].evs = buffers[m.p].evs \cup {m.off}
              /\ buffers'[m.p].n = buffers[m.p].n + 1
    BY <1>0, <1>1, <2>1 DEF Process, TypeOK, CommitPoint
  <2>4. buffers[m.p].n \in Nat
    BY <1>0, <2>1 DEF TypeOK, Buffer
  <2>5. m.off \in buffers'[m.p].evs => Accounted(m.p, m.off)'
    BY DEF Accounted, InMem
  <2>6. buffers'[m.p] # Empty => Covered(m.p, m.off + 1)'
    BY <1>0, <2>1, <2>3, <2>5 DEF Covered, Keep, Offset
  <2>7. ASSUME NEW p \in Partition, p # m.p, buffers[p].n > 0
        PROVE  Covered(p, pending[p])'
    BY <1>0, <2>2, <2>7 DEF Covered, Keep, BufferSound
  <2>8. ASSUME NEW p \in Partition, p = m.p
        PROVE  /\ buffers'[p].n = 0 => buffers'[p].evs = {}
               /\ buffers'[p].n > 0 => /\ pending'[p] > 0
                                       /\ pending'[p] - 1 \in buffers'[p].evs
                                       /\ Covered(p, pending[p])'
    BY <2>1, <2>3, <2>4, <2>6, <2>8 DEF Empty, Covered
  <2>9. QED BY <1>0, <2>2, <2>7, <2>8 DEF BufferSound
<1>2. CASE Untouched
  BY <1>0, <1>2 DEF BufferSound, Empty, Covered, Keep
<1>3. ASSUME ~ \E m \in inHand, old \in BOOLEAN : Process(m, old)
      PROVE  Untouched
  <2>1. CASE Loop
    BY <1>0, <1>3, <2>1 DEF TypeOK, Loop, Recv, TickFlush, PauseCall, TakeFailure,
       TakeSuccess, CommitCall, CommitRecord, ResumeCall, ShutdownDrain, DrainFlush, Exit
  <2>2. CASE Tasks
    BY <2>2 DEF Tasks, FlushStart, FlushEnd, CompactionAcquire, CompactionRelease
  <2>3. CASE Callback
    BY <2>3 DEF Callback, RevokeDrain, CbFlushStart, CbFlushEnd, RevokeEnd
  <2>4. CASE Group \/ ProcessDeath
    BY <2>4 DEF Group, Assign, PeerConsume, ProcessDeath
  <2>5. QED BY <2>1, <2>2, <2>3, <2>4 DEF Next
<1>4. QED BY <1>1, <1>2, <1>3

\* A batch that was sound stays sound: only its events' bookkeeping moves.
LEMMA SoundStable ==
    ASSUME DeliveryInv, Next, NEW b \in Batch, Sound(b)
    PROVE  Sound(b)'
<1>1. b.p \in Partition
  BY DEF Batch
<1>2. QED BY <1>1, NextKeeps DEF Sound, Covered

\* What is drained from a buffer that holds events is sound.
LEMMA DrainedSound ==
    ASSUME DeliveryInv, Next, NEW p \in Partition, buffers[p].n > 0
    PROVE  BatchOf(p) \in Batch /\ Sound(BatchOf(p))
<1>1. BatchOf(p) \in Batch
  BY BatchOfType DEF DeliveryInv
<1>2. QED BY <1>1 DEF DeliveryInv, BufferSound, BatchOf, Sound

\* Every batch on its way to disk ends with the event before its up_to_offset.
LEMMA BatchStep ==
    ASSUME DeliveryInv, Next
    PROVE  BatchSound'
<1>0. TypeOK /\ Control /\ BufferSound /\ BatchSound /\ ReadSound
  BY DEF DeliveryInv
<1>1. \A b \in Unwritten : b \in Batch /\ Sound(b)
  BY <1>0 DEF TypeOK, Unwritten, BatchSound
<1>2. SUFFICES ASSUME NEW b \in Unwritten', b \notin Unwritten
               PROVE  Sound(b)'
  BY <1>1, SoundStable DEF BatchSound
<1>3. ASSUME NEW p \in Partition, TickFlush(p)
      PROVE  Sound(b)'
  <2>1. b = BatchOf(p) /\ buffers[p].n > 0
    BY <1>2, <1>3 DEF TickFlush, Unwritten, MayBeOld
  <2>2. QED BY <2>1, DrainedSound, SoundStable
<1>4. ASSUME NEW m \in inHand, NEW old \in BOOLEAN, Process(m, old)
      PROVE  Sound(b)'
  <2>1. /\ m.p \in Partition /\ m.off \in Offset /\ m.off \in Nat
        /\ Covered(m.p, m.off)
    BY <1>0 DEF TypeOK, Message, Offset, ReadSound
  <2>2. b = [p |-> m.p, evs |-> buffers[m.p].evs \cup {m.off},
             upTo |-> m.off + 1, ep |-> m.ep]
    BY <1>2, <1>4 DEF Process, Unwritten, CommitPoint
  <2>3. b.p = m.p /\ b.upTo = m.off + 1 /\ m.off \in b.evs
    BY <2>2
  <2>4. Accounted(m.p, m.off)'
    BY <1>2, <2>3 DEF Accounted, InMem
  <2>5. ASSUME NEW o \in Offset, o < m.off + 1
        PROVE  Accounted(m.p, o)'
    BY <2>1, <2>4, <2>5, NextKeeps DEF Covered, Offset
  <2>6. QED BY <2>1, <2>3, <2>5 DEF Sound, Covered
<1>5. ASSUME NEW R \in SUBSET Partition, RevokeDrain(R)
      PROVE  Sound(b)'
  <2>1. PICK p \in R : b = BatchOf(p) /\ buffers[p].n > 0
    BY <1>2, <1>5 DEF RevokeDrain, RevokedBatches, Unwritten
  <2>2. QED BY <2>1, DrainedSound, SoundStable
<1>6. CASE ShutdownDrain
  <2>1. PICK p \in Partition : b = BatchOf(p) /\ buffers[p].n > 0
    BY <1>2, <1>6 DEF ShutdownDrain, Unwritten
  <2>2. QED BY <2>1, DrainedSound, SoundStable
<1>7. CASE TakeSuccess
  <2>1. b = Head(results).b /\ results # <<>> /\ Head(results).ok
    BY <1>2, <1>7 DEF TakeSuccess, Unwritten, Succeeded
  <2>2. results \in Seq(Result)
    BY <1>0 DEF TypeOK
  <2>3. Head(results) = results[1] /\ 1 \in 1 .. Len(results) /\ results[1] \in Result
    BY <2>1, <2>2
  <2>4. b \in Batch /\ Sound(b)
    BY <2>1, <2>3 DEF Result, DeliveryInv, ResultSound, Reported, Stored
  <2>5. QED BY <2>4, SoundStable
<1>8. CASE Tasks
  BY <1>2, <1>8 DEF Tasks, FlushStart, FlushEnd, CompactionAcquire,
                    CompactionRelease, Unwritten
<1>9. CASE Group \/ ProcessDeath
  BY <1>2, <1>9 DEF Group, Assign, PeerConsume, ProcessDeath, Unwritten
<1>10. ASSUME NEW q \in Partition, Recv(q)
       PROVE  Sound(b)'
  BY <1>2, <1>10 DEF Recv, Unwritten
<1>11. CASE PauseCall
  BY <1>2, <1>11 DEF PauseCall, Unwritten
<1>12. CASE TakeFailure
  BY <1>2, <1>12 DEF TakeFailure, Unwritten
<1>13. ASSUME NEW ok \in CommitOutcomes, CommitCall(ok)
       PROVE  Sound(b)'
  BY <1>2, <1>13 DEF CommitCall, Unwritten
<1>14. CASE CommitRecord \/ ResumeCall \/ Exit
  BY <1>2, <1>14 DEF CommitRecord, ResumeCall, Exit, Unwritten
<1>15. ASSUME NEW d \in draining, NEW ok \in FlushOutcomes, DrainFlush(d, ok)
       PROVE  Sound(b)'
  BY <1>2, <1>15 DEF DrainFlush, Unwritten
<1>16. ASSUME NEW d \in cbTodo, CbFlushStart(d)
       PROVE  Sound(b)'
  BY <1>2, <1>16 DEF CbFlushStart, Unwritten
<1>17. ASSUME NEW d \in cbFlight, NEW ok \in FlushOutcomes, CbFlushEnd(d, ok)
       PROVE  Sound(b)'
  BY <1>2, <1>17 DEF CbFlushEnd, Unwritten
<1>18. CASE RevokeEnd
  BY <1>2, <1>18 DEF RevokeEnd, Unwritten
<1>19. QED
  BY <1>3, <1>4, <1>5, <1>6, <1>7, <1>8, <1>9, <1>10, <1>11, <1>12, <1>13, <1>14,
     <1>15, <1>16, <1>17, <1>18 DEF Next, Loop, Callback

\* Nothing deletes a stored event.
LEMMA FinishGrows ==
    ASSUME TypeOK, NEW b \in Batch, NEW ok, Finish(b, ok), NEW p \in Partition
    PROVE  durable[p] \subseteq durable'[p]
BY DEF TypeOK, Batch, Finish

LEMMA DurableGrows ==
    ASSUME TypeOK, Next, NEW p \in Partition
    PROVE  durable[p] \subseteq durable'[p]
<1>1. ASSUME NEW b \in Unwritten, NEW ok, Finish(b, ok)
      PROVE  durable[p] \subseteq durable'[p]
  BY <1>1, FinishGrows DEF TypeOK, Unwritten
<1>2. CASE Loop
  <2>1. \/ durable' = durable
        \/ \E b \in draining, ok \in FlushOutcomes : Finish(b, ok)
    BY <1>2 DEF Loop, Recv, TickFlush, Process, PauseCall, TakeFailure, TakeSuccess,
       CommitCall, CommitRecord, ResumeCall, ShutdownDrain, DrainFlush, Exit
  <2>2. QED BY <1>1, <2>1 DEF Unwritten
<1>3. CASE Tasks
  <2>1. \/ durable' = durable
        \/ \E b \in flushing, ok \in FlushOutcomes : Finish(b, ok)
    BY <1>3 DEF Tasks, FlushStart, FlushEnd, CompactionAcquire, CompactionRelease
  <2>2. QED BY <1>1, <2>1 DEF Unwritten
<1>4. CASE Callback
  <2>1. \/ durable' = durable
        \/ \E b \in cbFlight, ok \in FlushOutcomes : Finish(b, ok)
    BY <1>4 DEF Callback, RevokeDrain, CbFlushStart, CbFlushEnd, RevokeEnd
  <2>2. QED BY <1>1, <2>1 DEF Unwritten
<1>5. CASE Group \/ ProcessDeath
  BY <1>5 DEF TypeOK, Group, Assign, PeerConsume, ProcessDeath
<1>6. QED BY <1>2, <1>3, <1>4, <1>5 DEF Next

\* So a stored batch stays stored.
LEMMA StoredStable ==
    ASSUME DeliveryInv, Next, NEW b \in Batch, Stored(b)
    PROVE  Stored(b)'
<1>1. b.p \in Partition /\ TypeOK
  BY DEF Batch, DeliveryInv
<1>2. QED BY <1>1, SoundStable, DurableGrows DEF Stored

\* Sending the outcome of a sound batch's flush keeps the channel sound.
LEMMA SendSound ==
    ASSUME DeliveryInv, Next, NEW b \in Unwritten, NEW ok \in BOOLEAN,
           Finish(b, ok), Send(b, ok)
    PROVE  ResultSound'
<1>1. TypeOK /\ b \in Batch /\ Sound(b) /\ results \in Seq(Result)
  BY DEF DeliveryInv, TypeOK, Unwritten, BatchSound
<1>2. ok => Stored(b)'
  <2>1. b.p \in Partition
    BY <1>1 DEF Batch
  <2>2. ok => b.evs \subseteq durable'[b.p]
    BY <1>1, <2>1 DEF Finish, TypeOK
  <2>3. QED BY <1>1, <2>2, SoundStable DEF Stored
<1>3. ASSUME NEW x \in Batch, Reported(x)'
      PROVE  Reported(x) \/ (x = b /\ ok)
  <2>1. CASE results' = results
    BY <1>3, <2>1 DEF Reported
  <2>2. CASE results' = Append(results, [b |-> b, ok |-> ok])
    <3>1. PICK i \in 1 .. Len(results') : results'[i].ok /\ results'[i].b = x
      BY <1>3 DEF Reported
    <3>2. CASE i \in 1 .. Len(results)
      BY <1>1, <2>2, <3>1, <3>2 DEF Reported
    <3>3. CASE i = Len(results) + 1
      BY <1>1, <2>2, <3>1, <3>3
    <3>4. QED BY <1>1, <2>2, <3>1, <3>2, <3>3
  <2>3. QED BY <2>1, <2>2 DEF Send
<1>4. QED BY <1>2, <1>3, StoredStable DEF ResultSound, DeliveryInv

\* The channel: results are sent after the flush, and taken in order.
LEMMA ResultStep ==
    ASSUME DeliveryInv, Next
    PROVE  ResultSound'
<1>1. TypeOK /\ ResultSound /\ results \in Seq(Result)
  BY DEF DeliveryInv, TypeOK
<1>2. CASE results' = results \/ results' = <<>>
  BY <1>1, <1>2, StoredStable DEF ResultSound, Reported
<1>3. CASE results # <<>> /\ results' = Tail(results)
  <2>1. ASSUME NEW x \in Batch, Reported(x)'
        PROVE  Reported(x)
    <3>1. PICK i \in 1 .. Len(results') : results'[i].ok /\ results'[i].b = x
      BY <2>1 DEF Reported
    <3>2. i + 1 \in 1 .. Len(results) /\ results'[i] = results[i + 1]
      BY <1>1, <1>3
    <3>3. QED BY <3>1, <3>2 DEF Reported
  <2>2. QED BY <1>1, <2>1, StoredStable DEF ResultSound
<1>4. CASE Loop
  BY <1>2, <1>3, <1>4 DEF Loop, Recv, TickFlush, Process, PauseCall, TakeFailure,
     TakeSuccess, CommitCall, CommitRecord, ResumeCall, ShutdownDrain, DrainFlush, Exit
<1>5. CASE Tasks
  <2>1. ASSUME NEW b \in flushing, NEW ok \in FlushOutcomes, FlushEnd(b, ok)
        PROVE  ResultSound'
    BY <2>1, SendSound DEF FlushEnd, Unwritten
  <2>2. QED
    BY <1>2, <1>5, <2>1 DEF Tasks, FlushStart, CompactionAcquire, CompactionRelease
<1>6. CASE Callback
  <2>1. ASSUME NEW b \in cbFlight, NEW ok \in FlushOutcomes, CbFlushEnd(b, ok)
        PROVE  ResultSound'
    BY <2>1, SendSound DEF CbFlushEnd, Unwritten
  <2>2. QED
    BY <1>2, <1>6, <2>1 DEF Callback, RevokeDrain, CbFlushStart, RevokeEnd
<1>7. CASE Group \/ ProcessDeath
  BY <1>2, <1>7 DEF Group, Assign, PeerConsume, ProcessDeath
<1>8. QED BY <1>4, <1>5, <1>6, <1>7 DEF Next

\* The batch being committed is stored: it comes from a successful result, or
\* the shutdown drain has just flushed it.
LEMMA HeldStep ==
    ASSUME DeliveryInv, Next
    PROVE  HeldStored'
<1>1. TypeOK /\ Control /\ HeldStored /\ ResultSound /\ results \in Seq(Result)
  BY DEF DeliveryInv, TypeOK
<1>2. ASSUME NEW b \in Batch, b.evs \subseteq durable[b.p]
      PROVE  b.evs \subseteq durable'[b.p]
  BY <1>1, <1>2, DurableGrows DEF Batch
<1>3. CASE TakeSuccess
  <2>1. results # <<>> /\ Head(results).ok
    BY <1>3 DEF TakeSuccess, Succeeded
  <2>2. /\ Head(results) = results[1] /\ 1 \in 1 .. Len(results)
        /\ results[1] \in Result
    BY <1>1, <2>1
  <2>3. Stored(Head(results).b)
    BY <1>1, <2>1, <2>2 DEF ResultSound, Reported, Result
  <2>4. held' \subseteq {Head(results).b}
    BY <1>3 DEF TakeSuccess
  <2>5. Head(results).b \in Batch
    BY <2>2 DEF Result
  <2>6. QED BY <1>2, <2>3, <2>4, <2>5 DEF HeldStored, Stored
<1>4. ASSUME NEW b \in draining, NEW ok \in FlushOutcomes, DrainFlush(b, ok)
      PROVE  HeldStored'
  <2>1. b \in Batch
    BY <1>1 DEF TypeOK
  <2>2. CASE held' = {b} /\ ok
    BY <1>1, <1>4, <2>1, <2>2 DEF DrainFlush, Finish, HeldStored, TypeOK, Batch
  <2>3. CASE pc' = "drain"
    BY <2>3 DEF HeldStored
  <2>4. QED BY <1>4, <2>2, <2>3 DEF DrainFlush
<1>5. CASE pc' \notin {"commit", "record", "resume"}
  BY <1>5 DEF HeldStored
<1>6. CASE held' \subseteq held /\ pc \in {"commit", "record", "resume"}
  <2>1. \A b \in held : b \in Batch /\ b.evs \subseteq durable[b.p]
    BY <1>1, <1>6 DEF HeldStored, TypeOK
  <2>2. QED BY <1>2, <1>6, <2>1 DEF HeldStored
<1>7. CASE Loop
  <2>1. ASSUME NEW q \in Partition, Recv(q) \/ TickFlush(q)
        PROVE  pc' \notin {"commit", "record", "resume"}
    BY <2>1 DEF Recv, TickFlush
  <2>2. ASSUME NEW m \in inHand, NEW old \in BOOLEAN, Process(m, old)
        PROVE  pc' \notin {"commit", "record", "resume"}
    BY <2>2 DEF Process
  <2>3. CASE PauseCall \/ TakeFailure \/ ResumeCall \/ ShutdownDrain \/ Exit
    BY <1>5, <2>3 DEF PauseCall, TakeFailure, ResumeCall, ShutdownDrain, Exit
  <2>4. ASSUME NEW ok \in CommitOutcomes, CommitCall(ok)
        PROVE  HeldStored'
    BY <1>6, <2>4 DEF CommitCall
  <2>5. CASE CommitRecord
    BY <1>6, <2>5 DEF CommitRecord
  <2>6. QED BY <1>3, <1>4, <1>5, <1>7, <2>1, <2>2, <2>3, <2>4, <2>5 DEF Loop
<1>8. CASE Tasks
  BY <1>5, <1>6, <1>8 DEF Tasks, FlushStart, FlushEnd, CompactionAcquire, CompactionRelease
<1>9. CASE Callback
  BY <1>5, <1>6, <1>9 DEF Callback, RevokeDrain, CbFlushStart, CbFlushEnd, RevokeEnd
<1>10. CASE Group \/ ProcessDeath
  BY <1>5, <1>6, <1>10 DEF Group, Assign, PeerConsume, ProcessDeath
<1>11. QED BY <1>7, <1>8, <1>9, <1>10 DEF Next

\* Consumption starts at a covered offset and moves one message at a time.
LEMMA ReadStep ==
    ASSUME DeliveryInv, Next
    PROVE  ReadSound'
<1>1. TypeOK /\ ReadSound /\ CommitSound
  BY DEF DeliveryInv
<1>2. ASSUME NEW p \in Partition, NEW n \in NextOffset, Covered(p, n)
      PROVE  Covered(p, n)'
  BY <1>2, NextKeeps DEF Covered
<1>3. \A p \in assigned : p \in Partition /\ position[p] \in NextOffset /\ Covered(p, position[p])
  BY <1>1 DEF TypeOK, ReadSound
<1>4. \A m \in inHand : m.p \in Partition /\ m.off \in NextOffset /\ Covered(m.p, m.off)
  BY <1>1 DEF TypeOK, ReadSound, Message, Offset, NextOffset
<1>5. CASE inHand' \subseteq inHand /\ assigned' \subseteq assigned /\ position' = position
  BY <1>2, <1>3, <1>4, <1>5 DEF ReadSound
<1>6. ASSUME NEW q \in Partition, NEW off \in NextOffset, off = position[q], Recv(q)
      PROVE  ReadSound'
  <2>1. /\ q \in assigned /\ off \in Offset /\ off \in Nat
        /\ off + 1 \in NextOffset /\ Covered(q, off)
    <3>1. q \in assigned /\ position[q] < LogLen
      BY <1>6 DEF Recv
    <3>2. Covered(q, off)
      BY <1>3, <1>6, <3>1
    <3>3. QED BY <1>6, <3>1, <3>2 DEF NextOffset, Offset
  <2>2. /\ assigned' = assigned
        /\ \/ off \in Poison /\ inHand' = inHand
           \/ inHand' = {[p |-> q, off |-> off, ep |-> epoch[q]]}
    BY <1>6 DEF Recv
  <2>3. Covered(q, off)'
    BY <1>2, <2>1
  <2>4. Accounted(q, off)'
    <3> DEFINE m == [p |-> q, off |-> off, ep |-> epoch[q]]
    <3>1. m.p = q /\ m.off = off
      OBVIOUS
    <3>2. off \in Poison \/ m \in inHand'
      BY <2>2
    <3> HIDE DEF m
    <3>3. QED BY <3>1, <3>2 DEF Accounted, InMem
  <2>5. Covered(q, off + 1)'
    BY <2>1, <2>3, <2>4 DEF Covered, Offset
  <2>6. position'[q] = off + 1 /\ \A p \in assigned : p # q => position'[p] = position[p]
    BY <1>1, <1>3, <1>6 DEF Recv, TypeOK
  <2>7. ASSUME NEW p \in assigned, NEW n \in NextOffset, position'[p] = n
        PROVE  Covered(p, n)'
    <3>1. CASE p = q
      BY <2>5, <2>6, <2>7, <3>1
    <3>2. CASE p # q
      BY <1>2, <1>3, <2>6, <2>7, <3>2
    <3>3. QED BY <3>1, <3>2
  <2>8. ASSUME NEW m \in inHand'
        PROVE  Covered(m.p, m.off)'
    <3>1. CASE m \in inHand
      BY <1>2, <1>4, <3>1
    <3>2. CASE m = [p |-> q, off |-> off, ep |-> epoch[q]]
      <4>1. m.p = q /\ m.off = off
        BY <3>2
      <4>2. QED BY <2>3, <4>1 DEF Covered
    <3>3. QED BY <2>2, <3>1, <3>2
  <2>9. QED BY <2>2, <2>7, <2>8 DEF ReadSound
<1>7. ASSUME NEW q \in Partition, Assign(q)
      PROVE  ReadSound'
  <2>1. /\ inHand' = inHand /\ assigned' = assigned \cup {q}
        /\ position'[q] = kcommitted[q] /\ kcommitted[q] \in NextOffset
        /\ \A p \in assigned : p # q => position'[p] = position[p]
    BY <1>1, <1>3, <1>7 DEF Assign, TypeOK
  <2>2. Covered(q, kcommitted[q])
    BY <1>1 DEF CommitSound
  <2>3. ASSUME NEW p \in assigned', NEW n \in NextOffset, position'[p] = n
        PROVE  Covered(p, n)'
    BY <1>2, <1>3, <2>1, <2>2, <2>3
  <2>4. \A m \in inHand' : Covered(m.p, m.off)'
    BY <1>2, <1>4, <2>1
  <2>5. QED BY <2>3, <2>4 DEF ReadSound
<1>8. CASE Loop
  <2>1. ASSUME NEW q \in Partition, Recv(q)
        PROVE  ReadSound'
    BY <1>1, <1>6, <2>1 DEF TypeOK
  <2>2. QED
  BY <1>5, <1>8, <2>1 DEF Loop, TickFlush, Process, PauseCall, TakeFailure,
     TakeSuccess, CommitCall, CommitRecord, ResumeCall, ShutdownDrain, DrainFlush, Exit
<1>9. CASE Tasks
  BY <1>5, <1>9 DEF Tasks, FlushStart, FlushEnd, CompactionAcquire, CompactionRelease
<1>10. CASE Callback
  BY <1>5, <1>10 DEF Callback, RevokeDrain, CbFlushStart, CbFlushEnd, RevokeEnd
<1>11. CASE Group \/ ProcessDeath
  BY <1>5, <1>7, <1>11 DEF Group, PeerConsume, ProcessDeath
<1>12. QED BY <1>8, <1>9, <1>10, <1>11 DEF Next

\* A commit is for the batch in hand, which is stored; a peer stores what it
\* commits.
LEMMA CommitStep ==
    ASSUME DeliveryInv, Next
    PROVE  CommitSound'
<1>1. TypeOK /\ CommitSound /\ HeldStored /\ BatchSound
  BY DEF DeliveryInv
<1>2. ASSUME NEW p \in Partition, NEW n \in NextOffset, Covered(p, n)
      PROVE  Covered(p, n)'
  BY <1>2, NextKeeps DEF Covered
<1>3. SUFFICES ASSUME NEW p \in Partition, NEW n \in NextOffset, n = kcommitted'[p]
               PROVE  Covered(p, n)' /\ (n > 0 => n - 1 \in durable'[p])
  <2>1. kcommitted' \in [Partition -> NextOffset]
    BY <1>1, LoopType, TasksType, CallbackType, OutsideType DEF Next, TypeOK
  <2>2. QED BY <1>3, <2>1 DEF CommitSound, Covered
<1>4. CASE kcommitted' = kcommitted
  BY <1>1, <1>2, <1>3, <1>4, DurableGrows DEF CommitSound, TypeOK
<1>5. ASSUME NEW ok \in CommitOutcomes, CommitCall(ok)
      PROVE  Covered(p, n)' /\ (n > 0 => n - 1 \in durable'[p])
  <2>1. PICK b \in held :
          kcommitted' = IF ok THEN [kcommitted EXCEPT ![b.p] = b.upTo] ELSE kcommitted
    BY <1>5 DEF CommitCall
  <2>2. b \in Batch /\ Sound(b) /\ b.evs \subseteq durable[b.p] /\ durable' = durable
    BY <1>1, <1>5 DEF TypeOK, CommitCall, HeldStored, BatchSound, Unwritten
  <2>3. CASE kcommitted'[p] = b.upTo /\ p = b.p
    BY <1>2, <1>3, <2>2, <2>3 DEF Sound
  <2>4. CASE kcommitted'[p] = kcommitted[p]
    BY <1>1, <1>2, <1>3, <2>2, <2>4 DEF CommitSound
  <2>5. QED BY <1>1, <2>1, <2>3, <2>4 DEF TypeOK
<1>6. ASSUME NEW q \in Partition, NEW k \in NextOffset, PeerConsume(q, k)
      PROVE  Covered(p, n)' /\ (n > 0 => n - 1 \in durable'[p])
  <2>1. CASE p # q
    <3>1. kcommitted'[p] = kcommitted[p] /\ durable'[p] = durable[p]
      BY <1>1, <1>6, <2>1 DEF PeerConsume, TypeOK
    <3>2. QED BY <1>1, <1>2, <1>3, <3>1 DEF CommitSound
  <2>2. CASE p = q
    <3>1. /\ n = k /\ n - 1 \in Good
          /\ durable'[p] = durable[p] \cup {o \in Good : kcommitted[p] <= o /\ o < n}
          /\ kcommitted[p] < n /\ kcommitted[p] \in NextOffset
      BY <1>1, <1>3, <1>6, <2>2 DEF PeerConsume, TypeOK
    <3>2. Covered(p, kcommitted[p]) /\ n \in Nat /\ kcommitted[p] \in Nat
      BY <1>1, <3>1 DEF CommitSound, NextOffset
    <3>3. ASSUME NEW o \in Offset, o < n
          PROVE  Accounted(p, o)'
      <4>1. CASE o < kcommitted[p]
        BY <3>2, <4>1, NextKeeps DEF Covered
      <4>2. CASE kcommitted[p] <= o
        BY <3>1, <3>3, <4>2 DEF Accounted, Good
      <4>3. QED BY <3>2, <4>1, <4>2 DEF Offset
    <3>4. n - 1 \in durable'[p]
      BY <3>1, <3>2 DEF Good, Offset
    <3>5. QED BY <3>3, <3>4 DEF Covered
  <2>3. QED BY <2>1, <2>2
<1>7. CASE Loop
  BY <1>4, <1>5, <1>7 DEF Loop, Recv, TickFlush, Process, PauseCall, TakeFailure,
     TakeSuccess, CommitRecord, ResumeCall, ShutdownDrain, DrainFlush, Exit
<1>8. CASE Tasks
  BY <1>4, <1>8 DEF Tasks, FlushStart, FlushEnd, CompactionAcquire, CompactionRelease
<1>9. CASE Callback
  BY <1>4, <1>9 DEF Callback, RevokeDrain, CbFlushStart, CbFlushEnd, RevokeEnd
<1>10. CASE Group \/ ProcessDeath
  BY <1>4, <1>6, <1>10 DEF Group, Assign, ProcessDeath
<1>11. QED BY <1>7, <1>8, <1>9, <1>10 DEF Next

-----------------------------------------------------------------------------
\* The inductive invariant.
THEOREM Delivery == Spec => []DeliveryInv
<1>1. Init => DeliveryInv
  <2> SUFFICES ASSUME Init PROVE DeliveryInv
    OBVIOUS
  <2>1. TypeOK
    <3>1. 0 \in NextOffset /\ Empty \in Buffer /\ <<>> \in Seq(Result)
      BY DEF NextOffset, Empty, Buffer
    <3>2. QED BY <3>1 DEF Init, TypeOK
  <2>2. Control /\ BufferSound /\ HeldStored
    BY DEF Init, Control, BufferSound, HeldStored, Empty
  <2>3. BatchSound /\ ResultSound
    BY DEF Init, BatchSound, ResultSound, Reported, Unwritten
  <2>4. ReadSound
    BY DEF Init, ReadSound
  <2>5. CommitSound
    BY DEF Init, CommitSound, Covered, Offset
  <2>6. QED BY <2>1, <2>2, <2>3, <2>4, <2>5 DEF DeliveryInv
<1>2. DeliveryInv /\ [Next]_vars => DeliveryInv'
  <2> SUFFICES ASSUME DeliveryInv, [Next]_vars PROVE DeliveryInv'
    OBVIOUS
  <2>1. CASE Next
    <3>1. TypeOK /\ Control
      BY DEF DeliveryInv
    <3>2. TypeOK'
      BY <2>1, <3>1, LoopType, TasksType, CallbackType, OutsideType DEF Next
    <3>3. QED
      BY <2>1, <3>1, <3>2, ControlStep, BufferStep, BatchStep, ResultStep,
         HeldStep, ReadStep, CommitStep DEF DeliveryInv
  <2>2. CASE UNCHANGED vars
    <3>1. \A p \in Partition, o \in Offset : Accounted(p, o)' <=> Accounted(p, o)
      BY <2>2 DEF vars, Accounted, InMem, Unwritten
    <3>2. \A b \in Batch : (Sound(b)' <=> Sound(b)) /\ (Stored(b)' <=> Stored(b))
      BY <2>2, <3>1 DEF vars, Batch, Stored, Sound, Covered
    <3>3. TypeOK /\ TypeOK' /\ Control' /\ HeldStored'
      BY <2>2 DEF vars, DeliveryInv, TypeOK, Control, HeldStored
    <3>4. BufferSound' /\ CommitSound'
      BY <2>2, <3>1 DEF vars, DeliveryInv, BufferSound, CommitSound, Covered
    <3>5. BatchSound'
      BY <2>2, <3>2, <3>3 DEF vars, DeliveryInv, BatchSound, Unwritten, TypeOK
    <3>6. ResultSound'
      BY <2>2, <3>2 DEF vars, DeliveryInv, ResultSound, Reported
    <3>7. ReadSound'
      <4>1. \A m \in inHand : m.p \in Partition
        BY <3>3 DEF TypeOK, Message
      <4>2. QED
        BY <2>2, <3>1, <3>3, <4>1 DEF vars, DeliveryInv, ReadSound, Covered, TypeOK
    <3>8. QED BY <3>3, <3>4, <3>5, <3>6, <3>7 DEF DeliveryInv
  <2>3. QED BY <2>1, <2>2
<1>3. QED BY <1>1, <1>2, PTL DEF Spec

\* Every committed offset follows a stored event: CommitBacked, always.
THEOREM CommitsAreBacked == Spec => []CommitBacked
<1>1. DeliveryInv => CommitBacked
  BY DEF DeliveryInv, CommitSound, CommitBacked
<1>2. QED BY <1>1, Delivery, PTL

\* Below the committed offset every event is stored, in memory, or was
\* dropped by a failed flush or a death: NothingSkipped, always.
THEOREM NoEventSkipped == Spec => []NothingSkipped
<1>1. DeliveryInv => NothingSkipped
  <2> SUFFICES ASSUME DeliveryInv, NEW p \in Partition,
                      NEW o \in Below(kcommitted[p]) \cap Good
               PROVE  o \in durable[p] \cup InMemory(p) \cup lost[p]
    BY DEF NothingSkipped
  <2>1. o \in Offset /\ o < kcommitted[p] /\ o \notin Poison
    BY DEF Below, Good
  <2>2. Accounted(p, o)
    BY <2>1 DEF DeliveryInv, CommitSound, Covered
  <2>3. InMem(p, o) => o \in InMemory(p)
    BY DEF InMem, InMemory
  <2>4. QED BY <2>1, <2>2, <2>3 DEF Accounted
<1>2. QED BY <1>1, Delivery, PTL

-----------------------------------------------------------------------------
(* Backpressure                                                            *)

\* What will resume p, or the reason that nothing does.
Waker(p) ==
    \/ buffers[p].n > 0
    \/ \E b \in Unwritten : b.p = p
    \/ \E i \in 1 .. Len(results) : results[i].ok /\ results[i].b.p = p
    \/ p \in failed

\* While a batch is committed its partition has a waker, for the batch is in
\* hand; it has one afterwards too, unless the partition is to be resumed.
\* The loop has one batch in hand at a time. What the client has paused the
\* store has recorded, but for a pause that a revocation overtook.
WakerInv ==
    /\ pc \in {"select", "process", "pause", "resume"} => after # "drain"
    /\ pc = "exited" => after = "drain"
    /\ after # "drain" => \A p \in paused : Waker(p)
    /\ kpaused \subseteq paused \cup late
    /\ pc \in {"commit", "record"} /\ after = "select" =>
          \A b \in held : b.p \in paused => buffers[b.p].n > 0
    /\ \A x, y \in held : x = y

\* A finished flush leaves a result, or a failure that is remembered.
LEMMA FinishWakes ==
    ASSUME DeliveryInv, NEW b \in Unwritten, NEW ok \in BOOLEAN, Finish(b, ok),
           Send(b, ok), pc # "exited", NEW p \in paused, Waker(p),
           buffers' = buffers, Unwritten \subseteq Unwritten' \cup {b}
    PROVE  Waker(p)'
<1>1. results \in Seq(Result)
  BY DEF DeliveryInv, TypeOK
<1>2. results' = Append(results, [b |-> b, ok |-> ok])
  BY DEF Send
<1>3. Len(results') = Len(results) + 1 /\ results'[Len(results) + 1] = [b |-> b, ok |-> ok]
  BY <1>1, <1>2
<1>4. \A i \in 1 .. Len(results) : i \in 1 .. Len(results') /\ results'[i] = results[i]
  BY <1>1, <1>2
<1>5. failed \subseteq failed'
  BY DEF Finish
<1>6. CASE b.p = p
  <2>1. CASE ok
    <3>1. Len(results) + 1 \in 1 .. Len(results')
      BY <1>1, <1>3
    <3>2. QED BY <1>3, <1>6, <2>1, <3>1 DEF Waker
  <2>2. CASE ~ok
    BY <1>6, <2>2 DEF Waker, Finish
  <2>3. QED BY <2>1, <2>2
<1>7. CASE b.p # p
  BY <1>4, <1>5, <1>7 DEF Waker
<1>8. QED BY <1>6, <1>7

\* A step that moves batches about, and takes no result, disturbs no waker.
LEMMA WakerKept ==
    ASSUME NEW p \in Partition, Waker(p), buffers'[p] = buffers[p],
           Unwritten \subseteq Unwritten', results' = results, failed' = failed
    PROVE  Waker(p)'
BY DEF Waker

LEMMA WakerLoop ==
    ASSUME DeliveryInv, WakerInv, Loop
    PROVE  WakerInv'
<1> USE DEF WakerInv
<1>0. TypeOK /\ Control /\ BufferSound /\ HeldStored /\ results \in Seq(Result)
  BY DEF DeliveryInv, TypeOK
<1>1. ASSUME NEW q \in Partition, Recv(q)
      PROVE  WakerInv'
  <2>1. Unwritten' = Unwritten
    BY <1>1 DEF Recv, Unwritten
  <2>2. QED BY <1>0, <1>1, <2>1, WakerKept DEF Recv, TypeOK
<1>2. ASSUME NEW q \in Partition, TickFlush(q)
      PROVE  WakerInv'
  <2>1. BatchOf(q) \in Unwritten' /\ Unwritten \subseteq Unwritten' /\ BatchOf(q).p = q
    BY <1>0, <1>2 DEF TickFlush, Control, Unwritten, BatchOf
  <2>2. /\ \A p \in Partition : p # q => buffers'[p] = buffers[p]
        /\ paused' \subseteq paused \cup {q} /\ after' = after
        /\ paused \subseteq paused' /\ UNCHANGED <<kpaused, late>>
        /\ UNCHANGED <<results, failed>> /\ pc' \in {"select", "pause"} /\ pc = "select"
    BY <1>0, <1>2 DEF TickFlush, TypeOK
  <2>3. \A p \in paused' : Waker(p)'
    <3>1. SUFFICES ASSUME NEW p \in paused' PROVE Waker(p)'
      OBVIOUS
    <3>2. CASE p = q
      BY <2>1, <3>2 DEF Waker
    <3>3. CASE p # q
      <4>1. p \in paused /\ p \in Partition /\ Waker(p)
        BY <1>0, <2>2, <3>3 DEF TypeOK
      <4>2. QED BY <2>1, <2>2, <3>3, <4>1, WakerKept
    <3>4. QED BY <3>2, <3>3
  <2>4. held' \subseteq {BatchOf(q)}
    BY <1>0, <1>2 DEF TickFlush, Control
  <2>5. QED BY <2>2, <2>3, <2>4
<1>3. ASSUME NEW m \in inHand, NEW old \in BOOLEAN, Process(m, old)
      PROVE  WakerInv'
  <2> DEFINE batch == [p |-> m.p, evs |-> buffers[m.p].evs \cup {m.off},
                       upTo |-> CommitPoint(m), ep |-> m.ep]
  <2>1. m.p \in Partition /\ buffers[m.p].n \in Nat
    BY <1>0 DEF TypeOK, Message, Buffer
  <2>2. Unwritten \subseteq Unwritten'
    BY <1>0, <1>3 DEF Process, Control, Unwritten
  <2>3. batch \in Unwritten' \/ buffers'[m.p].n = buffers[m.p].n + 1
    BY <1>0, <1>3, <2>1 DEF Process, TypeOK, Unwritten
  <2>4. /\ \A p \in Partition : p # m.p => buffers'[p] = buffers[p]
        /\ paused' \subseteq paused \cup {m.p} /\ after' = after
        /\ paused \subseteq paused' /\ UNCHANGED <<kpaused, late>>
        /\ UNCHANGED <<results, failed>> /\ pc' \in {"select", "pause"} /\ pc = "process"
    BY <1>0, <1>3, <2>1 DEF Process, TypeOK
  <2>5. Waker(m.p)'
    <3>1. batch.p = m.p
      OBVIOUS
    <3> HIDE DEF batch
    <3>2. QED BY <2>1, <2>3, <3>1 DEF Waker
  <2>6. \A p \in paused' : Waker(p)'
    <3>1. SUFFICES ASSUME NEW p \in paused' PROVE Waker(p)'
      OBVIOUS
    <3>2. CASE p = m.p
      BY <2>5, <3>2
    <3>3. CASE p # m.p
      <4>1. p \in paused /\ p \in Partition /\ Waker(p)
        BY <1>0, <2>4, <3>3 DEF TypeOK
      <4>2. QED BY <2>2, <2>4, <3>3, <4>1, WakerKept
    <3>4. QED BY <3>2, <3>3
  <2>7. held' \subseteq {batch}
    BY <1>0, <1>3 DEF Process, Control
  <2> HIDE DEF batch
  <2>8. QED BY <2>4, <2>6, <2>7
<1>4. CASE PauseCall
  <2>1. Unwritten' = Unwritten
    BY <1>0, <1>4 DEF PauseCall, Unwritten
  <2>2. QED BY <1>0, <1>4, <2>1, WakerKept DEF PauseCall, TypeOK
<1>5. CASE TakeFailure
  <2>1. Unwritten' = Unwritten
    BY <1>5 DEF TakeFailure, Unwritten
  <2>2. ASSUME NEW p \in Partition, Waker(p) PROVE Waker(p)'
    <3>1. ASSUME NEW i \in 1 .. Len(results), results[i].ok
          PROVE  i - 1 \in 1 .. Len(results') /\ results'[i - 1] = results[i]
      BY <1>0, <1>5, <3>1 DEF TakeFailure, Succeeded
    <3>2. UNCHANGED <<buffers, failed>>
      BY <1>5 DEF TakeFailure
    <3>3. QED BY <2>1, <2>2, <3>1, <3>2 DEF Waker
  <2>3. QED BY <1>0, <1>5, <2>2 DEF TakeFailure, TypeOK
<1>6. CASE TakeSuccess
  <2> DEFINE b == Head(results).b
  <2>0. results # <<>>
    BY <1>6 DEF TakeSuccess
  <2>1. /\ Head(results) = results[1] /\ 1 \in 1 .. Len(results)
        /\ b \in Batch /\ b.p \in Partition
    <3>1. Head(results) = results[1] /\ 1 \in 1 .. Len(results) /\ results[1] \in Result
      BY <1>0, <2>0
    <3>2. QED BY <3>1 DEF Result, Batch
  <2>2. /\ UNCHANGED <<buffers, paused, kpaused, late, failed, inHand, draining, spawned, flushing, cbTodo, cbFlight>>
        /\ pc = "select" /\ held = {} /\ results' = Tail(results)
        /\ pc' \in {"select", "commit", "resume"} /\ after' \in {"select", "resume"}
        /\ after' = "select" => b.p \notin paused \/ ~BelowLowWater(b.p)
        /\ held' \in {{}, {b}} /\ (held' = {} => after' = "select")
    BY <1>0, <1>6 DEF TakeSuccess, Control
  <2>3. ~BelowLowWater(b.p) => buffers[b.p].n > 0
    <3>1. buffers[b.p].n \in Nat
      BY <1>0, <2>1 DEF TypeOK, Buffer
    <3>2. buffers[b.p].n = 0 => 10 * buffers[b.p].n * EventBytes = 0
      BY <3>1
    <3>3. QED BY <3>1, <3>2 DEF BelowLowWater
  <2>4. Unwritten \subseteq Unwritten' /\ (held' = {b} => b \in Unwritten')
    BY <2>2 DEF Unwritten
  <2>5. ASSUME NEW p \in paused' PROVE Waker(p)'
    <3> HIDE DEF b
    <3>1. p \in paused /\ p \in Partition /\ Waker(p)
      BY <1>0, <2>2, <2>5 DEF TypeOK
    <3>2. CASE p = b.p
      <4>1. CASE held' = {}
        <5>1. buffers'[p].n > 0
          BY <2>2, <2>3, <3>1, <3>2, <4>1
        <5>2. QED BY <5>1 DEF Waker
      <4>2. CASE held' = {b}
        BY <2>4, <3>2, <4>2 DEF Waker
      <4>3. QED BY <2>2, <4>1, <4>2
    <3>3. CASE p # b.p
      <4>1. ASSUME NEW i \in 1 .. Len(results), results[i].b.p = p
            PROVE  i - 1 \in 1 .. Len(results') /\ results'[i - 1] = results[i]
        BY <1>0, <2>1, <2>2, <3>3, <4>1 DEF b
      <4>2. UNCHANGED <<buffers, failed>> /\ Unwritten \subseteq Unwritten'
        BY <2>2, <2>4
      <4>3. QED BY <3>1, <4>1, <4>2 DEF Waker
    <3>4. QED BY <3>2, <3>3
  <2> HIDE DEF b
  <2>6. QED BY <2>2, <2>3, <2>5
<1>7. ASSUME NEW ok \in CommitOutcomes, CommitCall(ok)
      PROVE  WakerInv'
  <2>1. Unwritten' = Unwritten
    BY <1>7 DEF CommitCall, Unwritten
  <2>2. QED BY <1>0, <1>7, <2>1, WakerKept DEF CommitCall, TypeOK
<1>8. CASE CommitRecord
  <2>1. UNCHANGED <<buffers, paused, kpaused, late, failed, results, after, inHand, draining,
                    spawned, flushing, cbTodo, cbFlight>>
    BY <1>8 DEF CommitRecord
  <2>2. /\ pc = "record" /\ pc' = after
        /\ held' = IF after = "resume" THEN held ELSE {}
    BY <1>8 DEF CommitRecord
  <2>3. after \in {"select", "resume", "drain"}
    BY <1>0 DEF TypeOK
  <2>4. ASSUME NEW p \in paused, after # "drain" PROVE Waker(p)'
    <3>1. p \in Partition /\ Waker(p)
      BY <1>0, <2>4 DEF TypeOK
    <3>2. CASE after = "resume"
      <4>1. Unwritten' = Unwritten
        BY <2>1, <2>2, <3>2 DEF Unwritten
      <4>2. QED BY <2>1, <3>1, <4>1, WakerKept
    <3>3. CASE after = "select"
      <4>1. \A b \in held : b.p = p => buffers[p].n > 0
        BY <2>2, <3>3
      <4>2. \A b \in Unwritten : b \in held \/ b \in Unwritten'
        BY <2>1 DEF Unwritten
      <4>3. QED BY <2>1, <3>1, <4>1, <4>2 DEF Waker
    <3>4. QED BY <2>3, <2>4, <3>2, <3>3
  <2>5. QED BY <2>1, <2>2, <2>3, <2>4
<1>9. CASE ResumeCall
  <2>1. PICK b \in held : /\ paused' = paused \ {b.p} /\ kpaused' = kpaused \ {b.p}
                         /\ failed' = failed \ {b.p} /\ late' = late \ {b.p}
    BY <1>9 DEF ResumeCall
  <2>2. \A x \in held : x = b
    BY <1>9, <2>1 DEF ResumeCall, WakerInv
  <2>3. \A x \in Unwritten : x = b \/ x \in Unwritten'
    BY <1>9, <2>2 DEF ResumeCall, Unwritten
  <2>4. ASSUME NEW p \in paused, p # b.p, Waker(p) PROVE Waker(p)'
    <3>1. UNCHANGED <<buffers, results>>
      BY <1>9 DEF ResumeCall
    <3>2. QED BY <2>1, <2>3, <2>4, <3>1 DEF Waker
  <2>5. /\ pc = "resume" /\ pc' = "select" /\ after # "drain" /\ after' = after
        /\ held' = {}
    BY <1>9 DEF ResumeCall
  <2>6. \A p \in paused' : Waker(p)'
    BY <2>1, <2>4, <2>5
  <2>7. kpaused' \subseteq paused' \cup late'
    BY <2>1
  <2>8. QED BY <2>5, <2>6, <2>7
<1>10. CASE ShutdownDrain
  BY <1>10 DEF ShutdownDrain
<1>11. ASSUME NEW b \in draining, NEW ok \in FlushOutcomes, DrainFlush(b, ok)
       PROVE  WakerInv'
  <2>1. /\ UNCHANGED <<paused, kpaused, late>> /\ after = "drain" /\ after' = after
        /\ pc' \in {"drain", "commit"} /\ held' \in {held, {b}} /\ held = {}
    BY <1>0, <1>11 DEF DrainFlush, Control, Finish
  <2>2. QED BY <2>1
<1>12. CASE Exit
  <2>1. /\ kpaused' = {} /\ pc' = "exited" /\ UNCHANGED <<after, held>>
        /\ after = "drain"
    BY <1>0, <1>12 DEF Exit, Control
  <2>2. QED BY <1>12, <2>1
<1>13. QED
  BY <1>1, <1>2, <1>3, <1>4, <1>5, <1>6, <1>7, <1>8, <1>9, <1>10, <1>11, <1>12
     DEF Loop

LEMMA WakerOthers ==
    ASSUME DeliveryInv, WakerInv, Tasks \/ Callback \/ Group \/ ProcessDeath
    PROVE  WakerInv'
<1> USE DEF WakerInv
<1>0. TypeOK /\ Control /\ FlushOutcomes \subseteq BOOLEAN
  BY DEF DeliveryInv
<1>1. ASSUME NEW b \in spawned, FlushStart(b)
      PROVE  WakerInv'
  <2>1. Unwritten' = Unwritten
    BY <1>1 DEF FlushStart, Unwritten
  <2>2. QED BY <1>0, <1>1, <2>1, WakerKept DEF FlushStart, TypeOK
<1>2. ASSUME NEW b \in flushing, NEW ok \in FlushOutcomes, FlushEnd(b, ok)
      PROVE  WakerInv'
  <2>1. b \in Unwritten /\ Unwritten \subseteq Unwritten' \cup {b}
    BY <1>2 DEF FlushEnd, Unwritten
  <2>2. UNCHANGED <<buffers, paused, kpaused, pc, after, held>> /\ late' = late /\ Finish(b, ok) /\ Send(b, ok)
    BY <1>2 DEF FlushEnd, Finish
  <2>3. \A p \in paused : p \in Partition
    BY <1>0 DEF TypeOK
  <2>4. after # "drain" => \A p \in paused : Waker(p)'
    BY <1>0, <2>1, <2>2, <2>3, FinishWakes
  <2>5. QED BY <2>2, <2>4
<1>3. CASE CompactionAcquire \/ CompactionRelease
  <2>1. Unwritten' = Unwritten
    BY <1>3 DEF CompactionAcquire, CompactionRelease, Unwritten
  <2>2. QED
    BY <1>0, <1>3, <2>1, WakerKept DEF CompactionAcquire, CompactionRelease, TypeOK
<1>4. ASSUME NEW R \in SUBSET Partition, RevokeDrain(R)
      PROVE  WakerInv'
  <2>1. Unwritten \subseteq Unwritten'
    BY <1>0, <1>4 DEF RevokeDrain, Control, Unwritten
  <2>2. /\ \A p \in Partition : p \notin R => buffers'[p] = buffers[p]
        /\ paused' = paused \ R /\ kpaused' = kpaused \ R
        /\ failed' = failed \ R /\ late' = late \ R
        /\ UNCHANGED <<pc, after, held, results>>
    BY <1>4 DEF RevokeDrain
  <2>3. ASSUME NEW p \in paused', Waker(p) PROVE Waker(p)'
    BY <1>0, <2>1, <2>2, <2>3 DEF Waker, TypeOK
  <2>4. \A b \in held : b.p \in paused' => b.p \in paused /\ buffers'[b.p] = buffers[b.p]
    BY <1>0, <2>2 DEF TypeOK
  <2>5. after' # "drain" => \A p \in paused' : Waker(p)'
    BY <2>2, <2>3
  <2>6. kpaused' \subseteq paused' \cup late'
    BY <2>2
  <2>7. QED BY <2>2, <2>4, <2>5, <2>6
<1>5. ASSUME NEW b \in cbTodo, CbFlushStart(b)
      PROVE  WakerInv'
  <2>1. Unwritten \subseteq Unwritten'
    BY <1>5 DEF CbFlushStart, Unwritten
  <2>2. QED BY <1>0, <1>5, <2>1, WakerKept DEF CbFlushStart, TypeOK
<1>6. ASSUME NEW b \in cbFlight, NEW ok \in FlushOutcomes, CbFlushEnd(b, ok)
      PROVE  WakerInv'
  <2>1. b \in Unwritten /\ Unwritten \subseteq Unwritten' \cup {b}
    BY <1>0, <1>6 DEF CbFlushEnd, Unwritten, Control
  <2>2. UNCHANGED <<buffers, paused, kpaused, pc, after, held>> /\ late' = late /\ Finish(b, ok) /\ Send(b, ok)
    BY <1>6 DEF CbFlushEnd, Finish
  <2>3. \A p \in paused : p \in Partition
    BY <1>0 DEF TypeOK
  <2>4. after # "drain" => \A p \in paused : Waker(p)'
    BY <1>0, <2>1, <2>2, <2>3, FinishWakes
  <2>5. QED BY <2>2, <2>4
<1>7. CASE RevokeEnd
  <2>1. Unwritten' = Unwritten
    BY <1>7 DEF RevokeEnd, Unwritten
  <2>2. QED BY <1>0, <1>7, <2>1, WakerKept DEF RevokeEnd, TypeOK
<1>8. CASE Group
  <2>1. Unwritten' = Unwritten /\ UNCHANGED <<buffers, paused, kpaused, late, pc, after, held, results, failed>>
    BY <1>8 DEF Group, Assign, PeerConsume, Unwritten
  <2>2. QED BY <1>0, <2>1, WakerKept DEF TypeOK
<1>9. CASE ProcessDeath
  BY <1>9 DEF ProcessDeath
<1>10. QED
  BY <1>1, <1>2, <1>3, <1>4, <1>5, <1>6, <1>7, <1>8, <1>9 DEF Tasks, Callback

\* A partition paused in the store or in the client has something that will
\* resume it, always: an event in its buffer, a batch on its way, a result in
\* the channel. Only a flush of it that fails while it is paused, and a pause
\* that a revocation overtakes, can take that away.
THEOREM PausedAlwaysHasWaker == Spec => []PausedHasWaker
<1>1. Init => WakerInv
  BY DEF Init, WakerInv
<1>2. DeliveryInv /\ WakerInv /\ [Next]_vars => WakerInv'
  <2> SUFFICES ASSUME DeliveryInv, WakerInv, [Next]_vars PROVE WakerInv'
    OBVIOUS
  <2>1. CASE Next
    BY <2>1, WakerLoop, WakerOthers DEF Next
  <2>2. CASE UNCHANGED vars
    BY <2>2 DEF vars, WakerInv, Waker, Unwritten
  <2>3. QED BY <2>1, <2>2
<1>3. DeliveryInv /\ WakerInv => PausedHasWaker
  <2>1. DeliveryInv => DOMAIN results = 1 .. Len(results)
    BY DEF DeliveryInv, TypeOK
  <2>2. QED BY <2>1 DEF WakerInv, Waker, PausedHasWaker
<1>4. QED BY <1>1, <1>2, <1>3, Delivery, PTL DEF Spec

-----------------------------------------------------------------------------
(* Backward commits                                                        *)

\* u is above what the loop has recorded as committed for p, or is about to.
Passed(p, u) ==
    IF pc = "record" /\ \E b \in held : b.p = p THEN \A b \in held : u > b.upTo
    ELSE u > committed[p]

\* Should the loop's guard let u pass, it is no step back for the group.
Safe(p, u) == Passed(p, u) => u >= kcommitted[p]

\* What was read in epoch e of p and will be committed as u: it is safe as
\* long as the epoch lasts.
Fresh(p, e, u) == e <= epoch[p] /\ (e = epoch[p] => p \in assigned /\ Safe(p, u))

OneHeld == \A b1, b2 \in held : b1 = b2
FlyingFresh ==
    \A b \in Batch : b \in Unwritten \/ Reported(b) => Fresh(b.p, b.ep, b.upTo)
BufferFresh ==
    \A p \in Partition : buffers[p].n > 0 => Fresh(p, buffers[p].ep, pending[p])
ReadFresh ==
    /\ \A m \in inHand : Fresh(m.p, m.ep, m.off + 1)
    /\ \A p \in assigned, u \in NextOffset : u > position[p] => Safe(p, u)
CommitFresh ==
    pc = "commit" =>
        \A b \in held : /\ b.upTo > committed[b.p]
                        /\ b.ep = epoch[b.p] => b.upTo >= kcommitted[b.p]

FreshInv ==
    pc # "exited" => FlyingFresh /\ BufferFresh /\ ReadFresh /\ CommitFresh
RegressInv == OneHeld /\ FreshInv

\* The loop has one batch in hand.
LEMMA OneHeldStep ==
    ASSUME TypeOK, Control, OneHeld, Next
    PROVE  OneHeld'
<1>1. CASE held' \subseteq held
  BY <1>1 DEF OneHeld
<1>2. ASSUME NEW b, held' = {b}
      PROVE  OneHeld'
  BY <1>2 DEF OneHeld
<1>3. CASE Loop
  <2>1. ASSUME NEW q \in Partition, Recv(q)
        PROVE  held' \subseteq held
    BY <2>1 DEF Recv
  <2>2. ASSUME NEW q \in Partition, TickFlush(q)
        PROVE  held' \subseteq held \/ held' = {BatchOf(q)}
    BY <2>2 DEF TickFlush
  <2>3. ASSUME NEW m \in inHand, NEW old \in BOOLEAN, Process(m, old)
        PROVE  held' \subseteq held \/ \E b : held' = {b}
    BY <2>3 DEF Process
  <2>4. CASE TakeSuccess
    BY <1>1, <1>2, <2>4 DEF TakeSuccess
  <2>5. ASSUME NEW b \in draining, NEW ok \in FlushOutcomes, DrainFlush(b, ok)
        PROVE  held' \subseteq held \/ held' = {b}
    BY <2>5 DEF DrainFlush
  <2>6. CASE \/ PauseCall \/ TakeFailure \/ CommitRecord \/ ResumeCall
             \/ ShutdownDrain \/ Exit \/ \E ok \in CommitOutcomes : CommitCall(ok)
    BY <1>1, <2>6 DEF PauseCall, TakeFailure, CommitRecord, ResumeCall,
       ShutdownDrain, Exit, CommitCall
  <2>7. QED BY <1>1, <1>2, <1>3, <2>1, <2>2, <2>3, <2>4, <2>5, <2>6 DEF Loop
<1>4. CASE Tasks
  BY <1>1, <1>4 DEF Tasks, FlushStart, FlushEnd, CompactionAcquire, CompactionRelease
<1>5. CASE Callback
  BY <1>1, <1>5 DEF Callback, RevokeDrain, CbFlushStart, CbFlushEnd, RevokeEnd
<1>6. CASE Group \/ ProcessDeath
  BY <1>1, <1>6 DEF Group, Assign, PeerConsume, ProcessDeath
<1>7. QED BY <1>3, <1>4, <1>5, <1>6 DEF Next

\* While a partition stays assigned, only the loop's commits and their record
\* change what passes, and they raise both together.
LEMMA SafeStable ==
    ASSUME TypeOK, OneHeld, CommitFresh, Next, ~ProcessDeath,
           NEW p \in Partition, p \in assigned, p \in assigned',
           NEW u \in NextOffset, Safe(p, u)
    PROVE  Safe(p, u)'
<1>1. CASE UNCHANGED <<pc, held>> /\ committed'[p] = committed[p] /\ kcommitted'[p] = kcommitted[p]
  BY <1>1 DEF Safe, Passed
<1>2. CASE /\ pc # "record" /\ pc' # "record"
           /\ committed' = committed /\ kcommitted' = kcommitted
  BY <1>2 DEF Safe, Passed
<1>3. ASSUME NEW ok \in CommitOutcomes, CommitCall(ok)
      PROVE  Safe(p, u)'
  <2>1. PICK b \in held :
          kcommitted' = IF ok THEN [kcommitted EXCEPT ![b.p] = b.upTo] ELSE kcommitted
    BY <1>3 DEF CommitCall
  <2>2. /\ pc = "commit" /\ pc' = "record" /\ held' = held
        /\ committed' = committed /\ b.upTo > committed[b.p]
    BY <1>3, <2>1 DEF CommitCall, CommitFresh
  <2>3. /\ b.p \in Partition /\ b.upTo \in Nat /\ committed[p] \in Nat
        /\ kcommitted[p] \in Nat /\ u \in Nat /\ \A x \in held : x = b
    BY <2>1 DEF TypeOK, Batch, NextOffset, OneHeld
  <2>4. CASE b.p = p
    <3>1. Passed(p, u)' => u > b.upTo
      BY <2>1, <2>2, <2>4 DEF Passed
    <3>2. u > b.upTo => u >= kcommitted[p]
      BY <2>2, <2>3, <2>4 DEF Safe, Passed
    <3>3. kcommitted'[p] = b.upTo \/ kcommitted'[p] = kcommitted[p]
      BY <2>1, <2>4 DEF TypeOK
    <3>4. QED BY <2>3, <3>1, <3>2, <3>3 DEF Safe
  <2>5. CASE b.p # p
    <3>1. kcommitted'[p] = kcommitted[p]
      BY <2>1, <2>3, <2>5 DEF TypeOK
    <3>2. QED BY <2>2, <2>3, <2>5, <3>1 DEF Safe, Passed
  <2>6. QED BY <2>4, <2>5
<1>4. CASE CommitRecord
  <2>1. PICK b \in held : committed' = [committed EXCEPT ![b.p] = b.upTo]
    BY <1>4 DEF CommitRecord
  <2>2. pc = "record" /\ pc' # "record" /\ kcommitted' = kcommitted
    BY <1>4 DEF CommitRecord, TypeOK
  <2>3. b.p \in Partition /\ \A x \in held : x = b
    BY <2>1 DEF TypeOK, Batch, OneHeld
  <2>4. Passed(p, u)' => Passed(p, u)
    BY <2>1, <2>2, <2>3 DEF Passed, TypeOK
  <2>5. QED BY <2>2, <2>4 DEF Safe
<1>5. CASE Loop
  <2>1. ASSUME NEW q \in Partition, Recv(q) \/ TickFlush(q)
        PROVE  Safe(p, u)'
    BY <1>2, <2>1 DEF Recv, TickFlush
  <2>2. ASSUME NEW m \in inHand, NEW old \in BOOLEAN, Process(m, old)
        PROVE  Safe(p, u)'
    BY <1>2, <2>2 DEF Process
  <2>3. CASE \/ PauseCall \/ TakeFailure \/ TakeSuccess \/ ResumeCall
             \/ ShutdownDrain \/ Exit
    BY <1>2, <2>3 DEF PauseCall, TakeFailure, TakeSuccess, ResumeCall,
       ShutdownDrain, Exit
  <2>4. ASSUME NEW b \in draining, NEW ok \in FlushOutcomes, DrainFlush(b, ok)
        PROVE  Safe(p, u)'
    BY <1>2, <2>4 DEF DrainFlush
  <2>5. QED BY <1>3, <1>4, <1>5, <2>1, <2>2, <2>3, <2>4 DEF Loop
<1>6. CASE Tasks
  BY <1>1, <1>6 DEF Tasks, FlushStart, FlushEnd, CompactionAcquire, CompactionRelease
<1>7. CASE Callback
  <2>1. ASSUME NEW R \in SUBSET Partition, RevokeDrain(R)
        PROVE  Safe(p, u)'
    <3>1. p \notin R
      BY <2>1 DEF RevokeDrain
    <3>2. QED BY <1>1, <2>1, <3>1 DEF RevokeDrain
  <2>2. QED
    BY <1>1, <1>7, <2>1 DEF Callback, CbFlushStart, CbFlushEnd, RevokeEnd
<1>8. CASE Group
  <2>1. ASSUME NEW q \in Partition, Assign(q)
        PROVE  Safe(p, u)'
    BY <1>1, <2>1 DEF Assign
  <2>2. ASSUME NEW q \in Partition, NEW n \in NextOffset, PeerConsume(q, n)
        PROVE  Safe(p, u)'
    <3>1. q # p
      BY <2>2 DEF PeerConsume
    <3>2. QED BY <1>1, <2>2, <3>1 DEF PeerConsume, TypeOK
  <2>3. QED BY <1>8, <2>1, <2>2 DEF Group
<1>9. QED BY <1>5, <1>6, <1>7, <1>8 DEF Next

\* What is fresh stays fresh: a revocation ends the epoch, and nothing else
\* takes a partition away while the loop lives.
LEMMA FreshStable ==
    ASSUME TypeOK, OneHeld, CommitFresh, Next, ~ProcessDeath, pc' # "exited",
           NEW p \in Partition, NEW e \in Nat, NEW u \in NextOffset, Fresh(p, e, u)
    PROVE  Fresh(p, e, u)'
<1>1. \A q \in Partition : epoch[q] \in Nat
  BY DEF TypeOK
<1>2. /\ epoch'[p] >= epoch[p] /\ epoch'[p] \in Nat
      /\ epoch'[p] = epoch[p] /\ p \in assigned => p \in assigned'
  <2>1. CASE Loop
    <3>1. epoch' = epoch /\ (Exit \/ assigned' = assigned)
      BY <2>1 DEF Loop, Recv, TickFlush, Process, PauseCall, TakeFailure,
         TakeSuccess, CommitCall, CommitRecord, ResumeCall, ShutdownDrain, DrainFlush, Exit
    <3>2. ~Exit
      BY DEF Exit
    <3>3. QED BY <1>1, <3>1, <3>2
  <2>2. CASE Tasks
    BY <1>1, <2>2 DEF Tasks, FlushStart, FlushEnd, CompactionAcquire, CompactionRelease
  <2>3. CASE Callback
    <3>1. ASSUME NEW R \in SUBSET Partition, RevokeDrain(R)
          PROVE  /\ epoch'[p] = IF p \in R THEN epoch[p] + 1 ELSE epoch[p]
                 /\ assigned' = assigned \ R
      BY <3>1 DEF RevokeDrain
    <3>2. QED
      BY <1>1, <2>3, <3>1 DEF Callback, CbFlushStart, CbFlushEnd, RevokeEnd
  <2>4. CASE Group
    BY <1>1, <2>4 DEF Group, Assign, PeerConsume
  <2>5. QED BY <2>1, <2>2, <2>3, <2>4 DEF Next
<1>3. ASSUME e = epoch'[p]
      PROVE  p \in assigned' /\ Safe(p, u)'
  <2>1. e = epoch[p] /\ p \in assigned /\ Safe(p, u)
    BY <1>1, <1>2, <1>3 DEF Fresh
  <2>2. p \in assigned'
    BY <1>2, <1>3, <2>1
  <2>3. QED BY <2>1, <2>2, SafeStable
<1>4. e <= epoch'[p]
  BY <1>1, <1>2 DEF Fresh
<1>5. QED BY <1>3, <1>4 DEF Fresh

\* What is in the channel has been there, or its flush has just ended.
LEMMA ReportedFrom ==
    ASSUME TypeOK, Next, NEW x \in Batch, Reported(x)'
    PROVE  Reported(x) \/ x \in Unwritten
<1>1. results \in Seq(Result)
  BY DEF TypeOK
<1>2. PICK i \in 1 .. Len(results') : results'[i].ok /\ results'[i].b = x
  BY DEF Reported
<1>3. CASE results' = results \/ results' = <<>>
  BY <1>2, <1>3 DEF Reported
<1>4. CASE results # <<>> /\ results' = Tail(results)
  <2>1. i + 1 \in 1 .. Len(results) /\ results'[i] = results[i + 1]
    BY <1>1, <1>2, <1>4
  <2>2. QED BY <1>2, <2>1 DEF Reported
<1>5. ASSUME NEW b \in Unwritten, NEW ok, Send(b, ok)
      PROVE  Reported(x) \/ x \in Unwritten
  <2>1. CASE results' = results
    BY <1>2, <2>1 DEF Reported
  <2>2. CASE results' = Append(results, [b |-> b, ok |-> ok])
    <3>1. CASE i \in 1 .. Len(results)
      BY <1>1, <1>2, <2>2, <3>1 DEF Reported
    <3>2. CASE i = Len(results) + 1
      BY <1>1, <1>2, <1>5, <2>2, <3>2
    <3>3. QED BY <1>1, <1>2, <2>2, <3>1, <3>2
  <2>3. QED BY <1>5, <2>1, <2>2 DEF Send
<1>6. CASE Loop
  BY <1>3, <1>4, <1>6 DEF Loop, Recv, TickFlush, Process, PauseCall, TakeFailure,
     TakeSuccess, CommitCall, CommitRecord, ResumeCall, ShutdownDrain, DrainFlush, Exit
<1>7. CASE Tasks
  <2>1. ASSUME NEW b \in flushing, NEW ok \in FlushOutcomes, FlushEnd(b, ok)
        PROVE  Reported(x) \/ x \in Unwritten
    BY <1>5, <2>1 DEF FlushEnd, Unwritten
  <2>2. QED
    BY <1>3, <1>7, <2>1 DEF Tasks, FlushStart, CompactionAcquire, CompactionRelease
<1>8. CASE Callback
  <2>1. ASSUME NEW b \in cbFlight, NEW ok \in FlushOutcomes, CbFlushEnd(b, ok)
        PROVE  Reported(x) \/ x \in Unwritten
    BY <1>5, <2>1 DEF CbFlushEnd, Unwritten
  <2>2. QED
    BY <1>3, <1>8, <2>1 DEF Callback, RevokeDrain, CbFlushStart, RevokeEnd
<1>9. CASE Group \/ ProcessDeath
  BY <1>3, <1>9 DEF Group, Assign, PeerConsume, ProcessDeath
<1>10. QED BY <1>6, <1>7, <1>8, <1>9 DEF Next

\* A batch leaves a buffer, or is made of one and the message in hand.
LEMMA UnwrittenFrom ==
    ASSUME TypeOK, Next, NEW b \in Unwritten'
    PROVE  \/ b \in Unwritten \/ Reported(b)
           \/ \E p \in Partition : buffers[p].n > 0 /\ b = BatchOf(p)
           \/ \E m \in inHand : b.p = m.p /\ b.upTo = m.off + 1 /\ b.ep = m.ep
<1> SUFFICES ASSUME b \notin Unwritten
             PROVE  \/ Reported(b)
                    \/ \E p \in Partition : buffers[p].n > 0 /\ b = BatchOf(p)
                    \/ \E m \in inHand : b.p = m.p /\ b.upTo = m.off + 1 /\ b.ep = m.ep
  OBVIOUS
<1>1. ASSUME NEW p \in Partition, TickFlush(p)
      PROVE  b = BatchOf(p) /\ buffers[p].n > 0
  BY <1>1 DEF TickFlush, Unwritten, MayBeOld
<1>2. ASSUME NEW m \in inHand, NEW old \in BOOLEAN, Process(m, old)
      PROVE  b.p = m.p /\ b.upTo = m.off + 1 /\ b.ep = m.ep
  <2>1. b = [p |-> m.p, evs |-> buffers[m.p].evs \cup {m.off},
             upTo |-> m.off + 1, ep |-> m.ep]
    BY <1>2 DEF Process, Unwritten, CommitPoint
  <2>2. QED BY <2>1
<1>3. ASSUME NEW R \in SUBSET Partition, RevokeDrain(R)
      PROVE  \E p \in Partition : buffers[p].n > 0 /\ b = BatchOf(p)
  BY <1>3 DEF RevokeDrain, RevokedBatches, Unwritten
<1>4. CASE ShutdownDrain
  BY <1>4 DEF ShutdownDrain, Unwritten
<1>5. CASE TakeSuccess
  <2>1. b = Head(results).b /\ results # <<>> /\ Head(results).ok
    BY <1>5 DEF TakeSuccess, Unwritten, Succeeded
  <2>2. results \in Seq(Result)
    BY DEF TypeOK
  <2>3. Head(results) = results[1] /\ 1 \in 1 .. Len(results)
    BY <2>1, <2>2
  <2>4. QED BY <2>1, <2>3 DEF Reported
<1>6. CASE Tasks
  BY <1>6 DEF Tasks, FlushStart, FlushEnd, CompactionAcquire, CompactionRelease, Unwritten
<1>7. CASE Group \/ ProcessDeath
  BY <1>7 DEF Group, Assign, PeerConsume, ProcessDeath, Unwritten
<1>8. ASSUME NEW q \in Partition, Recv(q)
      PROVE  FALSE
  BY <1>8 DEF Recv, Unwritten
<1>9. CASE PauseCall
  BY <1>9 DEF PauseCall, Unwritten
<1>10. CASE TakeFailure
  BY <1>10 DEF TakeFailure, Unwritten
<1>11. ASSUME NEW ok \in CommitOutcomes, CommitCall(ok)
       PROVE  FALSE
  BY <1>11 DEF CommitCall, Unwritten
<1>12. CASE CommitRecord \/ ResumeCall \/ Exit
  BY <1>12 DEF CommitRecord, ResumeCall, Exit, Unwritten
<1>13. ASSUME NEW d \in draining, NEW ok \in FlushOutcomes, DrainFlush(d, ok)
       PROVE  FALSE
  BY <1>13 DEF DrainFlush, Unwritten
<1>14. ASSUME NEW d \in cbTodo, CbFlushStart(d)
       PROVE  FALSE
  BY <1>14 DEF CbFlushStart, Unwritten
<1>15. ASSUME NEW d \in cbFlight, NEW ok \in FlushOutcomes, CbFlushEnd(d, ok)
       PROVE  FALSE
  BY <1>15 DEF CbFlushEnd, Unwritten
<1>16. CASE RevokeEnd
  BY <1>16 DEF RevokeEnd, Unwritten
<1>17. QED
  BY <1>1, <1>2, <1>3, <1>4, <1>5, <1>6, <1>7, <1>8, <1>9, <1>10, <1>11, <1>12,
     <1>13, <1>14, <1>15, <1>16 DEF Next, Loop, Callback

-----------------------------------------------------------------------------
\* A buffer that holds events is as it was, or has just taken the message in hand.
LEMMA BufferMoves ==
    ASSUME TypeOK, Next, NEW p \in Partition, buffers'[p].n > 0
    PROVE  \/ buffers'[p] = buffers[p] /\ pending'[p] = pending[p]
           \/ \E m \in inHand : /\ m.p = p /\ buffers'[p].ep = m.ep
                                /\ pending'[p] = m.off + 1
<1>1. ASSUME NEW m \in inHand, NEW old \in BOOLEAN, Process(m, old)
      PROVE  \/ buffers'[p] = buffers[p] /\ pending'[p] = pending[p]
             \/ m.p = p /\ buffers'[p].ep = m.ep /\ pending'[p] = m.off + 1
  <2>1. CASE m.p = p
    <3>1. pending'[p] = m.off + 1
      BY <1>1, <2>1 DEF Process, TypeOK, CommitPoint
    <3>2. buffers'[p] = Empty \/ buffers'[p].ep = m.ep
      BY <1>1, <2>1 DEF Process, TypeOK
    <3>3. QED BY <2>1, <3>1, <3>2 DEF Empty
  <2>2. CASE m.p # p
    BY <1>1, <2>2 DEF Process, TypeOK
  <2>3. QED BY <2>1, <2>2
<1>2. ASSUME ~ \E m \in inHand, old \in BOOLEAN : Process(m, old)
      PROVE  buffers'[p] = buffers[p] /\ pending'[p] = pending[p]
  <2>1. buffers'[p] # Empty
    BY DEF Empty
  <2>2. CASE Loop
    BY <1>2, <2>1, <2>2 DEF TypeOK, Loop, Recv, TickFlush, PauseCall, TakeFailure,
       TakeSuccess, CommitCall, CommitRecord, ResumeCall, ShutdownDrain, DrainFlush, Exit
  <2>3. CASE Tasks
    BY <2>3 DEF Tasks, FlushStart, FlushEnd, CompactionAcquire, CompactionRelease
  <2>4. CASE Callback
    BY <2>1, <2>4 DEF Callback, RevokeDrain, CbFlushStart, CbFlushEnd, RevokeEnd
  <2>5. CASE Group \/ ProcessDeath
    BY <2>1, <2>5 DEF Group, Assign, PeerConsume, ProcessDeath
  <2>6. QED BY <2>2, <2>3, <2>4, <2>5 DEF Next
<1>3. QED BY <1>1, <1>2

\* While the loop lives, batches keep the freshness of what they are made of.
LEMMA FlyingStep ==
    ASSUME TypeOK, OneHeld, Next, ~ProcessDeath, pc' # "exited",
           FlyingFresh, BufferFresh, ReadFresh, CommitFresh
    PROVE  FlyingFresh'
<1> SUFFICES ASSUME NEW b \in Batch, b \in Unwritten' \/ Reported(b)'
             PROVE  Fresh(b.p, b.ep, b.upTo)'
  BY DEF FlyingFresh
<1>1. b.p \in Partition /\ b.ep \in Nat /\ b.upTo \in NextOffset
  BY DEF Batch
<1>2. Fresh(b.p, b.ep, b.upTo)
  <2>1. CASE b \in Unwritten \/ Reported(b)
    BY <2>1 DEF FlyingFresh
  <2>2. ASSUME NEW p \in Partition, buffers[p].n > 0, b = BatchOf(p)
        PROVE  Fresh(b.p, b.ep, b.upTo)
    BY <2>2 DEF BufferFresh, BatchOf
  <2>3. ASSUME NEW m \in inHand, b.p = m.p, b.upTo = m.off + 1, b.ep = m.ep
        PROVE  Fresh(b.p, b.ep, b.upTo)
    BY <2>3 DEF ReadFresh
  <2>4. QED BY <2>1, <2>2, <2>3, UnwrittenFrom, ReportedFrom
<1>3. QED BY <1>1, <1>2, FreshStable

\* So do buffers,
LEMMA BufferFreshStep ==
    ASSUME TypeOK, OneHeld, Next, ~ProcessDeath, pc' # "exited",
           BufferFresh, ReadFresh, CommitFresh
    PROVE  BufferFresh'
<1> SUFFICES ASSUME NEW p \in Partition, buffers'[p].n > 0
             PROVE  Fresh(p, buffers[p].ep, pending[p])'
  BY DEF BufferFresh
<1>1. CASE buffers'[p] = buffers[p] /\ pending'[p] = pending[p]
  <2>1. buffers[p].ep \in Nat /\ pending[p] \in NextOffset
    BY DEF TypeOK, Buffer
  <2>2. Fresh(p, buffers[p].ep, pending[p])
    BY <1>1 DEF BufferFresh
  <2> DEFINE e == buffers[p].ep
             u == pending[p]
  <2>3. e \in Nat /\ u \in NextOffset /\ Fresh(p, e, u)
    BY <2>1, <2>2
  <2>4. buffers'[p].ep = e /\ pending'[p] = u
    BY <1>1
  <2> HIDE DEF e, u
  <2>5. \A e1 \in Nat, u1 \in NextOffset : Fresh(p, e1, u1) => Fresh(p, e1, u1)'
    BY FreshStable
  <2>6. QED BY <2>3, <2>4, <2>5 DEF Fresh, Safe, Passed
<1>2. ASSUME NEW m \in inHand, m.p = p, buffers'[p].ep = m.ep, pending'[p] = m.off + 1
      PROVE  Fresh(p, buffers[p].ep, pending[p])'
  <2>1. m.ep \in Nat /\ m.off + 1 \in NextOffset
    BY DEF TypeOK, Message, Offset, NextOffset
  <2>2. Fresh(p, m.ep, m.off + 1)
    BY <1>2 DEF ReadFresh
  <2>3. \A e1 \in Nat, u1 \in NextOffset : Fresh(p, e1, u1) => Fresh(p, e1, u1)'
    BY FreshStable
  <2>4. QED BY <1>2, <2>1, <2>2, <2>3 DEF Fresh, Safe, Passed
<1>3. QED BY <1>1, <1>2, BufferMoves

\* and what is read from the broker.
LEMMA ReadFreshStep ==
    ASSUME TypeOK, OneHeld, Next, ~ProcessDeath, pc' # "exited", ReadFresh, CommitFresh
    PROVE  ReadFresh'
<1>1. \A q \in Partition, e \in Nat, u \in NextOffset : Fresh(q, e, u) => Fresh(q, e, u)'
  BY FreshStable
<1>2. ASSUME NEW m \in inHand'
      PROVE  Fresh(m.p, m.ep, m.off + 1)'
  <2>1. CASE m \in inHand
    <3>1. m.p \in Partition /\ m.ep \in Nat /\ m.off + 1 \in NextOffset
      BY <2>1 DEF TypeOK, Message, Offset, NextOffset
    <3>2. Fresh(m.p, m.ep, m.off + 1)
      BY <2>1 DEF ReadFresh
    <3>3. \A e \in Nat, u \in NextOffset : Fresh(m.p, e, u) => Fresh(m.p, e, u)'
      BY <1>1, <3>1
    <3>4. QED BY <3>1, <3>2, <3>3
  <2>2. ASSUME NEW q \in Partition, Recv(q), m \notin inHand
        PROVE  Fresh(m.p, m.ep, m.off + 1)'
    <3>1. m = [p |-> q, off |-> position[q], ep |-> epoch[q]]
      BY <2>2 DEF Recv
    <3>2. /\ q \in assigned /\ position[q] \in Nat /\ position[q] + 1 \in NextOffset
          /\ epoch[q] \in Nat
      BY <2>2 DEF Recv, TypeOK, NextOffset
    <3>3. Fresh(q, epoch[q], position[q] + 1)
      BY <3>2 DEF Fresh, ReadFresh
    <3>4. m.p = q /\ m.off = position[q] /\ m.ep = epoch[q]
      BY <3>1
    <3>5. Fresh(q, m.ep, m.off + 1) /\ m.ep \in Nat /\ m.off + 1 \in NextOffset
      BY <3>2, <3>3, <3>4
    <3>6. Fresh(q, m.ep, m.off + 1)'
      BY <1>1, <3>5
    <3>7. QED BY <3>4, <3>6
  <2>3. m \in inHand \/ \E q \in Partition : Recv(q)
    <3>1. CASE Loop
      BY <3>1 DEF Loop, Recv, TickFlush, Process, PauseCall, TakeFailure,
         TakeSuccess, CommitCall, CommitRecord, ResumeCall, ShutdownDrain, DrainFlush, Exit
    <3>2. CASE Tasks \/ Callback \/ Group
      BY <3>2 DEF Tasks, FlushStart, FlushEnd, CompactionAcquire, CompactionRelease,
         Callback, RevokeDrain, CbFlushStart, CbFlushEnd, RevokeEnd, Group, Assign, PeerConsume
    <3>3. QED BY <3>1, <3>2 DEF Next
  <2>4. QED BY <2>1, <2>2, <2>3
<1>3. ASSUME NEW p \in assigned', NEW u \in NextOffset, u > position'[p]
      PROVE  Safe(p, u)'
  <2>1. CASE p \in assigned
    <3>1. p \in Partition /\ position[p] \in Nat /\ u \in Nat
      BY <2>1 DEF TypeOK, NextOffset
    <3>2. position'[p] = position[p] \/ position'[p] = position[p] + 1
      <4>1. CASE Loop
        BY <3>1, <4>1 DEF TypeOK, Loop, Recv, TickFlush, Process, PauseCall, TakeFailure,
           TakeSuccess, CommitCall, CommitRecord, ResumeCall, ShutdownDrain, DrainFlush, Exit
      <4>2. CASE Tasks \/ Callback
        BY <4>2 DEF Tasks, FlushStart, FlushEnd, CompactionAcquire, CompactionRelease,
           Callback, RevokeDrain, CbFlushStart, CbFlushEnd, RevokeEnd
      <4>3. CASE Group
        BY <2>1, <4>3 DEF Group, Assign, PeerConsume, TypeOK
      <4>4. QED BY <4>1, <4>2, <4>3 DEF Next
    <3>3. u > position[p]
      BY <1>3, <3>1, <3>2
    <3>4. Safe(p, u)
      BY <2>1, <3>3 DEF ReadFresh
    <3>5. QED BY <2>1, <3>1, <3>4, <1>3, SafeStable
  <2>2. CASE p \notin assigned
    <3>1. Assign(p) /\ p \in Partition
      <4>1. CASE Loop
        BY <1>3, <2>2, <4>1 DEF Loop, Recv, TickFlush, Process, PauseCall, TakeFailure,
           TakeSuccess, CommitCall, CommitRecord, ResumeCall, ShutdownDrain, DrainFlush, Exit
      <4>2. CASE Tasks \/ Callback
        BY <1>3, <2>2, <4>2 DEF Tasks, FlushStart, FlushEnd, CompactionAcquire,
           CompactionRelease, Callback, RevokeDrain, CbFlushStart, CbFlushEnd, RevokeEnd
      <4>3. CASE Group
        BY <1>3, <2>2, <4>3 DEF Group, Assign, PeerConsume
      <4>4. QED BY <4>1, <4>2, <4>3 DEF Next
    <3>2. kcommitted'[p] = kcommitted[p] /\ position'[p] = kcommitted[p]
      BY <3>1 DEF Assign, TypeOK
    <3>3. kcommitted[p] \in Nat /\ u \in Nat
      BY <3>1 DEF TypeOK, NextOffset
    <3>4. QED BY <1>3, <3>2, <3>3 DEF Safe
  <2>3. QED BY <2>1, <2>2
<1>4. QED BY <1>2, <1>3 DEF ReadFresh

\* A commit the loop is about to make is safe if its batch is of this epoch.
LEMMA CommitFreshStep ==
    ASSUME TypeOK, Next, ~ProcessDeath, FlyingFresh, CommitFresh
    PROVE  CommitFresh'
<1> SUFFICES ASSUME pc' = "commit", NEW b \in held'
             PROVE  /\ b.upTo > committed'[b.p]
                    /\ b.ep = epoch'[b.p] => b.upTo >= kcommitted'[b.p]
  BY DEF CommitFresh
<1>0. results \in Seq(Result)
  BY DEF TypeOK
<1>1. CASE TakeSuccess
  <2>1. /\ b = Head(results).b /\ results # <<>> /\ Head(results).ok
        /\ AdvancesCommit(b) /\ pc = "select"
        /\ UNCHANGED <<committed, kcommitted, epoch>>
    BY <1>1 DEF TakeSuccess, Succeeded
  <2>2. Head(results) = results[1] /\ 1 \in 1 .. Len(results) /\ results[1] \in Result
    BY <1>0, <2>1
  <2>3. b \in Batch /\ Reported(b)
    BY <2>1, <2>2 DEF Reported, Result
  <2>4. b.ep = epoch[b.p] => Safe(b.p, b.upTo)
    BY <2>3 DEF FlyingFresh, Fresh
  <2>5. QED BY <2>1, <2>4 DEF Safe, Passed, AdvancesCommit
<1>2. ASSUME NEW d \in draining, NEW ok \in FlushOutcomes, DrainFlush(d, ok)
      PROVE  /\ b.upTo > committed'[b.p]
             /\ b.ep = epoch'[b.p] => b.upTo >= kcommitted'[b.p]
  <2>1. /\ b = d /\ AdvancesCommit(b) /\ pc = "drain"
        /\ UNCHANGED <<committed, kcommitted, epoch>>
    BY <1>2 DEF DrainFlush
  <2>2. b \in Batch /\ b \in Unwritten
    BY <2>1 DEF TypeOK, Unwritten
  <2>3. b.ep = epoch[b.p] => Safe(b.p, b.upTo)
    BY <2>2 DEF FlyingFresh, Fresh
  <2>4. QED BY <2>1, <2>3 DEF Safe, Passed, AdvancesCommit
<1>3. CASE pc = "commit" /\ held' = held
  <2>1. b \in Batch /\ b \in Unwritten /\ b \in held
    BY <1>3 DEF TypeOK, Unwritten
  <2>2. /\ b.p \in Partition /\ b.ep \in Nat /\ b.upTo \in Nat
        /\ committed[b.p] \in Nat /\ epoch[b.p] \in Nat
    BY <2>1 DEF TypeOK, Batch, NextOffset
  <2>3. /\ b.ep <= epoch[b.p] /\ (b.ep = epoch[b.p] => b.p \in assigned)
        /\ b.upTo > committed[b.p]
        /\ b.ep = epoch[b.p] => b.upTo >= kcommitted[b.p]
    BY <1>3, <2>1 DEF FlyingFresh, Fresh, CommitFresh
  <2>4. CASE UNCHANGED <<committed, kcommitted, epoch>>
    BY <2>3, <2>4
  <2>5. ASSUME NEW R \in SUBSET Partition, RevokeDrain(R)
        PROVE  /\ b.upTo > committed'[b.p]
               /\ b.ep = epoch'[b.p] => b.upTo >= kcommitted'[b.p]
    <3>1. /\ committed'[b.p] = IF b.p \in R THEN 0 ELSE committed[b.p]
          /\ epoch'[b.p] = IF b.p \in R THEN epoch[b.p] + 1 ELSE epoch[b.p]
          /\ kcommitted' = kcommitted
      BY <2>2, <2>5 DEF RevokeDrain
    <3>2. QED BY <2>2, <2>3, <3>1
  <2>6. ASSUME NEW q \in Partition, NEW n \in NextOffset, PeerConsume(q, n)
        PROVE  /\ b.upTo > committed'[b.p]
               /\ b.ep = epoch'[b.p] => b.upTo >= kcommitted'[b.p]
    <3>1. /\ UNCHANGED <<committed, epoch>> /\ q \notin assigned
          /\ b.p # q => kcommitted'[b.p] = kcommitted[b.p]
      BY <2>2, <2>6 DEF PeerConsume, TypeOK
    <3>2. QED BY <2>3, <3>1
  <2>7. CASE Loop
    BY <1>3, <2>7 DEF Loop, Recv, TickFlush, Process, PauseCall, TakeFailure,
       TakeSuccess, CommitCall, CommitRecord, ResumeCall, ShutdownDrain, DrainFlush, Exit
  <2>8. CASE Tasks
    BY <2>4, <2>8 DEF Tasks, FlushStart, FlushEnd, CompactionAcquire, CompactionRelease
  <2>9. CASE Callback
    BY <2>4, <2>5, <2>9 DEF Callback, CbFlushStart, CbFlushEnd, RevokeEnd
  <2>10. CASE Group
    BY <2>4, <2>6, <2>10 DEF Group, Assign
  <2>11. QED BY <2>7, <2>8, <2>9, <2>10 DEF Next
<1>4. CASE Loop
  <2>1. ASSUME NEW q \in Partition, Recv(q) \/ TickFlush(q)
        PROVE  FALSE
    BY <2>1 DEF Recv, TickFlush
  <2>2. ASSUME NEW m \in inHand, NEW old \in BOOLEAN, Process(m, old)
        PROVE  FALSE
    BY <2>2 DEF Process
  <2>3. CASE CommitRecord
    BY <2>3 DEF CommitRecord, TypeOK
  <2>4. CASE PauseCall \/ TakeFailure \/ ResumeCall \/ ShutdownDrain \/ Exit
    BY <2>4 DEF PauseCall, TakeFailure, ResumeCall, ShutdownDrain, Exit
  <2>5. ASSUME NEW ok \in CommitOutcomes, CommitCall(ok)
        PROVE  FALSE
    BY <2>5 DEF CommitCall
  <2>6. QED BY <1>1, <1>2, <1>4, <2>1, <2>2, <2>3, <2>4, <2>5 DEF Loop
<1>5. CASE Tasks
  BY <1>3, <1>5 DEF Tasks, FlushStart, FlushEnd, CompactionAcquire, CompactionRelease
<1>6. CASE Callback
  BY <1>3, <1>6 DEF Callback, RevokeDrain, CbFlushStart, CbFlushEnd, RevokeEnd
<1>7. CASE Group
  BY <1>3, <1>7 DEF Group, Assign, PeerConsume
<1>8. QED BY <1>4, <1>5, <1>6, <1>7 DEF Next

\* The invariant holds again after every step; a death leaves nothing behind.
LEMMA RegressStep ==
    ASSUME TypeOK, Control, RegressInv, Next
    PROVE  RegressInv'
<1>1. OneHeld'
  BY OneHeldStep DEF RegressInv
<1>2. CASE ProcessDeath
  <2>1. /\ Unwritten' = {} /\ results' = <<>> /\ inHand' = {} /\ assigned' = {}
        /\ \A p \in Partition : buffers'[p].n = 0
        /\ pc' = "select"
    BY <1>2 DEF ProcessDeath, Unwritten, Empty
  <2>2. \A b \in Batch : ~Reported(b)'
    BY <2>1 DEF Reported
  <2>3. QED
    BY <1>1, <2>1, <2>2 DEF RegressInv, FreshInv, FlyingFresh, BufferFresh, ReadFresh, CommitFresh
<1>3. CASE ~ProcessDeath /\ pc' # "exited"
  <2>1. pc # "exited"
    <3>1. CASE Loop
      BY <3>1 DEF Loop, Recv, TickFlush, Process, PauseCall, TakeFailure,
         TakeSuccess, CommitCall, CommitRecord, ResumeCall, ShutdownDrain, DrainFlush, Exit
    <3>2. CASE Tasks \/ Callback \/ Group
      BY <1>3, <3>2 DEF Tasks, FlushStart, FlushEnd, CompactionAcquire, CompactionRelease,
         Callback, RevokeDrain, CbFlushStart, CbFlushEnd, RevokeEnd, Group, Assign, PeerConsume
    <3>3. QED BY <1>3, <3>1, <3>2 DEF Next
  <2>2. OneHeld /\ FlyingFresh /\ BufferFresh /\ ReadFresh /\ CommitFresh
    BY <2>1 DEF RegressInv, FreshInv
  <2>3. FlyingFresh' /\ BufferFresh' /\ ReadFresh' /\ CommitFresh'
    BY <1>3, <2>2, FlyingStep, BufferFreshStep, ReadFreshStep, CommitFreshStep
  <2>4. QED BY <1>1, <2>3 DEF RegressInv, FreshInv
<1>4. CASE pc' = "exited"
  BY <1>1, <1>4 DEF RegressInv, FreshInv
<1>5. QED BY <1>2, <1>3, <1>4

\* A step that lowers a committed offset commits a batch of an earlier epoch.
LEMMA RegressExplained ==
    ASSUME TypeOK, RegressInv, Next, NEW p \in Partition, kcommitted'[p] < kcommitted[p]
    PROVE  \E b \in held : b.p = p /\ b.ep < epoch[p]
<1>1. kcommitted[p] \in Nat
  BY DEF TypeOK, NextOffset
<1>2. ASSUME NEW ok \in CommitOutcomes, CommitCall(ok)
      PROVE  \E b \in held : b.p = p /\ b.ep < epoch[p]
  <2>1. PICK b \in held :
          kcommitted' = IF ok THEN [kcommitted EXCEPT ![b.p] = b.upTo] ELSE kcommitted
    BY <1>2 DEF CommitCall
  <2>2. b.p = p /\ kcommitted'[p] = b.upTo
    BY <1>1, <2>1 DEF TypeOK
  <2>3. b \in Batch /\ b \in Unwritten /\ b.ep \in Nat /\ epoch[p] \in Nat
    BY <2>1 DEF TypeOK, Unwritten, Batch
  <2>4. b.ep <= epoch[p] /\ (b.ep = epoch[p] => b.upTo >= kcommitted[p])
    BY <1>2, <2>1, <2>2, <2>3 DEF CommitCall, RegressInv, FreshInv, FlyingFresh, CommitFresh, Fresh
  <2>5. b.ep # epoch[p]
    <3>1. b.upTo \in Nat
      BY <2>3 DEF Batch, NextOffset
    <3>2. QED BY <1>1, <2>2, <2>4, <3>1
  <2>6. QED BY <2>2, <2>3, <2>4, <2>5
<1>3. ASSUME NEW q \in Partition, NEW n \in NextOffset, PeerConsume(q, n)
      PROVE  FALSE
  <2>1. n \in Nat /\ kcommitted'[p] = IF p = q THEN n ELSE kcommitted[p]
    BY <1>3 DEF PeerConsume, TypeOK, NextOffset
  <2>2. QED BY <1>1, <1>3, <2>1 DEF PeerConsume
<1>4. CASE kcommitted' = kcommitted
  BY <1>1, <1>4
<1>5. CASE Loop
  BY <1>2, <1>4, <1>5 DEF Loop, Recv, TickFlush, Process, PauseCall, TakeFailure,
     TakeSuccess, CommitRecord, ResumeCall, ShutdownDrain, DrainFlush, Exit
<1>6. CASE Tasks \/ Callback \/ ProcessDeath
  BY <1>4, <1>6 DEF Tasks, FlushStart, FlushEnd, CompactionAcquire, CompactionRelease,
     Callback, RevokeDrain, CbFlushStart, CbFlushEnd, RevokeEnd, ProcessDeath
<1>7. CASE Group
  BY <1>3, <1>4, <1>7 DEF Group, Assign
<1>8. QED BY <1>5, <1>6, <1>7 DEF Next

\* The committed offset of a partition moves backwards only when the loop
\* commits a batch read before the partition's last revocation: within one
\* assignment the guard in memory is as good as the broker's own offset.
THEOREM RegressionsAreStale == Spec => RegressOnlyByStaleResult
<1>1. Init => RegressInv
  <2>1. Init => Unwritten = {} /\ \A b \in Batch : ~Reported(b)
    BY DEF Init, Unwritten, Reported
  <2>2. QED
    BY <2>1 DEF Init, RegressInv, OneHeld, FreshInv, FlyingFresh, BufferFresh, Empty,
       ReadFresh, CommitFresh
<1>2. DeliveryInv /\ RegressInv /\ [Next]_vars => RegressInv'
  <2> SUFFICES ASSUME DeliveryInv, RegressInv, [Next]_vars PROVE RegressInv'
    OBVIOUS
  <2>1. CASE Next
    BY <2>1, RegressStep DEF DeliveryInv
  <2>2. CASE UNCHANGED vars
    BY <2>2 DEF vars, RegressInv, OneHeld, FreshInv, FlyingFresh, BufferFresh, ReadFresh,
       CommitFresh, Fresh, Safe, Passed, Reported, Unwritten
  <2>3. QED BY <2>1, <2>2
<1>3. DeliveryInv /\ RegressInv /\ [Next]_vars =>
        [\A p \in Partition :
           kcommitted'[p] < kcommitted[p] =>
             \E b \in held : b.p = p /\ b.ep < epoch[p]]_vars
  BY RegressExplained DEF DeliveryInv
<1>4. QED BY <1>1, <1>2, <1>3, Delivery, PTL DEF Spec, RegressOnlyByStaleResult


=============================================================================
