------------------------ MODULE BlockProducerProofs -------------------------
(***************************************************************************)
(* The safety of asynchronous flushing in BlockProducer, for every chain,  *)
(* interval, limit, log and number of calls: no block is lost, one flush   *)
(* is in flight, no wakeup is lost.  First the steps of a reset and of the *)
(* persistence thread.                                                     *)
(***************************************************************************)
EXTENDS BlockProducerFlush, FiniteSetTheorems

\* A reset cuts memory at its target and sends the unwind after any queued flush.
LEMMA FlushResetToBlock ==
  ASSUME "flush_error" \notin Env, FlushInv, TypeInv', NEW c \in Calls, ResetToBlock(c)
  PROVE  FlushInv'
<1> TypeInv /\ TypeOK
  BY DEF FlushInv, TypeInv
<1> USE DEF Unlocked
<1> DEFINE target == KeptBlock(call[c].idx)
           m == IF CanDrain THEN RemovePersisted(mem, Head(results).last) ELSE mem
<1>1. LockFree /\ call[c].pc = "reset" /\ UNCHANGED <<disk, worker, done, permit>>
  BY DEF ResetToBlock
<1>2. CASE UNCHANGED <<mem, head, pending, queue, results>> /\ (Finish(c) \/ Replay(c))
  <2>1. Moves(c, {"idle"}) \/ Moves(c, {"idle", "checked"})
    BY <1>2, FinishMoves, ReplayMoves
  <2> QED
    BY <1>1, <1>2, <2>1, Quiet
<1>3. CASE /\ target < head
           /\ IF CanDrain THEN results' = Tail(results) /\ pending' = FALSE
              ELSE UNCHANGED <<results, pending>>
           /\ mem' = RolledBack(m, target) /\ head' = target
           /\ queue' = Append(queue, UnwindRequest(target)) /\ Goto(c, "unwinding")
  <2>1. ~Unwinding /\ done = "none" /\ \A i \in DOMAIN queue : ~IsUnwind(i)
    BY <1>1, Free
  <2>2. Moves(c, {"unwinding"})
    BY <1>3, GotoMoves
  <2>3. Mutex' /\ Unwinding'
    BY <1>1, <2>2, MutexKept DEF FlushInv, Unwinding, Moves
  <2>4. m \subseteq mem /\ \A b \in mem : b \in m \/ b \in disk
    BY Drained
  <2>5. \/ /\ results' = <<>> /\ ~pending' /\ worker.pc # "saved"
           /\ \A i \in DOMAIN queue : ~IsFlush(i)
        \/ UNCHANGED <<results, pending>>
    BY <1>3, Drained
  <2>6. target \in Nat /\ head \in Nat /\ GenesisNum \in Nat
    BY <1>3, ProducerAssumption DEF TypeInv, TypeOK
  <2>7. UnwindRequest(target) \in Request
    BY <2>6 DEF UnwindRequest, Request
  <2>8. /\ DOMAIN queue = 1..Len(queue) /\ Len(queue) \in Nat
        /\ DOMAIN queue' = 1..(Len(queue) + 1) /\ Len(queue') = Len(queue) + 1
        /\ \A i \in DOMAIN queue : queue'[i] = queue[i]
        /\ queue'[Len(queue) + 1] = UnwindRequest(target)
    BY <1>3, <2>7, QueueSend
  <2>9. \A i \in DOMAIN queue' : IsFlush(i)' => i \in DOMAIN queue /\ IsFlush(i)
    <3> SUFFICES ASSUME NEW i \in DOMAIN queue', queue'[i].op = "flush"
                 PROVE  i \in DOMAIN queue /\ queue[i].op = "flush"
      BY DEF IsFlush
    <3>1. queue'[Len(queue) + 1].op = "unwind"
      BY <2>8 DEF UnwindRequest
    <3>2. i # Len(queue) + 1
      BY <3>1
    <3>3. i \in DOMAIN queue
      BY <2>8, <3>2
    <3> QED
      BY <2>8, <3>3
  <2>10. IsFlush(1) => IsFlush(1)'
    BY <2>8 DEF IsFlush
  <2>11. \A i \in DOMAIN queue' : IsUnwind(i)' =>
           i = Len(queue') /\ queue'[i].target = target
    <3>1. queue'[Len(queue')].target = target
      BY <2>8 DEF UnwindRequest
    <3>2. \A i \in DOMAIN queue' : i # Len(queue') => i \in DOMAIN queue /\ queue'[i] = queue[i]
      BY <2>8
    <3> QED
      BY <2>1, <3>1, <3>2 DEF IsUnwind
  <2>12. OneOutstanding'
    <3>1. OneOutstanding
      BY DEF FlushInv
    <3>2. CASE UNCHANGED <<results, pending>>
      BY <1>1, <2>9, <2>10, <3>1, <3>2 DEF OneOutstanding
    <3>3. CASE /\ results' = <<>> /\ ~pending' /\ worker.pc # "saved"
               /\ \A i \in DOMAIN queue : ~IsFlush(i)
      BY <1>1, <2>9, <3>3 DEF OneOutstanding
    <3> QED
      BY <2>5, <3>2, <3>3
  <2>13. UnwindProtocol'
    BY <1>1, <1>3, <2>1, <2>3, <2>11 DEF UnwindProtocol
  <2>14. NoMissedWakeup'
    BY <1>1, <2>2 DEF NoMissedWakeup, Moves, LockFree
  <2>15. mem' \subseteq mem /\ \A b \in mem : Num(b) <= target => b \in mem' \/ b \in disk
    BY <1>3, <2>4 DEF RolledBack
  <2>16. MemBelowHead'
    <3>1. \A b \in mem : Num(b) \in Nat /\ Num(b) <= head
      BY ProducerAssumption DEF FlushInv, MemBelowHead, TypeOK
    <3>2. \A b \in mem' : b \in mem /\ (Num(b) <= target \/ Num(b) > head)
      BY <1>3, <2>4 DEF RolledBack
    <3>3. \A b \in mem' : Num(b) <= target
      BY <2>6, <3>1, <3>2
    <3> QED
      BY <1>3, <3>3 DEF MemBelowHead
  <2>17. Covered' /\ GapFree(disk)'
    <3>1. ASSUME NEW n \in GenesisNum..target PROVE \E b \in mem' \cup disk : Num(b) = n
      <4>1. n \in GenesisNum..head /\ n <= target
        BY <1>3, <2>6
      <4>2. PICK b \in mem \cup disk : Num(b) = n
        BY <4>1 DEF FlushInv, Covered
      <4> QED
        BY <2>15, <4>1, <4>2
    <3>2. disk' = disk /\ head' = target
      BY <1>1, <1>3
    <3>3. GapFree(disk)'
      BY <3>2 DEF FlushInv, GapFree
    <3> QED
      BY <3>1, <3>2, <3>3 DEF Covered
  <2>18. \A S, last : Covers(S, last) => Covers(S, last)'
    BY <2>15 DEF Covers
  <2>19. FlushCovers'
    <3>1. \A i \in DOMAIN queue' : IsFlush(i)' =>
            /\ GapFree(disk \cup queue[i].blocks)'
            /\ \A last \in Tips(queue[i].blocks)' : Covers(queue[i].blocks, last)'
      <4>1. \A i \in DOMAIN queue : IsFlush(i) =>
              /\ GapFree(disk \cup queue[i].blocks)
              /\ \A last \in Tips(queue[i].blocks) : Covers(queue[i].blocks, last)
        BY DEF FlushInv, FlushCovers
      <4>2. ASSUME NEW i \in DOMAIN queue', IsFlush(i)'
            PROVE  i \in DOMAIN queue /\ IsFlush(i) /\ queue'[i] = queue[i] /\ disk' = disk
        BY <1>1, <2>8, <2>9, <4>2
      <4>3. ASSUME NEW i \in DOMAIN queue', IsFlush(i)'
            PROVE  GapFree(disk \cup queue[i].blocks)'
        BY <4>1, <4>2, <4>3, GapFreeKept
      <4>4. ASSUME NEW i \in DOMAIN queue', IsFlush(i)', NEW last \in Tips(queue[i].blocks)'
            PROVE  Covers(queue[i].blocks, last)'
        <5>1. last \in Tips(queue[i].blocks) /\ queue'[i] = queue[i]
          BY <4>2, <4>4 DEF Tips
        <5>2. Covers(queue[i].blocks, last)
          BY <4>1, <4>2, <4>4, <5>1
        <5> QED
          BY <2>15, <5>1, <5>2 DEF Covers
      <4> QED
        BY <4>3, <4>4
    <3>2. worker'.pc = "saved" => Covers(disk, worker.last)'
      BY <1>1, <2>18 DEF FlushInv, FlushCovers
    <3>3. \A i \in DOMAIN results' : Covers(disk, results[i].last)'
      BY <1>1, <2>5, <2>18 DEF FlushInv, FlushCovers
    <3> QED
      BY <3>1, <3>2, <3>3 DEF FlushCovers
  <2>20. FlushFresh'
    BY <1>1, <2>2, <2>3 DEF FlushFresh, LockFree, Moves
  <2> QED
    BY <2>3, <2>12, <2>13, <2>14, <2>16, <2>17, <2>19, <2>20 DEF FlushInv
<1> QED
  BY <1>2, <1>3 DEF ResetToBlock

\* The answer to an unwind finds the queue empty.
LEMMA FlushUnwound ==
  ASSUME "flush_error" \notin Env, FlushInv, TypeInv', NEW c \in Calls, Unwound(c)
  PROVE  FlushInv'
<1> TypeInv /\ TypeOK
  BY DEF FlushInv, TypeInv
<1> USE DEF Unlocked
<1>1. /\ call[c].pc = "unwinding" /\ done # "none" /\ done' = "none"
      /\ UNCHANGED <<disk, mem, head, pending, queue, worker, results, permit>>
  BY DEF Unwound, chainVars
<1>2. Moves(c, {"idle"}) \/ Moves(c, {"idle", "checked"})
  BY FinishMoves, ReplayMoves DEF Unwound
<1>3. queue = <<>> /\ worker.pc # "saved" /\ DOMAIN queue' = {}
  BY <1>1 DEF FlushInv, UnwindProtocol
<1>4. Mutex' /\ ~Unwinding'
  BY <1>1, <1>2, MutexKept DEF FlushInv, Mutex, Unwinding, Moves
<1>5. \A d \in Calls : call'[d].pc \notin {"parked", "executing"}
  BY <1>1, <1>2 DEF FlushInv, Mutex, Moves
<1>6. OneOutstanding'
  BY <1>1, <1>3 DEF FlushInv, OneOutstanding, IsFlush
<1>7. UnwindProtocol' /\ NoMissedWakeup' /\ FlushFresh'
  BY <1>1, <1>3, <1>5 DEF UnwindProtocol, NoMissedWakeup, FlushFresh
<1>8. MemBelowHead' /\ GapFree(disk)' /\ Covered'
  BY <1>1 DEF FlushInv, MemBelowHead, GapFree, Covered
<1>9. FlushCovers'
  BY <1>1, <1>3 DEF FlushInv, FlushCovers, Covers
<1> QED
  BY <1>4, <1>6, <1>7, <1>8, <1>9 DEF FlushInv

\* A saved flush closes the gap between the database and memory.
LEMMA FlushSaveBlocks ==
  ASSUME "flush_error" \notin Env, FlushInv, TypeInv', SaveBlocks
  PROVE  FlushInv'
<1> TypeInv /\ TypeOK
  BY DEF FlushInv, TypeInv
<1> USE DEF Unlocked
<1>1. /\ worker.pc = "idle" /\ queue # <<>> /\ queue' = Tail(queue) /\ worker'.pc = "saved"
      /\ UNCHANGED <<mem, head, pending, results, done, permit, call>>
  BY DEF SaveBlocks, flushVars
<1>2. /\ DOMAIN queue = 1..Len(queue) /\ Len(queue) \in Nat /\ 1 \in DOMAIN queue
      /\ Head(queue) = queue[1]
      /\ DOMAIN queue' = 1..(Len(queue) - 1) /\ Len(queue') = Len(queue) - 1
      /\ \A i \in DOMAIN queue' : queue'[i] = queue[i + 1]
  BY <1>1, QueueReceive
<1>3. IsFlush(1) /\ disk' = disk \cup queue[1].blocks /\ worker'.last \in Tips(queue[1].blocks)
  BY <1>2 DEF SaveBlocks, IsFlush
<1>4. Unwinding' <=> Unwinding
  BY <1>1 DEF Unwinding
<1>5. \A i \in DOMAIN queue' :
        /\ i + 1 \in DOMAIN queue /\ i + 1 # 1
        /\ ~IsFlush(i)' /\ (IsUnwind(i)' => IsUnwind(i + 1))
  BY <1>2 DEF FlushInv, OneOutstanding, IsFlush, IsUnwind
<1>6. OneOutstanding'
  BY <1>1, <1>2, <1>3, <1>5 DEF FlushInv, OneOutstanding
<1>7. UnwindProtocol'
  BY <1>1, <1>2, <1>4, <1>5 DEF FlushInv, UnwindProtocol
<1>8. Mutex' /\ MemBelowHead' /\ Covered'
  BY <1>1, <1>3 DEF FlushInv, Mutex, MemBelowHead, Covered
<1>9. NoMissedWakeup' /\ DOMAIN results' = {}
  BY <1>1, <1>2, <1>3 DEF FlushInv, OneOutstanding, NoMissedWakeup
<1>10. GapFree(disk)' /\ Covers(disk, worker.last)'
  BY <1>1, <1>2, <1>3 DEF FlushInv, FlushCovers, GapFree, Covers
<1>11. FlushCovers'
  BY <1>5, <1>9, <1>10 DEF FlushCovers
<1>12. FlushFresh'
  BY <1>1, <1>2, <1>3, <1>4, <1>5, <1>9 DEF FlushInv, FlushFresh
<1> QED
  BY <1>6, <1>7, <1>8, <1>9, <1>10, <1>11, <1>12 DEF FlushInv

\* Reporting a flush moves it from the thread to the result channel.
LEMMA FlushSendResult ==
  ASSUME "flush_error" \notin Env, FlushInv, TypeInv', SendResult
  PROVE  FlushInv'
<1> TypeInv /\ TypeOK
  BY DEF FlushInv, TypeInv
<1> USE DEF Unlocked
<1>1. /\ worker.pc = "saved" /\ results = <<>> /\ worker'.pc = "sent"
      /\ DOMAIN results' = {1} /\ Len(results') = 1 /\ results'[1].last = worker.last
      /\ results' # <<>>
      /\ UNCHANGED <<disk, mem, head, pending, queue, done, permit, call>>
  BY DEF SendResult, chainVars, flushVars, TypeOK
<1>2. \A i : (IsFlush(i)' <=> IsFlush(i)) /\ (IsUnwind(i)' <=> IsUnwind(i))
  BY <1>1 DEF IsFlush, IsUnwind
<1>3. \A i \in DOMAIN queue : ~IsFlush(i)
  BY <1>1 DEF FlushInv, OneOutstanding
<1>4. Unwinding' <=> Unwinding
  BY <1>1 DEF Unwinding
<1>5. OneOutstanding'
  BY <1>1, <1>2, <1>3 DEF FlushInv, OneOutstanding
<1>6. UnwindProtocol'
  BY <1>1, <1>2, <1>4 DEF FlushInv, UnwindProtocol
<1>7. Mutex' /\ MemBelowHead' /\ Covered' /\ GapFree(disk)' /\ NoMissedWakeup'
  BY <1>1 DEF FlushInv, Mutex, MemBelowHead, Covered, GapFree, NoMissedWakeup
<1>8. FlushCovers'
  BY <1>1, <1>2, <1>3 DEF FlushInv, FlushCovers, Covers
<1>9. FlushFresh'
  BY <1>1, <1>2, <1>3, Producing DEF FlushInv, FlushFresh
<1> QED
  BY <1>5, <1>6, <1>7, <1>8, <1>9 DEF FlushInv

\* The notification comes after the report.
LEMMA FlushNotifyOne ==
  ASSUME "flush_error" \notin Env, FlushInv, TypeInv', NotifyOne
  PROVE  FlushInv'
<1> TypeInv /\ TypeOK
  BY DEF FlushInv, TypeInv
<1> USE DEF Unlocked
<1>1. /\ worker.pc = "sent" /\ worker'.pc = "idle" /\ permit'
      /\ UNCHANGED <<disk, mem, head, pending, queue, results, done, call>>
  BY DEF NotifyOne, chainVars, flushVars
<1>2. \A i : (IsFlush(i)' <=> IsFlush(i)) /\ (IsUnwind(i)' <=> IsUnwind(i))
  BY <1>1 DEF IsFlush, IsUnwind
<1>3. Unwinding' <=> Unwinding
  BY <1>1 DEF Unwinding
<1>4. OneOutstanding' /\ UnwindProtocol'
  BY <1>1, <1>2, <1>3 DEF FlushInv, OneOutstanding, UnwindProtocol
<1>5. Mutex' /\ MemBelowHead' /\ Covered' /\ GapFree(disk)' /\ NoMissedWakeup'
  BY <1>1 DEF FlushInv, Mutex, MemBelowHead, Covered, GapFree, NoMissedWakeup
<1>6. FlushCovers'
  <2>1. FlushCovers /\ worker'.pc # "saved"
    BY <1>1 DEF FlushInv
  <2> QED
    BY <1>1, <2>1, CoversKept
<1>7. FlushFresh'
  BY <1>1, <1>2, <1>3 DEF FlushInv, FlushFresh, Tips
<1> QED
  BY <1>4, <1>5, <1>6, <1>7 DEF FlushInv

\* An unwind removes only what is above the head.
LEMMA FlushUnwindDisk ==
  ASSUME "flush_error" \notin Env, FlushInv, TypeInv', UnwindDisk
  PROVE  FlushInv'
<1> TypeInv /\ TypeOK
  BY DEF FlushInv, TypeInv
<1> USE DEF Unlocked
<1>1. /\ worker.pc = "idle" /\ queue # <<>> /\ queue' = Tail(queue) /\ Head(queue).op = "unwind"
      /\ UNCHANGED <<mem, head, pending, worker, results, permit, call>>
  BY DEF UnwindDisk, flushVars
<1>2. 1 \in DOMAIN queue /\ Head(queue) = queue[1]
  BY <1>1, QueueReceive
<1>3. IsUnwind(1) /\ Unwinding /\ Len(queue) = 1 /\ queue[1].target = head
  BY <1>1, <1>2, QueueReceive DEF FlushInv, UnwindProtocol, IsUnwind
<1>4. queue' = <<>> /\ DOMAIN queue' = {}
  BY <1>1, <1>3, QueueReceive
<1>5. disk' \subseteq disk /\ \A b \in disk : Num(b) <= head => b \in disk'
  BY <1>1, <1>3, QueueReceive DEF UnwindDisk, RemoveAbove
<1>6. disk' = disk \/ disk' = {b \in disk : Num(b) <= head}
  BY <1>1, <1>3, QueueReceive DEF UnwindDisk, RemoveAbove
<1>7. Mutex' /\ Unwinding' /\ MemBelowHead' /\ NoMissedWakeup'
  BY <1>1, <1>3 DEF FlushInv, Mutex, Unwinding, MemBelowHead, NoMissedWakeup
<1>8. ~IsFlush(1)
  BY <1>3 DEF IsFlush, IsUnwind
<1>9. OneOutstanding' /\ UnwindProtocol'
  BY <1>1, <1>4, <1>7, <1>8 DEF FlushInv, OneOutstanding, UnwindProtocol, IsFlush
<1>10. GapFree(disk)'
  BY <1>6, ProducerAssumption DEF FlushInv, GapFree, TypeOK
<1>11. Covered'
  BY <1>1, <1>5 DEF FlushInv, Covered, TypeOK
<1>12. FlushCovers'
  BY <1>1, <1>4, <1>5 DEF FlushInv, FlushCovers, Covers, MemBelowHead
<1>13. FlushFresh'
  BY <1>1, <1>4, <1>7 DEF FlushInv, FlushFresh
<1> QED
  BY <1>7, <1>9, <1>10, <1>11, <1>12, <1>13 DEF FlushInv

\* A restart falls back to the database, which has no gaps.
LEMMA FlushRestart ==
  ASSUME "flush_error" \notin Env, FlushInv, TypeInv', Restart
  PROVE  FlushInv'
<1> TypeInv /\ TypeOK
  BY DEF FlushInv, TypeInv
<1> USE DEF Unlocked
<1>1. /\ \A c \in Calls : call'[c].pc = "idle"
      /\ DOMAIN queue' = {} /\ DOMAIN results' = {} /\ results' = <<>>
      /\ worker'.pc = "idle" /\ ~pending' /\ done' = "none" /\ mem' = {} /\ disk' = disk
  BY DEF Restart, Idle, At
<1>2. Mutex' /\ UnwindProtocol' /\ NoMissedWakeup' /\ FlushFresh'
  BY <1>1 DEF Mutex, UnwindProtocol, NoMissedWakeup, FlushFresh
<1>3. OneOutstanding' /\ FlushCovers'
  BY <1>1 DEF OneOutstanding, FlushCovers
<1>4. PICK b \in disk : head' = Num(b)
  BY DEF Restart, Tips
<1>5. MemBelowHead' /\ GapFree(disk)' /\ Covered'
  BY <1>1, <1>4 DEF FlushInv, MemBelowHead, GapFree, Covered
<1> QED
  BY <1>2, <1>3, <1>5 DEF FlushInv

\* Every step keeps the invariant when no flush fails.
LEMMA FlushStep ==
  ASSUME "flush_error" \notin Env, FlushInv, [Next]_vars
  PROVE  FlushInv'
<1> TypeInv /\ TypeOK /\ TypeInv'
  BY TypeStep DEF FlushInv, TypeInv
<1> USE DEF Unlocked
<1>1. CASE UNCHANGED vars \/ DigestInit \/ ReplaceLog
  <2>1. UNCHANGED <<disk, mem, head, pending, queue, worker, results, done, permit, call>>
    BY <1>1 DEF vars, DigestInit, ReplaceLog, chainVars, flushVars, threadVars
  <2>2. \A i : (IsFlush(i)' <=> IsFlush(i)) /\ (IsUnwind(i)' <=> IsUnwind(i))
    BY <2>1 DEF IsFlush, IsUnwind
  <2>3. Unwinding' <=> Unwinding
    BY <2>1 DEF Unwinding
  <2>4. OneOutstanding' /\ UnwindProtocol'
    BY <2>1, <2>2, <2>3 DEF FlushInv, OneOutstanding, UnwindProtocol
  <2>5. Mutex' /\ MemBelowHead' /\ Covered' /\ GapFree(disk)' /\ NoMissedWakeup'
    BY <2>1 DEF FlushInv, Mutex, MemBelowHead, Covered, GapFree, NoMissedWakeup
  <2>6. FlushCovers'
    <3>1. FlushCovers
      BY DEF FlushInv
    <3> QED
      BY <2>1, <3>1, CoversKept
  <2>7. FlushFresh'
    BY <2>1, <2>2, <2>3 DEF FlushInv, FlushFresh, Tips
  <2> QED
    BY <2>4, <2>5, <2>6, <2>7 DEF FlushInv
<1> QED
  BY FlushDigestMessage, FlushProduceBlock, FlushPollFlush, FlushNotifyTimeout,
     FlushExecutionFails, FlushReorg, FlushNotified, FlushOpenParent, FlushCommitBlock,
     FlushResetToBlock, FlushUnwound, FlushSaveBlocks, FlushSendResult, FlushNotifyOne,
     FlushUnwindDisk, FlushRestart, <1>1
  DEF Next, CallStep, Thread

\* The inductive invariant of the flush protocol holds when no flush fails.
THEOREM FlushInvariant ==
  ASSUME "flush_error" \notin Env PROVE Spec => []FlushInv
BY FlushInit, FlushStep, PTL DEF Spec

\* As long as no write to the database fails, every block up to the head is in
\* memory or on disk: whatever is drained was saved, through crashes, reorgs and
\* failed unwinds.
THEOREM NothingLost ==
  ASSUME "flush_error" \notin Env PROVE Spec => []NoLostBlocks
<1>1. FlushInv => NoLostBlocks
  BY CoveredIsNoLostBlocks DEF FlushInv
<1> QED
  BY <1>1, FlushInvariant, PTL

\* A call that waits for a flush is woken when its result is there.
THEOREM WakeupsKept ==
  ASSUME "flush_error" \notin Env PROVE Spec => []NoMissedWakeup
<1>1. FlushInv => NoMissedWakeup
  BY DEF FlushInv
<1> QED
  BY <1>1, FlushInvariant, PTL

\* pending_flush counts the one flush that is queued, saved or reported, so the
\* persistence thread never blocks on its result channel of capacity one.
THEOREM SingleFlush ==
  ASSUME "flush_error" \notin Env PROVE Spec => []OneFlushInFlight
<1>1. ASSUME FlushInv PROVE OneFlushInFlight
  <2> DEFINE F == {i \in DOMAIN queue : queue[i].op = "flush"}
  <2>1. F = {} \/ F = {1}
    BY <1>1 DEF FlushInv, OneOutstanding, IsFlush
  <2>2. Cardinality({}) = 0 /\ Cardinality({1}) = 1
    BY FS_EmptySet, FS_Singleton
  <2>3. results \in Seq([last : Block]) /\ Len(<<>>) = 0
    BY <1>1 DEF FlushInv, TypeInv, TypeOK
  <2>4. IsFlush(1) <=> F = {1}
    BY <2>1 DEF IsFlush
  <2>5. CASE F = {1}
    <3>1. pending /\ worker.pc # "saved" /\ Len(results) = 0
      BY <1>1, <2>3, <2>4, <2>5 DEF FlushInv, OneOutstanding, IsFlush
    <3>2. Cardinality(F) = 1
      BY <2>2, <2>5
    <3> QED
      BY <3>1, <3>2 DEF OneFlushInFlight
  <2>6. CASE F = {}
    <3>1. ~IsFlush(1) /\ Cardinality(F) = 0
      BY <2>2, <2>4, <2>6
    <3>2. CASE worker.pc = "saved"
      <4>1. pending /\ Len(results) = 0
        BY <1>1, <2>3, <3>2 DEF FlushInv, OneOutstanding
      <4> QED
        BY <3>1, <3>2, <4>1 DEF OneFlushInFlight
    <3>3. CASE worker.pc # "saved" /\ results # <<>>
      <4>1. pending /\ Len(results) = 1
        BY <1>1, <3>3 DEF FlushInv, OneOutstanding
      <4> QED
        BY <3>1, <3>3, <4>1 DEF OneFlushInFlight
    <3>4. CASE worker.pc # "saved" /\ results = <<>>
      <4>1. ~pending
        BY <1>1, <3>1, <3>4 DEF FlushInv, OneOutstanding
      <4> QED
        BY <2>3, <3>1, <3>4, <4>1 DEF OneFlushInFlight
    <3> QED
      BY <3>2, <3>3, <3>4
  <2> QED
    BY <2>1, <2>5, <2>6
<1> QED
  BY <1>1, FlushInvariant, PTL
=============================================================================
