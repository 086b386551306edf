------------------------- MODULE BlockProducerFlush -------------------------
(***************************************************************************)
(* The inductive invariant of asynchronous flushing, the facts about the   *)
(* channels and the lock that its proof rests on, and the steps of a call  *)
(* that produces a block.                                                  *)
(***************************************************************************)
EXTENDS BlockProducerTypes

\* produce_lock is a lock.
Mutex ==
  \A c, d \in Calls : call[c].pc \notin Unlocked /\ call[d].pc \notin Unlocked => c = d

IsFlush(i) == i \in DOMAIN queue /\ queue[i].op = "flush"
IsUnwind(i) == i \in DOMAIN queue /\ queue[i].op = "unwind"
Unwinding == \E c \in Calls : call[c].pc = "unwinding"

\* A flush is queued first, saved, or reported, one of them and only while
\* pending_flush is set.
OneOutstanding ==
  /\ \A i \in DOMAIN queue : IsFlush(i) =>
       i = 1 /\ pending /\ worker.pc # "saved" /\ results = <<>>
  /\ worker.pc = "saved" => pending /\ results = <<>>
  /\ results # <<>> => pending /\ Len(results) = 1
  /\ pending => IsFlush(1) \/ worker.pc = "saved" \/ results # <<>>

\* An unwind is the last request; its answer comes when nothing is left to do.
UnwindProtocol ==
  /\ \A i \in DOMAIN queue : IsUnwind(i) =>
       i = Len(queue) /\ Unwinding /\ done = "none" /\ queue[i].target = head
  /\ done # "none" => Unwinding /\ queue = <<>> /\ worker.pc # "saved"

MemBelowHead == \A b \in mem : Num(b) <= head

\* The database has a block of every number up to its tip.
GapFree(S) == \A b \in S : \A n \in GenesisNum..Num(b) : \E d \in S : Num(d) = n

\* The blocks of memory that a drain of the flush that ends in last removes are in S.
Covers(S, last) == last \in mem => \A b \in mem : Num(b) <= Num(last) => b \in S

\* What draining the outstanding flush will remove is, or will be, on disk.
FlushCovers ==
  /\ \A i \in DOMAIN queue : IsFlush(i) =>
       /\ GapFree(disk \cup queue[i].blocks)
       /\ \A last \in Tips(queue[i].blocks) : Covers(queue[i].blocks, last)
  /\ worker.pc = "saved" => Covers(disk, worker.last)
  /\ \A i \in DOMAIN results : Covers(disk, results[i].last)

\* The block an outstanding flush ends in is still in memory, unless a reset is
\* under way, whose answer comes after the flush, or the flush was reported.
FlushFresh ==
  /\ ~Unwinding =>
       /\ \A i \in DOMAIN queue : IsFlush(i) => Tips(queue[i].blocks) \subseteq mem
       /\ worker.pc = "saved" => worker.last \in mem
  /\ (\E c \in Calls : call[c].pc = "executing") =>
       \A i \in DOMAIN results : results[i].last \in mem

\* NoLostBlocks, without the order in which the two stores are looked up.
Covered == \A n \in GenesisNum..head : \E b \in mem \cup disk : Num(b) = n

FlushInv ==
  /\ TypeInv /\ Mutex /\ OneOutstanding /\ UnwindProtocol /\ NoMissedWakeup
  /\ MemBelowHead /\ GapFree(disk) /\ FlushCovers /\ FlushFresh
  /\ Covered

-----------------------------------------------------------------------------
\* Covered is NoLostBlocks, whichever store is looked up first.
LEMMA CoveredIsNoLostBlocks == Covered => NoLostBlocks
BY DEF Covered, NoLostBlocks, Lookup, LookupIn

\* Only call c moves, to a step in S.
Moves(c, S) ==
  \A d \in Calls : IF d = c THEN call'[d].pc \in S ELSE call'[d].pc = call[d].pc

\* A call that ends changes its own program point only,
LEMMA FinishMoves ==
  ASSUME TypeOK, NEW c \in Calls, Finish(c) PROVE Moves(c, {"idle"})
BY DEF TypeOK, Finish, Moves, Idle, At

\* and so do a call that moves on,
LEMMA GotoMoves ==
  ASSUME TypeOK, NEW c \in Calls, NEW pc, Goto(c, pc) PROVE Moves(c, {pc})
BY DEF TypeOK, Goto, Moves, CallRec

\* one that starts to execute,
LEMMA ExecutingMoves ==
  ASSUME TypeOK, NEW c \in Calls,
         call' = [call EXCEPT ![c].pc = "executing", ![c].init = init]
  PROVE  Moves(c, {"executing"})
BY DEF TypeOK, Moves, CallRec

\* a reorg that takes its next message,
LEMMA NextMessageMoves ==
  ASSUME TypeOK, NEW c \in Calls, NextMessage(c) PROVE Moves(c, {"idle", "checked"})
BY DEF TypeOK, NextMessage, Moves, Idle, At

\* and a reorg that starts to replay.
LEMMA ReplayMoves ==
  ASSUME TypeOK, NEW c \in Calls, Replay(c) PROVE Moves(c, {"idle", "checked"})
BY DEF TypeOK, Replay, Moves, Idle, At

\* The lock is taken only when it is free.
LEMMA MutexKept ==
  ASSUME Mutex, NEW c \in Calls, NEW S, Moves(c, S),
         S \subseteq Unlocked \/ LockFree \/ call[c].pc \notin Unlocked
  PROVE  Mutex'
BY DEF Mutex, Moves, LockFree

\* What an outstanding flush covers depends on the stores and the channels only,
\* and on the thread's step while it has a flush to report.
LEMMA CoversKept ==
  ASSUME FlushCovers, UNCHANGED <<disk, mem, queue, results>>,
         worker'.pc = "saved" => worker' = worker
  PROVE  FlushCovers'
<1>1. \A i \in DOMAIN queue' : IsFlush(i)' =>
        /\ GapFree(disk \cup queue[i].blocks)'
        /\ \A last \in Tips(queue[i].blocks)' : Covers(queue[i].blocks, last)'
  BY DEF FlushCovers, IsFlush, GapFree, Covers, Tips
<1>2. worker'.pc = "saved" => Covers(disk, worker.last)'
  BY DEF FlushCovers, Covers
<1>3. \A i \in DOMAIN results' : Covers(disk, results[i].last)'
  BY DEF FlushCovers, Covers
<1> QED
  BY <1>1, <1>2, <1>3 DEF FlushCovers

\* Whether the blocks of a request close every gap depends on the database only.
LEMMA GapFreeKept ==
  ASSUME disk' = disk, NEW i, queue'[i] = queue[i], GapFree(disk \cup queue[i].blocks)
  PROVE  GapFree(disk \cup queue[i].blocks)'
BY DEF GapFree

\* A step that leaves both stores and all channels alone.
LEMMA QuietButPermit ==
  ASSUME FlushInv, TypeInv', NEW c \in Calls, NEW S, Moves(c, S),
         UNCHANGED <<disk, mem, head, pending, queue, worker, results, done>>,
         S \subseteq Unlocked \/ LockFree \/ call[c].pc \notin Unlocked,
         "unwinding" \notin S, call[c].pc # "unwinding",
         "executing" \notin S \/ results = <<>>,
         NoMissedWakeup'
  PROVE  FlushInv'
<1>1. Mutex'
  BY MutexKept DEF FlushInv
<1>2. Unwinding' <=> Unwinding
  BY DEF Unwinding, Moves
<1>3. \A i : (IsFlush(i)' <=> IsFlush(i)) /\ (IsUnwind(i)' <=> IsUnwind(i))
  BY DEF IsFlush, IsUnwind
<1>4. OneOutstanding' /\ UnwindProtocol'
  BY <1>2, <1>3 DEF FlushInv, OneOutstanding, UnwindProtocol
<1>5. MemBelowHead' /\ GapFree(disk)' /\ Covered'
  BY DEF FlushInv, MemBelowHead, GapFree, Covered
<1>6. FlushCovers'
  <2>1. FlushCovers
    BY DEF FlushInv
  <2> QED
    BY <2>1, CoversKept
<1>7. FlushFresh'
  <2>1. results = <<>> => DOMAIN results' = {}
    OBVIOUS
  <2> QED
    BY <1>2, <1>3, <2>1 DEF FlushInv, FlushFresh, Moves, Tips
<1> QED
  BY <1>1, <1>4, <1>5, <1>6, <1>7 DEF FlushInv

\* A step that leaves the stores, the channels and the permit alone.
LEMMA Quiet ==
  ASSUME FlushInv, TypeInv', NEW c \in Calls, NEW S, Moves(c, S),
         UNCHANGED <<disk, mem, head, pending, queue, worker, results, done, permit>>,
         S \subseteq Unlocked \/ LockFree \/ call[c].pc \notin Unlocked,
         "unwinding" \notin S, call[c].pc # "unwinding",
         "executing" \notin S \/ results = <<>>,
         "parked" \notin S \/ results = <<>>
  PROVE  FlushInv'
<1>1. NoMissedWakeup'
  BY DEF FlushInv, NoMissedWakeup, Moves
<1> QED
  BY <1>1, QuietButPermit

\* A call that holds the lock and is not waiting for an unwind: no other call
\* holds it, and no unwind is queued or answered.
LEMMA Producing ==
  ASSUME FlushInv, NEW c \in Calls, call[c].pc \in {"polling", "parked", "ready", "executing"}
  PROVE  /\ ~Unwinding /\ done = "none"
         /\ \A i \in DOMAIN queue : ~IsUnwind(i)
         /\ \A d \in Calls : d # c => call[d].pc \in Unlocked
BY DEF FlushInv, Mutex, Unwinding, UnwindProtocol, Unlocked

\* With the lock free no unwind is queued or answered.
LEMMA Free ==
  ASSUME FlushInv, LockFree
  PROVE  /\ ~Unwinding /\ done = "none"
         /\ \A i \in DOMAIN queue : ~IsUnwind(i)
BY DEF FlushInv, LockFree, Unwinding, UnwindProtocol, Unlocked

\* Between a flush that was drained and the next one the request queue is empty.
LEMMA EmptyQueue ==
  ASSUME FlushInv, ~pending, \A i \in DOMAIN queue : ~IsUnwind(i)
  PROVE  queue = <<>> /\ worker.pc # "saved" /\ results = <<>>
<1>0. queue \in Seq(Request)
  BY DEF FlushInv, TypeInv, TypeOK
<1>1. DOMAIN queue = 1..Len(queue) /\ Len(queue) \in Nat
  BY <1>0, LenProperties
<1>2. ASSUME NEW i \in DOMAIN queue PROVE IsFlush(i) \/ IsUnwind(i)
  <2>1. queue[i] \in Request
    BY <1>0, <1>1, ElementOfSeq
  <2>2. queue[i].op \in {"flush", "unwind"}
    BY <2>1 DEF Request
  <2> QED
    BY <2>2 DEF IsFlush, IsUnwind
<1>3. \A i \in DOMAIN queue : ~IsFlush(i)
  BY DEF FlushInv, OneOutstanding
<1>4. Len(queue) = 0
  BY <1>1, <1>2, <1>3
<1>5. queue = <<>>
  BY <1>0, <1>4, EmptySeq
<1> QED
  BY <1>5 DEF FlushInv, OneOutstanding

\* Draining a flush removes from memory only blocks that are on disk.
LEMMA Drained ==
  ASSUME FlushInv, CanDrain, NEW m, m = RemovePersisted(mem, Head(results).last)
  PROVE  /\ Tail(results) = <<>> /\ worker.pc # "saved"
         /\ \A i \in DOMAIN queue : ~IsFlush(i)
         /\ m \subseteq mem /\ \A b \in mem : b \in m \/ b \in disk
<1>1. results \in Seq([last : Block]) /\ results # <<>> /\ Len(results) = 1
  BY DEF FlushInv, TypeInv, TypeOK, CanDrain, OneOutstanding
<1>2. Tail(results) = <<>> /\ Head(results) = results[1] /\ 1 \in DOMAIN results
  <2>1. Tail(results) \in Seq([last : Block]) /\ Len(Tail(results)) = 0
    BY <1>1, HeadTailProperties
  <2>2. Tail(results) = <<>>
    BY <2>1, EmptySeq
  <2>3. Head(results) = results[1] /\ 1 \in DOMAIN results
    BY <1>1
  <2> QED
    BY <2>2, <2>3
<1>3. Covers(disk, Head(results).last)
  BY <1>2 DEF FlushInv, FlushCovers
<1>4. \A b \in mem : b \in m \/ b \in disk
  BY <1>3, ProducerAssumption DEF RemovePersisted, Covers, FlushInv, TypeInv, TypeOK
<1> QED
  BY <1>1, <1>2, <1>4, RemovePersistedSubset DEF FlushInv, OneOutstanding

\* A flush that starts is the only request there is.
LEMMA FlushStarted ==
  ASSUME FlushInv, ~pending, \A i \in DOMAIN queue : ~IsUnwind(i),
         NEW m \in SUBSET Block, NEW a, StartAsyncFlush(m, a)
  PROVE  /\ DOMAIN queue' = {1} /\ queue'[1].blocks = m
         /\ IsFlush(1)' /\ ~IsUnwind(1)' /\ pending'
         /\ worker.pc # "saved" /\ results = <<>>
<1>1. queue = <<>> /\ worker.pc # "saved" /\ results = <<>>
  BY EmptyQueue
<1>2. queue' = <<FlushRequest(m)>> /\ pending'
  BY <1>1 DEF StartAsyncFlush
<1>3. DOMAIN queue' = {1} /\ queue'[1] = FlushRequest(m)
  BY <1>2
<1> QED
  BY <1>1, <1>2, <1>3 DEF IsFlush, IsUnwind, FlushRequest

\* A producer that starts satisfies the invariant.
LEMMA FlushInit == Init => FlushInv
<1> SUFFICES ASSUME Init PROVE FlushInv
  OBVIOUS
<1>1. TypeInv
  BY TypeInit
<1>2. \A c \in Calls : call[c].pc = "idle"
  BY DEF Init, Idle, At
<1>3. DOMAIN queue = {} /\ DOMAIN results = {} /\ worker.pc = "idle"
  BY DEF Init
<1>4. Mutex /\ UnwindProtocol /\ NoMissedWakeup /\ FlushFresh
  BY <1>2, <1>3 DEF Init, Mutex, Unlocked, UnwindProtocol, NoMissedWakeup, FlushFresh
<1>5. OneOutstanding /\ FlushCovers
  BY <1>3 DEF Init, OneOutstanding, FlushCovers
<1>6. MemBelowHead /\ GapFree(disk) /\ Covered
  BY ProducerAssumption DEF Init, MemBelowHead, GapFree, Covered
<1> QED
  BY <1>1, <1>4, <1>5, <1>6 DEF FlushInv

\* Starting a flush of the whole memory keeps the invariant.
LEMMA FlushStartKeeps ==
  ASSUME FlushInv, TypeInv', NEW c \in Calls, NEW S, Moves(c, S), NEW a,
         ~pending, \A i \in DOMAIN queue : ~IsUnwind(i), ~Unwinding,
         StartAsyncFlush(mem', a), UNCHANGED <<disk, worker, results, done, permit>>,
         LockFree \/ call[c].pc \notin Unlocked,
         "unwinding" \notin S, "executing" \notin S,
         MemBelowHead', Covered'
  PROVE  FlushInv'
<1>1. mem' \in SUBSET Block
  BY DEF TypeInv, TypeOK
<1>2. /\ DOMAIN queue' = {1} /\ queue'[1].blocks = mem'
      /\ IsFlush(1)' /\ ~IsUnwind(1)' /\ pending'
      /\ worker.pc # "saved" /\ results = <<>>
  BY <1>1, FlushStarted
<1>3. Mutex' /\ ~Unwinding'
  BY MutexKept DEF FlushInv, Unwinding, Moves
<1>4. OneOutstanding'
  BY <1>2 DEF OneOutstanding
<1>5. UnwindProtocol'
  BY <1>2 DEF FlushInv, UnwindProtocol
<1>6. NoMissedWakeup'
  BY <1>2 DEF NoMissedWakeup
<1>7. GapFree(disk)'
  BY DEF FlushInv, GapFree
<1>8. GapFree(disk' \cup mem')
  BY <1>1, <1>7, ProducerAssumption DEF GapFree, MemBelowHead, Covered, TypeInv, TypeOK
<1>9. FlushCovers'
  <2>1. \A last : Covers(queue[1].blocks, last)'
    BY <1>2 DEF Covers
  <2>2. GapFree(disk \cup queue[1].blocks)'
    BY <1>2, <1>8 DEF GapFree
  <2>3. DOMAIN results' = {} /\ worker'.pc # "saved"
    BY <1>2
  <2> QED
    BY <1>2, <2>1, <2>2, <2>3 DEF FlushCovers
<1>10. FlushFresh'
  <2>1. DOMAIN results' = {}
    BY <1>2
  <2> QED
    BY <1>2, <2>1 DEF FlushFresh, Tips
<1> QED
  BY <1>3, <1>4, <1>5, <1>6, <1>7, <1>9, <1>10 DEF FlushInv

\* So does draining one, whatever the call does next but waiting for another.
LEMMA DrainKeeps ==
  ASSUME FlushInv, TypeInv', NEW c \in Calls, NEW S, Moves(c, S), CanDrain,
         mem' = RemovePersisted(mem, Head(results).last), results' = Tail(results),
         ~pending', UNCHANGED <<disk, head, queue, worker, done, permit>>,
         call[c].pc \in {"polling", "ready"}, "unwinding" \notin S
  PROVE  FlushInv'
<1>1. /\ results' = <<>> /\ worker.pc # "saved"
      /\ \A i \in DOMAIN queue : ~IsFlush(i)
      /\ mem' \subseteq mem /\ \A b \in mem : b \in mem' \/ b \in disk
  BY Drained
<1>2. /\ ~Unwinding /\ done = "none" /\ \A i \in DOMAIN queue : ~IsUnwind(i)
  BY Producing
<1>3. Mutex' /\ ~Unwinding'
  BY <1>2, MutexKept DEF FlushInv, Unwinding, Moves, Unlocked
<1>4. \A i \in DOMAIN queue' : ~IsFlush(i)' /\ ~IsUnwind(i)'
  BY <1>1, <1>2 DEF IsFlush, IsUnwind
<1>5. OneOutstanding' /\ UnwindProtocol' /\ NoMissedWakeup'
  BY <1>1, <1>2, <1>4 DEF OneOutstanding, UnwindProtocol, NoMissedWakeup
<1>6. MemBelowHead' /\ GapFree(disk)' /\ Covered'
  BY <1>1 DEF FlushInv, MemBelowHead, GapFree, Covered
<1>7. DOMAIN results' = {}
  BY <1>1
<1>8. FlushCovers' /\ FlushFresh'
  BY <1>1, <1>4, <1>7 DEF FlushCovers, FlushFresh
<1> QED
  BY <1>3, <1>5, <1>6, <1>8 DEF FlushInv

\* The request queue after a send, and after a receive.
LEMMA QueueSend ==
  ASSUME TypeOK, NEW r \in Request, queue' = Append(queue, r)
  PROVE  /\ DOMAIN queue = 1..Len(queue) /\ Len(queue) \in Nat
         /\ DOMAIN queue' = 1..(Len(queue) + 1) /\ Len(queue') = Len(queue) + 1
         /\ \A i \in DOMAIN queue : queue'[i] = queue[i]
         /\ queue'[Len(queue) + 1] = r
<1>1. queue \in Seq(Request)
  BY DEF TypeOK
<1>2. /\ queue' \in Seq(Request) /\ Len(queue') = Len(queue) + 1
      /\ \A i \in 1..Len(queue) : queue'[i] = queue[i]
      /\ queue'[Len(queue) + 1] = r
  BY <1>1, AppendProperties
<1> QED
  BY <1>1, <1>2, LenProperties

\* Receiving leaves the rest of the queue in order.
LEMMA QueueReceive ==
  ASSUME TypeOK, queue # <<>>, queue' = Tail(queue)
  PROVE  /\ DOMAIN queue = 1..Len(queue) /\ Len(queue) \in Nat /\ 1 \in DOMAIN queue
         /\ Head(queue) = queue[1]
         /\ DOMAIN queue' = 1..(Len(queue) - 1) /\ Len(queue') = Len(queue) - 1
         /\ \A i \in DOMAIN queue' : queue'[i] = queue[i + 1]
         /\ Len(queue) = 1 => queue' = <<>>
<1>1. queue \in Seq(Request)
  BY DEF TypeOK
<1>2. /\ queue' \in Seq(Request) /\ Len(queue') = Len(queue) - 1
      /\ \A i \in 1..Len(queue') : queue'[i] = queue[i + 1]
  BY <1>1, HeadTailProperties
<1>3. Len(queue) \in Nat \ {0} /\ DOMAIN queue = 1..Len(queue)
  BY <1>1, EmptySeq, LenProperties
<1>4. Len(queue) = 1 => queue' = <<>>
  BY <1>2, EmptySeq
<1>5. DOMAIN queue' = 1..(Len(queue) - 1)
  BY <1>2, LenProperties
<1> QED
  BY <1>1, <1>2, <1>3, <1>4, <1>5

\* The lookup of digestMessage touches neither stores nor channels.
LEMMA FlushDigestMessage ==
  ASSUME "flush_error" \notin Env, FlushInv, TypeInv', NEW c \in Calls, DigestMessage(c)
  PROVE  FlushInv'
<1> TypeInv /\ TypeOK
  BY DEF FlushInv, TypeInv
<1> USE DEF Unlocked
<1>1. Moves(c, {"idle", "checked"})
  BY DEF DigestMessage, At, Moves, TypeOK
<1> QED
  BY <1>1, Quiet DEF DigestMessage, chainVars, flushVars, threadVars

\* The start of a production may start a flush of the whole memory.
LEMMA FlushProduceBlock ==
  ASSUME "flush_error" \notin Env, FlushInv, TypeInv', NEW c \in Calls, ProduceBlock(c)
  PROVE  FlushInv'
<1> TypeInv /\ TypeOK
  BY DEF FlushInv, TypeInv
<1> USE DEF Unlocked
<1>1. CASE UNCHANGED <<flushVars, queue>>
  <2>1. \E pc \in {"idle", "ready", "polling"} : Moves(c, {pc})
    BY FinishMoves, GotoMoves DEF ProduceBlock
  <2> QED
    BY <1>1, <2>1, Quiet DEF ProduceBlock, chainVars, flushVars
<1>2. CASE ~pending /\ StartAsyncFlush(mem, acc) /\ Goto(c, "polling")
  <2>1. /\ Moves(c, {"polling"}) /\ LockFree
       /\ UNCHANGED <<disk, mem, head, worker, results, done, permit>>
    BY <1>2, GotoMoves DEF ProduceBlock, chainVars
  <2>2. MemBelowHead' /\ Covered'
    BY <2>1 DEF FlushInv, MemBelowHead, Covered
  <2>3. ~Unwinding /\ \A i \in DOMAIN queue : ~IsUnwind(i)
    BY <2>1, Free
  <2>4. ~pending /\ StartAsyncFlush(mem', acc)
    BY <1>2, <2>1
  <2>5. "unwinding" \notin {"polling"} /\ "executing" \notin {"polling"}
    OBVIOUS
  <2> QED
    BY <2>1, <2>2, <2>3, <2>4, <2>5, FlushStartKeeps
<1> QED
  BY <1>1, <1>2 DEF ProduceBlock

\* A round of the backpressure loop drains a flush, or waits while there is no result.
LEMMA FlushPollFlush ==
  ASSUME "flush_error" \notin Env, FlushInv, TypeInv', NEW c \in Calls, PollFlush(c)
  PROVE  FlushInv'
<1> TypeInv /\ TypeOK
  BY DEF FlushInv, TypeInv
<1> USE DEF Unlocked
<1>1. CASE CanDrain
  <2>1. Drain /\ Moves(c, {"ready"})
    BY <1>1, GotoMoves DEF PollFlush
  <2> QED
    BY <1>1, <2>1, DrainKeeps DEF PollFlush, Drain
<1>2. CASE ~CanDrain
  <2>1. Moves(c, {"parked"}) /\ results = <<>>
    BY <1>2, GotoMoves DEF PollFlush, CanDrain, FlushInv, OneOutstanding
  <2> QED
    BY <1>2, <2>1, Quiet DEF PollFlush
<1> QED
  BY <1>1, <1>2

\* A timeout only sends the call back to its poll.
LEMMA FlushNotifyTimeout ==
  ASSUME "flush_error" \notin Env, FlushInv, TypeInv', NEW c \in Calls, NotifyTimeout(c)
  PROVE  FlushInv'
<1> TypeInv /\ TypeOK
  BY DEF FlushInv, TypeInv
<1> USE DEF Unlocked
<1>1. Moves(c, {"polling"})
  BY GotoMoves DEF NotifyTimeout
<1> QED
  BY <1>1, Quiet DEF NotifyTimeout, chainVars, flushVars, threadVars

\* A failed execution ends the call and touches no store.
LEMMA FlushExecutionFails ==
  ASSUME "flush_error" \notin Env, FlushInv, TypeInv', NEW c \in Calls, ExecutionFails(c)
  PROVE  FlushInv'
<1> TypeInv /\ TypeOK
  BY DEF FlushInv, TypeInv
<1> USE DEF Unlocked
<1>1. Moves(c, {"idle"})
  BY FinishMoves DEF ExecutionFails
<1> QED
  BY <1>1, Quiet DEF ExecutionFails, chainVars, threadVars

\* The start of a reorg touches neither stores nor channels.
LEMMA FlushReorg ==
  ASSUME "flush_error" \notin Env, FlushInv, TypeInv', NEW c \in Calls, Reorg(c)
  PROVE  FlushInv'
<1> TypeInv /\ TypeOK
  BY DEF FlushInv, TypeInv
<1> USE DEF Unlocked
<1>1. Moves(c, {"reset"})
  BY DEF Reorg, At, Moves, TypeOK
<1> QED
  BY <1>1, Quiet DEF Reorg, AllIdle, chainVars, flushVars, threadVars

\* Taking the permit is safe because the call polls the result next.
LEMMA FlushNotified ==
  ASSUME "flush_error" \notin Env, FlushInv, TypeInv', NEW c \in Calls, Notified(c)
  PROVE  FlushInv'
<1> TypeInv /\ TypeOK
  BY DEF FlushInv, TypeInv
<1> USE DEF Unlocked
<1>1. Moves(c, {"polling"})
  BY GotoMoves DEF Notified
<1>2. NoMissedWakeup'
  BY <1>1, Producing DEF Notified, NoMissedWakeup, Moves
<1> QED
  BY <1>1, <1>2, QuietButPermit DEF Notified, chainVars, flushVars

\* Opening the parent may drain a flush first.
LEMMA FlushOpenParent ==
  ASSUME "flush_error" \notin Env, FlushInv, TypeInv', NEW c \in Calls, OpenParent(c)
  PROVE  FlushInv'
<1> TypeInv /\ TypeOK
  BY DEF FlushInv, TypeInv
<1> USE DEF Unlocked
<1>1. \E pc \in {"idle", "executing"} : Moves(c, {pc})
  BY FinishMoves, ExecutingMoves DEF OpenParent
<1>2. CASE CanDrain
  BY <1>1, <1>2, DrainKeeps DEF OpenParent
<1>3. CASE ~CanDrain
  <2>1. results = <<>>
    BY <1>3 DEF CanDrain, FlushInv, OneOutstanding
  <2> QED
    BY <1>1, <1>3, <2>1, Quiet DEF OpenParent
<1> QED
  BY <1>2, <1>3

\* A new block enters memory above everything that is being flushed.
LEMMA FlushCommitBlock ==
  ASSUME "flush_error" \notin Env, FlushInv, TypeInv', NEW c \in Calls, CommitBlock(c)
  PROVE  FlushInv'
<1> TypeInv /\ TypeOK
  BY DEF FlushInv, TypeInv
<1> USE DEF Unlocked
<1>1. PICK n \in HeadNumber : \E b \in NextBlock(n, call[c]) :
        /\ mem' = mem \cup {b} /\ head' = n + 1
        /\ IF ShouldFlush THEN StartAsyncFlush(mem \cup {b}, acc \cup {b})
           ELSE UNCHANGED <<pending, queue>>
  BY DEF CommitBlock
<1>2. PICK b \in NextBlock(n, call[c]) :
        /\ mem' = mem \cup {b} /\ head' = n + 1
        /\ IF ShouldFlush THEN StartAsyncFlush(mem \cup {b}, acc \cup {b})
           ELSE UNCHANGED <<pending, queue>>
  BY <1>1
<1>3. n \in Nat /\ b \in Block /\ Num(b) = n + 1
  <2>1. call[c] \in CallRec /\ call[c].idx \in Nat /\ call[c].pc = "executing"
    BY DEF CommitBlock, TypeOK, CallRec
  <2>2. call[c].idx \in 1..Len(feed)
    BY <2>1 DEF CallIdx, TypeInv, TypeOK
  <2>3. n \in Nat
    BY HeadNumberType
  <2> QED
    BY <1>2, <2>1, <2>2, <2>3, NextBlockType
<1>4. head <= n /\ \A k \in GenesisNum..n : \E d \in mem \cup disk : Num(d) = k
  <2>1. CASE head > 0
    <3>1. n = head /\ head \in Nat
      BY <2>1 DEF HeadNumber, TypeOK
    <3> QED
      BY <3>1 DEF FlushInv, Covered
  <2>2. CASE ~(head > 0)
    <3>1. \E d \in disk : n = Num(d)
      BY <2>2 DEF HeadNumber, Tips
    <3> QED
      BY <1>3, <2>2, <3>1 DEF FlushInv, GapFree, TypeOK
  <2> QED
    BY <2>1, <2>2
<1>5. MemBelowHead' /\ Covered'
  <2>1. \A x \in mem : Num(x) \in Nat /\ Num(x) <= head /\ head \in Nat
    BY ProducerAssumption DEF FlushInv, MemBelowHead, TypeOK
  <2>2. MemBelowHead'
    BY <1>2, <1>3, <1>4, <2>1 DEF MemBelowHead
  <2>3. mem' \cup disk' = mem \cup disk \cup {b} /\ head' = n + 1
    BY <1>2 DEF CommitBlock
  <2>4. ASSUME NEW k \in GenesisNum..(n + 1)
        PROVE  \E d \in mem \cup disk \cup {b} : Num(d) = k
    <3>1. CASE k = n + 1
      BY <1>3, <3>1
    <3>2. CASE k # n + 1
      <4>1. k \in GenesisNum..n
        BY <1>3, <3>2, ProducerAssumption
      <4> QED
        BY <1>4, <4>1
    <3> QED
      BY <3>1, <3>2
  <2>5. Covered'
    BY <2>3, <2>4 DEF Covered
  <2> QED
    BY <2>2, <2>5
<1>6. Moves(c, {"idle", "checked"}) /\ UNCHANGED <<disk, worker, results, done, permit>>
  BY NextMessageMoves DEF CommitBlock
<1>7. /\ ~Unwinding /\ done = "none" /\ call[c].pc = "executing"
      /\ \A i \in DOMAIN queue : ~IsUnwind(i)
      /\ \A d \in Calls : d # c => call[d].pc \in Unlocked
  BY Producing DEF CommitBlock
<1>8. CASE ShouldFlush
  <2>1. ~pending /\ StartAsyncFlush(mem', acc \cup {b})
    BY <1>2, <1>8 DEF ShouldFlush
  <2>2. ~Unwinding /\ \A i \in DOMAIN queue : ~IsUnwind(i)
    BY <1>7
  <2>3. call[c].pc \notin Unlocked
    BY <1>7
  <2>4. "unwinding" \notin {"idle", "checked"} /\ "executing" \notin {"idle", "checked"}
    OBVIOUS
  <2> QED
    BY <1>5, <1>6, <2>1, <2>2, <2>3, <2>4, FlushStartKeeps
<1>9. CASE ~ShouldFlush
  <2>1. UNCHANGED <<pending, queue>>
    BY <1>2, <1>9
  <2>2. Mutex' /\ ~Unwinding'
    BY <1>6, <1>7, MutexKept DEF FlushInv, Unwinding, Moves
  <2>3. \A i : (IsFlush(i)' <=> IsFlush(i)) /\ (IsUnwind(i)' <=> IsUnwind(i))
    BY <2>1 DEF IsFlush, IsUnwind
  <2>4. OneOutstanding'
    BY <1>6, <2>1, <2>3 DEF FlushInv, OneOutstanding
  <2>5. UnwindProtocol'
    BY <1>6, <1>7, <2>1, <2>3 DEF UnwindProtocol
  <2>6. NoMissedWakeup'
    BY <1>6 DEF FlushInv, NoMissedWakeup, Moves
  <2>7. \A S : \A last \in mem : Covers(S, last) => Covers(S, last)'
    BY <1>2, <1>3, <1>4, ProducerAssumption DEF Covers, FlushInv, MemBelowHead, TypeOK
  <2>8. FlushCovers'
    <3>1. \A i \in DOMAIN queue : IsFlush(i) => Tips(queue[i].blocks) \subseteq mem
      BY <1>7 DEF FlushInv, FlushFresh
    <3>2. worker.pc = "saved" => worker.last \in mem
      BY <1>7 DEF FlushInv, FlushFresh
    <3>3. \A i \in DOMAIN results : results[i].last \in mem
      BY <1>7 DEF FlushInv, FlushFresh
    <3>4. \A i \in DOMAIN queue' : IsFlush(i)' => GapFree(disk \cup queue[i].blocks)'
      <4>1. \A i \in DOMAIN queue : IsFlush(i) => GapFree(disk \cup queue[i].blocks)
        BY DEF FlushInv, FlushCovers
      <4>2. disk' = disk /\ queue' = queue
        BY <1>6, <2>1
      <4> QED
        BY <2>3, <4>1, <4>2, GapFreeKept
    <3>5. \A i \in DOMAIN queue' : IsFlush(i)' =>
            \A last \in Tips(queue[i].blocks)' : Covers(queue[i].blocks, last)'
      BY <2>1, <2>3, <2>7, <3>1 DEF FlushInv, FlushCovers, Tips
    <3>6. worker'.pc = "saved" => Covers(disk, worker.last)'
      BY <1>6, <2>7, <3>2 DEF FlushInv, FlushCovers
    <3>7. \A i \in DOMAIN results' : Covers(disk, results[i].last)'
      BY <1>6, <2>7, <3>3 DEF FlushInv, FlushCovers
    <3> QED
      BY <3>4, <3>5, <3>6, <3>7 DEF FlushCovers
  <2>9. FlushFresh'
    BY <1>2, <1>6, <1>7, <2>1, <2>3 DEF FlushInv, FlushFresh, Moves, Tips
  <2>10. GapFree(disk)'
    BY <1>6 DEF FlushInv, GapFree
  <2> QED
    BY <1>5, <2>2, <2>4, <2>5, <2>6, <2>8, <2>9, <2>10 DEF FlushInv
<1> QED
  BY <1>8, <1>9

=============================================================================
