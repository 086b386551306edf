------------------------- MODULE BlockProducerTypes -------------------------
(***************************************************************************)
(* Type correctness of BlockProducer, for every chain, interval, limit, log *)
(* and number of calls: one lemma per action, and the theorem at the end.  *)
(***************************************************************************)
EXTENDS BlockProducer, SequenceTheorems, TLAPS

\* A call past its index check works on a message of the log that makes a block.
CallIdx ==
  \A c \in Calls :
    /\ call[c].pc # "idle" => call[c].upto <= Len(feed)
    /\ call[c].pc \in {"checked", "polling", "parked", "ready", "executing"} =>
         call[c].idx <= Len(feed)
    /\ call[c].pc \in {"polling", "parked", "ready", "executing"} => call[c].idx >= 1

TypeInv == TypeOK /\ CallIdx

-----------------------------------------------------------------------------
\* What a drain removes, and what lookups and the next block are made of.
LEMMA RemovePersistedSubset ==
  ASSUME NEW m, NEW last PROVE RemovePersisted(m, last) \subseteq m
BY DEF RemovePersisted

\* A block found by number is a block.
LEMMA LookupType ==
  ASSUME TypeOK, NEW m \in SUBSET Block, NEW n
  PROVE  LookupIn(m, n) \subseteq Block /\ \A p \in LookupIn(m, n) : Num(p) = n
BY DEF LookupIn, TypeOK

\* The number of the newest block is a number.
LEMMA HeadNumberType ==
  ASSUME TypeOK PROVE HeadNumber \subseteq Nat
BY ProducerAssumption DEF HeadNumber, Tips, TypeOK

\* Executing a message on a block gives a block.
LEMMA NextBlockType ==
  ASSUME TypeOK, NEW n \in Nat, NEW r \in CallRec, r.idx \in 1..Len(feed),
         NEW b \in NextBlock(n, r)
  PROVE  b \in Block /\ Num(b) = n + 1
<1>1. feed[r.idx] \in Msg /\ r.init \in BOOLEAN
  BY DEF TypeOK, CallRec
<1>2. PICK p \in Lookup(n) : n < GenesisNum + MaxFeed /\ b = Child(p, feed[r.idx], r.init)
  BY DEF NextBlock
<1>3. p \in Block /\ Num(p) = n
  BY LookupType, <1>2 DEF Lookup, TypeOK
<1> QED
  BY <1>1, <1>2, <1>3, ProducerAssumption

\* A producer that starts has the right types.
LEMMA TypeInit == Init => TypeInv
<1> SUFFICES ASSUME Init PROVE TypeInv
  OBVIOUS
<1>1. <<>> \in Seq(Msg) /\ <<>> \in Seq(Request) /\ <<>> \in Seq([last : Block]) /\ Len(<<>>) = 0
  BY EmptySeq
<1>2. Idle \in CallRec /\ Idle.pc = "idle" /\ Idle.upto = 0
  BY DEF Idle, At, CallRec
<1>3. call \in [Calls -> CallRec] /\ CallIdx
  BY <1>1, <1>2 DEF Init, CallIdx
<1> QED
  BY <1>1, <1>3, ProducerAssumption DEF Init, TypeInv, TypeOK

\* How a call moves on.
LEMMA FinishType ==
  ASSUME TypeInv, UNCHANGED feed, NEW c \in Calls, Finish(c)
  PROVE  call' \in [Calls -> CallRec] /\ CallIdx'
<1>1. Idle \in CallRec /\ Idle.pc = "idle" /\ Idle.upto = 0 /\ Len(feed) >= 0
  BY DEF Idle, At, CallRec, TypeInv, TypeOK
<1> QED
  BY <1>1 DEF TypeInv, TypeOK, CallIdx, Finish

\* A call that moves to another program point keeps a valid message index.
LEMMA GotoType ==
  ASSUME TypeInv, UNCHANGED feed, NEW c \in Calls, NEW pc, Goto(c, pc),
         \/ /\ call[c].pc \in {"checked", "polling", "parked", "ready"}
            /\ call[c].idx >= 1
            /\ pc \in {"polling", "parked", "ready"}
         \/ call[c].pc = "reset" /\ pc = "unwinding"
  PROVE  call' \in [Calls -> CallRec] /\ CallIdx'
<1>1. call' \in [Calls -> CallRec]
  BY DEF TypeInv, TypeOK, Goto, CallRec
<1>2. \A d \in Calls : call'[d].idx = call[d].idx /\ call'[d].upto = call[d].upto
  BY DEF TypeInv, TypeOK, Goto, CallRec
<1>3. \A d \in Calls : call'[d].pc = IF d = c THEN pc ELSE call[d].pc
  BY DEF TypeInv, TypeOK, Goto, CallRec
<1> QED
  BY <1>1, <1>2, <1>3 DEF TypeInv, CallIdx

\* So does one that starts to execute, with or without the Init message,
LEMMA ExecutingType ==
  ASSUME TypeInv, UNCHANGED feed, NEW c \in Calls, call[c].pc = "ready",
         call' = [call EXCEPT ![c].pc = "executing", ![c].init = init]
  PROVE  call' \in [Calls -> CallRec] /\ CallIdx'
<1>1. call' \in [Calls -> CallRec]
  BY DEF TypeInv, TypeOK, CallRec
<1>2. \A d \in Calls : call'[d].idx = call[d].idx /\ call'[d].upto = call[d].upto
  BY DEF TypeInv, TypeOK, CallRec
<1>3. \A d \in Calls : call'[d].pc = IF d = c THEN "executing" ELSE call[d].pc
  BY DEF TypeInv, TypeOK, CallRec
<1> QED
  BY <1>1, <1>2, <1>3 DEF TypeInv, CallIdx

\* a reorg that takes its next message,
LEMMA NextMessageType ==
  ASSUME TypeInv, UNCHANGED feed, NEW c \in Calls, NextMessage(c), call[c].pc = "executing"
  PROVE  call' \in [Calls -> CallRec] /\ CallIdx'
<1>1. CASE call[c].idx < call[c].upto
  <2>1. call' = [call EXCEPT ![c] = At("checked", call[c].idx + 1, call[c].upto)]
    BY <1>1 DEF NextMessage
  <2>2. Len(feed) \in Nat
    BY DEF TypeInv, TypeOK
  <2> QED
    BY <1>1, <2>1, <2>2 DEF At, TypeInv, TypeOK, CallIdx, CallRec
<1>2. CASE ~(call[c].idx < call[c].upto)
  <2>1. Finish(c)
    BY <1>2 DEF NextMessage, Finish
  <2> QED
    BY <2>1, FinishType
<1> QED
  BY <1>1, <1>2

\* and one that starts to replay.
LEMMA ReplayType ==
  ASSUME TypeInv, UNCHANGED feed, NEW c \in Calls, Replay(c),
         call[c].pc \in {"reset", "unwinding"}
  PROVE  call' \in [Calls -> CallRec] /\ CallIdx'
<1>1. CASE call[c].idx <= call[c].upto
  <2>1. call' = [call EXCEPT ![c] = At("checked", call[c].idx, call[c].upto)]
    BY <1>1 DEF Replay
  <2>2. Len(feed) \in Nat
    BY DEF TypeInv, TypeOK
  <2> QED
    BY <1>1, <2>1, <2>2 DEF At, TypeInv, TypeOK, CallIdx, CallRec
<1>2. CASE ~(call[c].idx <= call[c].upto)
  <2>1. Finish(c)
    BY <1>2 DEF Replay, Finish
  <2> QED
    BY <2>1, FinishType
<1> QED
  BY <1>1, <1>2

\* A flush is started, and its result taken.
LEMMA StartAsyncFlushType ==
  ASSUME TypeOK, NEW m \in SUBSET Block, NEW a \in SUBSET Block, StartAsyncFlush(m, a)
  PROVE  /\ since' \in Nat /\ pending' \in BOOLEAN /\ acc' \subseteq Block
         /\ flushing' \subseteq Block /\ queue' \in Seq(Request)
<1>1. FlushRequest(m) \in Request
  BY DEF FlushRequest, Request
<1> QED
  BY <1>1, AppendProperties DEF StartAsyncFlush, TypeOK

\* Taking the result of a flush off the channel.
LEMMA TakeResultType ==
  ASSUME TypeOK, CanDrain
  PROVE  Head(results) \in [last : Block] /\ Tail(results) \in Seq([last : Block])
BY HeadTailProperties DEF TypeOK, CanDrain

\* Caching the Init message keeps the types.
LEMMA TypeDigestInit ==
  ASSUME TypeInv, DigestInit
  PROVE  TypeInv'
BY DEF TypeInv, DigestInit, TypeOK, CallIdx, chainVars, flushVars, cacheVars, threadVars

\* digestMessage keeps every variable in its type.
LEMMA TypeDigestMessage ==
  ASSUME TypeInv, NEW c \in Calls, DigestMessage(c)
  PROVE  TypeInv'
<1> USE DEF TypeInv
<1>1. PICK i \in 1..(Len(feed) + 1) :
        /\ IF i <= Len(feed) THEN feed' = feed
           ELSE i <= MaxFeed /\ \E m \in Msg : feed' = Append(feed, m)
        /\ call' = IF Lookup(GenesisNum + i) # {} THEN call
                   ELSE [call EXCEPT ![c] = At("checked", i, i)]
  BY DEF DigestMessage
<1>2. feed' \in Seq(Msg) /\ Len(feed') >= Len(feed) /\ i <= Len(feed') /\ Len(feed) \in Nat
  <2>1. feed \in Seq(Msg) /\ Len(feed) \in Nat
    BY DEF TypeOK
  <2>2. CASE i <= Len(feed)
    BY <1>1, <2>1, <2>2
  <2>3. CASE i > Len(feed)
    <3>1. PICK m \in Msg : feed' = Append(feed, m)
      BY <1>1, <2>1, <2>3
    <3>2. feed' \in Seq(Msg) /\ Len(feed') = Len(feed) + 1
      BY <2>1, <3>1, AppendProperties
    <3> QED
      BY <1>1, <2>1, <3>2
  <2> QED
    BY <1>1, <2>1, <2>2, <2>3
<1>3. call' \in [Calls -> CallRec]
  BY <1>1 DEF At, TypeOK, CallRec
<1>4. CallIdx'
  BY <1>1, <1>2 DEF At, TypeOK, CallIdx, CallRec
<1> QED
  BY <1>2, <1>3, <1>4
  DEF DigestMessage, TypeOK, chainVars, flushVars, cacheVars, threadVars

\* The start of a production keeps the types, with or without a flush.
LEMMA TypeProduceBlock ==
  ASSUME TypeInv, NEW c \in Calls, ProduceBlock(c)
  PROVE  TypeInv'
<1> USE DEF TypeInv
<1>1. call' \in [Calls -> CallRec] /\ CallIdx'
  <2>1. PICK n \in HeadNumber :
          IF n + 1 # call[c].idx THEN Finish(c)
          ELSE Goto(c, "ready") \/ Goto(c, "polling")
    BY DEF ProduceBlock
  <2>2. UNCHANGED feed /\ call[c].pc = "checked"
    BY DEF ProduceBlock
  <2>3. CASE n + 1 # call[c].idx
    BY <2>1, <2>2, <2>3, FinishType
  <2>4. CASE n + 1 = call[c].idx
    <3>1. call[c].idx >= 1
      BY <2>4, HeadNumberType
    <3> QED
      BY <2>1, <2>2, <2>4, <3>1, GotoType
  <2> QED
    BY <2>3, <2>4
<1>2. \/ UNCHANGED <<flushVars, queue>>
      \/ StartAsyncFlush(mem, acc)
  BY DEF ProduceBlock
<1>3. /\ since' \in Nat /\ pending' \in BOOLEAN /\ acc' \subseteq Block
      /\ flushing' \subseteq Block /\ queue' \in Seq(Request)
  BY <1>2, StartAsyncFlushType DEF TypeOK, flushVars
<1> QED
  BY <1>1, <1>3 DEF ProduceBlock, TypeOK, chainVars, cacheVars

\* A round of the backpressure loop keeps the types.
LEMMA TypePollFlush ==
  ASSUME TypeInv, NEW c \in Calls, PollFlush(c)
  PROVE  TypeInv'
<1> USE DEF TypeInv
<1>1. call' \in [Calls -> CallRec] /\ CallIdx'
  BY GotoType DEF PollFlush, CallIdx
<1>2. CASE CanDrain
  <2>1. Drain
    BY <1>2 DEF PollFlush
  <2>2. mem' \subseteq Block
    BY <2>1, RemovePersistedSubset DEF Drain, TypeOK
  <2>3. results' \in Seq([last : Block])
    BY <1>2, <2>1, TakeResultType DEF Drain
  <2> QED
    BY <1>1, <2>1, <2>2, <2>3 DEF PollFlush, Drain, TypeOK
<1>3. CASE ~CanDrain
  BY <1>1, <1>3 DEF PollFlush, TypeOK, cacheVars
<1> QED
  BY <1>2, <1>3

\* Waking up on the notification keeps the types.
LEMMA TypeNotified ==
  ASSUME TypeInv, NEW c \in Calls, Notified(c)
  PROVE  TypeInv'
<1> USE DEF TypeInv
<1> QED
  BY GotoType DEF Notified, CallIdx, TypeOK, chainVars, flushVars, cacheVars

\* Waking up on the timeout keeps the types.
LEMMA TypeNotifyTimeout ==
  ASSUME TypeInv, NEW c \in Calls, NotifyTimeout(c)
  PROVE  TypeInv'
<1> USE DEF TypeInv
<1> QED
  BY GotoType DEF NotifyTimeout, CallIdx, TypeOK, chainVars, flushVars, cacheVars, threadVars

\* Opening the parent state keeps the types.
LEMMA TypeOpenParent ==
  ASSUME TypeInv, NEW c \in Calls, OpenParent(c)
  PROVE  TypeInv'
<1> USE DEF TypeInv
<1>1. call' \in [Calls -> CallRec] /\ CallIdx'
  BY FinishType, ExecutingType DEF OpenParent
<1>2. mem' \subseteq Block /\ mem' \subseteq mem
  BY RemovePersistedSubset DEF OpenParent, TypeOK
<1>3. /\ results' \in Seq([last : Block]) /\ pending' \in BOOLEAN
      /\ flushing' \subseteq Block
  BY TakeResultType DEF OpenParent, TypeOK
<1>4. \A p \in UNION {LookupIn(mem', n) : n \in HeadNumber} : p \in Block
  BY <1>2, LookupType
<1>5. \A p \in Block : [hash |-> p, blocks |-> ChainTo(p, mem')] \in Entry
                      /\ [hash |-> p, blocks |-> {}] \in Entry
  BY <1>2 DEF ChainTo, Entry
<1>6. overlay' \subseteq Entry /\ prestate' \subseteq Entry
  <2>1. \/ overlay' \subseteq overlay
        \/ \E p \in Block : overlay' = {[hash |-> p, blocks |-> ChainTo(p, mem')]}
    BY <1>4 DEF OpenParent
  <2>2. \/ prestate' \subseteq prestate
        \/ \E p \in Block : \/ prestate' = {[hash |-> p, blocks |-> ChainTo(p, mem')]}
                           \/ prestate' = {[hash |-> p, blocks |-> {}]}
    BY <1>4 DEF OpenParent
  <2> QED
    BY <1>5, <2>1, <2>2 DEF TypeOK
<1>7. init' \in BOOLEAN
  BY DEF OpenParent, TakeInit, TypeOK
<1> QED
  BY <1>1, <1>2, <1>3, <1>6, <1>7 DEF OpenParent, TypeOK

\* Committing a block keeps the types: its number is in range.
LEMMA TypeCommitBlock ==
  ASSUME TypeInv, NEW c \in Calls, CommitBlock(c)
  PROVE  TypeInv'
<1> USE DEF TypeInv
<1>1. call' \in [Calls -> CallRec] /\ CallIdx'
  BY NextMessageType DEF CommitBlock
<1>2. PICK n \in HeadNumber : \E b \in NextBlock(n, call[c]) :
        /\ mem' = mem \cup {b} /\ head' = n + 1
        /\ overlay' = Extend(overlay, b) /\ prestate' = Extend(prestate, b)
        /\ \/ StartAsyncFlush(mem \cup {b}, acc \cup {b})
           \/ /\ acc' = acc \cup {b} /\ since' = since + 1
              /\ UNCHANGED <<flushing, pending, queue>>
  BY DEF CommitBlock
<1>a. PICK b \in NextBlock(n, call[c]) :
        /\ mem' = mem \cup {b} /\ head' = n + 1
        /\ overlay' = Extend(overlay, b) /\ prestate' = Extend(prestate, b)
        /\ \/ StartAsyncFlush(mem \cup {b}, acc \cup {b})
           \/ /\ acc' = acc \cup {b} /\ since' = since + 1
              /\ UNCHANGED <<flushing, pending, queue>>
  BY <1>2
<1>3. n \in Nat /\ b \in Block
  BY HeadNumberType, NextBlockType DEF CallIdx, CommitBlock, TypeOK, CallRec
<1>4. mem \cup {b} \in SUBSET Block /\ acc \cup {b} \in SUBSET Block
  BY <1>3 DEF TypeOK
<1>5. /\ since' \in Nat /\ pending' \in BOOLEAN /\ acc' \subseteq Block
      /\ flushing' \subseteq Block /\ queue' \in Seq(Request)
  BY <1>a, <1>4, StartAsyncFlushType DEF TypeOK
<1>6. overlay' \subseteq Entry /\ prestate' \subseteq Entry
  BY <1>a, <1>3 DEF Extend, Entry, TypeOK
<1> QED
  BY <1>1, <1>a, <1>3, <1>4, <1>5, <1>6 DEF CommitBlock, TypeOK

\* A failed execution keeps the types.
LEMMA TypeExecutionFails ==
  ASSUME TypeInv, NEW c \in Calls, ExecutionFails(c)
  PROVE  TypeInv'
<1> USE DEF TypeInv
<1>1. call' \in [Calls -> CallRec] /\ CallIdx'
  BY FinishType DEF ExecutionFails
<1>2. \A n \in HeadNumber : \A b \in NextBlock(n, call[c]) : b \in Block
  BY HeadNumberType, NextBlockType DEF CallIdx, ExecutionFails, TypeOK, CallRec
<1>3. acc' \subseteq Block
  BY <1>2 DEF ExecutionFails, TypeOK
<1> QED
  BY <1>1, <1>3 DEF ExecutionFails, TypeOK, chainVars, cacheVars, threadVars

\* The replacement of the log, by a log no matter how long, keeps the types.
LEMMA TypeReplaceLog ==
  ASSUME TypeInv, ReplaceLog
  PROVE  TypeInv'
<1> USE DEF TypeInv
<1>a. PICK i \in 1..Len(feed), k \in 0..MaxFeed :
        fork' = i /\ \E new \in [1..k -> Msg] : feed' = SubSeq(feed, 1, i - 1) \o new
  BY DEF ReplaceLog
<1>1. PICK new \in [1..k -> Msg] : feed' = SubSeq(feed, 1, i - 1) \o new
  BY <1>a
<1>2. SubSeq(feed, 1, i - 1) \in Seq(Msg)
  BY DEF TypeOK
<1>3. k \in Nat /\ new \in Seq(Msg)
  BY ProducerAssumption
<1>4. feed' \in Seq(Msg) /\ fork' \in Nat
  BY <1>a, <1>1, <1>2, <1>3, ConcatProperties
<1>5. call' = call /\ \A c \in Calls : call[c].pc = "idle"
  BY DEF ReplaceLog, AllIdle
<1>6. CallIdx'
  BY <1>5 DEF CallIdx
<1> QED
  BY <1>4, <1>5, <1>6 DEF ReplaceLog, TypeOK, chainVars, flushVars, cacheVars, threadVars

\* The start of a reorg keeps the types.
LEMMA TypeReorg ==
  ASSUME TypeInv, NEW c \in Calls, Reorg(c)
  PROVE  TypeInv'
<1> USE DEF TypeInv
<1>1. PICK i \in IF fork = 1 THEN {0, 1} ELSE {fork} :
        call' = [call EXCEPT ![c] = At("reset", i, Len(feed))]
  BY DEF Reorg
<1>2. i \in Nat /\ Len(feed) \in Nat
  BY DEF TypeOK
<1>3. \A d \in Calls : d # c => call'[d] = call[d] /\ call[d].pc = "idle"
  BY <1>1 DEF Reorg, AllIdle, TypeOK
<1>4. call' \in [Calls -> CallRec]
  BY <1>1, <1>2 DEF At, TypeOK, CallRec
<1>5. feed' = feed
  BY DEF Reorg
<1>6. CallIdx'
  BY <1>1, <1>2, <1>3, <1>4, <1>5 DEF At, TypeOK, CallIdx
<1> QED
  BY <1>4, <1>5, <1>6 DEF Reorg, TypeOK, chainVars, flushVars, cacheVars, threadVars

\* A reset keeps the types, whichever path it takes.
LEMMA TypeResetToBlock ==
  ASSUME TypeInv, NEW c \in Calls, ResetToBlock(c)
  PROVE  TypeInv'
<1> USE DEF TypeInv
<1>1. call' \in [Calls -> CallRec] /\ CallIdx'
  BY FinishType, GotoType, ReplayType DEF ResetToBlock
<1>2. mem' \subseteq Block
  BY RemovePersistedSubset DEF ResetToBlock, RolledBack, TypeOK
<1>3. /\ results' \in Seq([last : Block]) /\ pending' \in BOOLEAN
      /\ flushing' \subseteq Block
  <2>1. \/ UNCHANGED <<results, flushing, pending>>
        \/ CanDrain /\ results' = Tail(results) /\ flushing' = {} /\ pending' = FALSE
    BY DEF ResetToBlock
  <2> QED
    BY <2>1, TakeResultType DEF TypeOK
<1>4. KeptBlock(call[c].idx) \in Nat
  <2>1. call[c].idx \in Nat
    BY DEF TypeOK, CallRec
  <2> QED
    BY <2>1, ProducerAssumption DEF KeptBlock
<1>5. head' \in Nat
  BY <1>4 DEF ResetToBlock, TypeOK
<1>6. UnwindRequest(KeptBlock(call[c].idx)) \in Request
  BY <1>4 DEF UnwindRequest, Request
<1>7. queue' \in Seq(Request)
  <2>1. \/ UNCHANGED queue
        \/ queue' = Append(queue, UnwindRequest(KeptBlock(call[c].idx)))
    BY DEF ResetToBlock
  <2>2. queue \in Seq(Request)
    BY DEF TypeOK
  <2>3. Append(queue, UnwindRequest(KeptBlock(call[c].idx))) \in Seq(Request)
    BY <1>6, <2>2, AppendProperties
  <2> QED
    BY <2>1, <2>2, <2>3
<1>8. overlay' \subseteq Entry /\ prestate' \subseteq Entry /\ fork' \in Nat
  BY DEF ResetToBlock, TypeOK, cacheVars
<1> QED
  BY <1>1, <1>2, <1>3, <1>5, <1>7, <1>8 DEF ResetToBlock, TypeOK

\* Receiving the answer to an unwind keeps the types.
LEMMA TypeUnwound ==
  ASSUME TypeInv, NEW c \in Calls, Unwound(c)
  PROVE  TypeInv'
<1> USE DEF TypeInv
<1>1. call' \in [Calls -> CallRec] /\ CallIdx'
  BY FinishType, ReplayType DEF Unwound
<1> QED
  BY <1>1 DEF Unwound, TypeOK, chainVars, cacheVars

\* Saving a batch keeps the types.
LEMMA TypeSaveBlocks ==
  ASSUME TypeInv, SaveBlocks
  PROVE  TypeInv'
<1> USE DEF TypeInv
<1>1. Head(queue) \in Request /\ Tail(queue) \in Seq(Request)
  BY HeadTailProperties DEF SaveBlocks, TypeOK
<1>2. disk' \subseteq Block
  BY <1>1 DEF SaveBlocks, TypeOK, Request
<1>3. worker' \in [pc : {"idle", "saved", "sent"}, last : Block]
  BY <1>1 DEF SaveBlocks, Tips, Request
<1> QED
  BY <1>1, <1>2, <1>3 DEF SaveBlocks, TypeOK, CallIdx, flushVars, cacheVars

\* Reporting a flush keeps the types.
LEMMA TypeSendResult ==
  ASSUME TypeInv, SendResult
  PROVE  TypeInv'
<1> USE DEF TypeInv
<1>1. [last |-> worker.last] \in [last : Block]
  BY DEF TypeOK
<1>2. results' \in Seq([last : Block])
  BY <1>1 DEF SendResult
<1> QED
  BY <1>2 DEF SendResult, TypeOK, CallIdx, chainVars, flushVars, cacheVars

\* Notifying the producer keeps the types.
LEMMA TypeNotifyOne ==
  ASSUME TypeInv, NotifyOne
  PROVE  TypeInv'
<1> USE DEF TypeInv
<1> QED
  BY ProducerAssumption DEF NotifyOne, TypeOK, CallIdx, chainVars, flushVars, cacheVars

\* An unwind of the database keeps the types.
LEMMA TypeUnwindDisk ==
  ASSUME TypeInv, UnwindDisk
  PROVE  TypeInv'
<1> USE DEF TypeInv
<1>1. Tail(queue) \in Seq(Request)
  BY HeadTailProperties DEF UnwindDisk, TypeOK
<1> QED
  BY <1>1 DEF UnwindDisk, RemoveAbove, TypeOK, CallIdx, flushVars, cacheVars

\* A restart keeps the types.
LEMMA TypeRestart ==
  ASSUME TypeInv, Restart
  PROVE  TypeInv'
<1> USE DEF TypeInv
<1>1. Idle \in CallRec /\ Idle.pc = "idle"
  BY DEF Idle, At, CallRec
<1>2. call' \in [Calls -> CallRec] /\ CallIdx'
  BY <1>1 DEF Restart, CallIdx
<1>3. head' \in Nat
  BY ProducerAssumption DEF Restart, Tips, TypeOK
<1> QED
  BY <1>2, <1>3, EmptySeq, ProducerAssumption DEF Restart, TypeOK

\* Every step of a call, of the thread, and a restart keep the types.
LEMMA TypeStep == TypeInv /\ [Next]_vars => TypeInv'
<1> SUFFICES ASSUME TypeInv, [Next]_vars PROVE TypeInv'
  OBVIOUS
<1> USE DEF TypeInv
<1>1. CASE UNCHANGED vars
  BY <1>1 DEF vars, chainVars, flushVars, cacheVars, threadVars, TypeOK, CallIdx
<1> QED
  BY TypeDigestInit, TypeReplaceLog, TypeDigestMessage, TypeProduceBlock, TypePollFlush, TypeNotified,
     TypeNotifyTimeout, TypeOpenParent, TypeCommitBlock, TypeExecutionFails, TypeReorg,
     TypeResetToBlock, TypeUnwound, TypeSaveBlocks, TypeSendResult, TypeNotifyOne,
     TypeUnwindDisk, TypeRestart, <1>1
  DEF Next, CallStep, Thread

\* Block production keeps its types: in particular every block it stores is a
\* block, and every call past its index check works on a message of the log.
THEOREM TypeCorrect == Spec => []TypeOK
<1>1. TypeInv => TypeOK
  BY DEF TypeInv
<1> QED
  BY <1>1, TypeInit, TypeStep, PTL DEF Spec

=============================================================================
