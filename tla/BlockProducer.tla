---------------------------- MODULE BlockProducer ----------------------------
(***************************************************************************)
(* Block production and persistence of the node: the block producer        *)
(* (crates/arb-node/src/producer.rs), the background persistence thread    *)
(* (crates/arb-node/src/launcher.rs) and the digestMessage / reorg         *)
(* handlers that drive them (crates/arb-rpc/src/nitro_execution_handler.rs)*)
(*                                                                         *)
(* A block is an opaque value: its hash.  Execution is deterministic, so   *)
(* the hash of a block is a function of its parent, its message and whether *)
(* the chain's Init message was applied in it, and Child is injective      *)
(* (hashes do not collide).  What a block writes is not modelled: every    *)
(* structure that carries state (disk, in-memory blocks, trie inputs, read *)
(* caches) is the set of blocks whose writes it carries.                   *)
(*                                                                         *)
(* Message 0 of the log is the Init message.  It makes no block: it is     *)
(* kept in cached_init and applied in the next block that is executed.     *)
(***************************************************************************)
EXTENDS Integers, Sequences, FiniteSets

CONSTANTS
  Msg,            \* contents of L1 messages
  Block,          \* block hashes
  Genesis,        \* the genesis block
  Num(_),         \* number of a block
  Parent(_),      \* parent of a block
  Child(_, _, _), \* the block that a message produces on a parent, with or
                  \* without the Init message
  GenesisNum,     \* number of the genesis block
  FlushInterval,  \* ARB_FLUSH_INTERVAL
  MaxInflight,    \* ARB_RETH_MAX_INFLIGHT
  MaxFeed,        \* bound: length of the message log
  Calls,          \* RPC calls that may be in progress at once
  Env             \* which faults and requests the environment makes

EnvKinds == {"crash", "reorg", "flush_error", "unwind_error", "state_error",
             "init_once"}

ASSUME ProducerAssumption ==
  /\ GenesisNum \in Nat /\ FlushInterval \in Nat /\ MaxInflight \in Nat
  /\ MaxFeed \in Nat
  /\ Env \subseteq EnvKinds
  /\ Genesis \in Block /\ Num(Genesis) = GenesisNum
  /\ \A b \in Block : Num(b) \in Nat
  /\ \A b \in Block, m \in Msg, i \in BOOLEAN :
       Num(b) < GenesisNum + MaxFeed =>
         /\ Child(b, m, i) \in Block
         /\ Num(Child(b, m, i)) = Num(b) + 1 /\ Parent(Child(b, m, i)) = b

VARIABLES
  feed,      \* the message log of the consensus node
  fork,      \* first index a reorg still has to replace, 0 if none
  init,      \* does cached_init hold the Init message?
  disk,      \* blocks in the database
  mem,       \* blocks in CanonicalInMemoryState
  head,      \* head_block_num
  since,     \* blocks_since_flush
  pending,   \* pending_flush
  acc,       \* blocks carried by accumulated_trie_input
  flushing,  \* blocks carried by flushing_trie_input ({} also stands for None)
  overlay,   \* cached_overlay: at most one [hash, blocks]
  prestate,  \* cached_prestate: at most one [hash, blocks]
  queue,     \* requests sent to the persistence thread
  worker,    \* step of the persistence thread, with the flush it works on
  results,   \* the result channel, of capacity 1
  done,      \* the answer to an unwind request
  permit,    \* the permit stored in the flush_done notifier
  call       \* progress of each RPC call

chainVars  == <<disk, mem, head>>
flushVars  == <<since, pending, acc, flushing>>
cacheVars  == <<overlay, prestate>>
threadVars == <<queue, worker, results, done, permit>>
vars == <<feed, fork, init, chainVars, flushVars, cacheVars, threadVars, call>>

\* A call at a program point, with the message it works on, the last one it
\* has to process, and whether it has taken the Init message.
At(pc, i, n) == [pc |-> pc, idx |-> i, upto |-> n, init |-> FALSE]
Idle == At("idle", 0, 0)
AllIdle == \A c \in Calls : call[c].pc = "idle"

\* Blocks of S with the greatest number (at most one in a chain).
Tips(S) == {b \in S : \A d \in S : Num(d) <= Num(b)}

\* The header the provider finds by number: in memory first, then on disk.
LookupIn(m, n) ==
  LET inMem == {b \in m : Num(b) = n}
  IN  IF inMem # {} THEN inMem ELSE {b \in disk : Num(b) = n}

Lookup(n) == LookupIn(mem, n)

\* head_block_number: the counter, or the database's tip while it is zero.
HeadNumber == IF head > 0 THEN {head} ELSE {Num(b) : b \in Tips(disk)}

\* produce_lock is held from its acquisition to the end of the call, across
\* the awaits of the backpressure loop and the wait for an unwind.
MutNoLock == TRUE
Unlocked == {"idle", "checked", "reset"}
LockFree == \A c \in Calls : call[c].pc \in Unlocked

\* The entry of a one-entry cache whose tag is the block h.
Hit(cache, h) == {e \in cache : e.hash = h}

\* The in-memory chain that ends in block b.
ChainTo(b, m) == {x \in m : Num(x) <= Num(b)}

\* CanonicalInMemoryState::remove_persisted_blocks.
RemovePersisted(m, last) ==
  IF last \in m THEN {b \in m : Num(b) > Num(last)} ELSE m

-----------------------------------------------------------------------------
\* The consensus node has sent the Init message and got its answer.
Init ==
  /\ feed = <<>> /\ fork = 0 /\ init = TRUE
  /\ disk = {Genesis} /\ mem = {} /\ head = GenesisNum
  /\ since = 0 /\ pending = FALSE /\ acc = {} /\ flushing = {}
  /\ overlay = {} /\ prestate = {}
  /\ queue = <<>> /\ results = <<>> /\ done = "none" /\ permit = FALSE
  /\ worker = [pc |-> "idle", last |-> Genesis]
  /\ call = [c \in Calls |-> Idle]

\* A call returns, with its block or with an error.
MutCallHangs(c) == call' = [call EXCEPT ![c].pc = "error"]
Finish(c) == call' = [call EXCEPT ![c] = Idle]
Goto(c, pc) == call' = [call EXCEPT ![c].pc = pc]

\* A message was processed: a reorg goes on with its next message.
NextMessage(c) ==
  call' = [call EXCEPT ![c] = IF @.idx < @.upto
                              THEN At("checked", @.idx + 1, @.upto)
                              ELSE Idle]

\* The part of drain_completed_flush that changes state, when there is a
\* result to take.
CanDrain == pending /\ results # <<>>
Drain ==
  /\ mem' = RemovePersisted(mem, Head(results).last)
  /\ results' = Tail(results)
  /\ flushing' = {} /\ pending' = FALSE
  /\ overlay' = {} /\ prestate' = {}

\* The requests that the persistence thread serves in the order they are sent.
FlushRequest(m) == [op |-> "flush", blocks |-> m, target |-> 0]
UnwindRequest(n) == [op |-> "unwind", blocks |-> {}, target |-> n]

\* start_async_flush: the whole in-memory chain m goes to the persistence thread
\* and the accumulated trie input a moves to the flushing slot.
MutFlushDropsInput(m, a) ==
  /\ flushing' = {} /\ acc' = {} /\ since' = 0 /\ pending' = TRUE
  /\ queue' = Append(queue, FlushRequest(m))
StartAsyncFlush(m, a) ==
  /\ flushing' = a /\ acc' = {} /\ since' = 0 /\ pending' = TRUE
  /\ queue' = Append(queue, FlushRequest(m))

\* apply_backpressure waits when the in-memory chain is longer than the limit.
MutLimitOffByOne == Cardinality(mem) > MaxInflight + 1
OverLimit == Cardinality(mem) > MaxInflight

\* A produced block starts a flush (FlushScheduler::should_flush).
MutFlushAnyway == since + 1 >= FlushInterval
ShouldFlush == since + 1 >= FlushInterval /\ ~pending

\* The block of the message a call r works on, over the header that number n is
\* found under and with what the call took from cached_init (the log, and so the
\* chain, is no longer than MaxFeed).
NextBlock(n, r) ==
  {Child(p, feed[r.idx], r.init) : p \in {x \in Lookup(n) : n < GenesisNum + MaxFeed}}

\* cached_init.take(), and a read that leaves the message there.
MutPeekInit == UNCHANGED init
TakeInit == init' = FALSE

-----------------------------------------------------------------------------
\* Unless "init_once" is in Env, the consensus node sends the Init message again
\* whenever block 1 is still to be made, and sends message 1 after it and alone.
Resends == "init_once" \notin Env

\* digestMessage(0): the message is cached and the genesis block is the answer.
DigestInit ==
  /\ Resends /\ AllIdle
  /\ fork = 1 \/ (fork = 0 /\ Lookup(GenesisNum + 1) = {})
  /\ init' = TRUE
  /\ UNCHANGED <<feed, fork, chainVars, flushVars, cacheVars, threadVars, call>>

\* digestMessage(i): return the header if the block exists (no change of
\* state), otherwise go on to produce it.  The check takes no lock.
DigestMessage(c) ==
  /\ call[c].pc = "idle" /\ fork = 0
  /\ \E i \in 1..(Len(feed) + 1) :
       /\ Resends /\ i = 1 /\ Lookup(GenesisNum + 1) = {} => init /\ AllIdle
       /\ IF i <= Len(feed) THEN feed' = feed
          ELSE i <= MaxFeed /\ \E m \in Msg : feed' = Append(feed, m)
       /\ call' = IF Lookup(GenesisNum + i) # {} THEN call
                  ELSE [call EXCEPT ![c] = At("checked", i, i)]
  /\ UNCHANGED <<fork, init, chainVars, flushVars, cacheVars, threadVars>>

\* produce_block, up to the end of the check of the in-memory chain's length
\* in apply_backpressure.  start_async_flush takes the whole chain and moves
\* the accumulator to the flushing slot.
ProduceBlock(c) ==
  /\ call[c].pc = "checked" /\ LockFree
  /\ \E n \in HeadNumber :
       IF n + 1 # call[c].idx THEN Finish(c) /\ UNCHANGED <<flushVars, queue>>
       ELSE IF ~OverLimit THEN Goto(c, "ready") /\ UNCHANGED <<flushVars, queue>>
       ELSE /\ Goto(c, "polling")
            /\ IF pending \/ mem = {} THEN UNCHANGED <<flushVars, queue>>
               ELSE StartAsyncFlush(mem, acc)
  /\ UNCHANGED <<feed, fork, init, chainVars, cacheVars, worker, results, done, permit>>

\* One round of the backpressure loop: drain, or await the notification.
PollFlush(c) ==
  /\ call[c].pc = "polling"
  /\ IF CanDrain
     THEN Drain /\ Goto(c, "ready")
     ELSE Goto(c, "parked") /\ UNCHANGED <<mem, results, flushing, pending, cacheVars>>
  /\ UNCHANGED <<feed, fork, init, disk, head, since, acc, queue, worker, done, permit>>

\* The await returns: the permit is consumed.
Notified(c) ==
  /\ call[c].pc = "parked" /\ permit
  /\ permit' = FALSE /\ Goto(c, "polling")
  /\ UNCHANGED <<feed, fork, init, chainVars, flushVars, cacheVars, queue, worker, results, done>>

\* The await times out after 30 seconds.
NotifyTimeout(c) ==
  /\ call[c].pc = "parked" /\ Goto(c, "polling")
  /\ UNCHANGED <<feed, fork, init, chainVars, flushVars, cacheVars, threadVars>>

\* produce_block_with_execution, up to the execution of the transactions: drain
\* a finished flush, find the parent, open its state, fill both read caches, take
\* the Init message.  It fails when the parent is not found, or when a state
\* cannot be opened before the overlay was filled or between the two caches.
OpenParent(c) ==
  /\ call[c].pc = "ready"
  /\ LET m  == IF CanDrain THEN RemovePersisted(mem, Head(results).last) ELSE mem
         ov == IF CanDrain THEN {} ELSE overlay
         ps == IF CanDrain THEN {} ELSE prestate
         parents == UNION {LookupIn(m, n) : n \in HeadNumber}
     IN  /\ mem' = m
         /\ IF CanDrain
            THEN results' = Tail(results) /\ flushing' = {} /\ pending' = FALSE
            ELSE UNCHANGED <<results, flushing, pending>>
         /\ \/ /\ parents = {} \/ "state_error" \in Env
               /\ overlay' = ov /\ prestate' = ps
               /\ UNCHANGED init /\ Finish(c)
            \/ \E p \in parents :
                 /\ overlay' = IF p \notin m \/ Hit(ov, p) # {} THEN ov
                               ELSE {[hash |-> p, blocks |-> ChainTo(p, m)]}
                 /\ \/ /\ "state_error" \in Env
                       /\ prestate' = ps
                       /\ UNCHANGED init /\ Finish(c)
                    \/ /\ prestate' = IF Hit(ps, p) # {} THEN ps
                                      ELSE {[hash |-> p,
                                             blocks |-> IF p \in m THEN ChainTo(p, m) ELSE {}]}
                       /\ TakeInit
                       /\ call' = [call EXCEPT ![c].pc = "executing", ![c].init = init]
  /\ UNCHANGED <<feed, fork, disk, head, since, acc, queue, worker, done, permit>>

\* extend_cached_overlay and extend_cached_prestate: the entry is extended
\* whatever its tag, and is created from nothing if there is none.
MutExtendForgets(cache, b) == {[hash |-> b, blocks |-> UNION {e.blocks : e \in cache}]}
Extend(cache, b) == {[hash |-> b, blocks |-> {b} \cup UNION {e.blocks : e \in cache}]}

\* The rest of produce_block_with_execution: the state root extends the
\* accumulated trie input, the block enters memory and becomes the head, and a
\* flush starts when the interval is reached and none is pending.
CommitBlock(c) ==
  /\ call[c].pc = "executing"
  /\ \E n \in HeadNumber : \E b \in NextBlock(n, call[c]) :
       /\ mem' = mem \cup {b} /\ head' = n + 1
       /\ overlay' = Extend(overlay, b) /\ prestate' = Extend(prestate, b)
       /\ IF ShouldFlush THEN StartAsyncFlush(mem \cup {b}, acc \cup {b})
          ELSE /\ acc' = acc \cup {b} /\ since' = since + 1
               /\ UNCHANGED <<flushing, pending, queue>>
  /\ NextMessage(c)
  /\ UNCHANGED <<feed, fork, init, disk, worker, results, done, permit>>

\* Execution, the state root or the derivation of the header fails.  The last
\* comes after the accumulated trie input was extended.
ExecutionFails(c) ==
  /\ call[c].pc = "executing" /\ "state_error" \in Env
  /\ \/ acc' = acc
     \/ \E n \in HeadNumber : \E b \in NextBlock(n, call[c]) : acc' = acc \cup {b}
  /\ Finish(c)
  /\ UNCHANGED <<feed, fork, init, chainVars, since, pending, flushing, cacheVars, threadVars>>

-----------------------------------------------------------------------------
\* The consensus node replaces its log from message i on by any messages.
ReplaceLog ==
  /\ "reorg" \in Env /\ AllIdle /\ fork = 0
  /\ \E i \in 1..Len(feed), k \in 0..MaxFeed :
       /\ i + k <= MaxFeed + 1
       /\ fork' = i
       /\ \E new \in [1..k -> Msg] : feed' = SubSeq(feed, 1, i - 1) \o new
  /\ UNCHANGED <<init, chainVars, flushVars, cacheVars, threadVars, call>>

\* nitroexecution_reorg, up to reset_to_block.  The consensus node issues it with
\* no other call in progress, and repeats one that was lost or that failed before
\* the chain was rolled back.  A log replaced from message 1 on is sent from there,
\* after the Init message, or from message 0, the Init message included.
Reorg(c) ==
  /\ fork # 0 /\ AllIdle
  /\ Resends /\ fork = 1 => init
  /\ \E i \in IF fork = 1 THEN {0, 1} ELSE {fork} :
       call' = [call EXCEPT ![c] = At("reset", i, Len(feed))]
  /\ UNCHANGED <<feed, fork, init, chainVars, flushVars, cacheVars, threadVars>>

\* The last block that a reorg from message i keeps.
KeptBlock(i) == GenesisNum + (IF i = 0 THEN 0 ELSE i - 1)

\* The reorg handler after its reset succeeded: replay the new messages.
Replay(c) ==
  call' = [call EXCEPT ![c] = IF @.idx <= @.upto
                              THEN At("checked", @.idx, @.upto)
                              ELSE Idle]

\* The in-memory chain without the blocks target + 1 .. head.
MutKeepFirst(m, target) == {b \in m : Num(b) <= target + 1 \/ Num(b) > head}
RolledBack(m, target) == {b \in m : Num(b) <= target \/ Num(b) > head}

\* reset_to_block, up to the request to unwind the database.
ResetToBlock(c) ==
  LET target == KeptBlock(call[c].idx)
      m == IF CanDrain THEN RemovePersisted(mem, Head(results).last) ELSE mem
  IN  /\ call[c].pc = "reset" /\ LockFree
      /\ \/ /\ target > head \/ (target < head /\ Lookup(target) = {})
            /\ Finish(c)
            /\ UNCHANGED <<fork, mem, head, pending, flushing, cacheVars, queue, results>>
         \/ /\ target = head
            /\ fork' = 0 /\ Replay(c)
            /\ UNCHANGED <<mem, head, pending, flushing, cacheVars, queue, results>>
         \/ /\ target < head /\ Lookup(target) # {}
            /\ IF CanDrain
               THEN results' = Tail(results) /\ flushing' = {} /\ pending' = FALSE
               ELSE UNCHANGED <<results, flushing, pending>>
            /\ mem' = RolledBack(m, target)
            /\ overlay' = {} /\ prestate' = {}
            /\ head' = target
            /\ queue' = Append(queue, UnwindRequest(target))
            /\ Goto(c, "unwinding") /\ UNCHANGED fork
      /\ UNCHANGED <<feed, init, disk, since, acc, worker, done, permit>>

\* The rest of reset_to_block: the answer of the persistence thread.
Unwound(c) ==
  /\ call[c].pc = "unwinding" /\ done # "none"
  /\ done' = "none"
  /\ IF done = "ok" THEN acc' = {} /\ fork' = 0 /\ Replay(c)
     ELSE Finish(c) /\ UNCHANGED <<acc, fork>>
  /\ UNCHANGED <<feed, init, chainVars, since, pending, flushing, cacheVars,
                 queue, worker, results, permit>>

-----------------------------------------------------------------------------
\* The persistence thread takes a flush: save_blocks and commit, or neither.
SaveBlocks ==
  /\ worker.pc = "idle" /\ queue # <<>> /\ Head(queue).op = "flush"
  /\ \E ok \in BOOLEAN, last \in Tips(Head(queue).blocks) :
       /\ ok \/ "flush_error" \in Env
       /\ disk' = IF ok THEN disk \cup Head(queue).blocks ELSE disk
       /\ worker' = [pc |-> "saved", last |-> last]
  /\ queue' = Tail(queue)
  /\ UNCHANGED <<feed, fork, init, mem, head, flushVars, cacheVars, results, done, permit, call>>

\* It reports the flush, failed or not; the send blocks while the channel is full.
SendResult ==
  /\ worker.pc = "saved" /\ results = <<>>
  /\ results' = <<[last |-> worker.last]>>
  /\ worker' = [worker EXCEPT !.pc = "sent"]
  /\ UNCHANGED <<feed, fork, init, chainVars, flushVars, cacheVars, queue, done, permit, call>>

\* flush_done.notify_one().
MutNoNotify ==
  /\ worker.pc = "sent"
  /\ worker' = [pc |-> "idle", last |-> Genesis]
  /\ UNCHANGED <<feed, fork, init, chainVars, flushVars, cacheVars, queue, results, done, permit, call>>
NotifyOne ==
  /\ worker.pc = "sent"
  /\ permit' = TRUE
  /\ worker' = [pc |-> "idle", last |-> Genesis]
  /\ UNCHANGED <<feed, fork, init, chainVars, flushVars, cacheVars, queue, results, done, call>>

\* The persistence thread takes an unwind: remove_block_and_execution_above.
MutKeepOneAbove(target) == {b \in disk : Num(b) <= target + 1}
MutRemoveFrom(target) == {b \in disk : Num(b) < target \/ b = Genesis}
RemoveAbove(target) == {b \in disk : Num(b) <= target}
UnwindDisk ==
  /\ worker.pc = "idle" /\ queue # <<>> /\ Head(queue).op = "unwind"
  /\ \/ disk' = RemoveAbove(Head(queue).target) /\ done' = "ok"
     \/ "unwind_error" \in Env /\ disk' = disk /\ done' = "err"
  /\ queue' = Tail(queue)
  /\ UNCHANGED <<feed, fork, init, mem, head, flushVars, cacheVars, worker, results, permit, call>>

\* The process dies and starts again from the database (ArbBlockProducer::new).
Restart ==
  /\ "crash" \in Env
  /\ \E b \in Tips(disk) : head' = Num(b)
  /\ mem' = {} /\ since' = 0 /\ pending' = FALSE /\ acc' = {} /\ flushing' = {}
  /\ overlay' = {} /\ prestate' = {}
  /\ queue' = <<>> /\ results' = <<>> /\ done' = "none" /\ permit' = FALSE
  /\ worker' = [pc |-> "idle", last |-> Genesis]
  /\ call' = [c \in Calls |-> Idle]
  /\ init' = FALSE
  /\ UNCHANGED <<feed, fork, disk>>

CallStep(c) ==
  \/ ProduceBlock(c) \/ PollFlush(c) \/ Notified(c) \/ NotifyTimeout(c)
  \/ OpenParent(c) \/ CommitBlock(c) \/ ExecutionFails(c)
  \/ ResetToBlock(c) \/ Unwound(c)

Thread == SaveBlocks \/ SendResult \/ NotifyOne \/ UnwindDisk

Next ==
  \/ \E c \in Calls : DigestMessage(c) \/ Reorg(c) \/ CallStep(c)
  \/ DigestInit \/ ReplaceLog
  \/ Thread
  \/ Restart

\* The thread and every call keep running; produce_lock is a queue, so a call
\* that waits for it gets it.  No call relies on the 30 second timeout.
Fairness ==
  /\ WF_vars(Thread)
  /\ \A c \in Calls :
       /\ WF_vars(PollFlush(c) \/ Notified(c) \/ OpenParent(c) \/ CommitBlock(c) \/ Unwound(c))
       /\ SF_vars(ProduceBlock(c)) /\ SF_vars(ResetToBlock(c))

Spec == Init /\ [][Next]_vars /\ Fairness

-----------------------------------------------------------------------------
Request == [op : {"flush", "unwind"}, blocks : SUBSET Block, target : Nat]
Entry   == [hash : Block, blocks : SUBSET Block]
CallRec == [pc : {"idle", "checked", "polling", "parked", "ready", "executing",
                  "reset", "unwinding"},
            idx : Nat, upto : Nat, init : BOOLEAN]

\* Counters, stores, caches, channels and calls hold what the fields and the
\* channels of the producer and of the persistence thread can hold.
TypeOK ==
  /\ feed \in Seq(Msg) /\ fork \in Nat /\ init \in BOOLEAN
  /\ disk \subseteq Block /\ mem \subseteq Block /\ head \in Nat
  /\ since \in Nat /\ pending \in BOOLEAN
  /\ acc \subseteq Block /\ flushing \subseteq Block
  /\ overlay \subseteq Entry /\ prestate \subseteq Entry
  /\ queue \in Seq(Request)
  /\ worker \in [pc : {"idle", "saved", "sent"}, last : Block]
  /\ results \in Seq([last : Block])
  /\ done \in {"none", "ok", "err"} /\ permit \in BOOLEAN
  /\ call \in [Calls -> CallRec]

\* Every block up to the head counter can be found, in memory or on disk: a
\* flush drops a block from memory only once it is in the database
\* (drain_completed_flush, remove_persisted_blocks).
NoLostBlocks == \A n \in GenesisNum..head : Lookup(n) # {}

\* The canonical chain is the execution of the consensus node's log: block i is
\* the child of block i - 1 by message i, and block 1 alone has the Init message
\* applied, across flushes, retries, replays, reorgs and restarts.  While a reorg
\* is under way this holds below its first message.
FollowsFeed ==
  \A i \in 1..(head - GenesisNum) :
    (fork = 0 \/ i < fork) =>
      /\ i <= Len(feed)
      /\ Lookup(GenesisNum + i) = {Child(p, feed[i], i = 1) : p \in Lookup(GenesisNum + i - 1)}

\* The Init message that digestMessage(0) accepted is applied in block 1.
InitInFirstBlock ==
  \A p \in Lookup(GenesisNum), b \in Lookup(GenesisNum + 1) :
    \E m \in Msg : b = Child(p, m, TRUE)

\* No block above the head can be found once a reset is over, so digestMessage
\* never answers with a block that was rolled back.
NoGhostBlock ==
  (\A c \in Calls : call[c].pc # "unwinding") => \A b \in disk \cup mem : Num(b) <= head

\* The state root of a block is computed over the database, the trie input being
\* flushed, the accumulated one and the block, each shadowing what is before it.
\* Together they carry exactly the writes of the block's chain, and no block's
\* writes are shadowed by those of an older one.
StateRootSeesChain ==
  \A c \in Calls : call[c].pc = "executing" =>
    LET new   == NextBlock(head, call[c])
        chain == UNION {Lookup(n) : n \in GenesisNum..head}
        input == flushing \cup acc \cup new
    IN  /\ disk \cup input = chain \cup new
        /\ \A x \in disk \cup input, y \in input : Num(x) > Num(y) => x \in input
        /\ \A x \in flushing \ (acc \cup new), y \in acc \cup new : Num(x) < Num(y)

\* A cached overlay belongs to the head and holds a gap-free run of the newest
\* blocks, so that no slot it answers for has a newer value below it.
OverlayNeverStale ==
  \A e \in overlay :
    /\ e.hash \in Lookup(head) /\ e.hash \in e.blocks
    /\ \A b \in e.blocks : b \in Lookup(Num(b))
                           /\ (b = e.hash \/ \E d \in e.blocks : Parent(d) = b)

\* The cached bytecodes belong to the head and include those of every block that
\* is in memory only, which the database cannot serve yet.
PrestateCoversMemory ==
  \A e \in prestate : e.hash \in Lookup(head) /\ mem \ disk \subseteq e.blocks

\* Backpressure bounds the unflushed chain: the limit is tested before a block
\* is produced, so it is exceeded by at most one.
BoundedMemory == Cardinality(mem) <= MaxInflight + 1

\* pending_flush is set exactly while one flush is queued, in progress or
\* reported but not drained; so the thread never blocks on the result channel.
OneFlushInFlight ==
  Cardinality({i \in DOMAIN queue : queue[i].op = "flush"})
    + (IF worker.pc = "saved" THEN 1 ELSE 0) + Len(results) = (IF pending THEN 1 ELSE 0)

\* A call that waits for a flush whose result is there has been, or is about to
\* be, woken: no notification is lost between its poll and its await.
NoMissedWakeup ==
  \A c \in Calls : call[c].pc = "parked" /\ results # <<>> => permit \/ worker.pc = "sent"

\* Block production implements the abstract chain: seen from outside, every step
\* extends the chain by one message, makes blocks durable, rolls back, makes the
\* rollback durable, or restarts from what was durable.  Blocks above the head
\* are those a reset has undone and the database, or a flush on its way there,
\* still holds; no block is produced before they are gone.
Chain == INSTANCE CanonicalChain WITH
           chain   <- {b \in disk \cup mem : Num(b) <= head},
           durable <- disk,
           undone  <- {b \in disk \cup UNION {queue[i].blocks : i \in DOMAIN queue} : Num(b) > head}
ImplementsChain == Chain!Spec

\* Every call ends: backpressure ends through the notification alone, the wait
\* for an unwind through the thread's answer, the wait for the lock in turn.
CallsFinish == \A c \in Calls : call[c].pc # "idle" ~> call[c].pc = "idle"
=============================================================================
