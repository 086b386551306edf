# A TLA+ model of Arbitrum Reth

This directory models the parts of Arbitrum Reth in which an error would come from an order of
events rather than from a formula: block production with asynchronous persistence, retryable
tickets, the storage structures of ArbOS, L1 pricing. TLC checks the modules on small instances;
TLAPS proves the main safety results for every value of the constants.

`PROJECT.json` lists components, runs, mutants, hazards and theorems, and maps every definition
to the source lines it models.

    tlc -workers 2 -config MCBlockProducer_reorg.cfg MCBlockProducer     # a run
    tlapm BlockProducerProofs.tla                                        # the proofs of a module

## The system

| part | code | state | operations |
|---|---|---|---|
| nitroexecution RPC | `arb-rpc/src/nitro_execution_handler.rs` | none of its own | digestMessage, reorg, setFinalityData, queries |
| block producer | `arb-node/src/producer.rs` | head counter, in-memory chain, two trie inputs, two read caches, flush scheduler, lock | produce_block, reset_to_block, set_finality |
| persistence thread | `arb-node/src/launcher.rs` | database, request and result channels | flush, unwind |
| block executor | `arb-evm/src/build.rs`, `arbos/src/tx_processor.rs` | scheduled transactions, cancel sweep, block gas | execute, commit, finish a block |
| retryables | `arbos/src/retryables`, `arb-precompiles/src/arbretryabletx.rs` | tickets, timeout queue, escrow | create, redeem, keepalive, cancel, reap |
| ArbOS state | `arbos/src/arbos_state`, `internal_tx.rs` | version, scheduled upgrade | StartBlock, upgrade |
| storage structures | `arb-storage/src/queue.rs`, `arbos/src/{address_set,address_table,blockhash,merkle_accumulator}` | storage cells | see the modules |
| L1 pricing | `arbos/src/l1_pricing` | books of the fee pool, price, poster table | charge, report, donate, release, settings |
| L2 pricing | `arbos/src/l2_pricing` | backlog, constraints, base fee | grow, shrink, update, settings |
| Stylus | `arbos/src/programs`, `arb-stylus` | program table, module cache, running instances | activate, call, keepalive, cache, evict |
| outbox proofs | `arb-rpc/src/outbox_proof.rs`, `api.rs` | logs of past blocks | constructOutboxProof |
| rest | `arb-primitives`, `arb-chainspec`, `arb-node` glue, `arb-rpc` queries, `bin` | | encodings, configuration, queries |

A consensus node sends messages in order through digestMessage, and replaces the end of its log
through reorg. The producer executes a message on the head, keeps the block in memory, and hands
the whole in-memory chain to the persistence thread every so many blocks. A call that finds too
many blocks in memory waits for the flush. Executing a message runs the start-of-block
transaction (L1 block hashes, reaping of retryables, L2 pricing, upgrades), the user's
transactions, and the retries they schedule. Message 0, the Init message, makes no block: the
producer keeps it and applies it when it executes block 1. L1 pricing is moved by the transactions
themselves, which are charged, and by the batch posting reports among the messages.

## The modules

### BlockProducer, MCBlockProducer, CanonicalChain

`BlockProducer` composes the two RPC handlers, the producer and the persistence thread. A block
is an opaque hash with a number and a parent; execution is the injective function `Child` of
parent, message, and whether the Init message was applied, so a block that is made twice from
different inputs shows as two blocks. Everything that carries state (database, memory, trie inputs, caches) is
represented by the set of blocks whose writes it carries, which is what the properties tell
apart.

| variable | code |
|---|---|
| `feed`, `fork` | the consensus node's log, and the first index a reorg has still to replace |
| `disk`, `mem`, `head` | database, `CanonicalInMemoryState`, `head_block_num` |
| `since`, `pending` | `FlushScheduler` and `pending_flush` |
| `acc`, `flushing` | `accumulated_trie_input`, `flushing_trie_input` |
| `overlay`, `prestate` | `cached_overlay`, `cached_prestate` with their tags |
| `queue`, `results`, `done`, `permit` | request channel, result channel of capacity one, unwind answer, `flush_done` |
| `init` | `cached_init` holds the Init message |
| `worker`, `call` | program points of the thread and of each RPC call |

Actions are cut where the code awaits, blocks on a channel or takes the lock: `DigestInit`,
`DigestMessage` (the unlocked lookup), `ProduceBlock` (lock, index check, first half of backpressure),
`PollFlush`, `Notified`, `NotifyTimeout`, `OpenParent`, `CommitBlock`, `ExecutionFails`, `Reorg`,
`ResetToBlock`, `Unwound`; and for the thread `SaveBlocks`, `SendResult`, `NotifyOne`,
`UnwindDisk`. `Restart` loses everything but the database, between any two of them. `ReplaceLog`
is the consensus node's own step: it replaces the end of its log by as many messages as it likes,
and `Reorg` then rolls back and replays all of them, one `ProduceBlock` at a time under a lock that
is free between two. A reorg that starts at the Init message fails after the rollback, at the index
check of produce_block, as in the code. `OpenParent` can fail before it fills the read caches or
between the overlay and the prestate; once both are filled it takes the Init message out of its
slot, and every later failure is `ExecutionFails`.
`Env` selects what the environment does: crashes, reorgs, failing writes, failing unwinds, failing
state reads and executions (`state_error`), an Init message that is sent only once (`init_once`).

Assumed of what is outside the modelled code:

* The consensus node sends the Init message again before it sends message 1 again after a failure,
  a crash or a rollback to the genesis block, unless `Env` has `init_once` (finding 3).
* It calls reorg when no other call is in progress, and sends further messages once the chain has
  been rolled back, also while the reorg still replays. Messages are sent in order, and one whose
  call failed or was lost may be sent again.
* reth's `save_blocks` may be given blocks the database already has and saves them again without
  effect (`SaveBlocks`). The code hands over the whole in-memory chain, so this happens after a
  reorg has cut the last block of a flush in flight: its result then removes nothing from memory,
  and the next flush takes the blocks below again.
* reth's `remove_block_and_execution_above` succeeds and does nothing when the database ends at or
  below the target (`UnwindDisk`). It may fail otherwise, with `unwind_error`.

The execution of a message between opening the parent state and sealing the block
(`producer.rs:655-1017`) is behind `Child` and not modelled here; the map names the lines around it.

`CanonicalChain` is the promise to a user of the node: one chain, extended a message at a time, a
parent-closed part of it durable, rolled back at once and purged later, recovered from what is
durable. `ImplementsChain` is the refinement. The mapping takes as undone the blocks above the
head that the database or a queued flush still holds.

`MCBlockProducer` builds blocks as sequences of messages, each with the Init flag.

### Retryables, MCRetryables

Tickets, the timeout queue and the escrow, with the journal of the running transaction: `view` is
the state the transaction sees, `frames` the checkpoints of its open call frames, and a revert
restores them. What the code does not journal (`sweep`, `scheduled`) is outside. `StartBlock`
reaps as `try_to_reap_one_retryable` does; a commit scans the logs for scheduled redeems, sweeps
cancelled escrow and schedules retries; the producer drains them in batches. The scan of the same
logs for withdrawals is left out. A frame may revert at any time, except that a revert which brings
back the ticket whose cancel is the pending sweep is kept for the switch `cancel_reverts`. `Env` admits four
kinds of transactions that are outside what the invariants hold for, see the findings.

### Storage structures

* `StorageQueue` (cells and two positions) implements `Deque` (a sequence).
* `AddressSet` (size, list, map, both versions of remove, the ArbOS 11 upgrade, rectify_mapping)
  implements `MemberSet` (a set). `op` records the operation a step ran and its address, and the
  refinement maps it too: an addition adds that address and no other, a removal removes it, a
  rectification and the upgrade change nobody.
* `AddressTable`: register, lookup, compress, decompress.
* `L1Blockhashes`: the ring of hashes and the start-of-block update that fills skipped numbers.
* `SendMerkle`: append, root, ArbSys logs, the header's root, `from_partials`, and the proof plan
  and walk of constructOutboxProof, against a plain recursive definition of the tree. A send is one
  that passed the tests of sendTxToL1 that revert the call (static call, native token owners):
  a reverted call leaves nothing behind. `WalkReachesRoot` is about the places of the walk, given
  the nodes of the tree there; the scan of the logs for them (`api.rs`), the plan's list of logs to
  query and its partials (`outbox_proof.rs:105-124`), and the error when the leaf is not found
  (`outbox_proof.rs:150`) are left out.
* `CoalescedOverlay`: the view of the in-memory blocks, against the storage that execution wrote.

`MCStructures` runs them side by side: each has its own storage space, and no operation of one
touches another, so each behaviour moves one of them.

### L1Pricing, MCL1Pricing

The pool account, its book value, what each poster and the reward recipient are due, units, price
and surplus; charges, donations, releases, the owner's settings, the two versions of a posting
report and the upgrade to ArbOS 10. A charge counts the units, mints the poster's fee and, from
ArbOS 10 on, books it. Before ArbOS 2 the fee goes to the coinbase: for the pool this is a charge
with a fee of zero, which the model has at every version. `accepted`, `paid`, `rewards` and `rewardsPaid` are history
variables for the conservation property.

## The runs

| run | instance | shows |
|---|---|---|
| producer_crash | 2 calls, 2 messages, log of 5, flush every 2, limit 2; crashes, failing executions | the chain is the execution of the log, state roots cover all writes of the chain, memory is bounded |
| producer_reorg | 2 calls, 2 messages, log of 3, flush every block, limit 1; crashes, reorgs of up to 3 messages | no lost and no ghost block, caches never stale, one flush in flight, no lost wakeup, refinement of `CanonicalChain`, every call ends |
| retryables | 2 tickets, windows of 1, clock to 5, frames 1 deep | escrow backs tickets and is never stranded, the queue covers every ticket, nonces are fresh, a paid keepalive is honoured, schedules run, everything is reaped |
| structures | 4 addresses, 5 puts, ring of 4, 9 sends, 3 blocks | each structure against its abstract definition |
| l1_pricing | 2 posters, 2 reports, pool up to 4 | books are backed by the pool, accepted spending is paid or due, the total is the sum, the price follows the integer formula |
| producer_flush_error, producer_trie_input, producer_init_retry, retryables_two_cancels, retryables_cancel_reverts, retryables_nested_redeem, address_set_stale_remove | one switch of `Env` each | the findings below |

Why the bounds are enough. In the producer, a log of three with a flush at every block has all
stages at once: a block saved, one being flushed, one only in memory, with a second call racing;
five messages with an interval of two let the two trie inputs swap twice. Two messages make two
branches at every height. For retryables, two tickets are the least for which one request can
take the place of another; a clock of five lets a ticket expire, be reopened by a pending
keepalive, and be reaped. Nine sends fill three levels of the accumulator and start a fourth.
The ring of four wraps three times. Two reports are the least for which an old surplus matters.

Deadlock is not checked in the runs of structures whose bounded histories end.

### Fairness

The thread takes its next step (`WF`), a call that can poll, wake, open, commit or read its answer
does so (`WF`), and a call that waits for `produce_lock` gets it (`SF`: tokio's mutex is a FIFO
queue). `NotifyTimeout` is not assumed to happen, so `CallsFinish` shows that nothing relies on
the 30 second timeout. In `Retryables` frames return and scheduled transactions run (`WF`); transactions end and blocks
come with a clock that advances (`SF`, since a transaction between two blocks disables the next
block for a while): the executor runs a transaction to its end before it does anything else, and
StartBlock is the first transaction of every block.

### Findings

Each is a run of its own that violates one property; `PROJECT.json` quotes the lines.

1. `producer_flush_error`: the result of a failed flush is drained like a success, and its blocks
   are then in no store.
2. `producer_trie_input`: a reset clears the accumulated trie input of unflushed blocks it keeps.
3. `producer_init_retry`: the Init message leaves its slot before the execution of block 1 can
   fail, and a retry of message 1 makes block 1 without it.
4. `retryables_two_cancels`: one transaction remembers one cancelled ticket's escrow.
5. `retryables_cancel_reverts`: the sweep survives the revert of the cancel.
6. `retryables_nested_redeem`: a retry scheduled by a retry is cleared when another follows.
7. `address_set_stale_remove`: an owner removed after the upgrade and before it is rectified.

Further observations, without a run:

* If an unwind fails, the repeated reset returns early because the counter already is at the
  target (`producer.rs:1389`); `Env` has the switch `unwind_error`.
* produce_block compares the next block number with the message index itself (`producer.rs:1292`),
  while the handler adds the genesis number; all runs have genesis number 0.
* A transaction that redeems and cancels one ticket leaves its try counter at one
  (switch `cancel_redeemed`).
* By reading only: constructOutboxProof takes the send hash of the L2ToL1Tx log for the leaf, while
  the accumulator hashes it once more before it enters the tree.
* The number at which record_new_l1_block starts to fill is itself not filled.

## The proofs

| module | theorem | for all | invariant |
|---|---|---|---|
| BlockProducerTypes | TypeCorrect | logs, blocks, calls, intervals, limits, environments | `TypeInv` |
| BlockProducerFlush, BlockProducerProofs | NothingLost, WakeupsKept, SingleFlush | the same, with no failing flush | `FlushInv` |
| StorageQueueProofs | QueueTypeCorrect, CellsFreed, QueueIsDeque | values, sizes | `QueueInv` |
| AddressSetProofs | ListExact, SetIsSet | addresses, sizes | `SetInv` |

`NoLostBlocks` alone is not inductive: a drain removes from memory what the flush was given, so
one has to know that it reached the disk. `FlushInv` says where a flush can be (`OneOutstanding`:
first in the queue, saved, or reported, and only while `pending`), that an unwind is last in the
queue and its sender is waiting (`UnwindProtocol`), that what draining the outstanding flush would
remove is or will be on disk (`FlushCovers`), that the block it ends in is still in memory unless
a reset is under way (`FlushFresh`), that the database has no gaps, and that one call holds the
lock (`Mutex`). The last matters most at a reset: it cuts memory while a flush of the cut blocks
may be in flight, and `Covers` is conditional on the last block still being in memory for that
reason. The hypothesis that no flush fails is necessary, see finding 1. Crashes, reorgs and failed
unwinds are all admitted.

Each invariant has one lemma per action (`TypeCommitBlock`, `FlushCommitBlock`); `TypeStep` and
`FlushStep` put them together.

`QueueInv` adds to the types that cells outside the window are free. `SetInv` says that, from
ArbOS 11 on, the map leads every listed address back to its cell, and that on a chain that never
saw an older version no member is stale; the hypothesis is that members are not removed while
their entry is stale, see finding 7. `SetIsSet` is the refinement: each step of the set is the step
of `MemberSet` of the same name and address, or a stutter.

Only model-checked: liveness (`CallsFinish`, `AllReaped`), the refinement of `CanonicalChain`, the
other producer invariants, and all properties of `Retryables`, `L1Pricing`, `SendMerkle`,
`AddressTable`, `L1Blockhashes` and `CoalescedOverlay`. `SendMerkle` checks against a recursive
definition, whose value for every input is out of the prover's reach.

## Not modelled

EVM and WebAssembly execution, encodings, ABI and gas of precompiles, configuration, reth's pool,
network and pipeline, and RPC queries are not modelled; `PROJECT.json` gives the reason for each.

## Plan

1. `L2Pricing`: backlog, single and multi-gas constraints, base fee, the three models of
   update_pricing_model, the owner's settings, the commit of fees at the start of a block; composed
   with `L1Pricing` in one pricing run.
2. `BlockExecution`: block gas budget, the hold on compute gas, poster charge, distribution and
   refund of fees, the loop over messages and scheduled transactions; composed with `Retryables`.
3. `ArbosUpgrade`: the upgrade loop and StartBlock, over the structures it rewrites.
4. `StylusPrograms` and `ModuleCache`: activation, expiry, keepalive, the cached flag, the
   two-tier cache with its lock released during compilation, the page and storage caches of calls.
5. `StateOverlay`: account statuses against the bundle; `MessageParsing` as operators.
6. Finality in `BlockProducer`.
7. Proofs: `FollowsFeed` and `OverlayNeverStale` from a strengthening of `FlushInv`; the
   refinement of `CanonicalChain`; `EscrowBacksTickets` and `NoStrandedEscrow`; `PoolBacked` and
   `TotalIsSum`; `RoundTrip`; `ReadsTrue`.
