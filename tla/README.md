# hamerkop: a TLA+ verification project

hamerkop is an asynchronous executor on top of Linux `io_uring`. The repository
holds the bindings (`uring`), the executor (`hamerkop`), a metrics crate
(`metrics`), a macro crate (`tokenreplace`) and two example servers. This
directory models the parts with state and concurrency, checks them with TLC on
small instances, and proves their safety properties with TLAPS for every instance
(section 5 lists the exceptions: liveness, the accuracy of quantiles and the order
of the elements of a `FixedVec`).

## 1. The system

| Part | State | Operations | What is hard about it |
|---|---|---|---|
| Rings (`uring/src/sqe.rs`, `cqe.rs`, `ringbuf.rs`) | SQE and CQE slots, head and tail cursors (u32), `sqe_tail`, wakeup flag | `sqes`, `advance`, `submit_and_wait`, `available`, `advance` | shared with the kernel, lock-free; wrap-around; full ring; failing or short system calls; SQPOLL thread going to sleep |
| Ring set-up and teardown (`uring/src/lib.rs`, `detail.rs`) | descriptor, up to three mappings, indirection array | `with_params`, `mmap_queues`, `unmap_queues`, drop | any of four system calls fails; shared mapping; other threads map memory meanwhile |
| Request builders (`uring/src/sqe_types.rs`) | none, they write an SQE slot | 33 `prep_sqe` functions | slots are reused, every setting has a place of its own in the SQE |
| Slot map (`hamerkop/src/stable_slotmap.rs`) | slabs, free list, size | `insert`, `remove`, `get` | free list over long histories, stable indices, limit |
| `FixedVec` (`hamerkop/src/fixedvec.rs`) | boxed slice of `MaybeUninit<T>`, length; a `Drain` over it | `push`, `pop`, `insert`, `remove`, `truncate`, `extend`, `retain`, `drain`, `append` and more | uninitialised slots, elements ended twice or never, panics of the client's code in the middle of a call |
| Executor (`hamerkop/src/executor`) | futures, run queue, woken and created tasks, completions, pool buffers | `run`, `block_on`, `turn`, `process_cqes`, `submit`, `LinkedSubmitter`, poll and drop of `CompletionFuture` | index reuse, wakeups over two queues, detached requests, memory shared with the kernel, panics and errors half-way |
| `dedup_partial` (`hamerkop/src/util/dedup.rs`) | vector, table of pointers into it | one loop | pointers into a vector that is permuted |
| `Join` (`hamerkop/src/util/join.rs`) | futures, which of them are done | `next` | futures that are not polled are not registered |
| `DisjointChunksExact` (`hamerkop/src/util/disjoint_chunks.rs`) | two slices | `next` | a chunk across the boundary |
| `LazyCell` (`metrics/src/lazy_cell.rs`) | atomic state, value, closure | `get`, `force`, `force_mut`, `into_inner`, drop | many threads, panicking closure, double drop |
| `DDSketch` (`metrics/src/ddsketch.rs`) | atomic counters: buckets, count, min, max | `insert_n`, `merge`, `clear`, `quantile`, `rank`, `too_high` | lock-free updates by many threads, saturation, layout of the buckets |
| Ping server (`hamerkop/examples/pingserver.rs`) | channel, eventfd, read, transfer and write buffer per connection | accept, main task, a task per connection | hand-over between threads, pings cut anywhere, short writes in a chain |
| registrar, metric registration, counters and gauges, `tokenreplace`, raw bindings, echo server | | | see section 8 |

How they interact. A task (a future stored in the runtime's slot map) makes
requests through an `IOHandle`. A `LinkedSubmitter` writes SQEs into the ring
and inserts a `CompletionEvent` into a second slot map, whose index is the
`user_data` of the SQE. `turn` submits, reads the CQEs, stores each one in the
event its `user_data` names, and queues the task that polled the
`CompletionFuture` last; the queue goes through `dedup_partial` and every task
in it is polled. Buffers of a third slot map are given to the kernel and come
back with the CQE of a read; a buffer is a `FixedVec`. A `LazyCell<DDSketch>`
holds each distribution the runtime records. The ping server provides its buffers
at the start, joins those requests, and cuts each connection's stream into pings
with `DisjointChunksExact`.

## 2. Modules

| Module | Models | Role |
|---|---|---|
| `SlotMap` | what a slot map promises | abstract |
| `StableSlotmap` | `stable_slotmap.rs`, flat indices, free list through the slabs | component |
| `VecContents` | what a vector of fixed capacity promises | abstract |
| `FixedVec` | `fixedvec.rs`: memory, ownership of each element, the `Drain` | component |
| `ContainerProofs` | the slot map and the vectors | theorems |
| `DedupPartial`, `DedupPartialProofs` | `dedup.rs` | algorithm, theorems |
| `UringFifo` | what the two rings promise | abstract |
| `RingOps` | `wrapping_dist`, indexing and iteration of `RingBuf` | pure operators |
| `UringQueues` | `sqe.rs`, `cqe.rs`, with a submitting thread, a completing thread and the kernel | component |
| `IoUring` | `lib.rs`, `detail.rs`: set-up, failure and drop around `UringQueues` | composition |
| `IoUringProofs` | the queues, then the ring around them | theorems |
| `BufferPool` | what the pool of provided buffers promises | abstract |
| `Executor` | `runtime.rs`, `handle.rs`, `future.rs`, with arbitrary client tasks and the kernel | composition |
| `ExecutorProofs` | types, `block_on`, registrations and wakeups | theorems |
| `ExecutorRequestProofs` | requests, completions, sleeping, buffers | theorems, on those of `ExecutorProofs` |
| `SqePrepare` | `sqe_types.rs` and the SQE half of `sqe.rs`, `LinkedSubmitter`'s flags | component |
| `SqePrepareProofs` | | theorems |
| `LazyCell` | `lazy_cell.rs` | component |
| `DDSketch` | `ddsketch.rs`, one step per atomic access | component |
| `Metrics` | a `LazyCell<DDSketch>` as `metric!` declares it: created by the thread that wins, updated through the references | composition |
| `MetricsProofs` | the cell, then the sketch in it | theorems |
| `Join` | `join.rs`, with the task that awaits `next()` in a loop | component |
| `DisjointChunks` | `disjoint_chunks.rs` | pure operators |
| `PingServer`, `PingServerProofs` | `pingserver.rs`, on `Join` and `DisjointChunks` | composition, theorems |
| `MC*` | | instances for TLC |

`Executor` uses the slot maps through what `SlotMap` promises (`insert` returns
some unused index) and the rings through what `UringFifo` promises (sequences),
with one exception: the capacity of the submission ring and the way a full ring
reports its free slots are kept, since they are visible to the executor. The
run queue is a set because `DedupPartial` shows that `dedup_partial` keeps every
id, and polling a task twice is harmless.

Correspondence of state and code:

* `UringQueues`: `khead`, `ktail`, `sqe_tail`, `chead`, `ctail` are the code's
  cursors, numbers modulo `U32`. `utail` is the tail as the submitting thread
  reads it back; it differs from `ktail` while the store is in the processor's
  store buffer (`mode.buffered`). A system call is three steps: the code up
  to `io_uring_enter` (`SubmitAndWait`), the kernel's work (`EnterTakes`,
  `EnterWakes`, `EnterFails`), and the code after it (`EnterReturns`). `left`
  (requests offered and not taken) and `dirty` (requests queued that no submit has
  looked after) are history: what `submit_and_wait` does not know when it returns.
* `Executor`: one thread whose place is `pc`: outside (`out`), at the loop of
  `run` or `block_on` (`turn`), in a system call (`enter`, `wait`), before
  `process_cqes` (`process`), in the loop over the run queue (`poll`), in a
  future's `poll` or drop (`task`), in the loop of a `must_wait` drop (`spin`).
  `cur` is `CURRENT_TASK`. `completions[c]` is a `CompletionEvent`; `fut[c]` is
  the `CompletionFuture` object for it, with the task that holds it. `waiting[t]`
  records the futures that were pending when `t` suspended and exists only for
  the properties. Requests have one of three kinds: `read` (kernel-selected
  buffer), `mem` (`read_buf`, `write_buf`: caller's memory, `must_wait`),
  `provide` (`provide_buffer`). `left` is how far `sqe_tail` is ahead of the head
  after a short system call (`Short`): those requests stay in the ring and
  `Unsubmitted` does not count them. A task that has a `LinkedSubmitter` holds the
  borrow of the context: polling, spawning and a second submitter then end in
  `Panic`, the drop of a future in `DropBorrowed`.
* `SqePrepare`: a setting is a token, an SQE field a set of tokens.
* `Executor!Place(b)` says where the memory of buffer `b` is, computed from the
  pool, the requests that name it and the completions posted for them; it is the
  refinement mapping to `BufferPool`. The CQEs of one `process_cqes` are stored at
  once: `Delivered(c)` is the event of index `c` afterwards, `Discarded` the indices
  removed on the way and `WokenTasks` the tasks queued, each a function of the CQEs
  of that index in their order.
* `IoUring`: `space` is the address space, one cell per mapping; `mmap` takes the
  lowest free cell, so that a mapping of another thread (`OtherMaps`) can end up
  where the ring has just unmapped one. `undo` is the list of `munmap` calls of
  an error path or of the drop.
* `FixedVec`: `mem[v]` and `len[v]` are `data` and `size`; a call is one step
  because it has `&mut self`, and what the client's code does in it (a drop that
  panics at slot `k`) is chosen by the step. `owner` and `sound` are history:
  who has to end an element, and whether an unsafe block ever did what its safety
  comment rules out. Slots beyond `len` count as uninitialised between calls.
* `DDSketch`: `sk` holds all atomic cells, `todo[th]` the updates a call has
  still to make, in the order of the code. `gamma` is a fraction and the
  logarithms are exact.
* `PingServer`: a ping is the bytes `0 .. CHUNK - 1`, so that a stream cut or
  joined at the wrong place is seen as a bad chunk, as in the code.
* `LazyCell`: accesses to `state` are atomic; the plain accesses to closure and
  value, which the acquire loads and release stores order, are separate steps.

Each component also contains `Bad...` operators, "seeded faults": variants of
one definition as a plausible mistake in the code would have it. With one of
them in place of the original the property it is meant for fails, which shows
that the property depends on that piece of code.

## 3. Runs

Passing runs:

| Run | Instance | Shows |
|---|---|---|
| `containers` | slot map: 2 slabs of 3 entries, 2 values; `dedup_partial`: 3 ids, 2 buckets, up to 5 elements, all hash functions; `FixedVec`: 2 vectors of capacity 3, 3 elements, with and without `Copy` | free list exact, buffer ids fit u16, elements never move, the slot map implements `SlotMap`; no id lost, pointers valid; no slot read that was not written, no element ended twice or forgotten, the vectors implement `VecContents` |
| `uring_queues` | rings: 3 requests, rings of 4 and 2, cursors modulo 8; failing and short system calls, SQPOLL; requests: a ring of two slots, the first used by any of 27 of the 33 request types after any other, the second by what `LinkedSubmitter` links | the rings are two FIFO queues, `free_sqes` is exact, a successful submit leaves behind only what the kernel was offered; every setting reaches the SQE, nothing stale does, link flags are those of the chain |
| `io_uring` | 2 requests, rings of 2 and 1, with and without SQPOLL, store buffer and SINGLE_MMAP, each system call of the set-up failing | a ring that is handed out is ready, an error leaves nothing behind, every request is completed and read, a backlog behind a sleeping kernel thread only after a flag that was read early |
| `executor` | 2 tasks, 2 completions, 1 buffer, 3 requests, ring of 2, EAGAIN, futures that change hands | one request per index, no lost wakeup, the pool implements `BufferPool`, the thread sleeps only when something can wake it, suspended tasks are polled again, `run` returns |
| `executor_faults` | 2 tasks, 3 completions, 1 buffer, panics, abandoned chains, `must_wait` drops, short calls and fatal errors of `io_uring_enter` | no memory the kernel may write to is given up but by a drop that panics (below), no foreign completion, tasks stay registered when another one panics, `block_on` cleans up after a panic |
| `metrics` | 3 threads, 2 calls, gamma 3/2, u64 cut to 15 | references valid, one initialiser, no double drop, spinning ends; no sample lost, quantiles within alpha |
| `server` | 2 connections, 3 pings of 3 bytes, buffers of 7, 2 provided buffers | pings answered once and whole however they are cut, connections served, start-up ends |

The three containers share a run and no state: a behaviour is about one of them.
So do the rings and the request builders in `uring_queues`.

Why the bounds are enough. The slot map's free list is exercised across the
slab boundary and up to the limit. A `FixedVec` of capacity 3 has an element
before, in and behind a range, can be full, and has room for the tail to move by
one or two. In the ring runs a request is reused once it was read, so the cursors
wrap any number of times and all alignments of head, tail, wrap and ring size
occur; with rings of 4 and cursors modulo 8 "full", "empty" and "wrapped" are all
distinct. In the executor two tasks and three requests allow a chain, an index
reused while an older CQE is on its way, a buffer that goes round once and is
offered again, and a future that changes hands; a ring of two makes
`LinkedSubmitter` submit to make room. In `metrics` the counters reach the largest
value with two calls, and three threads are one more than can race for a cell.
In the server 7 bytes hold two pings and a part of the next, so pings are cut in
every way. `MaxOps`, `MaxSpawns`, `MaxCalls`, `Pings` and `Window` bound the
history, `SqEntries`, `CqEntries` and `MaxLink` the queues. Longer executions
repeat these situations with other names. Symmetry is used in runs with safety
properties only. In `SqePrepare` optional settings are made all or none, since
each is stored on its own. A tail that becomes visible late matters to the wakeup
flag only, so the store buffer is in `io_uring` and not in `uring_queues`.

Deadlock is not checked where the system may stop: `dedup_partial` ends; a
dropped `LazyCell` or ring stays dropped; clients stop sending; in the ring runs a
program may wait for a completion when none is outstanding; after a caught panic
(`executor_faults`) the ids of the other tasks are gone and the thread may sleep
for good.

Conditions under which the passing runs hold, all of them named in the modules:

* `LeaveGap` and `AvoidFull`: the program leaves one slot of the submission ring
  free. `wrapping_dist` gives a full ring and an empty one the same distance, so
  a full ring reports all of its slots as free (`executor_full` shows what
  follows from it).
* `submit_and_wait` ignores the count `io_uring_enter` returns, so what was not
  taken is never offered again until something else is. `SubmittedIsTaken` counts
  those requests (`left`), and the safety properties of the queues and, in
  `executor_faults`, of the executor hold over short calls. `EveryRequestCompletes`
  and `BlockedHasWork` do not: a thread that waits for a request left behind waits
  for good, so they are stated for a kernel that takes all it is offered
  (`~mode.short`, `~Short`).
* `sqe.rs` stores the tail with release and loads the wakeup flag with acquire,
  which does not order the two. A processor with a store buffer may load the flag
  first; then a submitted request may stay in the ring with the kernel thread asleep.
  `NoSleepingBacklog` speaks of every processor and says that this is the only way:
  a call that read the flag while its store was on its way (`ReadEarly`) leaves
  `dirty` set, as if it had not submitted. `EveryRequestCompletes` is stated for a
  processor that keeps the order (`~mode.buffered`), since a thread that waits for
  such a request submits no more.
* `MustWaitSafe` has an exception, one step of the code. `set_must_wait` makes a drop
  "block until this request has completed" (`future.rs:51`), but if the task has a
  `LinkedSubmitter` the drop panics in `borrow_mut` (`future.rs:92`) before it waits
  and the borrowed memory is free while the request runs (`DropBorrowed`). The
  property excepts exactly the step that starts a panic with a chain open; without
  the exception TLC finds it violated.
* `OneOpPerCqid` and `BlockedHasWork` are stated without panics: the panic with a
  chain open leaves events no request will complete, as an abandoned chain does.
* `AvoidSingle`: with SINGLE_MMAP, mapping the SQEs does not fail. If it does,
  `detail.rs:130` unmaps the one mapping of the rings twice, and the second call
  may hit what another thread has mapped there in between (`FailureIsClean` fails
  without the condition). The mapping of the SQEs is never unmapped by the drop of
  a ring, which is why `FailureIsClean` speaks of the two rings there: it is a leak.
* `DropsMem = FALSE` in `executor` follows the documented contract of `read_buf`
  and `write_buf`, whose futures must be polled to completion.
* `AvoidDrain`: no element that needs a drop is taken out of a `Drain`
  (`fixed_vec_drain` shows why). `AvoidAppend`: `append` only where `excise_front`
  moves enough elements and stays in the slice (`fixed_vec_append` shows why; the
  documentation's own example is such a call). `AvoidOverfull`: `extend_from_slice`
  only where there is room for the slice. Its documentation says that it panics
  otherwise (`fixedvec.rs:480`), which is what `VecContents` specifies; the code cuts
  the slice (`fixedvec.rs:484`), and `ImplementsVec` fails without the condition.
* `metrics` uses gamma 3/2 and samples from 1 on. A 0 is reported as 1 when the
  sketch also holds larger samples, by the formula that `sketch_quantile` is
  about. For alpha of 1/3 and more the layout itself is off at the limit: with
  alpha = 1/2 and limit 10, `index_of(10)` is one past the last bucket. `clear` and
  `merge` are used as their comments ask: nobody updates the sketch that is cleared
  or merged from.
* The client of the server leaves at most `Window` pings unanswered, and a round of
  the connection task can answer that many. `transfer_remainder` keeps no more
  than a buffer, and a chunk that stays behind whole is looked at again only
  when the next read completes; with `Window = 3` TLC finds a ping that is never
  answered, because the task waits for more input.

Violation runs, each for a statement of the repository that the code does not
keep (quoted in `PROJECT.json`, `findings`):

1. `executor_full`: a request written to a full ring overwrites one that was not
   submitted; one future never completes.
2. `executor_drop`: the drop of a `must_wait` future never returns, since nothing
   in its loop looks at the completion ring. It is checked under `FairSpec`.
3. `fixed_vec_drain`: an element taken out of a `Drain` is dropped a second time.
4. `sketch_quantile`: with gamma 4/3 a quantile that lies in a linear bucket is
   off by more than alpha.
5. `fixed_vec_append`: `append` of one element out of three leaves the first two in
   the other vector instead of the last two, since `excise_front` moves `count` slots
   to the front where `len - count` remain (`fixedvec.rs:456`).

Other places where code and comments disagree, seen while modelling:
`block_on` that returns an error leaves its future, whose lifetime was
transmuted, in the runtime, although "this is only safe if we ensure that the
future is no longer stored" (`runtime.rs:171`); the model stops there;
the comment on `wrapping_dist` describes the smallest v > 1 with `(a + v) & mask
== b & mask`, the function returns `(a - b) & mask`, or the ring size for 0; the
debug assertion in `CompletionQueue::advance` compares free-running u32 cursors
with `<=` and fails for a correct call at the wrap; `dedup_partial` does not
subsume `Vec::dedup`, since `swap_remove` splits runs (`[A, A, A, B]` may become
`[A, B, A]` when the hashes collide); `extend_from_slice` is documented to panic
when there is no room (`fixedvec.rs:480`) and adds what fits instead; the drop of a
`must_wait` future in a task with a `LinkedSubmitter` does not wait (above);
`Runtime::spawn` does not count the task in `ACTIVE_TASKS`, its end does; six
request types do not store all of their settings and are left out of
`uring_queues`: `ReadVectored`, `WriteVectored`, `ReadFixed` and `WriteFixed` drop
`rw_flags`, `SendMsg` and `RecvMsg` drop `ioprio`. In the ping server a
connection whose notification is read before it is sent waits for the next
notification, which is why `SpawnedByNext` speaks of the ones in the channel.

## 4. Fairness

* `IoUring!FairUringSpec`: while the ring is open the program keeps submitting and
  reaping (weak fairness of its steps), stores become visible, the kernel serves
  what it took. `EnterTakes` is strongly fair: `io_uring_enter` may fail with
  EAGAIN or EBUSY again and again, but not forever. `Post` is strongly fair
  because the completion ring is full in between. Nothing makes the owner drop
  the ring.
* `Executor!FairSpec`: weak fairness of the one thread and of the kernel. Every
  request ends, with an error if with nothing else; client tasks have bounded
  work, so a weakly fair thread gets through them.
* `Metrics!FairMetricSpec`: weak fairness of each thread inside `force`; the closure
  terminates.
* `PingServer!FairServerSpec`: weak fairness of the main task, of each connection's
  task and requests (what `Executor` shows of the runtime), of the acceptor thread
  between two accepts, and of the provide requests. No client has to connect, send
  or stay.

## 5. Proofs

Every theorem holds for all values of the constants that the named assumptions
allow; TLC evaluates those assumptions on every run. A condition on the program (a
constant such as `AvoidFull`) is a hypothesis of the theorem where it is needed, and
of no other.

| Theorem | Property | Hypotheses |
|---|---|---|
| `ContainerProofs!FreeListCorrect`, `BufferIdFits`, `StableIndices`, `Refinement` | `FreeListExact`, `IndexFits`, `Stable`, `ImplementsSlotMap` | none |
| `ContainerProofs!VecsMemorySafe` | `MemorySafe` | `AvoidDrain`, `AvoidAppend` |
| `MetricsProofs!ReferencesValid`, `InitialiserAlone`, `NoDoubleDrop` | `RefsValid`, `OneInitialiser`, `DroppedOnce` | none |
| `MetricsProofs!NoSampleLost` | `NothingLost` | `0 \notin Counts` |
| `DedupPartialProofs!DedupKeepsEveryValue`, `DedupPointersStable` | `KeepsEveryValue`, `PointersStable` | none |
| `IoUringProofs!SubmitTakesAll`, `NoBacklogAsleep` | `SubmittedIsTaken`, `NoSleepingBacklog` | none |
| `IoUringProofs!FreeSqesIsExact`, `RingsAreQueues` | `FreeSqesExact`, `ImplementsFifo` | `LeaveGap` |
| `IoUringProofs!OpenRingIsReady` | `OpenIsReady` | none |
| `IoUringProofs!FailuresAreClean` | `FailureIsClean` | `AvoidSingle` |
| `SqePrepareProofs!SlotsAreClean`, `ChainsAreShaped` | `NothingStale`, `ChainShape` | none |
| `SqePrepareProofs!SettingsArrive` | `SettingsReachKernel` | only types outside the six of `Forgetful` |
| `ExecutorProofs!TypeCorrect`, `BlockOnRemovesFuture`, `RegistrationsSurvive` | `TypeOK`, `UnwindingRemovesFuture`, `RegistrationSurvives` | none |
| `ExecutorProofs!WakeupsAreKept` | `NoLostWakeup` | `~Panics`, `~HardErrors` |
| `ExecutorRequestProofs!NoForeignCompletions`, `BorrowsOutlastRequests`, `PoolOwnsKernelBuffers` | `NoForeignCompletion`, `MustWaitSafe`, `KernelBuffersLive` | `AvoidFull` |
| `ExecutorRequestProofs!BuffersGoRound` | `ImplementsBufferPool` | `AvoidFull`, `~HardErrors` |
| `ExecutorRequestProofs!OneRequestPerIndex` | `OneOpPerCqid` | `AvoidFull`, `~Abandons`, `~Panics`, `~HardErrors` |
| `ExecutorRequestProofs!SleepsOverWork` | `BlockedHasWork` | `AvoidFull`, `~Abandons`, `~Panics`, `~HardErrors`, `~Short` |
| `PingServerProofs!PingsNeverRejected` | `NeverRejected` | `Enough`: a pool buffer per connection, `(Window + 1) * CHUNK <= 2 * BUF` |

The hypotheses are those of the runs: `LeaveGap`, `AvoidSingle`, `AvoidFull`,
`AvoidDrain`, `AvoidAppend` and the client's `Window` are explained in section 3, and
each of the others switches a fault off under which the property is not promised (a
caught panic loses the run queue and the open chain, a fatal error of
`io_uring_enter` leaves requests in the ring, an abandoned chain leaves events no
request will complete, a short call leaves requests that are not offered again).

`ContainerProofs`, the slot map, from `SlotmapAssumption` (sizes positive, `SENTINEL` is no
index). The inductive invariant `IInv` joins type, free list, size and `nslabs <=
MaxSlabs`. No part is inductive alone: insert keeps live elements only because
the list holds vacant entries only; the map stays within its limit only because
it grows when nothing is vacant, that is when `size = NSlots`, which needs the
exact list and the exact size. "The list is exact" is an existential over
finite sequences without repetition; each action's proof exhibits the new
sequence (drop the first, put one in front, the new slab in order). It also
gives that `unreachable!()` is not reached and that `len()` counts.

`ContainerProofs`, the vectors, from `VecAssumption` (the capacity is a number,
`Uninit` is no element). `VecInv` says which slots of a vector are used, up to its
length or, while a `Drain` has it, to the length it had before; that they hold
elements; and, for elements that need a drop, that no element is in two slots and
that the vectors have to end exactly what they hold. `OneVec` reduces a call that
changes one vector to two facts: what its slots hold afterwards, and who owns what
it held before. The moves inside a vector are then shown to be permutations of the
slots that stay. `retain` is a loop, in the model a recursive function. `SwappedIs`
shows that the definition has the value the loop computes: a run of the loop to any
slot exists and is unique, each by looking at the least slot for which it would
not be. `LoopKeeps` is the invariant of the loop, shown in the same way.

`MetricsProofs`, the cell, for any set of threads. `IInv` ties the place of each thread
to the state of the cell: a working thread means `INIT_IN_PROGRESS`, and then it is the
only one; a reference means `INIT`; the history counters follow from the state.
`MetricUsesCell` transfers this to the metric.

`MetricsProofs`, the sketch, from `SketchAssumption` (finitely many threads, values
that are `u64`) and `LayoutAssumption` (a sketch has a number of buckets), whatever
function `index_of` is. A sum is the number of pairs `<<x, k>>` with `k` up to the
summand of `x`, so that it can be reasoned about with the cardinality theorems instead
of by induction. `AddInv`: a counter and what all threads have still to add to it are,
cut at `u64::MAX`, the samples that belong in it; an `insert_n` or a `merge` adds the
same number to both sides (`Fits`), and a `compare_exchange` that succeeds moves a
number from the second summand into the first, where the cut does no harm.
`MinInv` and `MaxInv`: every value inserted is covered by the extreme or by a pending
update of it. `LateInv`: before the cell is initialised nothing has been inserted, so
the initialiser's new sketch overwrites nothing. The hypothesis excludes `insert_n(v,
0)`, which in the code moves `min` and `max` without counting a sample. An index
beyond the buckets, on which the code panics, has no effect on the cells in the proof;
the run would stop at it.

`DedupPartialProofs`, for any vector, table and pair of hash functions. `DedupInv` is
the types with both properties: an element is removed because a pointer says that an
equal one is kept, so losing no value needs the pointers, and the pointers stay valid
because `swap_remove` only moves elements behind the loop's position.

`IoUringProofs`, the queues, from `QueuesAssumption` (ring sizes divide the counter width and
are at most half of it, as powers of two do), for any counter width. First the
wrapping arithmetic: what `wrapping_sub`, `wrapping_add` and the mask do to cursors of
a bounded distance, and that positions less than a ring apart have different slots.
`CallInv` (types; what a call in progress will have offered and what the kernel has
left of it; who will wake a sleeping kernel thread, or that the flag was read early)
gives the two theorems that need no gap. `QueueInv` adds that the
distances between cursors are the lengths of the queues, that they stay below the ring
sizes, and that a request is in one place only; from it each step is shown to be a step
of `UringFifo` on the sequences read off the slots between the cursors.

`IoUringProofs`, the ring. Setting up and taking down a ring does not touch its queues, so
`LifeKeepsQueues` (the specification with the ring's life implies that of the queues)
transfers the theorems above. `SetupInv` says what is mapped at each step of
`with_params`; `UndoInv` that the addresses still to be unmapped are mapped, by
the ring and once, which is what fails with a shared mapping.

`ExecutorProofs`, from `ExecutorAssumption` (bounds are numbers, a chain fits in
the ring, the values for "none" are different from the others). `TypeInv` joins the
types with where `CURRENT_TASK` is set, whose future a drop is about, and which
futures belong to whom. `RootInv`: `block_on`'s future is stored until its value is
there. `WaitInv`: the futures a task saw pending are its own and, until they complete,
registered for it; a future that is shared changes hands only through a poll, which
registers the new task. `QueueInv`, without panics and errors: a task whose future has
completed is in the run queue or will be, and nothing leaves these queues unpolled.

`ExecutorRequestProofs`. `CarriedInv`: an index is in at most one of ring, open chain,
kernel and completion ring, once, and only for an event that waits; this is what makes
reuse of an index safe, and it is where a full ring must be left alone.
`RequestInv`: a request, its future, if it still has one, and its event agree about
kind and buffer. `BorrowsOutlastRequests` looks at the steps that end a future: a drop
that waits ends it when its completion is recorded, and by `CarriedInv` the request is
then over; what is left is the drop that panics. `CallInv` and `SleepInv`:
the thread waits only when something is in the ring or in the kernel, because every
suspended task waits for an event (`QueueInv`) and every such event is carried.
`BufferInv`: a buffer belongs to the kernel's group or to at most one index that picked
or offers it, and all of those are in the pool. `PickInv` and `PlaceInv` turn the
owner into the `Place` of the refinement, whose proof shows for each step which buffers
move and where to.

`SqePrepareProofs`, from `PrepareAssumption`. `Fill` does not depend on the slot's
contents, since `clear` comes first (`FillForgets`); the slots of one chain differ.
`PrepareInv` says that the slots behind the tail hold the open chain and the kernel got
the last one. `SettingsArrive` adds a lemma per group of request types, that the
table has a field for every setting of the builder (`BuildersStore`).

`PingServerProofs`, from `ServerAssumption`. The stream of a connection is numbered
byte by byte. `StreamInv` says for every place a task can be in that what is not
answered yet is the stream from the first byte of a ping on: it is in the transfer
buffer and the socket between two rounds, and in a round in the chunk that
`DisjointChunksExact` is putting together and what its slices have left, with the
number of bytes behind each kept exact. So every chunk the iterator yields is a
ping. The part that `transfer_remainder` keeps must fit in a buffer, which is where
`Window` comes in. `HandInv` (a connection is handed over once) and `PoolInv` (each
buffer is in the pool or with one task, and all were provided before the first task
was spawned) give that no read is starved.

Only model-checked, and why:

* All liveness properties (`SleeperPolled`, `RunReturns`, `DropReturns`,
  `EveryRequestCompletes`, `SpinEnds`, `EveryPingAnswered`, `SpawnedByNext`,
  `StartsServing`): liveness under fairness is out of the prover's reach.
* `QuantileAccurate`: powers of gamma and running sums of buckets, which need
  induction over data; nor does it hold for every gamma (`sketch_quantile`).
* `ImplementsVec` of `FixedVec`: the order in which `retain` leaves the elements is
  compared with a sorted sequence of a set, whose theory is not in the library.

## 6. What is external

The kernel's side of the rings, the execution of requests, linked chains, buffer
selection and `mmap` are modelled from how the code uses them. So are the clients:
a task of the executor may at every step do anything the API lets it do, and a
client of the ping server may cut its stream anywhere and reset the connection.

## 7. What is left out of the modelled components

* `Executor`: the runtime dropped with requests in flight; the gauge of active
  tasks; a chain longer than the ring (a documented panic); a second panic while the
  first unwinds, which aborts the process; a task that suspends with a
  `LinkedSubmitter` open, on which the next use of the context panics; what follows
  when `block_on` returns an error of `submit`.
* `StableSlotmap`: addresses. An entry is named by its slab and slot, and a slab
  stays in its `Box`.
* `UringQueues`: integer overflow is that of a release build, it wraps.
* `IoUring`: offsets and sizes of the mappings.
* `SqePrepare`: casts and saturation of numeric settings; `Resultify`.
* `FixedVec`: comparison, hashing and formatting, which only read; the second
  vector of the instance is only filled by `push` and `append`.
* `LazyCell`: a closure that forces its own cell.
* `DDSketch`: rounding errors of floating-point logarithms and powers; queries that
  run during updates, for which the comments promise nothing.
* `PingServer`: writes that return 0 (an error of the connection, as a reset is); a
  `provide_buffer` that fails, which ends the main task at the start
  (`pingserver.rs:97`) and later the task of a connection (`pingserver.rs:166`);
  pings of different connections in one run; `main`'s set-up.

## 8. Not modelled, and the plan

Not modelled: `tokenreplace` and the metric macros (compile-time rewriting),
`raw.rs` and `flags.rs` (declarations), `registrar.rs` (one stateless system call
per method), counters and gauges (single relaxed atomics), the echo server (the
ping server's hand-over with a simpler connection task), the empty `slab` crate.

What is left are proofs: `ImplementsVec` for all calls but `retain`, and that a batch
of completions is a prefix of the completion queue, from `UringFifo`.
