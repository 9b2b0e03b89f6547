------------------------------- MODULE Executor -------------------------------
(***************************************************************************)
(* hamerkop/src/executor: the single-threaded runtime (runtime.rs), the    *)
(* I/O context and LinkedSubmitter (handle.rs), CompletionFuture           *)
(* (future.rs), and the kernel that works behind their back (external).    *)
(*                                                                         *)
(* The three slot maps are used through what SlotMap promises: insert      *)
(* returns some index that is not in use.  The rings are sequences, as     *)
(* UringFifo promises, except that the ring's capacity and the way a full  *)
(* ring reports free slots are kept.  The run queue is a set: dedup_partial*)
(* keeps every id, and the order of polling is left open.                  *)
(*                                                                         *)
(* A future is arbitrary client code: while it is polled it may start      *)
(* requests, poll, drop or give away the CompletionFutures it holds, spawn,*)
(* suspend on a pending one, finish or panic.                              *)
(***************************************************************************)
EXTENDS Naturals, Sequences, FiniteSets, SequencesExt

CONSTANTS
  Tasks, Cqids, Bufs,  \* indices of the futures, completions and buffers maps
  Kinds,               \* requests the tasks make: "read", "mem", "provide"
  NoTask, Dead,        \* NO_TASK_SENTINEL, DEAD_TASK_SENTINEL
  None,
  SqEntries, CqEntries,
  MaxLink,             \* longest chain a task submits with one LinkedSubmitter
  MaxOps, MaxSpawns,   \* bounds: requests made, futures spawned
  AvoidFull,           \* clients write no SQE while the submission ring is full
  Shares,              \* futures hand CompletionFutures to each other
  DropsMem,            \* a read_buf/write_buf future may be dropped unfinished
  Abandons,            \* a LinkedSubmitter may be dropped without submit()
  Panics,              \* futures may panic, and drop others with an open chain
  Short,               \* io_uring_enter may take less than it is offered
  Transient,           \* io_uring_enter may fail with EAGAIN or EBUSY
  HardErrors           \* io_uring_enter may fail with another error

\* What the rings carry and what the maps store.  A map entry, a recorded CQE or
\* a future object that is not there is None.
Sqe == {op \in [ud : Cqids \cup {None}, kind : Kinds \cup {"cancel"}, buf : Bufs \cup {None},
                link : BOOLEAN] : op.kind = "provide" => op.buf # None}
CqeRecord == [ud : Cqids \cup {None}, ok : BOOLEAN, buf : Bufs \cup {None}]
Event == [cqe : CqeRecord \cup {None}, task : Tasks \cup {NoTask, Dead},
          action : Bufs \cup {None}]
FutureObject == [owner : Tasks, kind : Kinds, buf : Bufs \cup {None}]

ASSUME ExecutorAssumption ==
  /\ Kinds \subseteq {"read", "mem", "provide"}
  /\ {SqEntries, CqEntries, MaxLink, MaxOps, MaxSpawns} \subseteq Nat
  /\ 0 < SqEntries /\ MaxLink <= SqEntries /\ SqEntries <= CqEntries
  /\ {AvoidFull, Shares, DropsMem, Abandons, Panics, Short} \subseteq BOOLEAN
  /\ {Transient, HardErrors} \subseteq BOOLEAN
  /\ Tasks \cap {NoTask, Dead, None} = {} /\ NoTask # Dead
  /\ None \notin Cqids \cup Bufs \cup CqeRecord \cup Event \cup FutureObject

VARIABLES
  (* Runtime *)
  futures,      \* ids of the stored futures
  runqueue,     \* ids to poll in this turn
  api,          \* the call in progress: "run", "block_on", or "none";
                \* "failed" after a call that returned an error
  root,         \* id of block_on's future while it is stored, or None
  output,       \* block_on's future has produced its value
  (* the thread *)
  pc,
  cur,          \* the task being polled, or being dropped by a panic
  panicking,
  waitFor,      \* the argument of the submit in progress
  cont,         \* where that submit returns to
  dropping,     \* cqid of the must_wait future being dropped, or None
  (* IOContext *)
  created,      \* number of futures spawned through a handle
  woken,        \* ids queued by process_cqes inside submit
  queued,       \* SQEs advanced over since the last turn's submit
  completions,  \* cqid -> CompletionEvent, or None if vacant
  buffers,      \* ids of the stored buffers
  (* CompletionFuture objects and what the tasks do with them *)
  fut,          \* cqid -> the future object for it, or None
  polled,       \* futures that were pending in the current poll
  waiting,      \* task -> futures that were pending when it suspended
  (* rings and kernel *)
  sq,           \* SQEs the kernel has not taken, oldest first
  left,         \* how many of them are behind sqe_tail: offered once, not taken
  link,         \* SQEs written by the LinkedSubmitter, not yet advanced over
  inflight,     \* requests being executed, linked ones next to each other
  cq,           \* posted CQEs
  group,        \* buffers the kernel may select from
  (* bounds *)
  ops, spawns

rtVars   == <<futures, runqueue, api, root, output>>
thrVars  == <<pc, cur, panicking, waitFor, cont, dropping>>
ctxVars  == <<created, woken, queued, completions, buffers>>
futVars  == <<fut, polled, waiting>>
ringVars == <<sq, left, link>>
kernVars == <<inflight, cq, group>>
bounds   == <<ops, spawns>>
vars == <<rtVars, thrVars, ctxVars, futVars, ringVars, kernVars, bounds>>

-----------------------------------------------------------------------------
(* The submission ring.                                                     *)

\* sqes().len(), by wrapping_dist: a full ring looks empty.
Free == IF Len(sq) % SqEntries = 0 THEN SqEntries ELSE SqEntries - (Len(sq) % SqEntries)

\* Writing the slot that position pos of the ring uses; positions SqEntries
\* apart share a slot.
Overwrite(s, pos, sqe) ==
  [i \in DOMAIN s |-> IF (pos - i) % SqEntries = 0 THEN sqe ELSE s[i]]

\* The kernel forms chains from the IO_LINK flags of what it takes together.
Taken(s) == [i \in DOMAIN s |-> IF i = Len(s) THEN [s[i] EXCEPT !.link = FALSE] ELSE s[i]]

AsyncCancel == [ud |-> None, kind |-> "cancel", buf |-> None, link |-> FALSE]

Held(t) == {c \in Cqids : fut[c] # None /\ fut[c].owner = t}
Vacant == {c \in Cqids : completions[c] = None}

-----------------------------------------------------------------------------
Init ==
  /\ futures = {} /\ runqueue = {}
  /\ api = "none" /\ root = None /\ output = FALSE
  /\ pc = "out" /\ cur = None /\ panicking = FALSE
  /\ waitFor = 0 /\ cont = "process" /\ dropping = None
  /\ created = 0 /\ woken = {} /\ queued = 0
  /\ completions = [c \in Cqids |-> None]
  /\ buffers = {}
  /\ fut = [c \in Cqids |-> None]
  /\ polled = {} /\ waiting = [t \in Tasks |-> {}]
  /\ sq = <<>> /\ left = 0 /\ link = <<>>
  /\ inflight = <<>> /\ cq = <<>> /\ group = {}
  /\ ops = 0 /\ spawns = 0

-----------------------------------------------------------------------------
(* The thread outside of run and block_on.  Once block_on has returned with *)
(* its future still stored, that future holds dangling references and what *)
(* follows has no meaning: the model stops there.                          *)

\* Runtime::spawn
RuntimeSpawn(t) ==
  /\ pc = "out" /\ root = None
  /\ spawns < MaxSpawns /\ t \notin futures
  /\ futures' = futures \cup {t}
  /\ runqueue' = runqueue \cup {t}
  /\ spawns' = spawns + 1
  /\ UNCHANGED <<api, root, output, thrVars, ctxVars, futVars, ringVars, kernVars, ops>>

CallRun ==
  /\ pc = "out" /\ root = None
  /\ pc' = "turn" /\ api' = "run"
  /\ UNCHANGED <<futures, runqueue, root, output, cur, panicking, waitFor, cont, dropping,
                 ctxVars, futVars, ringVars, kernVars, bounds>>

CallBlockOn(t) ==
  /\ pc = "out" /\ root = None
  /\ spawns < MaxSpawns /\ t \notin futures
  /\ futures' = futures \cup {t}
  /\ runqueue' = runqueue \cup {t}
  /\ root' = t /\ output' = FALSE
  /\ pc' = "turn" /\ api' = "block_on"
  /\ spawns' = spawns + 1
  /\ UNCHANGED <<cur, panicking, waitFor, cont, dropping, ctxVars, futVars, ringVars, kernVars, ops>>

LoopDone ==
  \/ api = "run" /\ futures = {} /\ created = 0
  \/ api = "block_on" /\ output

\* The loop of run or block_on ends.
Return ==
  /\ pc = "turn" /\ LoopDone
  /\ pc' = "out" /\ api' = "none"
  /\ UNCHANGED <<futures, runqueue, root, output, cur, panicking, waitFor, cont, dropping,
                 ctxVars, futVars, ringVars, kernVars, bounds>>

-----------------------------------------------------------------------------
(* process_cqes.                                                            *)

\* The CQEs in the ring that name event c.  A vacant event is skipped, a dead
\* one is removed by its first CQE, any other keeps its last one.
CqesOf(c) == {i \in DOMAIN cq : cq[i].ud = c}
Reached == {c \in Cqids : completions[c] # None /\ CqesOf(c) # {}}
FirstCqe(c) == cq[CHOOSE i \in CqesOf(c) : \A j \in CqesOf(c) : i <= j]
LastCqe(c) == cq[CHOOSE i \in CqesOf(c) : \A j \in CqesOf(c) : i >= j]

Delivered(c) ==
  IF c \notin Reached THEN completions[c]
  ELSE IF completions[c].task = Dead THEN None
  ELSE [completions[c] EXCEPT !.cqe = LastCqe(c)]

\* Seeded fault: the buffer of a detached request is deleted on success too.
BadDiscarded == {completions[c].action : c \in {d \in Reached : completions[d].task = Dead}}

\* DeleteBufferOnError
Discarded ==
  {completions[c].action : c \in {d \in Reached : completions[d].task = Dead /\ ~FirstCqe(d).ok}}

\* The ids given to queue_func.
WokenTasks == {completions[c].task : c \in Reached} \ {NoTask, Dead}

\* All CQEs in the ring; the ids go to the queue q by q' = q \cup WokenTasks.
ProcessCqes ==
  /\ completions' = [c \in Cqids |-> Delivered(c)]
  /\ buffers' = buffers \ Discarded
  /\ cq' = <<>>

-----------------------------------------------------------------------------
(* IOContext::submit, called by turn, by LinkedSubmitter to make room and   *)
(* by the drop of a must_wait future.  Without SQPOLL, submit_and_wait      *)
(* enters the kernel if there is something to submit or to wait for.        *)

\* tail - sqe_tail, which is what io_uring_enter is told to take.
Unsubmitted == Len(sq) - left

Submit(w, k) ==
  IF w > 0 \/ Unsubmitted > 0
  THEN pc' = "enter" /\ waitFor' = w /\ cont' = k
  ELSE pc' = k /\ UNCHANGED <<waitFor, cont>>

\* The numbers of SQEs the kernel may take: all that is offered, or fewer.
Takes == IF Short /\ Unsubmitted > 0 THEN 1 .. Unsubmitted ELSE {Unsubmitted}

\* The kernel takes the oldest SQEs; if that is not all that is offered, it does
\* not wait.  Either way everything in the ring counts as submitted.
EnterOk ==
  /\ pc = "enter" /\ pc' = "wait"
  /\ \E n \in Takes :
       /\ waitFor' = IF n < Unsubmitted THEN 0 ELSE waitFor
       /\ inflight' = inflight \o Taken(SubSeq(sq, 1, n))
       /\ sq' = SubSeq(sq, n + 1, Len(sq))
       /\ left' = Len(sq) - n
  /\ UNCHANGED <<rtVars, cur, panicking, cont, dropping, ctxVars, futVars,
                 link, cq, group, bounds>>

\* io_uring_enter returns when enough CQEs are in the ring.
WaitDone ==
  /\ pc = "wait" /\ Len(cq) >= waitFor
  /\ pc' = cont
  /\ UNCHANGED <<rtVars, cur, panicking, waitFor, cont, dropping, ctxVars, futVars,
                 ringVars, kernVars, bounds>>


\* EAGAIN or EBUSY: empty the completion ring and try again.
EnterTransient ==
  /\ Transient /\ pc = "enter" /\ Unsubmitted > 0
  /\ ProcessCqes
  /\ woken' = woken \cup WokenTasks
  /\ UNCHANGED <<rtVars, thrVars, created, queued, futVars, ringVars, inflight, group, bounds>>

\* Any other error: run and block_on return it, a drop ignores it, and
\* LinkedSubmitter drops the new CompletionFuture while the context is
\* borrowed, which panics and leaves its CompletionEvent behind, and for
\* provide_buffer the buffer in the pool.
EnterHard ==
  /\ HardErrors /\ pc = "enter"
  /\ CASE cont = "process" ->
            /\ pc' = "out" /\ api' = "failed"
            /\ UNCHANGED <<panicking, completions, buffers, link>>
       [] cont = "spin" ->
            /\ pc' = "spin"
            /\ UNCHANGED <<api, panicking, completions, buffers, link>>
       [] cont = "task" ->
            /\ pc' = "task" /\ panicking' = TRUE /\ link' = <<>>
            /\ \E c \in Vacant :
                 completions' = [completions EXCEPT ![c] =
                                   [cqe |-> None, task |-> NoTask, action |-> None]]
            /\ \/ UNCHANGED buffers
               \/ /\ "provide" \in Kinds
                  /\ \E b \in Bufs \ buffers : buffers' = buffers \cup {b}
            /\ UNCHANGED api
  /\ UNCHANGED <<futures, runqueue, root, output, cur, waitFor, cont, dropping,
                 created, woken, queued, futVars, sq, left, kernVars, bounds>>

-----------------------------------------------------------------------------
(* Runtime::turn.                                                           *)

\* Seeded fault: the ids woken inside submit are forgotten.
BadRunnable(new) == runqueue \cup new

Runnable(new) == runqueue \cup new \cup woken

WaitCount(rq, hasNext) == IF hasNext \/ rq # {} THEN 0 ELSE 1

\* turn up to its submit.  has_next compares wrapping cursors with <, so it
\* may be FALSE although the ring holds CQEs, never the reverse.
TurnBegin(new, hasNext) ==
  /\ pc = "turn" /\ ~LoopDone
  /\ new \cap futures = {} /\ Cardinality(new) = created
  /\ hasNext => cq # <<>>
  /\ futures' = futures \cup new
  /\ runqueue' = Runnable(new)
  /\ created' = 0 /\ woken' = {}
  /\ IF queued # 0 \/ (runqueue' = {} /\ ~hasNext)
     THEN Submit(WaitCount(runqueue', hasNext), "process")
     ELSE pc' = "process" /\ UNCHANGED <<waitFor, cont>>
  /\ UNCHANGED <<api, root, output, cur, panicking, dropping, queued, completions, buffers,
                 futVars, ringVars, kernVars, bounds>>


\* turn after its submit: Runtime::process_cqes and dedup_partial.
TurnProcess ==
  /\ pc = "process" /\ pc' = "poll"
  /\ queued' = 0
  /\ ProcessCqes
  /\ runqueue' = runqueue \cup WokenTasks
  /\ UNCHANGED <<futures, api, root, output, cur, panicking, waitFor, cont, dropping,
                 created, woken, futVars, ringVars, inflight, group, bounds>>

\* The loop over the run queue: an id whose future is gone is skipped.
PollNext(t) ==
  /\ pc = "poll" /\ t \in runqueue
  /\ runqueue' = runqueue \ {t}
  /\ IF t \in futures
     THEN /\ pc' = "task" /\ cur' = t
          /\ waiting' = [waiting EXCEPT ![t] = {}]
     ELSE UNCHANGED <<pc, cur, waiting>>
  /\ UNCHANGED <<futures, api, root, output, panicking, waitFor, cont, dropping, ctxVars,
                 fut, polled, ringVars, kernVars, bounds>>

TurnEnd ==
  /\ pc = "poll" /\ runqueue = {}
  /\ pc' = "turn"
  /\ UNCHANGED <<rtVars, cur, panicking, waitFor, cont, dropping, ctxVars, futVars,
                 ringVars, kernVars, bounds>>

-----------------------------------------------------------------------------
(* What the future being polled may do.  While it has a LinkedSubmitter the *)
(* context is borrowed: poll and drop of a CompletionFuture, spawn and a    *)
(* second submitter panic then (Panic and DropBorrowed below).              *)

Running == pc = "task" /\ ~panicking
Unborrowed == Running /\ link = <<>>

\* LinkedSubmitter::read, read_buf or write_buf, provide_buffer, when
\* sqes().get_mut(count) finds room.
StartOp(k, c, b) ==
  /\ Running /\ ops < MaxOps
  /\ Len(link) < MaxLink /\ Len(link) < Free
  /\ AvoidFull => Len(sq) < SqEntries
  /\ c \in Vacant
  /\ IF k = "provide" THEN b \in Bufs \ buffers ELSE b = None
  /\ LET sqe == [ud |-> c, kind |-> k, buf |-> b, link |-> TRUE] IN
     /\ sq' = Overwrite(sq, Len(sq) + Len(link) + 1, sqe)
     /\ link' = Append(link, sqe)
  /\ completions' = [completions EXCEPT ![c] = [cqe |-> None, task |-> NoTask, action |-> b]]
  /\ buffers' = IF b = None THEN buffers ELSE buffers \cup {b}
  /\ fut' = [fut EXCEPT ![c] = [owner |-> cur, kind |-> k, buf |-> b]]
  /\ ops' = ops + 1
  /\ UNCHANGED <<rtVars, thrVars, created, woken, queued, polled, waiting, left, kernVars, spawns>>

\* The other case: submit what earlier submitters left in the ring.
MakeRoom ==
  /\ Running /\ ops < MaxOps
  /\ Len(link) < MaxLink /\ Len(link) >= Free
  /\ Vacant # {}
  /\ Submit(0, "task")
  /\ UNCHANGED <<rtVars, cur, panicking, dropping, ctxVars, futVars, ringVars, kernVars, bounds>>

\* LinkedSubmitter::submit
SubmitLink ==
  /\ Running /\ link # <<>>
  /\ LET n == Len(link)
         end == [link[n] EXCEPT !.link = FALSE] IN
     sq' = Overwrite(sq, Len(sq) + n, end) \o [link EXCEPT ![n] = end]
  /\ link' = <<>>
  /\ queued' = queued + Len(link)
  /\ UNCHANGED <<rtVars, thrVars, created, woken, completions, buffers, futVars, left, kernVars,
                 bounds>>

\* The LinkedSubmitter is dropped instead: nothing advances over the SQEs it
\* wrote, and its futures wait for requests that do not exist.
AbandonLink ==
  /\ Abandons /\ Running /\ link # <<>>
  /\ link' = <<>>
  /\ UNCHANGED <<rtVars, thrVars, ctxVars, futVars, sq, left, kernVars, bounds>>

\* Seeded fault: only the first task to poll a future is registered.
BadRegister(ev) == [ev EXCEPT !.task = IF @ = NoTask THEN cur ELSE @]

Register(ev) == [ev EXCEPT !.task = cur]

\* CompletionFuture::poll registers the current task ...
PollPending(c) ==
  /\ Unborrowed
  /\ c \in Held(cur) \ polled /\ completions[c].cqe = None
  /\ completions' = [completions EXCEPT ![c] = Register(@)]
  /\ polled' = polled \cup {c}
  /\ UNCHANGED <<rtVars, thrVars, created, woken, queued, buffers, fut, waiting, ringVars,
                 kernVars, bounds>>

\* ... or returns the CQE; the future is then dropped by the async block that
\* awaited it, which goes on to take its buffer out of the pool.
PollReady(c) ==
  /\ Unborrowed
  /\ c \in Held(cur) /\ completions[c].cqe # None
  /\ LET e == completions[c].cqe
         taken == CASE fut[c].kind = "read" /\ e.ok -> {e.buf}
                    [] fut[c].kind = "provide" /\ ~e.ok -> {fut[c].buf}
                    [] OTHER -> {} IN
     buffers' = buffers \ taken
  /\ completions' = [completions EXCEPT ![c] = None]
  /\ fut' = [fut EXCEPT ![c] = None]
  /\ polled' = polled \ {c}
  /\ UNCHANGED <<rtVars, thrVars, created, woken, queued, waiting, ringVars, kernVars, bounds>>

\* The future keeps a CompletionFuture where another future will find it.
Give(c, t) ==
  /\ Shares /\ Unborrowed
  /\ c \in Held(cur) /\ t \in futures \ {cur}
  /\ fut' = [fut EXCEPT ![c].owner = t]
  /\ polled' = polled \ {c}
  /\ UNCHANGED <<rtVars, thrVars, ctxVars, waiting, ringVars, kernVars, bounds>>

\* IOHandle::spawn
Spawn ==
  /\ Unborrowed /\ spawns < MaxSpawns
  /\ created' = created + 1
  /\ spawns' = spawns + 1
  /\ UNCHANGED <<rtVars, thrVars, woken, queued, completions, buffers, futVars, ringVars,
                 kernVars, ops>>


\* Seeded fault: CURRENT_TASK is not cleared.
BadPollDone == pc' = "poll" /\ UNCHANGED cur

PollDone == pc' = "poll" /\ cur' = None

\* The future returns Poll::Pending; nothing but a CompletionFuture can wake
\* it, since EmptyWaker does nothing.
Suspend ==
  /\ Unborrowed /\ polled # {}
  /\ waiting' = [waiting EXCEPT ![cur] = polled]
  /\ polled' = {}
  /\ PollDone
  /\ UNCHANGED <<rtVars, panicking, waitFor, cont, dropping, ctxVars, fut, ringVars, kernVars, bounds>>

\* The future returns Poll::Ready and is removed.
Finish ==
  /\ Unborrowed /\ Held(cur) = {}
  /\ futures' = futures \ {cur}
  /\ root' = IF cur = root THEN None ELSE root
  /\ output' = (output \/ cur = root)
  /\ PollDone
  /\ UNCHANGED <<runqueue, api, panicking, waitFor, cont, dropping, ctxVars, futVars,
                 ringVars, kernVars, bounds>>

-----------------------------------------------------------------------------
(* CompletionFuture::drop, by the client or by unwinding.                   *)

CanDrop(c) == pc = "task" /\ link = <<>> /\ c \in Held(cur)

DropReady(c) ==
  /\ CanDrop(c) /\ completions[c].cqe # None
  /\ completions' = [completions EXCEPT ![c] = None]
  /\ fut' = [fut EXCEPT ![c] = None]
  /\ polled' = polled \ {c}
  /\ UNCHANGED <<rtVars, thrVars, created, woken, queued, buffers, waiting, ringVars, kernVars, bounds>>


\* Seeded fault: the CompletionEvent is removed with the future.
BadDetach(ev) == None

Detach(ev) == [ev EXCEPT !.task = Dead]

DropDetach(c) ==
  /\ CanDrop(c) /\ completions[c].cqe = None /\ fut[c].kind # "mem"
  /\ completions' = [completions EXCEPT ![c] = Detach(@)]
  /\ fut' = [fut EXCEPT ![c] = None]
  /\ polled' = polled \ {c}
  /\ UNCHANGED <<rtVars, thrVars, created, woken, queued, buffers, waiting, ringVars, kernVars, bounds>>

\* must_wait: the cancel request is written to a slot that nothing advances
\* over, then the thread submits until the completion has been recorded.
DropSpin(c) ==
  /\ DropsMem /\ CanDrop(c) /\ completions[c].cqe = None /\ fut[c].kind = "mem"
  /\ AvoidFull => Len(sq) < SqEntries
  /\ completions' = [completions EXCEPT ![c].task = NoTask]
  /\ sq' = Overwrite(sq, Len(sq) + 1, AsyncCancel)
  /\ dropping' = c
  /\ pc' = "enter" /\ waitFor' = 1 /\ cont' = "spin"
  /\ UNCHANGED <<rtVars, cur, panicking, created, woken, queued, buffers, futVars, left, link,
                 kernVars, bounds>>


\* Seeded fault: the loop is left after its first submit.
BadSpinOver == TRUE

SpinOver == completions[dropping].cqe # None

\* The test at the end of that loop; the CompletionEvent is not removed.
SpinTest ==
  /\ pc = "spin"
  /\ IF SpinOver
     THEN /\ pc' = "task" /\ dropping' = None
          /\ fut' = [fut EXCEPT ![dropping] = None]
          /\ polled' = polled \ {dropping}
          /\ UNCHANGED <<waitFor, cont>>
     ELSE Submit(1, "spin") /\ UNCHANGED <<dropping, fut, polled>>
  /\ UNCHANGED <<rtVars, cur, panicking, ctxVars, waiting, ringVars, kernVars, bounds>>

-----------------------------------------------------------------------------
(* A panic in the polled future.  Unwinding drops its LinkedSubmitter, the  *)
(* SQEs of which are not advanced over, then what else the future holds,    *)
(* then the future, then (the drain) the rest of the run queue; block_on    *)
(* drops its own future as well.  (A CompletionFuture that is dropped       *)
(* before the LinkedSubmitter panics a second time: the process aborts.)    *)

MayPanic ==
  /\ Panics /\ Running
  /\ DropsMem \/ \A c \in Held(cur) : fut[c].kind # "mem"

\* A panic of the future's own code, or of borrow_mut in a poll or a spawn.
Panic ==
  /\ MayPanic
  /\ panicking' = TRUE /\ link' = <<>>
  /\ UNCHANGED <<rtVars, pc, cur, waitFor, cont, dropping, ctxVars, futVars, sq, left, kernVars,
                 bounds>>

\* CompletionFuture::drop while the future has a LinkedSubmitter: borrow_mut
\* panics at once, must_wait or not.  The object is gone, its CompletionEvent
\* stays as it is.
DropBorrowed(c) ==
  /\ MayPanic /\ link # <<>> /\ c \in Held(cur)
  /\ fut' = [fut EXCEPT ![c] = None]
  /\ polled' = polled \ {c}
  /\ panicking' = TRUE /\ link' = <<>>
  /\ UNCHANGED <<rtVars, pc, cur, waitFor, cont, dropping, ctxVars, waiting, sq, left, kernVars,
                 bounds>>


\* Seeded fault: block_on passes a panic of another future on.
BadDropNext == None

\* The future that is dropped after cur.
DropNext == IF cur = root THEN None ELSE root

UnwindDone ==
  /\ pc = "task" /\ panicking /\ Held(cur) = {}
  /\ futures' = futures \ {cur}
  /\ runqueue' = {}
  /\ root' = IF cur = root THEN None ELSE root
  /\ polled' = {}
  /\ waiting' = [waiting EXCEPT ![cur] = {}]
  /\ cur' = DropNext
  /\ IF cur' # None
     THEN UNCHANGED <<pc, api, panicking>>
     ELSE pc' = "out" /\ api' = "none" /\ panicking' = FALSE
  /\ UNCHANGED <<output, waitFor, cont, dropping, ctxVars, fut, ringVars, kernVars, bounds>>

-----------------------------------------------------------------------------
(* The kernel: requests of a chain are executed in order, and when one      *)
(* fails the rest of its chain fails with it.  CQEs for which the ring has  *)
(* no room are held back.                                                   *)

Cqe(op, ok, b) == [ud |-> op.ud, ok |-> ok, buf |-> b]

\* Everything but positions i to j.
Without(s, i, j) == SubSeq(s, 1, i - 1) \o SubSeq(s, j + 1, Len(s))

IsChainHead(i) == i > 1 => ~inflight[i - 1].link

Complete(i, b) ==
  LET op == inflight[i] IN
  /\ IsChainHead(i) /\ Len(cq) < CqEntries
  /\ IF op.kind = "read" THEN b \in group ELSE b = None
  /\ cq' = Append(cq, Cqe(op, TRUE, b))
  /\ group' = IF op.kind = "provide" THEN group \cup {op.buf} ELSE group \ {b}
  /\ inflight' = Without(inflight, i, i)
  /\ UNCHANGED <<rtVars, thrVars, ctxVars, futVars, ringVars, bounds>>

\* Requests i to j are the rest of a chain.
Fail(i, j) ==
  /\ IsChainHead(i) /\ ~inflight[j].link /\ \A k \in i .. j - 1 : inflight[k].link
  /\ Len(cq) + (j - i + 1) <= CqEntries
  /\ cq' = cq \o [k \in 1 .. j - i + 1 |-> Cqe(inflight[i + k - 1], FALSE, None)]
  /\ inflight' = Without(inflight, i, j)
  /\ UNCHANGED <<rtVars, thrVars, ctxVars, futVars, ringVars, group, bounds>>

-----------------------------------------------------------------------------
Program ==
  \/ \E t \in Tasks : RuntimeSpawn(t) \/ CallBlockOn(t)
  \/ CallRun \/ Return

Loop ==
  \/ \E new \in SUBSET (Tasks \ futures), hasNext \in BOOLEAN : TurnBegin(new, hasNext)
  \/ TurnProcess \/ TurnEnd
  \/ \E t \in Tasks : PollNext(t)
  \/ EnterOk \/ WaitDone \/ EnterTransient \/ EnterHard

Client ==
  \/ \E k \in Kinds, c \in Cqids, b \in Bufs \cup {None} : StartOp(k, c, b)
  \/ MakeRoom \/ SubmitLink \/ AbandonLink
  \/ \E c \in Cqids : PollPending(c) \/ PollReady(c)
  \/ \E c \in Cqids, t \in Tasks : Give(c, t)
  \/ Spawn \/ Suspend \/ Finish
  \/ \E c \in Cqids : DropReady(c) \/ DropDetach(c) \/ DropSpin(c) \/ DropBorrowed(c)
  \/ SpinTest
  \/ Panic \/ UnwindDone

Thread == Program \/ Loop \/ Client
Kernel ==
  \E i \in DOMAIN inflight :
    \/ \E j \in i .. Len(inflight) : Fail(i, j)
    \/ \E b \in Bufs \cup {None} : Complete(i, b)

Next == Thread \/ Kernel
Spec == Init /\ [][Next]_vars

\* The thread keeps running and every request is completed in the end.
FairSpec == Spec /\ WF_vars(Thread) /\ WF_vars(Kernel)

-----------------------------------------------------------------------------
(* Properties.                                                              *)

\* Types, and CURRENT_TASK is set exactly while a future is polled or dropped,
\* calls of submit from within included.
TypeOK ==
  /\ futures \subseteq Tasks /\ runqueue \subseteq Tasks /\ woken \subseteq Tasks
  /\ api \in {"none", "run", "block_on", "failed"}
  /\ root \in Tasks \cup {None} /\ output \in BOOLEAN
  /\ pc \in {"out", "turn", "enter", "wait", "process", "poll", "task", "spin"}
  /\ cont \in {"process", "task", "spin"} /\ waitFor \in 0 .. 1
  /\ panicking \in BOOLEAN
  /\ dropping \in Cqids \cup {None}
  /\ (cur # None) = (pc \in {"task", "spin"} \/ (pc \in {"enter", "wait"} /\ cont # "process"))
  /\ cur \in Tasks \cup {None}
  /\ created \in 0 .. MaxSpawns /\ queued \in 0 .. MaxOps
  /\ completions \in [Cqids -> Event \cup {None}]
  /\ buffers \subseteq Bufs /\ group \subseteq Bufs
  /\ fut \in [Cqids -> FutureObject \cup {None}]
  /\ polled \subseteq Cqids /\ waiting \in [Tasks -> SUBSET Cqids]
  /\ {sq, link, inflight} \subseteq Seq(Sqe) /\ cq \in Seq(CqeRecord)
  /\ Len(link) <= MaxLink /\ Len(cq) <= CqEntries /\ left \in 0 .. Len(sq)

\* The requests made for cqid c that are not completed or not yet looked at.
CountUd(s, c) == Cardinality({i \in DOMAIN s : s[i].ud = c})
Outstanding(c) == CountUd(sq \o link \o inflight \o cq, c)

\* The index of a CompletionEvent identifies one request: as long as the event
\* waits exactly one SQE, running request or CQE carries its index, and none
\* does once the completion is recorded or the index is vacant.  A completion
\* therefore reaches the event it belongs to, although indices are reused.
OneOpPerCqid ==
  \A c \in Cqids :
    Outstanding(c) = IF completions[c] # None /\ completions[c].cqe = None THEN 1 ELSE 0

\* No wakeup is lost: a suspended future whose request has completed is in a
\* queue of tasks to poll, and one whose request is still running is the task
\* that completion will queue.
NoLostWakeup ==
  \A t \in futures : \A c \in waiting[t] :
    /\ completions[c] # None
    /\ completions[c].cqe = None => completions[c].task = t
    /\ completions[c].cqe # None => t \in runqueue \cup woken

\* What is left of that when a panic has thrown the run queue away: a task that
\* had not yet been woken is still the one its completions will queue, so the
\* next run or block_on polls it.
RegistrationSurvives ==
  \A t \in futures \ {cur} : \A c \in waiting[t] :
    completions[c] # None /\ (completions[c].cqe = None => completions[c].task = t)

\* What is left of OneOpPerCqid when a chain is thrown away before it was
\* submitted, by its client or by a fatal error: an index is never shared by two
\* requests, and no completion arrives for an event that is recorded or gone.
NoForeignCompletion ==
  \A c \in Cqids :
    Outstanding(c) <= IF completions[c] # None /\ completions[c].cqe = None THEN 1 ELSE 0

\* The memory the kernel may still write to, or that a completion on its way
\* names: buffers in the group, in a provide request, in the CQE of a read.
Referenced ==
  group
  \cup {op.buf : op \in ToSet(sq \o link \o inflight)}
  \cup {e.buf : e \in ToSet(cq)}
  \cup {completions[c].cqe.buf : c \in {d \in Cqids : completions[d] # None /\ completions[d].cqe # None}}

\* The pool owns every buffer the kernel knows of, so neither "Buffer ID
\* doesn't exist" nor a write to freed memory is possible.
KernelBuffersLive == Referenced \ {None} \subseteq buffers

\* Where the memory of a buffer is: the requests that name it, the completions
\* that were posted for them, and what is left in the pool.
Recorded == {completions[c].cqe : c \in {d \in Cqids : completions[d] # None}} \ {None}
Posted == ToSet(cq) \cup Recorded
ProvideFailed(e, b) ==
  ~e.ok /\ e.ud # None /\ completions[e.ud] # None /\ completions[e.ud].action = b

Place(b) ==
  IF b \notin buffers THEN "out"
  ELSE IF b \in group THEN "group"
  ELSE IF \E e \in Posted : e.buf = b THEN "picked"
  ELSE IF \/ \E op \in ToSet(sq \o link \o inflight) : op.buf = b
          \/ \E e \in Posted : ProvideFailed(e, b) THEN "offered"
  ELSE "leaked"

Pool == INSTANCE BufferPool WITH place <- [b \in Bufs |-> Place(b)]

\* The buffers go round: a task offers one, the kernel accepts it, picks it for
\* a read, and the task that waits for the read takes it out.  Ids are reused
\* and requests are detached in between, yet no buffer is handed to a second
\* owner, freed while the kernel has it, or taken back without a completion.
ImplementsBufferPool == Pool!Spec

\* The indices whose request refers to the caller's memory and is not over.
Borrowing == {op.ud : op \in {o \in ToSet(sq \o inflight) : o.kind = "mem"}}

\* A future that borrows the caller's memory is not gone before its request is
\* over ("block until this request has completed"), whether it is dropped by its
\* task or by a panic, however the request ends and whatever system calls fail.
\* The one exception is a drop while its task has a LinkedSubmitter, on which
\* borrow_mut panics before the drop waits: nothing but that step, which starts
\* a panic with the chain open, leaves such a request without its future.
MustWaitSafe ==
  [][\A c \in Borrowing : fut[c] # None /\ fut'[c] = None =>
       \/ c \notin Borrowing'
       \/ link # <<>> /\ ~panicking /\ panicking']_vars

\* The thread sleeps in the kernel only if a request runs that can end the sleep.
BlockedHasWork == pc = "wait" /\ Len(cq) < waitFor => inflight # <<>>

\* block_on that returns a value, or unwinds from a panic in any future, has
\* removed its own future.
UnwindingRemovesFuture == api = "none" => root = None

\* Every suspended future is polled again (or dropped).
SleeperPolled == \A t \in Tasks : waiting[t] # {} ~> waiting[t] = {}

\* Runtime::run returns once its futures have made all their requests.
RunReturns == (api = "run") ~> (api = "none")

\* The drop of a must_wait future returns once its request has completed.
DropReturns == (dropping # None) ~> (dropping = None)
=============================================================================
