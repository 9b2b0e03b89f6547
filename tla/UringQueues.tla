----------------------------- MODULE UringQueues -----------------------------
(***************************************************************************)
(* uring/src/sqe.rs, cqe.rs and ringbuf.rs: the submission and completion  *)
(* rings shared with the kernel.  One thread owns the SubmissionQueue, one *)
(* the CompletionQueue (IoUring::split hands out both and both are Send);  *)
(* the kernel is the third actor and is external.                          *)
(*                                                                         *)
(* Cursors are u32 in the code and wrap in a release build; here they are  *)
(* numbers modulo U32.  `x & mask` is x % (mask + 1): the ring sizes are   *)
(* powers of two.                                                          *)
(***************************************************************************)
EXTENDS RingOps, FiniteSets, SequencesExt

CONSTANTS
  Ops,          \* requests; a request's identity stands for its whole SQE
  NoOp,         \* a slot that was never written
  SqEntries, CqEntries,
  LeaveGap,     \* the program never fills the submission ring completely
  Modes         \* the settings the rings are looked at in

ASSUME QueuesAssumption ==
  /\ SqEntries \in Nat \ {0} /\ CqEntries \in Nat \ {0} /\ U32 \in Nat
  /\ U32 % SqEntries = 0 /\ U32 % CqEntries = 0
  /\ U32 >= 2 * SqEntries /\ U32 >= 2 * CqEntries
  /\ LeaveGap \in BOOLEAN
  /\ Modes \subseteq [sqpoll : BOOLEAN, short : BOOLEAN, buffered : BOOLEAN]
  /\ IsFiniteSet(Ops) /\ NoOp \notin Ops

\* sqpoll: the ring was set up with SetupFlags::SQPOLL (SubmissionQueue.flags);
\* short: the kernel may take fewer requests than it is offered; buffered: a
\* store may become visible after a later load (x86, ARM).
VARIABLES
  mode,         \* never changes
  sqes,         \* the SQE slots
  khead,        \* next request the kernel takes
  ktail,        \* end of the queue as other processors see it
  utail,        \* end of the queue as the submitting thread reads it back
  sqe_tail,     \* end of what was submitted by a successful submit_and_wait
  written,      \* SQEs prepared past utail and not yet advanced over
  dirty,        \* history: SQEs were advanced over that no submit has looked after
  left,         \* history: how many requests the kernel was offered and did not take
  needWakeup,   \* IORING_SQ_NEED_WAKEUP: the SQPOLL thread sleeps
  sys,          \* the submitting thread: in user code or in io_uring_enter
  inflight,     \* requests the kernel has taken and not completed
  cqes,         \* the CQE slots
  chead, ctail, \* completion ring cursors
  batch         \* what iterating over available() yielded, until advance

sqVars == <<mode, sqes, khead, ktail, utail, sqe_tail, written, dirty, left, needWakeup, sys>>
cqVars == <<cqes, chead, ctail, batch>>
vars == <<sqVars, inflight, cqVars>>

-----------------------------------------------------------------------------
\* free_sqes(), and the length of sqes().
FreeSqes == WrappingDist(khead, utail, SqEntries - 1)

\* What the rings hold between their cursors.
Used == Sub32(utail, khead)
CqCount == Sub32(ctail, chead)
SqContents == [i \in 1 .. Used |-> sqes[Slot(khead, i - 1, SqEntries)]]
CqContents == [i \in 1 .. CqCount |-> cqes[Slot(chead, i - 1, CqEntries)]]
Prepared == {sqes[Slot(utail, i, SqEntries)] : i \in 0 .. written - 1}
Idle == Ops \ (ToSet(SqContents) \cup Prepared \cup inflight \cup ToSet(CqContents))

InUser == [at |-> "user", want |-> 0, wait |-> 0, wake |-> FALSE, late |-> FALSE]

\* The rings as with_params leaves them.
Init ==
  /\ mode \in Modes
  /\ sqes = [s \in 0 .. SqEntries - 1 |-> NoOp]
  /\ khead = 0 /\ ktail = 0 /\ utail = 0 /\ sqe_tail = 0
  /\ written = 0 /\ dirty = FALSE /\ left = 0
  /\ needWakeup = FALSE
  /\ sys = InUser
  /\ inflight = {}
  /\ cqes = [s \in 0 .. CqEntries - 1 |-> NoOp]
  /\ chead = 0 /\ ctail = 0
  /\ batch = <<>>

-----------------------------------------------------------------------------
(* The submitting thread.                                                   *)

\* sqes().get_mut(written), filled in by the caller.
WriteSqe(o) ==
  /\ sys.at = "user"
  /\ written < FreeSqes
  /\ LeaveGap => Used + written + 1 < SqEntries
  /\ sqes' = [sqes EXCEPT ![Slot(utail, written, SqEntries)] = o]
  /\ written' = written + 1
  /\ UNCHANGED <<mode, khead, ktail, utail, sqe_tail, dirty, left, needWakeup, sys, inflight, cqVars>>

\* advance(written): a release store of the tail.
SqAdvance ==
  /\ sys.at = "user"
  /\ written > 0
  /\ utail' = Add32(utail, written)
  /\ ktail' = IF mode.buffered THEN ktail ELSE utail'
  /\ written' = 0
  /\ dirty' = TRUE
  /\ UNCHANGED <<mode, sqes, khead, sqe_tail, left, needWakeup, sys, inflight, cqVars>>

\* The store of the tail leaves the store buffer.
StoreVisible ==
  /\ ktail # utail
  /\ ktail' = utail
  /\ UNCHANGED <<mode, sqes, khead, utail, sqe_tail, written, dirty, left, needWakeup, sys, inflight, cqVars>>

\* Seeded faults: the wakeup flag is not looked at; one SQE is not enough.
BadEnterFlags(submitted) == ~mode.sqpoll /\ submitted > 0
BadEnterFlagsOne(submitted) == IF mode.sqpoll THEN needWakeup ELSE submitted > 1

\* enter_flags: is a system call needed to have the queue looked at?
EnterFlags(submitted) == IF mode.sqpoll THEN needWakeup ELSE submitted > 0

\* The wakeup flag is read while the store of the tail is still on its way, so
\* the kernel thread may yet look at the old tail and sleep.
ReadEarly == mode.sqpoll /\ ~needWakeup /\ ktail # utail

\* submit_and_wait up to the system call.
SubmitAndWait(wait_for) ==
  /\ sys.at = "user"
  /\ LET submitted == Sub32(utail, sqe_tail)
         enter == wait_for > 0 \/ EnterFlags(submitted) IN
     /\ sys' = IF enter
               THEN [at |-> "enter", want |-> submitted, wait |-> wait_for,
                     wake |-> mode.sqpoll /\ needWakeup, late |-> ReadEarly]
               ELSE sys
     /\ sqe_tail' = IF enter THEN sqe_tail ELSE utail
     /\ dirty' = IF enter THEN dirty ELSE ReadEarly
  /\ UNCHANGED <<mode, sqes, khead, ktail, utail, written, left, needWakeup, inflight, cqVars>>

\* Seeded fault: the submitted position moves although the call failed.
BadEnterFails ==
  /\ sys.at = "enter" /\ sys.want > 0 /\ ~mode.sqpoll
  /\ sys' = InUser
  /\ sqe_tail' = utail
  /\ dirty' = FALSE
  /\ ktail' = utail
  /\ UNCHANGED <<mode, sqes, khead, utail, written, left, needWakeup, inflight, cqVars>>

\* io_uring_enter fails (EAGAIN, EBUSY): nothing was taken, `?` returns.
EnterFails ==
  /\ sys.at = "enter" /\ sys.want > 0 /\ ~mode.sqpoll
  /\ sys' = InUser
  /\ ktail' = utail
  /\ UNCHANGED <<mode, sqes, khead, utail, sqe_tail, written, dirty, left, needWakeup, inflight, cqVars>>

\* io_uring_enter has returned Ok: its count is ignored, the whole queue is
\* taken to be submitted.
EnterReturns ==
  /\ sys.at = "wait"
  /\ CqCount >= sys.wait
  /\ sys' = InUser
  /\ sqe_tail' = utail
  /\ dirty' = sys.late
  /\ UNCHANGED <<mode, sqes, khead, ktail, utail, written, left, needWakeup, inflight, cqVars>>

-----------------------------------------------------------------------------
(* The kernel (external).                                                   *)

KernelTakes(n) ==
  /\ khead' = Add32(khead, n)
  /\ inflight' = inflight \cup {SqContents[i] : i \in 1 .. n}

\* Inside io_uring_enter the kernel takes what it is offered; having taken
\* less it does not wait for completions.
EnterTakes ==
  /\ sys.at = "enter" /\ ~mode.sqpoll
  /\ LET offered == IF sys.want < Used THEN sys.want ELSE Used IN
     \E n \in IF mode.short /\ offered > 0 THEN 1 .. offered ELSE {offered} :
       /\ KernelTakes(n)
       /\ left' = left + sys.want - n
       /\ sys' = [sys EXCEPT !.at = "wait", !.wait = IF n < sys.want THEN 0 ELSE @]
  /\ ktail' = utail
  /\ UNCHANGED <<mode, sqes, utail, sqe_tail, written, dirty, needWakeup, cqVars>>

\* With SQPOLL the call only wakes the kernel thread (and may wait).
EnterWakes ==
  /\ sys.at = "enter" /\ mode.sqpoll
  /\ needWakeup' = (needWakeup /\ ~sys.wake)
  /\ sys' = [sys EXCEPT !.at = "wait"]
  /\ ktail' = utail
  /\ UNCHANGED <<mode, sqes, khead, utail, sqe_tail, written, dirty, left, inflight, cqVars>>

PollTakes ==
  /\ mode.sqpoll /\ ~needWakeup /\ khead # ktail
  /\ KernelTakes(1)
  /\ UNCHANGED <<mode, sqes, ktail, utail, sqe_tail, written, dirty, left, needWakeup, sys, cqVars>>

\* The SQPOLL thread sets the flag, looks at the tail once more and sleeps.
PollSleeps ==
  /\ mode.sqpoll /\ ~needWakeup /\ khead = ktail
  /\ needWakeup' = TRUE
  /\ UNCHANGED <<mode, sqes, khead, ktail, utail, sqe_tail, written, dirty, left, sys, inflight, cqVars>>

\* A completion is posted when there is room; until then it is backlogged.
Post(o) ==
  /\ o \in inflight
  /\ CqCount < CqEntries
  /\ cqes' = [cqes EXCEPT ![Slot(ctail, 0, CqEntries)] = o]
  /\ ctail' = Add32(ctail, 1)
  /\ inflight' = inflight \ {o}
  /\ UNCHANGED <<sqVars, chead, batch>>

-----------------------------------------------------------------------------
(* The completing thread.                                                   *)

\* available(), iterated over.
Available ==
  /\ batch = <<>> /\ CqCount > 0
  /\ batch' = IntoIter(cqes, chead % CqEntries, Sub32(ctail, chead), CqEntries)
  /\ UNCHANGED <<sqVars, inflight, cqes, chead, ctail>>

\* Seeded fault: everything posted by now is given back, read or not.
BadCqAdvance ==
  /\ batch # <<>>
  /\ chead' = ctail
  /\ batch' = <<>>
  /\ UNCHANGED <<sqVars, inflight, cqes, ctail>>

\* advance(count) with the length read before the loop.
CqAdvance ==
  /\ batch # <<>>
  /\ chead' = Add32(chead, Len(batch))
  /\ batch' = <<>>
  /\ UNCHANGED <<sqVars, inflight, cqes, ctail>>

-----------------------------------------------------------------------------
Next ==
  \/ \E o \in Idle : WriteSqe(o)
  \/ SqAdvance
  \/ StoreVisible
  \/ \E w \in {0, 1} : SubmitAndWait(w)
  \/ EnterFails
  \/ EnterTakes
  \/ EnterWakes
  \/ EnterReturns
  \/ PollTakes
  \/ PollSleeps
  \/ \E o \in Ops : Post(o)
  \/ Available
  \/ CqAdvance

Spec == Init /\ [][Next]_vars

-----------------------------------------------------------------------------
\* free_sqes() is the number of slots the program may write ("Get the number
\* of available SQEs within the queue").  It holds only while the ring is never
\* filled: a full ring and an empty one have the same distance.
FreeSqesExact == FreeSqes = SqEntries - Used

\* The rings behave as two queues: no request is overwritten, reordered or
\* taken twice, no completion is skipped or read after it was given back,
\* across any number of wraps of the u32 cursors, and the two slices of the
\* RingBuf iterator yield the completions in posting order.
Fifo == INSTANCE UringFifo WITH sq <- SqContents, cq <- CqContents
ImplementsFifo == Fifo!Spec

\* "Submit all events in the queue": once submit_and_wait has returned Ok the
\* kernel has taken everything that was in the queue, whatever calls failed
\* before, but for as many requests as it was offered and did not take.  (The
\* code ignores how many io_uring_enter reports as taken and never offers the
\* rest again.)
SubmittedIsTaken == ~mode.sqpoll /\ ~dirty => utail = Add32(khead, left)

\* With SQPOLL a submitted request is left in the ring with the kernel thread
\* asleep and nobody about to wake it in one way only: the call that should
\* have woken the thread read the flag before its store of the tail was
\* visible.  (Nothing in the code orders the two, so a processor with a store
\* buffer may do so.)
NoSleepingBacklog ==
  mode.sqpoll /\ sys.at # "enter" /\ ~dirty /\ khead # utail => ~needWakeup
=============================================================================
