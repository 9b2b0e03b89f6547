---------------------------- MODULE IoUringProofs ----------------------------
(***************************************************************************)
(* The rings for every size, every number of requests and every width of   *)
(* the cursors; then the life of a ring: what the queues were proved to do *)
(* they do between with_params and the drop, and with_params and the drop  *)
(* set up and take down what they should.                                  *)
(***************************************************************************)
EXTENDS IoUring, Integers, FiniteSetTheorems, SequenceTheorems, TLAPS

Cursor == 0 .. U32 - 1

-----------------------------------------------------------------------------
(* Wrapping arithmetic.                                                     *)

\* Below twice the divisor the remainder is a comparison and a subtraction.
LEMMA ModOnce ==
  ASSUME NEW N \in Nat \ {0}, NEW a \in Nat, a < 2 * N
  PROVE  a % N = IF a < N THEN a ELSE a - N
<1>1. CASE a < N
  BY <1>1
<1>2. CASE a >= N
  <2>1. a % N = a - N
    BY <1>2
  <2> QED BY <1>2, <2>1
<1> QED BY <1>1, <1>2

\* Division with remainder.
LEMMA ModQuotient ==
  ASSUME NEW N \in Nat \ {0}, NEW a \in Int
  PROVE  a % N \in 0 .. N - 1 /\ \E q \in Int : a = N * q + (a % N)
<1>1. a % N \in 0 .. N - 1
  OBVIOUS
<1>2. a \div N \in Int
  OBVIOUS
<1>3. a = N * (a \div N) + (a % N)
  OBVIOUS
<1> QED BY <1>1, <1>2, <1>3

\* The remainder is unique.
LEMMA ModUnique ==
  ASSUME NEW N \in Nat \ {0}, NEW a \in Int, NEW q \in Int, NEW r \in 0 .. N - 1,
         a = N * q + r
  PROVE  a % N = r
OBVIOUS

\* Adding a multiple of the divisor does not change the remainder.
LEMMA ModShift ==
  ASSUME NEW N \in Nat \ {0}, NEW a \in Int, NEW k \in Int
  PROVE  (a + N * k) % N = a % N
<1>1. PICK q \in Int : a = N * q + (a % N)
  BY ModQuotient
<1>2. a % N \in 0 .. N - 1
  BY ModQuotient
<1>3. q + k \in Int /\ a + N * k = N * (q + k) + (a % N)
  BY <1>1, <1>2
<1>4. a + N * k \in Int
  OBVIOUS
<1> QED BY <1>2, <1>3, <1>4, ModUnique

\* Numbers less than N apart have the same remainder only if they are equal.
LEMMA ModApart ==
  ASSUME NEW N \in Nat \ {0}, NEW a \in Int, NEW d \in 1 .. N - 1
  PROVE  (a + d) % N # a % N
<1>1. PICK q \in Int : a = N * q + (a % N)
  BY ModQuotient
<1>2. PICK p \in Int : a + d = N * p + ((a + d) % N)
  <2>1. a + d \in Int
    OBVIOUS
  <2> QED BY <2>1, ModQuotient
<1>3. a % N \in 0 .. N - 1
  BY ModQuotient
<1>4. SUFFICES ASSUME (a + d) % N = a % N PROVE FALSE
  OBVIOUS
<1>5. d = N * (p - q) /\ p - q \in Int
  BY <1>1, <1>2, <1>3, <1>4
<1>6. CASE p - q <= 0
  BY <1>5, <1>6
<1>7. CASE p - q >= 1
  BY <1>5, <1>7
<1> QED BY <1>5, <1>6, <1>7

\* Subtraction of cursors.
LEMMA Sub32Value ==
  ASSUME NEW a \in Cursor, NEW b \in Cursor
  PROVE  /\ Sub32(a, b) = IF b <= a THEN a - b ELSE a + U32 - b
         /\ Sub32(a, b) \in Cursor
<1>1. U32 \in Nat \ {0}
  BY QueuesAssumption
<1> DEFINE x == a + U32 - b
<1>2. x \in Nat /\ x < 2 * U32
  BY <1>1 DEF Cursor
<1>3. x % U32 = IF x < U32 THEN x ELSE x - U32
  <2> HIDE DEF x
  <2> QED BY <1>1, <1>2, ModOnce
<1>4. Sub32(a, b) = x % U32
  BY DEF Sub32
<1> QED BY <1>1, <1>3, <1>4 DEF Cursor

\* Addition to a cursor.
LEMMA Add32Value ==
  ASSUME NEW a \in Cursor, NEW n \in 0 .. U32
  PROVE  /\ Add32(a, n) = IF a + n < U32 THEN a + n ELSE a + n - U32
         /\ Add32(a, n) \in Cursor
<1>1. U32 \in Nat \ {0}
  BY QueuesAssumption
<1> DEFINE x == a + n
<1>2. CASE n = U32
  <2>1. a \in Nat /\ a < U32 /\ a + n = U32 * 1 + a
    BY <1>1, <1>2 DEF Cursor
  <2>2. (a + n) % U32 = a
    BY <1>1, <2>1
  <2> QED BY <1>1, <1>2, <2>1, <2>2 DEF Cursor, Add32
<1>3. CASE n < U32
  <2>1. x \in Nat /\ x < 2 * U32
    BY <1>1, <1>3 DEF Cursor
  <2>2. x % U32 = IF x < U32 THEN x ELSE x - U32
    <3> HIDE DEF x
    <3> QED BY <1>1, <2>1, ModOnce
  <2>3. Add32(a, n) = x % U32
    BY DEF Add32
  <2> QED BY <1>1, <1>3, <2>2, <2>3 DEF Cursor
<1> QED BY <1>1, <1>2, <1>3

\* Moving the end of a range makes it longer ...
LEMMA SubOfAdd ==
  ASSUME NEW a \in Cursor, NEW b \in Cursor, NEW n \in Nat, Sub32(a, b) + n < U32
  PROVE  /\ Add32(a, n) \in Cursor
         /\ Sub32(Add32(a, n), b) = Sub32(a, b) + n
<1>1. U32 \in Nat \ {0}
  BY QueuesAssumption
<1>2. n \in 0 .. U32
  BY <1>1, Sub32Value DEF Cursor
<1>3. /\ Add32(a, n) \in Cursor
      /\ Add32(a, n) = IF a + n < U32 THEN a + n ELSE a + n - U32
  BY <1>2, Add32Value
<1>4. Sub32(a, b) = IF b <= a THEN a - b ELSE a + U32 - b
  BY Sub32Value
<1> DEFINE y == Add32(a, n)
<1>5. Sub32(y, b) = IF b <= y THEN y - b ELSE y + U32 - b
  <2> HIDE DEF y
  <2>1. y \in Cursor
    BY <1>3 DEF y
  <2> QED BY <2>1, Sub32Value
<1> QED
  BY <1>1, <1>2, <1>3, <1>4, <1>5 DEF Cursor

\* ... and moving its beginning makes it shorter.
LEMMA SubAddRight ==
  ASSUME NEW a \in Cursor, NEW b \in Cursor, NEW n \in Nat, n <= Sub32(a, b)
  PROVE  /\ Add32(b, n) \in Cursor
         /\ Sub32(a, Add32(b, n)) = Sub32(a, b) - n
<1>1. U32 \in Nat \ {0}
  BY QueuesAssumption
<1>2. n \in 0 .. U32
  BY <1>1, Sub32Value DEF Cursor
<1>3. /\ Add32(b, n) \in Cursor
      /\ Add32(b, n) = IF b + n < U32 THEN b + n ELSE b + n - U32
  BY <1>2, Add32Value
<1>4. Sub32(a, b) = IF b <= a THEN a - b ELSE a + U32 - b
  BY Sub32Value
<1> DEFINE y == Add32(b, n)
<1>5. Sub32(a, y) = IF y <= a THEN a - y ELSE a + U32 - y
  <2> HIDE DEF y
  <2>1. y \in Cursor
    BY <1>3 DEF y
  <2> QED BY <2>1, Sub32Value
<1> QED
  BY <1>1, <1>2, <1>3, <1>4, <1>5 DEF Cursor

\* A range of length zero is empty.
LEMMA SubZero ==
  ASSUME NEW a \in Cursor, NEW b \in Cursor
  PROVE  Sub32(a, b) = 0 <=> a = b
<1>1. U32 \in Nat \ {0}
  BY QueuesAssumption
<1>2. Sub32(a, b) = IF b <= a THEN a - b ELSE a + U32 - b
  BY Sub32Value
<1> QED BY <1>1, <1>2 DEF Cursor

\* The size of a ring divides 2^32.
LEMMA Multiple ==
  ASSUME NEW S \in Nat \ {0}, U32 % S = 0
  PROVE  \E k \in Int : U32 = S * k
<1>1. U32 \in Nat
  BY QueuesAssumption
<1>2. U32 \div S \in Int /\ U32 % S = 0
  BY <1>1
<1>3. U32 = S * (U32 \div S) + (U32 % S)
  BY <1>1
<1>4. U32 = S * (U32 \div S)
  BY <1>1, <1>2, <1>3
<1> QED BY <1>2, <1>4

\* The slots of a ring whose size divides 2^32 do not jump at the wrap.
LEMMA SlotOfAdd ==
  ASSUME NEW S \in Nat \ {0}, U32 % S = 0,
         NEW a \in Cursor, NEW n \in 0 .. U32, NEW i \in Nat
  PROVE  Slot(Add32(a, n), i, S) = Slot(a, n + i, S)
<1>1. U32 \in Nat \ {0}
  BY QueuesAssumption
<1>2. PICK k \in Int : U32 = S * k
  BY Multiple
<1>3. CASE a + n < U32
  BY <1>3, Add32Value DEF Slot, Cursor
<1>4. CASE a + n >= U32
  <2>1. Add32(a, n) = a + n - U32 /\ a \in Nat
    BY <1>1, <1>4, Add32Value DEF Cursor
  <2>2. Add32(a, n) + i \in Int /\ Add32(a, n) + i + S * k = a + (n + i)
    BY <1>1, <1>2, <2>1
  <2>3. (Add32(a, n) + i + S * k) % S = (Add32(a, n) + i) % S
    BY <2>2, ModShift
  <2> QED BY <2>2, <2>3 DEF Slot
<1> QED BY <1>1, <1>3, <1>4 DEF Cursor

\* Positions closer than the size of the ring have slots of their own.
LEMMA SlotsDiffer ==
  ASSUME NEW S \in Nat \ {0}, NEW a \in Cursor, NEW i \in Nat, NEW j \in Nat,
         i < j, j < i + S
  PROVE  Slot(a, i, S) # Slot(a, j, S)
<1>1. a + i \in Int /\ j - i \in 1 .. S - 1 /\ (a + i) + (j - i) = a + j
  BY DEF Cursor
<1>2. ((a + i) + (j - i)) % S # (a + i) % S
  BY <1>1, ModApart
<1> QED BY <1>1, <1>2 DEF Slot

\* Adding the length of a range to its beginning gives its end.
LEMMA AddOfSub ==
  ASSUME NEW a \in Cursor, NEW b \in Cursor
  PROVE  Add32(b, Sub32(a, b)) = a
<1> DEFINE n == Sub32(a, b)
<1>1. n \in Nat
  BY QueuesAssumption, Sub32Value DEF Cursor
<1>2. Add32(b, n) \in Cursor /\ Sub32(a, Add32(b, n)) = n - n
  BY <1>1, SubAddRight
<1> QED BY <1>1, <1>2, SubZero

-----------------------------------------------------------------------------
(* What submit_and_wait promises.  None of this depends on how full the    *)
(* ring gets.                                                              *)

\* The cursors and the modes have their types.
CursorType ==
  /\ mode \in [sqpoll : BOOLEAN, short : BOOLEAN, buffered : BOOLEAN]
  /\ {khead, ktail, utail, sqe_tail} \subseteq Cursor
  /\ written \in Nat
  /\ left \in Nat
  /\ sys \in [at : {"user", "enter", "wait"}, want : Cursor, wait : {0, 1},
              wake : BOOLEAN, late : BOOLEAN]

\* sqe_tail is where the kernel will find the requests that were not offered to
\* it yet: the call in progress offers all of them, and before them in the ring
\* are those it was offered and did not take.
SubmitInv ==
  /\ sys.at = "enter" => sys.want = Sub32(utail, sqe_tail)
  /\ ~mode.sqpoll => ~sys.late
  /\ ~mode.sqpoll /\ ~dirty => utail = sqe_tail
  /\ ~mode.sqpoll => Add32(khead, left) = IF sys.at = "wait" THEN utail ELSE sqe_tail

\* While the kernel thread sleeps on requests, or its idea of the tail is old so
\* that it may go to sleep on some, either it is about to be woken, or the
\* program has not submitted yet, or it has with the tail still on its way.
WakeInv ==
  mode.sqpoll =>
    /\ sys.at = "wait" => ktail = utail
    /\ sys.late => sys.at # "user" /\ dirty
    /\ (needWakeup /\ khead # utail) \/ ktail # utail =>
         CASE sys.at = "user"  -> dirty
           [] sys.at = "enter" -> sys.wake \/ sys.late
           [] sys.at = "wait"  -> sys.late

CallInv == CursorType /\ SubmitInv /\ WakeInv

\* The steps in which no cursor moves and no call begins or ends.
LEMMA CallInvQuiet ==
  ASSUME CallInv,
         UNCHANGED <<mode, khead, ktail, utail, sqe_tail, dirty, left, needWakeup, sys>>,
         written' \in Nat
  PROVE  CallInv'
BY DEF CallInv, CursorType, SubmitInv, WakeInv

\* A cursor stays a cursor.
LEMMA Add32Cursor ==
  ASSUME NEW a \in Cursor, NEW n \in Nat
  PROVE  Add32(a, n) \in Cursor
<1>1. U32 \in Nat \ {0}
  BY QueuesAssumption
<1>2. a + n \in Int
  BY <1>1 DEF Cursor
<1>3. (a + n) % U32 \in 0 .. U32 - 1
  BY <1>1, <1>2, ModQuotient
<1> QED BY <1>3 DEF Add32, Cursor

\* Two additions are one.
LEMMA Add32Twice ==
  ASSUME NEW a \in Int, NEW n \in Int, NEW m \in Int
  PROVE  Add32(Add32(a, n), m) = Add32(a, n + m)
<1>1. U32 \in Nat \ {0}
  BY QueuesAssumption
<1> DEFINE x == (a + n) % U32
<1>2. PICK q \in Int : a + n = U32 * q + x
  <2>1. a + n \in Int
    OBVIOUS
  <2> QED BY <1>1, <2>1, ModQuotient
<1>3. x \in Int
  BY <1>1
<1> HIDE DEF x
<1>4. (x + m) + U32 * q = a + (n + m) /\ x + m \in Int
  BY <1>1, <1>2, <1>3
<1>5. ((x + m) + U32 * q) % U32 = (x + m) % U32
  BY <1>1, <1>4, ModShift
<1> QED BY <1>4, <1>5 DEF Add32, x

\* The steps of the submitting thread.
LEMMA CallInvThread ==
  ASSUME CallInv, \/ SqAdvance
                  \/ \E w \in {0, 1} : SubmitAndWait(w)
                  \/ EnterReturns
  PROVE  CallInv'
<1> USE DEF CallInv
<1>1. CASE SqAdvance
  <2>1. utail' \in Cursor
    BY <1>1, Add32Cursor DEF SqAdvance, CursorType
  <2>2. CursorType'
    BY <1>1, <2>1 DEF SqAdvance, CursorType
  <2> QED
    BY <1>1, <2>2 DEF SqAdvance, SubmitInv, WakeInv
<1>2. ASSUME NEW w \in {0, 1}, SubmitAndWait(w)
      PROVE  CallInv'
  <2> DEFINE submitted == Sub32(utail, sqe_tail)
             enter == w > 0 \/ EnterFlags(submitted)
  <2>1. submitted \in Cursor /\ (submitted = 0 <=> utail = sqe_tail)
    BY Sub32Value, SubZero DEF CursorType
  <2>2. CASE enter
    <3>1. /\ sys' = [at |-> "enter", want |-> submitted, wait |-> w,
                     wake |-> mode.sqpoll /\ needWakeup, late |-> ReadEarly]
          /\ sqe_tail' = sqe_tail /\ dirty' = dirty
          /\ sys.at = "user"
          /\ UNCHANGED <<mode, khead, ktail, utail, written, left, needWakeup>>
      BY <1>2, <2>2 DEF SubmitAndWait
    <3>2. CursorType'
      BY <2>1, <3>1 DEF CursorType, ReadEarly
    <3>3. SubmitInv'
      BY <3>1 DEF SubmitInv, ReadEarly
    <3>4. WakeInv'
      BY <3>1 DEF WakeInv, ReadEarly
    <3> QED BY <3>2, <3>3, <3>4
  <2>3. CASE ~enter
    <3>1. /\ sqe_tail' = utail /\ dirty' = ReadEarly /\ sys.at = "user"
          /\ UNCHANGED <<mode, khead, ktail, utail, written, left, needWakeup, sys>>
      BY <1>2, <2>3 DEF SubmitAndWait
    <3>2. ~EnterFlags(submitted)
      BY <2>3
    <3>3. IF mode.sqpoll THEN ~needWakeup ELSE submitted = 0
      BY <2>1, <3>2, QueuesAssumption DEF EnterFlags, Cursor
    <3>4. CursorType'
      BY <3>1 DEF CursorType
    <3>5. SubmitInv'
      BY <2>1, <3>1, <3>3 DEF SubmitInv
    <3>6. WakeInv'
      BY <3>1, <3>3 DEF WakeInv, ReadEarly
    <3> QED BY <3>4, <3>5, <3>6
  <2> QED BY <2>2, <2>3
<1>3. CASE EnterReturns
  <2>1. CursorType'
    BY <1>3, QueuesAssumption DEF EnterReturns, CursorType, InUser, Cursor
  <2>2. SubmitInv' /\ WakeInv'
    BY <1>3 DEF EnterReturns, SubmitInv, WakeInv, InUser
  <2> QED BY <2>1, <2>2
<1> QED
  BY <1>1, <1>2, <1>3

\* The steps of the kernel and of the processor.
LEMMA CallInvKernel ==
  ASSUME CallInv, \/ EnterFails \/ EnterTakes \/ EnterWakes
                  \/ PollTakes \/ PollSleeps \/ StoreVisible
  PROVE  CallInv'
<1> USE DEF CallInv
<1>1. CASE EnterFails
  <2>1. CursorType'
    BY <1>1, QueuesAssumption DEF EnterFails, CursorType, InUser, Cursor
  <2>2. SubmitInv' /\ WakeInv'
    BY <1>1 DEF EnterFails, SubmitInv, WakeInv, InUser
  <2> QED BY <2>1, <2>2
<1>2. CASE EnterTakes
  <2> DEFINE offered == IF sys.want < Used THEN sys.want ELSE Used
  <2>1. Used \in Cursor /\ sys.want \in Cursor /\ offered \in Nat
    BY Sub32Value, QueuesAssumption DEF Used, CursorType, Cursor
  <2> HIDE DEF offered
  <2>2. PICK n \in IF mode.short /\ offered > 0 THEN 1 .. offered ELSE {offered} :
          /\ KernelTakes(n)
          /\ left' = left + sys.want - n
          /\ sys' = [sys EXCEPT !.at = "wait", !.wait = IF n < sys.want THEN 0 ELSE @]
    BY <1>2 DEF EnterTakes, offered
  <2>3. n \in Nat /\ n <= sys.want /\ khead' = Add32(khead, n)
    BY <2>1, <2>2 DEF KernelTakes, offered, Cursor
  <2>4. /\ sys.at = "enter" /\ ~mode.sqpoll /\ ktail' = utail
        /\ UNCHANGED <<mode, utail, sqe_tail, written, dirty, needWakeup>>
    BY <1>2 DEF EnterTakes
  <2>5. CursorType'
    <3>1. khead' \in Cursor
      BY <2>3, Add32Cursor DEF CursorType
    <3>2. left' \in Nat
      BY <2>1, <2>2, <2>3 DEF CursorType, Cursor
    <3> QED BY <2>2, <2>4, <3>1, <3>2 DEF CursorType
  <2>6. Add32(khead', left') = utail
    <3>1. Add32(khead, left) = sqe_tail /\ sys.want = Sub32(utail, sqe_tail)
      BY <2>4 DEF SubmitInv
    <3>2. Add32(sqe_tail, sys.want) = utail
      BY <3>1, AddOfSub DEF CursorType
    <3>3. khead \in Int /\ left \in Int /\ sys.want \in Int /\ n \in Int
      BY <2>1, <2>3, QueuesAssumption DEF CursorType, Cursor
    <3>4. Add32(khead', left') = Add32(khead, n + left')
      BY <2>2, <2>3, <3>3, Add32Twice
    <3>5. Add32(Add32(khead, left), sys.want) = Add32(khead, left + sys.want)
      BY <3>3, Add32Twice
    <3>6. n + left' = left + sys.want
      BY <2>2, <3>3
    <3> QED BY <3>1, <3>2, <3>4, <3>5, <3>6
  <2>7. sys'.at = "wait" /\ sys'.late = sys.late
    BY <2>2 DEF CursorType
  <2>8. SubmitInv' /\ WakeInv'
    BY <2>4, <2>6, <2>7 DEF SubmitInv, WakeInv
  <2> QED BY <2>5, <2>8
<1>3. CASE EnterWakes
  <2>1. CursorType'
    BY <1>3 DEF EnterWakes, CursorType
  <2>2. SubmitInv'
    BY <1>3 DEF EnterWakes, CursorType, SubmitInv
  <2>3. WakeInv'
    BY <1>3 DEF EnterWakes, CursorType, WakeInv
  <2> QED BY <2>1, <2>2, <2>3
<1>4. CASE PollTakes
  <2>1. khead' \in Cursor
    BY <1>4, Add32Cursor DEF PollTakes, KernelTakes, CursorType
  <2>2. CursorType'
    BY <1>4, <2>1 DEF PollTakes, CursorType
  <2> QED
    BY <1>4, <2>2 DEF PollTakes, SubmitInv, WakeInv
<1>5. CASE PollSleeps
  BY <1>5 DEF PollSleeps, CursorType, SubmitInv, WakeInv
<1>6. CASE StoreVisible
  BY <1>6 DEF StoreVisible, CursorType, SubmitInv, WakeInv
<1> QED
  BY <1>1, <1>2, <1>3, <1>4, <1>5, <1>6

\* Every step keeps the invariant of the system call.
LEMMA CallInvStep ==
  ASSUME CallInv, [Next]_vars
  PROVE  CallInv'
<1>1. CASE \E o \in Idle : WriteSqe(o)
  BY <1>1, CallInvQuiet DEF WriteSqe, CallInv, CursorType
<1>2. CASE SqAdvance \/ (\E w \in {0, 1} : SubmitAndWait(w)) \/ EnterReturns
  BY <1>2, CallInvThread
<1>3. CASE \/ EnterFails \/ EnterTakes \/ EnterWakes
           \/ PollTakes \/ PollSleeps \/ StoreVisible
  BY <1>3, CallInvKernel
<1>4. CASE (\E o \in Ops : Post(o)) \/ Available \/ CqAdvance \/ UNCHANGED vars
  BY <1>4, CallInvQuiet DEF Post, Available, CqAdvance, vars, sqVars, CallInv, CursorType
<1> QED
  BY <1>1, <1>2, <1>3, <1>4 DEF Next

\* It holds of the empty rings.
LEMMA CallInvInit == Init => CallInv
<1>1. Add32(0, 0) = 0
  BY QueuesAssumption DEF Add32
<1> QED
  BY <1>1, QueuesAssumption DEF Init, CallInv, CursorType, SubmitInv, WakeInv, InUser, Cursor

\* The invariant of the system call, in every reachable state.
THEOREM CallInvariance == Spec => []CallInv
BY CallInvInit, CallInvStep, PTL DEF Spec

\* "Submit all events in the queue": whatever calls failed before, a call that
\* has returned Ok leaves in the queue only as many requests as the kernel was
\* offered and did not take.
THEOREM SubmitTakesAll == Spec => []SubmittedIsTaken
<1>1. CallInv => SubmittedIsTaken
  BY DEF CallInv, SubmitInv, SubmittedIsTaken
<1> QED BY <1>1, CallInvariance, PTL

\* With SQPOLL a submitted request is left behind a sleeping kernel thread only
\* if the wakeup flag was read before the store of the tail was visible, on
\* every processor.
THEOREM NoBacklogAsleep == Spec => []NoSleepingBacklog
<1>1. CallInv => NoSleepingBacklog
  BY DEF CallInv, CursorType, WakeInv, NoSleepingBacklog
<1> QED BY <1>1, CallInvariance, PTL

-----------------------------------------------------------------------------
(* The rings as queues.  From here on a slot is left free.                 *)

\* The i-th entry after the head, counted from 0.
SqAt(i) == sqes[Slot(khead, i, SqEntries)]
CqAt(i) == cqes[Slot(chead, i, CqEntries)]

\* Positions that hold a request, the prepared ones included, or a completion.
SqPos == 0 .. Used + written - 1
CqPos == 0 .. CqCount - 1

RingType ==
  /\ sqes \in [0 .. SqEntries - 1 -> Ops \cup {NoOp}]
  /\ cqes \in [0 .. CqEntries - 1 -> Ops \cup {NoOp}]
  /\ chead \in Cursor /\ ctail \in Cursor
  /\ inflight \subseteq Ops
  /\ batch \in Seq(Ops)

\* How far the cursors are apart.
CountInv ==
  /\ Used + written < SqEntries
  /\ Sub32(ktail, khead) <= Used
  /\ CqCount <= CqEntries
  /\ Len(batch) <= CqCount

\* A request is in one place only.
PlaceInv ==
  /\ \A i \in SqPos : SqAt(i) \in Ops \ inflight
  /\ \A i, j \in SqPos : i # j => SqAt(i) # SqAt(j)
  /\ \A i \in CqPos : CqAt(i) \in Ops \ inflight
  /\ \A i, j \in CqPos : i # j => CqAt(i) # CqAt(j)
  /\ \A i \in SqPos, j \in CqPos : SqAt(i) # CqAt(j)

QueueInv == CallInv /\ RingType /\ CountInv /\ PlaceInv

\* Sizes and lengths are numbers.
LEMMA Numbers ==
  ASSUME CursorType, RingType
  PROVE  /\ U32 \in Nat /\ SqEntries \in Nat \ {0} /\ CqEntries \in Nat \ {0}
         /\ SqEntries < U32 /\ CqEntries < U32
         /\ U32 % SqEntries = 0 /\ U32 % CqEntries = 0
         /\ Used \in Nat /\ CqCount \in Nat /\ Sub32(ktail, khead) \in Nat
         /\ Used < U32 /\ CqCount < U32
         /\ written \in Nat /\ Len(batch) \in Nat
<1>1. Used \in Cursor /\ CqCount \in Cursor /\ Sub32(ktail, khead) \in Cursor
  BY Sub32Value DEF CursorType, RingType, Used, CqCount
<1>2. written \in Nat /\ Len(batch) \in Nat
  BY DEF CursorType, RingType
<1>3. /\ U32 \in Nat /\ SqEntries \in Nat \ {0} /\ CqEntries \in Nat \ {0}
      /\ U32 >= 2 * SqEntries /\ U32 >= 2 * CqEntries
      /\ U32 % SqEntries = 0 /\ U32 % CqEntries = 0
  BY QueuesAssumption
<1>4. SqEntries < U32 /\ CqEntries < U32
  BY <1>3
<1>5. Used \in Nat /\ CqCount \in Nat /\ Sub32(ktail, khead) \in Nat
      /\ Used < U32 /\ CqCount < U32
  BY <1>1, <1>3 DEF Cursor
<1> QED
  BY <1>2, <1>3, <1>4, <1>5, Zenon

\* What lies behind the tail of a ring, seen from its head.
LEMMA BehindTail ==
  ASSUME CursorType, RingType, NEW i \in Nat
  PROVE  /\ Slot(utail, i, SqEntries) = Slot(khead, Used + i, SqEntries)
         /\ Slot(ctail, i, CqEntries) = Slot(chead, CqCount + i, CqEntries)
<1>1. utail = Add32(khead, Used) /\ ctail = Add32(chead, CqCount)
  BY AddOfSub DEF CursorType, RingType, Used, CqCount
<1>2. Used \in 0 .. U32 /\ CqCount \in 0 .. U32
  BY Numbers
<1>3. khead \in Cursor /\ chead \in Cursor
  BY DEF CursorType, RingType
<1>4. Slot(Add32(khead, Used), i, SqEntries) = Slot(khead, Used + i, SqEntries)
  BY <1>2, <1>3, Numbers, SlotOfAdd
<1>5. Slot(Add32(chead, CqCount), i, CqEntries) = Slot(chead, CqCount + i, CqEntries)
  BY <1>2, <1>3, Numbers, SlotOfAdd
<1> QED
  BY <1>1, <1>4, <1>5, Zenon

\* A slot is an index of its ring.
LEMMA SlotInRange ==
  ASSUME NEW S \in Nat \ {0}, NEW a \in Cursor, NEW i \in Nat
  PROVE  Slot(a, i, S) \in 0 .. S - 1
<1>1. a + i \in Int
  BY QueuesAssumption DEF Cursor
<1> QED BY <1>1, ModQuotient DEF Slot

\* The contents of the rings are sequences of what is between the cursors.
LEMMA ContentsAt ==
  ASSUME CursorType, RingType
  PROVE  /\ DOMAIN SqContents = 1 .. Used /\ DOMAIN CqContents = 1 .. CqCount
         /\ \A i \in 1 .. Used : SqContents[i] = SqAt(i - 1)
         /\ \A i \in 1 .. CqCount : CqContents[i] = CqAt(i - 1)
         /\ \A i \in 0 .. Used - 1 : SqContents[i + 1] = SqAt(i)
         /\ \A i \in 0 .. CqCount - 1 : CqContents[i + 1] = CqAt(i)
<1>1. /\ DOMAIN SqContents = 1 .. Used /\ DOMAIN CqContents = 1 .. CqCount
      /\ \A i \in 1 .. Used : SqContents[i] = SqAt(i - 1)
      /\ \A i \in 1 .. CqCount : CqContents[i] = CqAt(i - 1)
  BY DEF SqContents, CqContents, SqAt, CqAt
<1>2. ASSUME NEW i \in 0 .. Used - 1
      PROVE  SqContents[i + 1] = SqAt(i)
  <2>1. i + 1 \in 1 .. Used /\ (i + 1) - 1 = i
    BY Numbers
  <2> QED BY <2>1 DEF SqContents, SqAt
<1>3. ASSUME NEW i \in 0 .. CqCount - 1
      PROVE  CqContents[i + 1] = CqAt(i)
  <2>1. i + 1 \in 1 .. CqCount /\ (i + 1) - 1 = i
    BY Numbers
  <2> QED BY <2>1 DEF CqContents, CqAt
<1> QED BY <1>1, <1>2, <1>3

\* A request that is not in use is nowhere in the rings.
LEMMA IdleIsNowhere ==
  ASSUME CursorType, RingType, NEW o \in Idle
  PROVE  /\ o \in Ops \ inflight
         /\ \A i \in SqPos : SqAt(i) # o
         /\ \A i \in CqPos : CqAt(i) # o
<1> USE Numbers
<1>1. /\ o \in Ops \ inflight
      /\ o \notin ToSet(SqContents) /\ o \notin Prepared /\ o \notin ToSet(CqContents)
  BY DEF Idle
<1>2. ASSUME NEW i \in CqPos PROVE CqAt(i) # o
  <2>1. i + 1 \in 1 .. CqCount /\ i \in 0 .. CqCount - 1
    BY DEF CqPos
  <2>2. CqContents[i + 1] = CqAt(i) /\ i + 1 \in DOMAIN CqContents
    BY <2>1, ContentsAt
  <2> QED BY <1>1, <2>2 DEF ToSet
<1>3. ASSUME NEW i \in SqPos PROVE SqAt(i) # o
  <2>1. CASE i < Used
    <3>1. i + 1 \in 1 .. Used /\ i \in 0 .. Used - 1
      BY <2>1 DEF SqPos
    <3>2. SqContents[i + 1] = SqAt(i) /\ i + 1 \in DOMAIN SqContents
      BY <3>1, ContentsAt
    <3> QED BY <1>1, <3>2 DEF ToSet
  <2>2. CASE i >= Used
    <3>1. i - Used \in 0 .. written - 1 /\ i - Used \in Nat /\ Used + (i - Used) = i
      BY <2>2 DEF SqPos
    <3>2. Slot(utail, i - Used, SqEntries) = Slot(khead, i, SqEntries)
      BY <3>1, BehindTail
    <3>3. SqAt(i) \in Prepared
      BY <3>1, <3>2 DEF SqAt, Prepared
    <3> QED BY <1>1, <3>3
  <2> QED BY <2>1, <2>2 DEF SqPos
<1> QED BY <1>1, <1>2, <1>3

\* Adding to a remainder.
LEMMA ModAdd ==
  ASSUME NEW S \in Nat \ {0}, NEW a \in Nat, NEW u \in Nat
  PROVE  (a + u) % S = ((a % S) + u) % S
<1> DEFINE h == a % S
<1>1. PICK q \in Int : a = S * q + h
  <2>1. a \in Int
    OBVIOUS
  <2> QED BY <2>1, ModQuotient, Zenon
<1>2. h \in Nat
  <2>1. a % S \in 0 .. S - 1
    BY ModQuotient
  <2> QED BY <2>1
<1> HIDE DEF h
<1>3. h + u \in Int /\ S * q \in Int
  BY <1>2
<1>4. a + u = (h + u) + S * q
  BY <1>1, <1>2, <1>3
<1>5. ((h + u) + S * q) % S = (h + u) % S
  BY <1>3, ModShift
<1> QED BY <1>4, <1>5 DEF h

\* From the slot u slots behind h it is S - u slots back to h.
LEMMA WayBack ==
  ASSUME NEW S \in Nat \ {0}, U32 % S = 0, U32 >= 2 * S,
         NEW h \in 0 .. S - 1, NEW u \in 1 .. S - 1
  PROVE  Sub32(h, (h + u) % S) % S = S - u
<1>1. U32 \in Nat \ {0}
  BY QueuesAssumption
<1> DEFINE x == h + u
           t == x % S
<1>2. x \in Nat /\ x < 2 * S
  OBVIOUS
<1>3. t = IF x < S THEN x ELSE x - S
  <2> HIDE DEF x
  <2> QED BY <1>2, ModOnce
<1> HIDE DEF t
<1>4. h \in Cursor /\ t \in Cursor
  BY <1>1, <1>3 DEF Cursor
<1>5. Sub32(h, t) = IF t <= h THEN h - t ELSE h + U32 - t
  BY <1>4, Sub32Value
<1>6. CASE x < S
  <2>1. Sub32(h, t) = U32 - u
    BY <1>1, <1>3, <1>5, <1>6
  <2>2. PICK k \in Int : U32 = S * k
    BY Multiple
  <2>3. S * (k - 1) = S * k - S /\ k - 1 \in Int
    OBVIOUS
  <2>4. U32 - u = S * (k - 1) + (S - u)
    BY <1>1, <2>2, <2>3
  <2>5. S - u \in 0 .. S - 1 /\ U32 - u \in Int
    BY <1>1
  <2>6. (U32 - u) % S = S - u
    BY <2>3, <2>4, <2>5, ModUnique
  <2> QED BY <2>1, <2>6 DEF t
<1>7. CASE x >= S
  <2>1. Sub32(h, t) = S - u
    BY <1>1, <1>3, <1>5, <1>7
  <2>2. S - u \in Nat /\ S - u < S
    OBVIOUS
  <2> QED BY <2>1, <2>2 DEF t
<1> QED BY <1>2, <1>6, <1>7

\* free_sqes() counts exactly while a slot is free.
LEMMA FreeIsExact ==
  ASSUME CursorType, RingType, Used < SqEntries
  PROVE  FreeSqesExact
<1> DEFINE h == khead % SqEntries
           t == utail % SqEntries
<1>1. khead \in Cursor /\ utail \in Cursor /\ khead \in Nat /\ utail \in Nat
  BY Numbers DEF CursorType, Cursor
<1>2. SqEntries \in Nat \ {0} /\ Used \in Nat
  BY Numbers
<1>3. h \in 0 .. SqEntries - 1 /\ t \in 0 .. SqEntries - 1
  BY <1>1, <1>2, ModQuotient
<1>4. t = (khead + Used) % SqEntries
  <2>1. Slot(utail, 0, SqEntries) = Slot(khead, Used + 0, SqEntries)
    BY BehindTail
  <2> QED BY <1>1, <1>2, <2>1 DEF Slot
<1>5. FreeSqes = IF h = t THEN SqEntries ELSE Sub32(h, t) % SqEntries
  BY <1>2 DEF FreeSqes, WrappingDist
<1>6. CASE Used = 0
  BY <1>1, <1>2, <1>4, <1>5, <1>6 DEF FreeSqesExact
<1>7. CASE Used # 0
  <2>1. Used \in 1 .. SqEntries - 1
    BY <1>2, <1>7
  <2>2. h # t
    <3>1. khead \in Int
      BY <1>1
    <3>2. (khead + Used) % SqEntries # khead % SqEntries
      BY <1>2, <2>1, <3>1, ModApart, Zenon
    <3> QED BY <1>4, <3>2
  <2>3. t = (h + Used) % SqEntries
    <3>1. (khead + Used) % SqEntries = (h + Used) % SqEntries
      BY <1>1, <1>2, ModAdd
    <3> QED BY <1>4, <3>1
  <2>4. U32 % SqEntries = 0 /\ U32 >= 2 * SqEntries
    BY QueuesAssumption
  <2> HIDE DEF h, t
  <2>5. Sub32(h, (h + Used) % SqEntries) % SqEntries = SqEntries - Used
    BY <1>2, <1>3, <2>1, <2>4, WayBack, Zenon
  <2> QED BY <1>5, <2>2, <2>3, <2>5 DEF FreeSqesExact
<1> QED BY <1>6, <1>7

\* A step that leaves both rings and their contents alone.
LEMMA QuietStep ==
  ASSUME QueueInv, CallInv',
         UNCHANGED <<sqes, khead, utail, written, inflight, cqVars>>,
         ktail' \in {ktail, utail}
  PROVE  QueueInv' /\ UNCHANGED <<SqContents, CqContents>>
<1> USE DEF cqVars, Used, CqCount, SqPos, CqPos, SqAt, CqAt
<1>1. RingType'
  BY DEF QueueInv, RingType
<1>2. CountInv'
  <2>1. Sub32(ktail', khead) <= Used
    <3>1. Used \in Nat
      BY Numbers DEF QueueInv, CallInv
    <3> QED BY <3>1 DEF QueueInv, CountInv
  <2> QED BY <2>1 DEF QueueInv, CountInv
<1>3. PlaceInv'
  BY DEF QueueInv, PlaceInv
<1>4. UNCHANGED <<SqContents, CqContents>>
  BY DEF SqContents, CqContents
<1> QED BY <1>1, <1>2, <1>3, <1>4 DEF QueueInv

\* Preparing an SQE writes a slot that holds nothing.
LEMMA WriteStep ==
  ASSUME QueueInv, LeaveGap, NEW o \in Idle, WriteSqe(o), CallInv'
  PROVE  QueueInv' /\ UNCHANGED <<SqContents, CqContents>>
<1>1. CursorType /\ RingType /\ CountInv /\ PlaceInv
  BY DEF QueueInv, CallInv
<1>2. /\ SqEntries \in Nat \ {0} /\ Used \in Nat /\ written \in Nat /\ khead \in Cursor
  BY <1>1, Numbers DEF CursorType
<1>3. /\ written' = written + 1 /\ Used + written + 1 < SqEntries
      /\ UNCHANGED <<khead, ktail, utail, inflight, cqes, chead, ctail, batch>>
  BY DEF WriteSqe, cqVars
<1>4. Used' = Used /\ CqCount' = CqCount
  BY <1>3 DEF Used, CqCount
<1> DEFINE w == Slot(khead, Used + written, SqEntries)
<1>5. sqes' = [sqes EXCEPT ![w] = o] /\ w \in 0 .. SqEntries - 1
  <2>1. Slot(utail, written, SqEntries) = w
    BY <1>1, <1>2, BehindTail
  <2>2. Used + written \in Nat
    BY <1>2
  <2>3. w \in 0 .. SqEntries - 1
    BY <1>2, <2>2, SlotInRange
  <2> QED BY <2>1, <2>3 DEF WriteSqe
<1>6. ASSUME NEW i \in SqPos PROVE Slot(khead, i, SqEntries) # w /\ Slot(khead, i, SqEntries) \in 0 .. SqEntries - 1
  <2>1. i \in Nat /\ Used + written \in Nat /\ i < Used + written /\ Used + written < i + SqEntries
    BY <1>2, <1>3 DEF SqPos
  <2> QED BY <1>2, <2>1, SlotsDiffer, SlotInRange
<1> HIDE DEF w
<1>7. ASSUME NEW i \in SqPos PROVE SqAt(i)' = SqAt(i)
  <2>1. Slot(khead, i, SqEntries)' = Slot(khead, i, SqEntries)
    BY <1>3 DEF Slot
  <2> QED BY <1>1, <1>5, <1>6, <2>1 DEF SqAt, RingType
<1> DEFINE n == Used + written
<1>8. sqes'[Slot(khead', n, SqEntries)] = o
  BY <1>1, <1>3, <1>5 DEF RingType, w
<1>9. SqPos' = SqPos \cup {Used + written} /\ Used + written \notin SqPos
  BY <1>2, <1>3, <1>4 DEF SqPos
<1>10. CqPos' = CqPos /\ \A i \in CqPos : CqAt(i)' = CqAt(i)
  BY <1>3, <1>4 DEF CqPos, CqAt
<1>11. /\ o \in Ops \ inflight
       /\ \A i \in SqPos : SqAt(i) # o
       /\ \A i \in CqPos : CqAt(i) # o
  BY <1>1, IdleIsNowhere
<1>12. RingType'
  BY <1>1, <1>3, <1>5, <1>11 DEF RingType
<1>13. CountInv'
  BY <1>1, <1>2, <1>3, <1>4 DEF CountInv
<1>14. PlaceInv'
  <2>1. \A i \in SqPos' : SqAt(i)' = IF i = n THEN o ELSE SqAt(i)
    BY <1>7, <1>8, <1>9 DEF SqAt
  <2> HIDE DEF n
  <2> QED BY <1>1, <1>3, <1>9, <1>10, <1>11, <2>1 DEF PlaceInv, n
<1>15. SqContents' = SqContents
  <2>1. SqContents = [i \in 1 .. Used |-> SqAt(i - 1)] /\ SqContents' = [i \in 1 .. Used' |-> SqAt(i - 1)']
    BY DEF SqContents, SqAt
  <2>2. \A i \in 1 .. Used : i - 1 \in SqPos
    BY <1>2 DEF SqPos
  <2> QED BY <1>4, <1>7, <2>1, <2>2
<1>16. CqContents' = CqContents
  BY <1>3, <1>4 DEF CqContents
<1> QED BY <1>12, <1>13, <1>14, <1>15, <1>16 DEF QueueInv

\* The contents are sequences, element by element what SqAt and CqAt give.
LEMMA ContentsAreSeqs ==
  QueueInv =>
    /\ SqContents \in Seq(Ops) /\ Len(SqContents) = Used
    /\ CqContents \in Seq(Ops) /\ Len(CqContents) = CqCount
<1> SUFFICES ASSUME QueueInv
             PROVE  /\ SqContents \in Seq(Ops) /\ Len(SqContents) = Used
                    /\ CqContents \in Seq(Ops) /\ Len(CqContents) = CqCount
  OBVIOUS
<1>1. CursorType /\ RingType /\ PlaceInv
  BY DEF QueueInv, CallInv
<1>2. Used \in Nat /\ CqCount \in Nat /\ written \in Nat
  BY <1>1, Numbers
<1>3. SqContents \in [1 .. Used -> Ops]
  <2>1. SqContents = [i \in 1 .. Used |-> SqAt(i - 1)]
    BY DEF SqContents, SqAt
  <2>2. \A i \in 1 .. Used : i - 1 \in SqPos
    BY <1>2 DEF SqPos
  <2>3. \A i \in 1 .. Used : SqAt(i - 1) \in Ops
    BY <1>1, <2>2 DEF PlaceInv
  <2> QED BY <2>1, <2>3
<1>4. CqContents \in [1 .. CqCount -> Ops]
  <2>1. CqContents = [i \in 1 .. CqCount |-> CqAt(i - 1)]
    BY DEF CqContents, CqAt
  <2>2. \A i \in 1 .. CqCount : i - 1 \in CqPos
    BY <1>2 DEF CqPos
  <2>3. \A i \in 1 .. CqCount : CqAt(i - 1) \in Ops
    BY <1>1, <2>2 DEF PlaceInv
  <2> QED BY <2>1, <2>3
<1>5. SqContents \in Seq(Ops) /\ CqContents \in Seq(Ops)
  BY <1>2, <1>3, <1>4, SeqDef
<1> QED BY <1>2, <1>3, <1>4, <1>5

\* advance queues the prepared requests, which are new to the rings.
LEMMA AdvanceStep ==
  ASSUME QueueInv, SqAdvance, CallInv'
  PROVE  QueueInv' /\ (\E b \in Fifo!Fresh : Fifo!Queue(b))
<1>1. CursorType /\ RingType /\ CountInv /\ PlaceInv
  BY DEF QueueInv, CallInv
<1>2. /\ SqEntries \in Nat \ {0} /\ SqEntries < U32 /\ U32 \in Nat
      /\ Used \in Nat /\ written \in Nat /\ CqCount \in Nat
  BY <1>1, Numbers
<1>3. khead \in Cursor /\ utail \in Cursor
  BY <1>1 DEF CursorType
<1>4. /\ written > 0 /\ written' = 0 /\ utail' = Add32(utail, written)
      /\ ktail' \in {ktail, utail'}
      /\ UNCHANGED <<sqes, khead, inflight, cqes, chead, ctail, batch>>
  BY DEF SqAdvance, cqVars
<1>5. Used' = Used + written /\ CqCount' = CqCount
  <2>1. Sub32(utail, khead) + written < U32
    BY <1>1, <1>2 DEF CountInv, Used
  <2>2. Sub32(Add32(utail, written), khead) = Sub32(utail, khead) + written
    BY <1>2, <1>3, <2>1, SubOfAdd
  <2> QED BY <1>4, <2>2 DEF Used, CqCount
<1>6. /\ SqPos' = SqPos /\ CqPos' = CqPos
      /\ \A i \in SqPos : SqAt(i)' = SqAt(i)
      /\ \A i \in CqPos : CqAt(i)' = CqAt(i)
  BY <1>2, <1>4, <1>5 DEF SqPos, CqPos, SqAt, CqAt
<1>7. RingType'
  BY <1>1, <1>4 DEF RingType
<1>8. CountInv'
  <2>1. Sub32(ktail, khead) \in Nat /\ Sub32(ktail, khead) <= Used
    BY <1>1, Numbers DEF CountInv
  <2>2. Sub32(ktail', khead') <= Used'
    <3>1. CASE ktail' = ktail
      BY <1>2, <1>4, <1>5, <2>1, <3>1
    <3>2. CASE ktail' = utail'
      BY <1>2, <1>4, <1>5, <3>2 DEF Used
    <3> QED BY <1>4, <3>1, <3>2
  <2> QED BY <1>1, <1>2, <1>4, <1>5, <2>2 DEF CountInv
<1>9. PlaceInv'
  BY <1>1, <1>4, <1>6 DEF PlaceInv
<1>10. QueueInv'
  BY <1>7, <1>8, <1>9 DEF QueueInv
<1> DEFINE b == [i \in 1 .. written |-> SqAt(Used + i - 1)]
<1>11. ASSUME NEW i \in 1 .. written
       PROVE  /\ Used + i - 1 \in SqPos
              /\ SqAt(Used + i - 1) \in Ops \ inflight
              /\ SqAt(Used + i - 1) \notin ToSet(SqContents)
              /\ SqAt(Used + i - 1) \notin ToSet(CqContents)
  <2>1. Used + i - 1 \in SqPos
    BY <1>2 DEF SqPos
  <2>2. \A j \in 1 .. Used : j - 1 \in SqPos /\ j - 1 # Used + i - 1
    BY <1>2 DEF SqPos
  <2>3. \A j \in 1 .. CqCount : j - 1 \in CqPos
    BY <1>2 DEF CqPos
  <2>4. \A j \in 1 .. Used : SqContents[j] # SqAt(Used + i - 1)
    BY <1>1, <2>1, <2>2, ContentsAt DEF PlaceInv
  <2>5. \A j \in 1 .. CqCount : CqContents[j] # SqAt(Used + i - 1)
    BY <1>1, <2>1, <2>3, ContentsAt DEF PlaceInv
  <2> QED BY <1>1, <2>1, <2>4, <2>5, ContentsAt DEF PlaceInv, ToSet
<1>12. b \in [1 .. written -> Ops \ Fifo!InUse]
  <2>1. Fifo!InUse = ToSet(SqContents) \cup inflight \cup ToSet(CqContents)
    BY DEF Fifo!InUse, Fifo!ToSet, ToSet
  <2> QED BY <1>11, <2>1
<1>13. IsInjective(b)
  <2> SUFFICES ASSUME NEW i \in 1 .. written, NEW j \in 1 .. written, b[i] = b[j]
               PROVE  i = j
    BY DEF IsInjective
  <2>1. SqAt(Used + i - 1) = SqAt(Used + j - 1)
    OBVIOUS
  <2>2. Used + i - 1 = Used + j - 1
    BY <1>1, <1>11, <2>1 DEF PlaceInv
  <2> QED BY <1>2, <2>2
<1>14. written \in 1 .. Cardinality(Ops)
  <2>1. b \in Injection(1 .. written, Ops)
    BY <1>12, <1>13 DEF Injection
  <2>2. Cardinality(1 .. written) <= Cardinality(Ops)
    BY <2>1, FS_Injection, QueuesAssumption
  <2>3. Cardinality(1 .. written) = IF 1 > written THEN 0 ELSE written - 1 + 1
    BY <1>2, FS_Interval
  <2>4. Cardinality(Ops) \in Nat
    BY QueuesAssumption, FS_CardinalityType
  <2> QED BY <1>2, <1>4, <2>2, <2>3, <2>4
<1>15. b \in Fifo!Fresh
  <2>1. Fifo!Cardinality(Ops) = Cardinality(Ops)
    BY DEF Fifo!Cardinality, Cardinality
  <2> HIDE DEF b
  <2>2. Fifo!IsInjective(b)
    BY <1>13 DEF Fifo!IsInjective, IsInjective
  <2> QED BY <1>12, <1>14, <2>1, <2>2 DEF Fifo!Fresh
<1>16. SqContents' = SqContents \o b
  <2>1. SqContents \in Seq(Ops) /\ Len(SqContents) = Used
    BY ContentsAreSeqs
  <2>2. (SqContents \in Seq(Ops) /\ Len(SqContents) = Used)'
    BY <1>10, ContentsAreSeqs, PTL
  <2>3. b \in Seq(Ops) /\ Len(b) = written
    <3>1. b \in [1 .. written -> Ops]
      BY <1>12
    <3> HIDE DEF b
    <3> QED BY <1>2, <3>1, SeqDef
  <2>4. SqContents \o b \in Seq(Ops) /\ Len(SqContents \o b) = Used + written
    BY <1>2, <2>1, <2>3, ConcatProperties
  <2>5. ASSUME NEW i \in 1 .. Used + written
        PROVE  SqContents'[i] = (SqContents \o b)[i]
    <3>1. SqContents'[i] = SqAt(i - 1)
      BY <1>4, <1>5 DEF SqContents, SqAt
    <3>2. (SqContents \o b)[i] = IF i <= Used THEN SqContents[i] ELSE b[i - Used]
      <4> HIDE DEF b
      <4> QED BY <2>1, <2>3, ConcatProperties
    <3>3. CASE i <= Used
      <4>1. SqContents[i] = SqAt(i - 1)
        BY <1>1, <1>2, <3>3, ContentsAt
      <4> QED BY <3>1, <3>2, <3>3, <4>1
    <3>4. CASE i > Used
      <4>1. i - Used \in 1 .. written /\ Used + (i - Used) - 1 = i - 1
        BY <1>2, <3>4
      <4>2. b[i - Used] = SqAt(Used + (i - Used) - 1)
        BY <4>1
      <4>3. ~(i <= Used)
        BY <1>2, <3>4
      <4> HIDE DEF b
      <4> QED BY <3>1, <3>2, <4>1, <4>2, <4>3
    <3>5. i <= Used \/ i > Used
      BY <1>2
    <3> QED BY <3>3, <3>4, <3>5, Zenon
  <2> HIDE DEF b
  <2> QED BY <1>5, <2>2, <2>4, <2>5, SeqEqual
<1>17. CqContents' = CqContents
  BY <1>4, <1>5 DEF CqContents
<1>18. Fifo!Queue(b)
  BY <1>4, <1>16, <1>17 DEF Fifo!Queue
<1> QED BY <1>10, <1>15, <1>18

\* The kernel takes the n oldest requests.
LEMMA TakeStep ==
  ASSUME QueueInv, CallInv', NEW n \in 0 .. Used, KernelTakes(n),
         UNCHANGED <<sqes, utail, written, cqVars>>,
         Sub32(ktail', khead') <= Used'
  PROVE  /\ QueueInv'
         /\ n = 0 => UNCHANGED <<SqContents, inflight, CqContents, batch>>
         /\ n # 0 => \E m \in 1 .. Len(SqContents) : Fifo!Consume(m)
<1>1. CursorType /\ RingType /\ CountInv /\ PlaceInv
  BY DEF QueueInv, CallInv
<1>2. /\ SqEntries \in Nat \ {0} /\ SqEntries < U32 /\ U32 \in Nat
      /\ Used \in Nat /\ written \in Nat /\ CqCount \in Nat /\ n \in Nat
      /\ U32 % SqEntries = 0 /\ Used < U32
  BY <1>1, Numbers
<1>3. khead \in Cursor /\ utail \in Cursor
  BY <1>1 DEF CursorType
<1>4. /\ khead' = Add32(khead, n)
      /\ inflight' = inflight \cup {SqContents[i] : i \in 1 .. n}
      /\ UNCHANGED <<cqes, chead, ctail, batch>>
  BY DEF KernelTakes, cqVars
<1>5. Used' = Used - n /\ CqCount' = CqCount
  <2>1. n <= Sub32(utail, khead)
    BY <1>2 DEF Used
  <2>2. Sub32(utail, Add32(khead, n)) = Sub32(utail, khead) - n
    BY <1>2, <1>3, <2>1, SubAddRight
  <2> QED BY <1>4, <2>2 DEF Used, CqCount
<1>6. ASSUME NEW i \in Nat
      PROVE  Slot(khead', i, SqEntries) = Slot(khead, n + i, SqEntries)
  <2>1. n \in 0 .. U32
    BY <1>2
  <2> QED BY <1>2, <1>3, <1>4, <2>1, SlotOfAdd
<1>7. ASSUME NEW i \in SqPos' PROVE n + i \in SqPos /\ SqAt(i)' = SqAt(n + i)
  <2>1. i \in Nat /\ n + i \in SqPos
    BY <1>2, <1>5 DEF SqPos
  <2> QED BY <1>6, <2>1 DEF SqAt
<1>8. CqPos' = CqPos /\ \A i \in CqPos : CqAt(i)' = CqAt(i)
  BY <1>4, <1>5 DEF CqPos, CqAt
<1>9. inflight' = inflight \cup {SqAt(i) : i \in 0 .. n - 1}
  <2>1. \A i \in 1 .. n : SqContents[i] = SqAt(i - 1) /\ i - 1 \in 0 .. n - 1
    BY <1>1, <1>2, ContentsAt
  <2>2. \A i \in 0 .. n - 1 : SqContents[i + 1] = SqAt(i) /\ i + 1 \in 1 .. n
    BY <1>1, <1>2, ContentsAt
  <2> QED BY <1>4, <2>1, <2>2
<1>10. \A i \in 0 .. n - 1 : i \in SqPos
  BY <1>2 DEF SqPos
<1>11. RingType'
  BY <1>1, <1>4, <1>9, <1>10 DEF RingType, PlaceInv
<1>12. CountInv'
  BY <1>1, <1>2, <1>4, <1>5 DEF CountInv
<1>13. PlaceInv'
  <2>1. ASSUME NEW i \in SqPos' PROVE SqAt(i)' \in Ops \ inflight'
    <3>1. n + i \in SqPos /\ SqAt(i)' = SqAt(n + i)
      BY <1>7
    <3>2. \A k \in 0 .. n - 1 : k # n + i
      BY <1>2, <1>5 DEF SqPos
    <3>3. \A k \in 0 .. n - 1 : SqAt(k) # SqAt(n + i)
      BY <1>1, <1>10, <3>1, <3>2 DEF PlaceInv
    <3>4. SqAt(n + i) \in Ops \ inflight
      BY <1>1, <3>1 DEF PlaceInv
    <3> QED BY <1>9, <3>1, <3>3, <3>4
  <2>2. ASSUME NEW i \in SqPos', NEW j \in SqPos', i # j PROVE SqAt(i)' # SqAt(j)'
    <3>1. n + i # n + j
      BY <1>2, <1>5, <2>2 DEF SqPos
    <3> QED BY <1>1, <1>7, <3>1 DEF PlaceInv
  <2>3. \A i \in CqPos : CqAt(i)' \in Ops \ inflight'
    BY <1>1, <1>8, <1>9, <1>10 DEF PlaceInv
  <2>4. ASSUME NEW i \in SqPos', NEW j \in CqPos PROVE SqAt(i)' # CqAt(j)'
    BY <1>1, <1>7, <1>8 DEF PlaceInv
  <2> QED BY <1>1, <1>8, <2>1, <2>2, <2>3, <2>4 DEF PlaceInv
<1>14. QueueInv'
  BY <1>11, <1>12, <1>13 DEF QueueInv
<1>15. CqContents' = CqContents
  BY <1>4, <1>5 DEF CqContents
<1>16. SqContents \in Seq(Ops) /\ Len(SqContents) = Used
  BY ContentsAreSeqs
<1>17. SqContents' = SubSeq(SqContents, n + 1, Len(SqContents))
  <2>1. (SqContents \in Seq(Ops) /\ Len(SqContents) = Used)'
    BY <1>14, ContentsAreSeqs, PTL
  <2> DEFINE r == SubSeq(SqContents, n + 1, Used)
  <2>2. /\ r \in Seq(Ops) /\ Len(r) = Used - n
        /\ \A i \in 1 .. Used - n : r[i] = SqContents[n + i]
    <3>1. \A i \in n + 1 .. Used : SqContents[i] \in Ops
      BY <1>2, <1>16
    <3>2. /\ r \in Seq(Ops)
          /\ Len(r) = IF n + 1 <= Used THEN Used - (n + 1) + 1 ELSE 0
          /\ \A i \in 1 .. Used - (n + 1) + 1 : r[i] = SqContents[(n + 1) + i - 1]
      BY <1>2, <3>1, SubSeqProperties
    <3>3. \A i \in 1 .. Used - n : (n + 1) + i - 1 = n + i
      BY <1>2
    <3> HIDE DEF r
    <3>4. Used - (n + 1) + 1 = Used - n /\ Len(r) = Used - n
      BY <1>2, <3>2
    <3> QED BY <3>2, <3>3, <3>4
  <2>3. ASSUME NEW i \in 1 .. Used - n
        PROVE  SqContents'[i] = SqContents[n + i]
    <3>1. SqContents'[i] = SqAt(i - 1)' /\ i - 1 \in SqPos'
      BY <1>2, <1>5 DEF SqContents, SqAt, SqPos
    <3>2. SqContents[n + i] = SqAt(n + (i - 1))
      <4>1. n + i \in 1 .. Used /\ (n + i) - 1 = n + (i - 1)
        BY <1>2
      <4>2. SqContents[n + i] = SqAt((n + i) - 1)
        BY <1>1, <4>1, ContentsAt
      <4> QED BY <4>1, <4>2
    <3> QED BY <1>7, <3>1, <3>2
  <2> HIDE DEF r
  <2>4. SqContents' = r
    BY <1>5, <2>1, <2>2, <2>3, SeqEqual
  <2> QED BY <1>16, <2>4 DEF r
<1>18. CASE n = 0
  <2>1. inflight' = inflight
    BY <1>4, <1>18
  <2>2. SqContents' = SqContents
    BY <1>16, <1>17, <1>18, SubSeqFull
  <2> QED BY <1>4, <1>14, <1>15, <1>18, <2>1, <2>2
<1>19. CASE n # 0
  <2>1. n \in 1 .. Len(SqContents)
    BY <1>2, <1>16, <1>19
  <2>2. Fifo!Consume(n)
    BY <1>4, <1>15, <1>17 DEF Fifo!Consume
  <2> QED BY <1>14, <1>19, <2>1, <2>2
<1> QED BY <1>18, <1>19

\* A completion goes to the slot behind the last one.
LEMMA PostStep ==
  ASSUME QueueInv, CallInv', NEW o \in Ops, Post(o)
  PROVE  QueueInv' /\ o \in inflight /\ Fifo!Post(o)
<1>1. CursorType /\ RingType /\ CountInv /\ PlaceInv
  BY DEF QueueInv, CallInv
<1>2. /\ CqEntries \in Nat \ {0} /\ CqEntries < U32 /\ U32 \in Nat
      /\ Used \in Nat /\ written \in Nat /\ CqCount \in Nat /\ Len(batch) \in Nat
  BY <1>1, Numbers
<1>3. chead \in Cursor /\ ctail \in Cursor
  BY <1>1 DEF RingType
<1> DEFINE w == Slot(chead, CqCount, CqEntries)
<1>4. /\ o \in inflight /\ CqCount < CqEntries
      /\ cqes' = [cqes EXCEPT ![w] = o] /\ w \in 0 .. CqEntries - 1
      /\ ctail' = Add32(ctail, 1) /\ inflight' = inflight \ {o}
      /\ UNCHANGED <<sqes, khead, ktail, utail, written, chead, batch>>
  <2>1. Slot(ctail, 0, CqEntries) = Slot(chead, CqCount + 0, CqEntries)
    BY <1>1, BehindTail
  <2>2. CqCount + 0 = CqCount
    BY <1>2
  <2>3. w \in 0 .. CqEntries - 1
    BY <1>2, <1>3, SlotInRange
  <2> QED BY <2>1, <2>2, <2>3 DEF Post, sqVars
<1>5. CqCount' = CqCount + 1 /\ Used' = Used
  <2>1. Sub32(ctail, chead) + 1 < U32
    BY <1>2, <1>4 DEF CqCount
  <2>2. Sub32(Add32(ctail, 1), chead) = Sub32(ctail, chead) + 1
    BY <1>3, <2>1, SubOfAdd
  <2> QED BY <1>4, <2>2 DEF Used, CqCount
<1>6. ctail' \in Cursor
  BY <1>3, <1>4, Add32Cursor
<1>7. ASSUME NEW i \in CqPos
      PROVE  Slot(chead, i, CqEntries) # w /\ Slot(chead, i, CqEntries) \in 0 .. CqEntries - 1
  <2>1. i \in Nat /\ i < CqCount /\ CqCount < i + CqEntries
    BY <1>2, <1>4 DEF CqPos
  <2> QED BY <1>2, <1>3, <2>1, SlotsDiffer, SlotInRange
<1> HIDE DEF w
<1>8. ASSUME NEW i \in CqPos PROVE CqAt(i)' = CqAt(i)
  BY <1>1, <1>4, <1>7 DEF CqAt, RingType
<1>9. cqes'[Slot(chead', CqCount, CqEntries)] = o
  BY <1>1, <1>4 DEF RingType, w
<1>10. CqPos' = CqPos \cup {CqCount} /\ CqCount \notin CqPos
  BY <1>2, <1>5 DEF CqPos
<1>11. \A i \in CqPos' : CqAt(i)' = IF i = CqCount THEN o ELSE CqAt(i)
  BY <1>8, <1>9, <1>10 DEF CqAt
<1>12. SqPos' = SqPos /\ \A i \in SqPos : SqAt(i)' = SqAt(i)
  BY <1>4, <1>5 DEF SqPos, SqAt
<1>13. RingType'
  BY <1>1, <1>4, <1>6 DEF RingType
<1>14. CountInv'
  BY <1>1, <1>2, <1>4, <1>5 DEF CountInv
<1>15. PlaceInv'
  BY <1>1, <1>4, <1>10, <1>11, <1>12 DEF PlaceInv
<1>16. QueueInv'
  BY <1>13, <1>14, <1>15 DEF QueueInv
<1>17. SqContents' = SqContents
  BY <1>4, <1>5 DEF SqContents
<1>18. CqContents' = Append(CqContents, o)
  <2>1. CqContents \in Seq(Ops) /\ Len(CqContents) = CqCount
    BY ContentsAreSeqs
  <2>2. (CqContents \in Seq(Ops) /\ Len(CqContents) = CqCount)'
    BY <1>16, ContentsAreSeqs, PTL
  <2> DEFINE r == Append(CqContents, o)
  <2>3. /\ r \in Seq(Ops) /\ Len(r) = CqCount + 1
        /\ \A i \in 1 .. CqCount : r[i] = CqContents[i]
        /\ r[CqCount + 1] = o
    BY <2>1
  <2> HIDE DEF r
  <2>4. ASSUME NEW i \in 1 .. CqCount + 1 PROVE CqContents'[i] = r[i]
    <3>1. CqContents'[i] = CqAt(i - 1)' /\ i - 1 \in CqPos'
      BY <1>2, <1>5 DEF CqContents, CqAt, CqPos
    <3>2. CASE i = CqCount + 1
      BY <1>2, <1>11, <2>3, <3>1, <3>2
    <3>3. CASE i # CqCount + 1
      <4>1. i \in 1 .. CqCount /\ i - 1 # CqCount
        BY <1>2, <3>3
      <4>2. CqContents[i] = CqAt(i - 1)
        BY <1>1, <4>1, ContentsAt
      <4> QED BY <1>11, <2>3, <3>1, <4>1, <4>2
    <3> QED BY <3>2, <3>3
  <2>5. CqContents' = r
    BY <1>5, <2>2, <2>3, <2>4, SeqEqual
  <2> QED BY <2>5 DEF r
<1> QED
  BY <1>4, <1>16, <1>17, <1>18 DEF Fifo!Post

\* The entries of a ring from an offset on, in ring order.
RingOrder(ring, offset, len, size) == [i \in 1 .. len |-> ring[(offset + (i - 1)) % size]]

\* The one or two slices of the RingBuf iterator, joined, are the entries in
\* ring order.
LEMMA IterOrder ==
  ASSUME NEW T, NEW size \in Nat \ {0}, NEW ring \in [0 .. size - 1 -> T],
         NEW offset \in 0 .. size - 1, NEW len \in 0 .. size
  PROVE  IntoIter(ring, offset, len, size) = RingOrder(ring, offset, len, size)
<1> USE DEF RingOrder
<1> DEFINE x == offset + len
           end == x % size
           r == [i \in 1 .. len |-> ring[(offset + (i - 1)) % size]]
           p == [i \in 1 .. size - offset |-> ring[offset + i - 1]]
           q == [i \in 1 .. end |-> ring[i - 1]]
<1>1. x \in Nat /\ x < 2 * size
  OBVIOUS
<1>2. end = IF x < size THEN x ELSE x - size
  <2> HIDE DEF x
  <2> QED BY <1>1, ModOnce
<1>3. ASSUME NEW i \in 1 .. len
      PROVE  (offset + (i - 1)) % size = IF offset + (i - 1) < size THEN offset + (i - 1)
                                         ELSE offset + (i - 1) - size
  <2> DEFINE y == offset + (i - 1)
  <2>1. y \in Nat /\ y < 2 * size
    OBVIOUS
  <2>2. y % size = IF y < size THEN y ELSE y - size
    <3> HIDE DEF y
    <3> QED BY <2>1, ModOnce
  <2> QED BY <2>2
<1>4. IntoIter(ring, offset, len, size) =
        IF end = x THEN [i \in 1 .. len |-> ring[offset + i - 1]] ELSE p \o q
  BY DEF IntoIter
<1>5. CASE x < size
  <2>1. end = x
    BY <1>1, <1>2, <1>5
  <2>2. \A i \in 1 .. len : (offset + (i - 1)) % size = offset + i - 1
    BY <1>3, <1>5
  <2> HIDE DEF end
  <2> QED BY <1>4, <2>1, <2>2
<1>6. CASE x >= size
  <2>1. end = x - size /\ end # x /\ end \in Nat
    BY <1>1, <1>2, <1>6
  <2> HIDE DEF end
  <2>2. p \in Seq(T) /\ Len(p) = size - offset
    <3>1. \A i \in 1 .. size - offset : offset + i - 1 \in 0 .. size - 1
      OBVIOUS
    <3>2. size - offset \in Nat /\ p \in [1 .. size - offset -> T]
      BY <3>1
    <3> HIDE DEF p
    <3> QED BY <3>2, SeqDef
  <2>3. q \in Seq(T) /\ Len(q) = end
    <3>1. \A i \in 1 .. end : i - 1 \in 0 .. size - 1
      BY <2>1
    <3>2. q \in [1 .. end -> T]
      BY <3>1
    <3> HIDE DEF q
    <3> QED BY <2>1, <3>2, SeqDef
  <2>4. r \in Seq(T) /\ Len(r) = len
    <3>1. \A i \in 1 .. len : (offset + (i - 1)) % size \in 0 .. size - 1
      BY <1>3
    <3>2. r \in [1 .. len -> T]
      BY <3>1
    <3> HIDE DEF r
    <3> QED BY <3>2, SeqDef
  <2>5. /\ p \o q \in Seq(T) /\ Len(p \o q) = Len(p) + Len(q)
        /\ \A i \in 1 .. Len(p) + Len(q) :
             (p \o q)[i] = IF i <= Len(p) THEN p[i] ELSE q[i - Len(p)]
    <3> HIDE DEF p, q
    <3> QED BY <2>2, <2>3, ConcatProperties
  <2>6. Len(p) + Len(q) = len
    <3> HIDE DEF p, q
    <3> QED BY <2>1, <2>2, <2>3
  <2>7. ASSUME NEW i \in 1 .. len PROVE (p \o q)[i] = r[i]
    <3>1. r[i] = ring[(offset + (i - 1)) % size]
      OBVIOUS
    <3>2. CASE i <= size - offset
      <4>1. (p \o q)[i] = p[i]
        <5> HIDE DEF p, q
        <5> QED BY <2>2, <2>5, <2>6, <3>2
      <4>2. p[i] = ring[offset + i - 1]
        BY <3>2
      <4>3. (offset + (i - 1)) % size = offset + i - 1
        BY <1>3, <3>2
      <4> HIDE DEF p, q, r
      <4> QED BY <3>1, <4>1, <4>2, <4>3
    <3>3. CASE i > size - offset
      <4>1. (p \o q)[i] = q[i - (size - offset)]
        <5> HIDE DEF p, q
        <5> QED BY <2>2, <2>5, <2>6, <3>3
      <4>2. i - (size - offset) \in 1 .. end
        BY <2>1, <3>3
      <4>3. q[i - (size - offset)] = ring[i - (size - offset) - 1]
        BY <4>2
      <4>4. (offset + (i - 1)) % size = i - (size - offset) - 1
        BY <1>3, <3>3
      <4> HIDE DEF p, q, r
      <4> QED BY <3>1, <4>1, <4>3, <4>4
    <3>4. i <= size - offset \/ i > size - offset
      OBVIOUS
    <3> QED BY <3>2, <3>3, <3>4, Zenon
  <2> HIDE DEF p, q, r
  <2>8. p \o q = r
    BY <2>4, <2>5, <2>6, <2>7, SeqEqual
  <2> QED BY <1>4, <2>1, <2>8 DEF r
<1> QED BY <1>1, <1>5, <1>6

\* Reading yields the completions, oldest first.
LEMMA AvailableStep ==
  ASSUME QueueInv, CallInv', Available
  PROVE  QueueInv' /\ Fifo!Read
<1>1. CursorType /\ RingType /\ CountInv /\ PlaceInv
  BY DEF QueueInv, CallInv
<1>2. /\ CqEntries \in Nat \ {0} /\ CqEntries < U32 /\ U32 \in Nat
      /\ Used \in Nat /\ written \in Nat /\ CqCount \in Nat /\ CqCount <= CqEntries
  BY <1>1, Numbers DEF CountInv
<1>3. chead \in Cursor /\ chead \in Nat /\ chead \in Int
  BY <1>1, <1>2 DEF RingType, Cursor
<1> DEFINE h == chead % CqEntries
<1>4. h \in 0 .. CqEntries - 1
  BY <1>2, <1>3, ModQuotient
<1>5. ASSUME NEW i \in 1 .. CqCount
      PROVE  (h + (i - 1)) % CqEntries = Slot(chead, i - 1, CqEntries)
  <2>1. i - 1 \in Nat
    BY <1>2
  <2>2. (chead + (i - 1)) % CqEntries = (h + (i - 1)) % CqEntries
    BY <1>2, <1>3, <2>1, ModAdd, Zenon
  <2> QED BY <2>2 DEF Slot
<1> HIDE DEF h
<1>6. IntoIter(cqes, h, CqCount, CqEntries) = RingOrder(cqes, h, CqCount, CqEntries)
  <2>1. cqes \in [0 .. CqEntries - 1 -> Ops \cup {NoOp}]
    BY <1>1 DEF RingType
  <2>2. CqCount \in 0 .. CqEntries
    BY <1>2
  <2> DEFINE T == Ops \cup {NoOp}
  <2>3. cqes \in [0 .. CqEntries - 1 -> T]
    BY <2>1
  <2>4. CqEntries \in Nat \ {0}
    BY <1>2
  <2> HIDE DEF T
  <2> QED BY <1>4, <2>2, <2>3, <2>4, IterOrder
<1>7. RingOrder(cqes, h, CqCount, CqEntries) = CqContents
  BY <1>5 DEF CqContents, RingOrder
<1>8. batch' = CqContents /\ UNCHANGED <<sqes, khead, ktail, utail, written, inflight, cqes, chead, ctail>>
  BY <1>6, <1>7 DEF Available, sqVars, CqCount, h
<1>9. CqContents \in Seq(Ops) /\ Len(CqContents) = CqCount
  BY ContentsAreSeqs
<1>10. UNCHANGED <<Used, CqCount, SqPos, CqPos, SqContents, CqContents>>
  BY <1>8 DEF Used, CqCount, SqPos, CqPos, SqContents, CqContents
<1>11. RingType'
  BY <1>1, <1>8, <1>9 DEF RingType
<1>12. CountInv'
  BY <1>1, <1>2, <1>8, <1>9, <1>10 DEF CountInv
<1>13. PlaceInv'
  BY <1>1, <1>8, <1>10 DEF PlaceInv, SqAt, CqAt
<1>14. CqContents # <<>>
  BY <1>2, <1>9 DEF Available
<1> QED
  BY <1>8, <1>10, <1>11, <1>12, <1>13, <1>14 DEF QueueInv, Fifo!Read

\* Giving back what was read drops the oldest completions.
LEMMA RetireStep ==
  ASSUME QueueInv, CallInv', CqAdvance
  PROVE  QueueInv' /\ Fifo!Retire
<1> DEFINE n == Len(batch)
<1>1. CursorType /\ RingType /\ CountInv /\ PlaceInv
  BY DEF QueueInv, CallInv
<1>2. /\ CqEntries \in Nat \ {0} /\ CqEntries < U32 /\ U32 \in Nat
      /\ Used \in Nat /\ written \in Nat /\ CqCount \in Nat /\ n \in Nat
      /\ U32 % CqEntries = 0 /\ CqCount < U32 /\ n <= CqCount
  BY <1>1, Numbers DEF CountInv
<1>3. chead \in Cursor /\ ctail \in Cursor
  BY <1>1 DEF RingType
<1>4. /\ chead' = Add32(chead, n) /\ batch' = <<>>
      /\ UNCHANGED <<sqes, khead, ktail, utail, written, inflight, cqes, ctail>>
  BY DEF CqAdvance, sqVars
<1> HIDE DEF n
<1>5. CqCount' = CqCount - n /\ Used' = Used /\ chead' \in Cursor
  <2>1. n <= Sub32(ctail, chead)
    BY <1>2 DEF CqCount
  <2>2. /\ Add32(chead, n) \in Cursor
        /\ Sub32(ctail, Add32(chead, n)) = Sub32(ctail, chead) - n
    BY <1>2, <1>3, <2>1, SubAddRight
  <2> QED BY <1>4, <2>2 DEF Used, CqCount
<1>6. ASSUME NEW i \in Nat
      PROVE  Slot(chead', i, CqEntries) = Slot(chead, n + i, CqEntries)
  <2>1. n \in 0 .. U32
    BY <1>2
  <2> QED BY <1>2, <1>3, <1>4, <2>1, SlotOfAdd
<1>7. ASSUME NEW i \in CqPos' PROVE n + i \in CqPos /\ CqAt(i)' = CqAt(n + i)
  <2>1. i \in Nat /\ n + i \in CqPos
    BY <1>2, <1>5 DEF CqPos
  <2> QED BY <1>4, <1>6, <2>1 DEF CqAt
<1>8. SqPos' = SqPos /\ \A i \in SqPos : SqAt(i)' = SqAt(i)
  BY <1>4, <1>5 DEF SqPos, SqAt
<1>9. RingType'
  <2>1. <<>> \in Seq(Ops)
    OBVIOUS
  <2> QED BY <1>1, <1>4, <1>5, <2>1 DEF RingType
<1>10. CountInv'
  <2>1. Len(<<>>) = 0
    OBVIOUS
  <2> QED BY <1>1, <1>2, <1>4, <1>5, <2>1 DEF CountInv
<1>11. PlaceInv'
  <2>1. ASSUME NEW i \in CqPos', NEW j \in CqPos', i # j PROVE CqAt(i)' # CqAt(j)'
    <3>1. n + i # n + j
      BY <1>2, <1>5, <2>1 DEF CqPos
    <3> QED BY <1>1, <1>7, <3>1 DEF PlaceInv
  <2>2. \A i \in CqPos' : CqAt(i)' \in Ops \ inflight'
    BY <1>1, <1>4, <1>7 DEF PlaceInv
  <2>3. ASSUME NEW i \in SqPos, NEW j \in CqPos' PROVE SqAt(i)' # CqAt(j)'
    BY <1>1, <1>7, <1>8 DEF PlaceInv
  <2> QED BY <1>1, <1>4, <1>8, <2>1, <2>2, <2>3 DEF PlaceInv
<1>12. QueueInv'
  BY <1>9, <1>10, <1>11 DEF QueueInv
<1>13. SqContents' = SqContents
  BY <1>4, <1>5 DEF SqContents
<1>14. CqContents \in Seq(Ops) /\ Len(CqContents) = CqCount
  BY ContentsAreSeqs
<1>15. CqContents' = SubSeq(CqContents, n + 1, Len(CqContents))
  <2>1. (CqContents \in Seq(Ops) /\ Len(CqContents) = CqCount)'
    BY <1>12, ContentsAreSeqs, PTL
  <2> DEFINE r == SubSeq(CqContents, n + 1, CqCount)
  <2>2. /\ r \in Seq(Ops) /\ Len(r) = CqCount - n
        /\ \A i \in 1 .. CqCount - n : r[i] = CqContents[n + i]
    <3>1. \A i \in n + 1 .. CqCount : CqContents[i] \in Ops
      BY <1>2, <1>14
    <3>2. /\ r \in Seq(Ops)
          /\ Len(r) = IF n + 1 <= CqCount THEN CqCount - (n + 1) + 1 ELSE 0
          /\ \A i \in 1 .. CqCount - (n + 1) + 1 : r[i] = CqContents[(n + 1) + i - 1]
      BY <1>2, <3>1, SubSeqProperties
    <3>3. \A i \in 1 .. CqCount - n : (n + 1) + i - 1 = n + i
      BY <1>2
    <3> HIDE DEF r
    <3>4. CqCount - (n + 1) + 1 = CqCount - n /\ Len(r) = CqCount - n
      BY <1>2, <3>2
    <3> QED BY <3>2, <3>3, <3>4
  <2>3. ASSUME NEW i \in 1 .. CqCount - n
        PROVE  CqContents'[i] = CqContents[n + i]
    <3>1. CqContents'[i] = CqAt(i - 1)' /\ i - 1 \in CqPos'
      BY <1>2, <1>5 DEF CqContents, CqAt, CqPos
    <3>2. CqContents[n + i] = CqAt(n + (i - 1))
      <4>1. n + i \in 1 .. CqCount /\ (n + i) - 1 = n + (i - 1)
        BY <1>2
      <4>2. CqContents[n + i] = CqAt((n + i) - 1)
        BY <1>1, <4>1, ContentsAt
      <4> QED BY <4>1, <4>2
    <3> QED BY <1>7, <3>1, <3>2
  <2> HIDE DEF r
  <2>4. CqContents' = r
    BY <1>5, <2>1, <2>2, <2>3, SeqEqual
  <2> QED BY <1>14, <2>4 DEF r
<1> QED
  BY <1>4, <1>12, <1>13, <1>15 DEF n, Fifo!Retire

\* The two ways the kernel takes requests.
LEMMA KernelStep ==
  ASSUME QueueInv, CallInv', EnterTakes \/ PollTakes
  PROVE  /\ QueueInv'
         /\ \/ UNCHANGED <<SqContents, inflight, CqContents, batch>>
            \/ \E m \in 1 .. Len(SqContents) : Fifo!Consume(m)
<1>1. CursorType /\ RingType /\ CountInv /\ PlaceInv
  BY DEF QueueInv, CallInv
<1>2. /\ U32 \in Nat /\ Used \in Nat /\ Sub32(ktail, khead) \in Nat
  BY <1>1, Numbers
<1>3. khead \in Cursor /\ ktail \in Cursor /\ utail \in Cursor
  BY <1>1 DEF CursorType
<1>4. CASE EnterTakes
  <2>1. sys.want \in Nat
    BY <1>1, <1>2 DEF CursorType, Cursor
  <2>2. PICK n \in 0 .. Used : KernelTakes(n)
    <3> DEFINE offered == IF sys.want < Used THEN sys.want ELSE Used
               Taken == IF mode.short /\ offered > 0 THEN 1 .. offered ELSE {offered}
    <3>1. \E n \in Taken : KernelTakes(n)
      BY <1>4, Zenon DEF EnterTakes
    <3>2. offered \in 0 .. Used
      BY <1>2, <2>1
    <3>3. Taken \subseteq 0 .. Used
      <4> HIDE DEF offered
      <4> QED BY <1>2, <3>2
    <3> QED BY <3>1, <3>3
  <2>3. UNCHANGED <<sqes, utail, written, cqVars>> /\ ktail' = utail'
    BY <1>4 DEF EnterTakes
  <2>4. Used' \in Nat
    <3>1. CursorType'
      BY DEF CallInv
    <3>2. Used' \in Cursor
      BY <3>1, Sub32Value DEF CursorType, Used
    <3> QED BY <1>2, <3>2 DEF Cursor
  <2>5. Sub32(ktail', khead') <= Used'
    BY <2>3, <2>4 DEF Used
  <2> QED BY <2>2, <2>3, <2>5, TakeStep
<1>5. CASE PollTakes
  <2>1. KernelTakes(1) /\ UNCHANGED <<sqes, ktail, utail, written, cqVars>> /\ khead # ktail
    BY <1>5 DEF PollTakes
  <2>2. Sub32(ktail, khead) # 0
    BY <1>3, <2>1, SubZero
  <2>3. 1 \in 0 .. Used /\ 1 <= Sub32(ktail, khead)
        /\ Sub32(ktail, khead) <= Sub32(utail, khead) /\ 1 <= Sub32(utail, khead)
    BY <1>1, <1>2, <2>2 DEF CountInv, Used
  <2>4. /\ Sub32(ktail, Add32(khead, 1)) = Sub32(ktail, khead) - 1
        /\ Sub32(utail, Add32(khead, 1)) = Sub32(utail, khead) - 1
    BY <1>3, <2>3, SubAddRight
  <2>5. Sub32(ktail', khead') <= Used'
    BY <1>2, <2>1, <2>3, <2>4 DEF KernelTakes, Used
  <2> QED BY <2>1, <2>3, <2>5, TakeStep
<1> QED BY <1>4, <1>5

\* Every step keeps the invariant of the rings and is a step of the two queues
\* or leaves them alone.
LEMMA QueueInvStep ==
  ASSUME LeaveGap, QueueInv, [Next]_vars
  PROVE  QueueInv' /\ [Fifo!Next]_(Fifo!vars)
<1>1. CallInv'
  BY CallInvStep DEF QueueInv
<1>2. CASE \E o \in Idle : WriteSqe(o)
  <2>1. PICK o \in Idle : WriteSqe(o)
    BY <1>2
  <2>2. QueueInv' /\ UNCHANGED <<SqContents, CqContents>>
    BY <1>1, <2>1, WriteStep
  <2> QED BY <2>1, <2>2 DEF WriteSqe, cqVars, Fifo!vars
<1>3. CASE SqAdvance
  BY <1>1, <1>3, AdvanceStep DEF Fifo!Next
<1>4. CASE EnterTakes \/ PollTakes
  BY <1>1, <1>4, KernelStep DEF Fifo!Next, Fifo!vars
<1>5. CASE \E o \in Ops : Post(o)
  BY <1>1, <1>5, PostStep DEF Fifo!Next
<1>6. CASE Available
  BY <1>1, <1>6, AvailableStep DEF Fifo!Next
<1>7. CASE CqAdvance
  BY <1>1, <1>7, RetireStep DEF Fifo!Next
<1>8. CASE \/ StoreVisible \/ (\E w \in {0, 1} : SubmitAndWait(w)) \/ EnterFails
           \/ EnterWakes \/ EnterReturns \/ PollSleeps \/ UNCHANGED vars
  <2>1. /\ UNCHANGED <<sqes, khead, utail, written, inflight, cqVars>>
        /\ ktail' \in {ktail, utail}
    BY <1>8 DEF StoreVisible, SubmitAndWait, EnterFails, EnterWakes, EnterReturns,
                PollSleeps, vars, sqVars
  <2>2. QueueInv' /\ UNCHANGED <<SqContents, CqContents>>
    BY <1>1, <2>1, QuietStep
  <2> QED BY <2>1, <2>2 DEF cqVars, Fifo!vars
<1> QED
  BY <1>2, <1>3, <1>4, <1>5, <1>6, <1>7, <1>8 DEF Next

\* The rings start empty.
LEMMA QueueInvInit ==
  ASSUME Init
  PROVE  QueueInv /\ Fifo!Init
<1>1. CallInv
  BY CallInvInit
<1>2. 0 \in Cursor /\ U32 \in Nat
  BY QueuesAssumption DEF Cursor
<1>3. RingType
  BY <1>2 DEF Init, RingType
<1>4. Sub32(0, 0) = 0
  BY <1>2, SubZero
<1>5. Used = 0 /\ CqCount = 0 /\ Sub32(ktail, khead) = 0
  BY <1>4 DEF Init, Used, CqCount
<1>6. SqPos = {} /\ CqPos = {}
  BY <1>5 DEF Init, SqPos, CqPos
<1>7. CountInv
  BY <1>5, QueuesAssumption DEF Init, CountInv
<1>8. PlaceInv
  BY <1>6 DEF PlaceInv
<1>9. SqContents = <<>> /\ CqContents = <<>>
  BY <1>5 DEF SqContents, CqContents
<1> QED
  BY <1>1, <1>3, <1>7, <1>8, <1>9 DEF QueueInv, Fifo!Init, Init

\* A program that leaves a slot of the submission ring free keeps the rings in
\* order: what lies between the cursors is never overwritten, and no request is
\* in two places.
THEOREM QueueInvariance == LeaveGap => (Spec => []QueueInv)
<1> SUFFICES ASSUME LeaveGap PROVE Spec => []QueueInv
  OBVIOUS
<1>1. QueueInv /\ [Next]_vars => QueueInv'
  BY QueueInvStep
<1>2. Init => QueueInv
  BY QueueInvInit
<1> QED BY <1>1, <1>2, PTL DEF Spec

\* Such a program is always told how many SQEs it may write.
THEOREM FreeSqesIsExact == LeaveGap => (Spec => []FreeSqesExact)
<1>1. QueueInv => FreeSqesExact
  <2> SUFFICES ASSUME QueueInv PROVE FreeSqesExact
    OBVIOUS
  <2>1. CursorType /\ RingType /\ CountInv
    BY DEF QueueInv, CallInv
  <2>2. Used < SqEntries
    BY <2>1, Numbers DEF CountInv
  <2> QED BY <2>1, <2>2, FreeIsExact
<1> QED BY <1>1, QueueInvariance, PTL

\* To such a program the two rings, for any sizes that divide 2^32, are two
\* queues: every step maps to a step of UringFifo or to a stutter.
THEOREM RingsAreQueues == LeaveGap => (Spec => ImplementsFifo)
<1> SUFFICES ASSUME LeaveGap PROVE Spec => ImplementsFifo
  OBVIOUS
<1>1. QueueInv /\ [Next]_vars => [Fifo!Next]_(Fifo!vars)
  BY QueueInvStep
<1>2. Init => Fifo!Init
  BY QueueInvInit
<1>3. Spec => []QueueInv
  BY QueueInvariance
<1> QED BY <1>1, <1>2, <1>3, PTL DEF Spec, ImplementsFifo, Fifo!Spec

-----------------------------------------------------------------------------
(* The queues of a ring are the queues of UringQueues.                      *)

\* Setting a ring up and taking it down leaves its queues alone.
LEMMA LifeOrQueues ==
  ASSUME [UringNext]_uringVars
  PROVE  UNCHANGED vars \/ (phase = "open" /\ Next /\ UNCHANGED ringVars)
<1>1. CASE \E ok \in BOOLEAN : SetupStep(ok)
  BY <1>1 DEF SetupStep, Setup, MapSq, MapCq, MapSqes
<1>2. CASE ShareMapping \/ FillArray \/ DropRing \/ Unmap \/ Close \/ OtherMaps
  BY <1>2 DEF ShareMapping, FillArray, DropRing, Unmap, Close, OtherMaps
<1>3. CASE UNCHANGED uringVars
  BY <1>3 DEF uringVars
<1> QED
  BY <1>1, <1>2, <1>3 DEF UringNext

\* Whatever with_params and drop do, the queues behave as UringQueues says.
THEOREM LifeKeepsQueues == UringSpec => Spec
<1>1. UringInit => Init
  BY DEF UringInit
<1>2. [UringNext]_uringVars => [Next]_vars
  BY LifeOrQueues
<1> QED BY <1>1, <1>2, PTL DEF UringSpec, Spec

\* What was proved of the queues holds of the queues of a ring: with SQPOLL no
\* submitted request stays behind a sleeping kernel thread, but for a flag that
\* was read early, and with a slot
\* left free the rings are two queues.
THEOREM OpenRingQueues ==
  /\ UringSpec => []NoSleepingBacklog
  /\ LeaveGap => (UringSpec => ImplementsFifo)
BY LifeKeepsQueues, NoBacklogAsleep, RingsAreQueues, PTL

-----------------------------------------------------------------------------
(* with_params, step by step.                                               *)

Building == {"setup", "sq", "cq", "sqes", "array"}

\* What each step of with_params finds.
SetupInv ==
  /\ phase \in Building \cup {"open", "undo", "failed", "dropped"}
  /\ single \in BOOLEAN
  /\ space \in [Addrs -> {"free", "ring", "other"}]
  /\ phase = "setup" => fd = "none"
  /\ phase \in (Building \cup {"open", "undo"}) \ {"setup"} => fd = "open"
  /\ phase \in {"setup", "sq"} => Mapped = {}
  /\ phase \in {"setup", "sq", "cq", "sqes"} => sqesAt = Null
  /\ phase = "cq" => sqRing \in Addrs /\ Mapped = {sqRing}
  /\ phase \in {"sqes", "array", "open"} =>
       /\ sqRing \in Addrs /\ cqRing \in Addrs
       /\ sqRing = cqRing <=> single
  /\ phase = "sqes" => Mapped = {sqRing, cqRing}
  /\ phase \in {"array", "open"} =>
       /\ sqesAt \in Addrs /\ sqesAt \notin {sqRing, cqRing}
       /\ Mapped = {sqRing, cqRing, sqesAt}
  /\ phase = "open" => array = Filled

\* What a step of with_params or drop does to the mappings.
LEMMA MappedStep ==
  ASSUME space \in [Addrs -> {"free", "ring", "other"}]
  PROVE  /\ space' = space => Mapped' = Mapped
         /\ \A a \in Addrs : Lowest(a) => a \notin Mapped
         /\ \A a \in Addrs : space' = [space EXCEPT ![a] = "ring"] => Mapped' = Mapped \cup {a}
         /\ \A a \in Addrs : space' = [space EXCEPT ![a] = "free"] => Mapped' = Mapped \ {a}
         /\ \A a \in Addrs : Lowest(a) /\ space' = [space EXCEPT ![a] = "other"] => Mapped' = Mapped
<1> USE DEF Mapped, Lowest
<1>1. \A a \in Addrs : space' = [space EXCEPT ![a] = "ring"] => Mapped' = Mapped \cup {a}
  OBVIOUS
<1>2. \A a \in Addrs : space' = [space EXCEPT ![a] = "free"] => Mapped' = Mapped \ {a}
  OBVIOUS
<1>3. \A a \in Addrs : Lowest(a) /\ space' = [space EXCEPT ![a] = "other"] => Mapped' = Mapped
  OBVIOUS
<1> QED BY <1>1, <1>2, <1>3

\* The steps of with_params.
LEMMA SetupInvSetup ==
  ASSUME SetupInv, NEW ok \in BOOLEAN,
         SetupStep(ok) \/ ShareMapping \/ FillArray
  PROVE  SetupInv'
<1> USE DEF SetupInv, Building
<1>1. CASE Setup(ok)
  BY <1>1, MappedStep DEF Setup
<1>2. CASE MapSq(ok)
  BY <1>2, MappedStep DEF MapSq, Fail
<1>3. CASE MapCq(ok)
  BY <1>3, MappedStep DEF MapCq, Fail
<1>4. CASE MapSqes(ok)
  BY <1>4, MappedStep DEF MapSqes, Fail
<1>5. CASE ShareMapping
  BY <1>5, MappedStep DEF ShareMapping
<1>6. CASE FillArray
  BY <1>6, MappedStep DEF FillArray, Filled
<1> QED BY <1>1, <1>2, <1>3, <1>4, <1>5, <1>6 DEF SetupStep

\* Every other step leaves a finished with_params alone or takes the ring down.
LEMMA SetupInvStep ==
  ASSUME SetupInv, [UringNext]_uringVars
  PROVE  SetupInv'
<1>1. CASE (\E ok \in BOOLEAN : SetupStep(ok)) \/ ShareMapping \/ FillArray
  BY <1>1, SetupInvSetup
<1>2. CASE DropRing
  BY <1>2, MappedStep DEF DropRing, SetupInv, Building
<1>3. CASE Unmap
  <2>1. space' \in [Addrs -> {"free", "ring", "other"}]
    BY <1>3 DEF Unmap, SetupInv
  <2> QED BY <1>3, <2>1 DEF Unmap, SetupInv, Building
<1>4. CASE Close
  BY <1>4, MappedStep DEF Close, SetupInv, Building
<1>5. CASE OtherMaps
  <2>1. space' \in [Addrs -> {"free", "ring", "other"}]
    BY <1>5 DEF OtherMaps, SetupInv
  <2> QED BY <1>5, <2>1 DEF OtherMaps, SetupInv, Building
<1>6. CASE UNCHANGED ringVars
  BY <1>6, MappedStep DEF ringVars, SetupInv, Building, Filled
<1> QED
  BY <1>1, <1>2, <1>3, <1>4, <1>5, <1>6 DEF UringNext, uringVars

\* The ring before with_params.
LEMMA SetupInvInit == UringInit => SetupInv
BY UringAssumption DEF UringInit, SetupInv, Building, Mapped

\* A ring that with_params has returned is ready, whatever the kernel's
\* features and whichever calls of earlier attempts failed.
THEOREM OpenRingIsReady == UringSpec => []OpenIsReady
<1>1. UringSpec => []SetupInv
  BY SetupInvInit, SetupInvStep, PTL DEF UringSpec
<1>2. SetupInv => OpenIsReady
  BY DEF SetupInv, OpenIsReady, Filled
<1> QED BY <1>1, <1>2, PTL

-----------------------------------------------------------------------------
(* The error paths and the drop.                                            *)

\* At most two different addresses.
Pending == {<<>>} \cup {<<a>> : a \in Addrs} \cup {p \in Addrs \X Addrs : p[1] # p[2]}

ToUnmap == {undo[i] : i \in DOMAIN undo}

\* What is still to be unmapped is what is still mapped: all of the ring after
\* an error, the two rings after a drop, whose SQEs stay.
UndoInv ==
  /\ ~harm
  /\ undo \in Pending
  /\ sqesAt = Null \/ sqesAt \in Addrs
  /\ phase = "undo" =>
       IF sqesAt = Null THEN Mapped = ToUnmap
       ELSE /\ Mapped = ToUnmap \cup {sqesAt}
            /\ sqesAt \notin {sqRing, cqRing} \cup ToUnmap
  /\ phase = "failed" => Mapped = {} /\ fd # "open"
  /\ phase = "dropped" => Mapped \cap {sqRing, cqRing} = {} /\ fd = "closed"

\* Unmapping the next address.
LEMMA UnmapNext ==
  ASSUME undo \in Pending, undo # <<>>, undo' = Tail(undo)
  PROVE  /\ Head(undo) \in Addrs /\ Head(undo) \in ToUnmap
         /\ undo' \in Pending /\ ToUnmap' = ToUnmap \ {Head(undo)}
<1>1. CASE undo \in {<<a>> : a \in Addrs}
  <2>1. PICK a \in Addrs : undo = <<a>>
    BY <1>1
  <2>2. undo' = <<>> /\ Head(undo) = a
    BY <2>1
  <2> QED BY <2>1, <2>2 DEF Pending, ToUnmap
<1>2. CASE undo \in {p \in Addrs \X Addrs : p[1] # p[2]}
  <2>1. PICK a \in Addrs, b \in Addrs : undo = <<a, b>> /\ a # b
    BY <1>2
  <2>2. undo' = <<b>> /\ Head(undo) = a
    BY <2>1
  <2>3. ToUnmap = {a, b} /\ ToUnmap' = {b}
    BY <2>1, <2>2 DEF ToUnmap
  <2> QED BY <2>1, <2>2, <2>3 DEF Pending
<1> QED BY <1>1, <1>2 DEF Pending

\* The error paths hand over exactly what is mapped ...
LEMMA UndoInvSetup ==
  ASSUME AvoidSingle, SetupInv, UndoInv, NEW ok \in BOOLEAN, SetupStep(ok)
  PROVE  UndoInv'
<1> USE DEF SetupInv, Building, UndoInv
<1>1. CASE Setup(ok)
  BY <1>1, MappedStep DEF Setup
<1>2. CASE MapSq(ok)
  <2>1. CASE ok
    BY <1>2, <2>1, MappedStep DEF MapSq
  <2>2. CASE ~ok
    <3>1. undo' = <<>> /\ Mapped' = {} /\ phase' = "undo"
          /\ UNCHANGED <<harm, fd, sqesAt>>
      BY <1>2, <2>2, MappedStep DEF MapSq, Fail
    <3>2. undo' \in Pending /\ ToUnmap' = {}
      BY <3>1 DEF Pending, ToUnmap
    <3> QED BY <1>2, <3>1, <3>2 DEF MapSq
  <2> QED BY <2>1, <2>2
<1>3. CASE MapCq(ok)
  <2>1. CASE ok
    BY <1>3, <2>1, MappedStep DEF MapCq
  <2>2. CASE ~ok
    <3>1. undo' = <<sqRing>> /\ Mapped' = {sqRing} /\ phase' = "undo" /\ sqRing \in Addrs
          /\ UNCHANGED <<harm, fd, sqesAt>>
      BY <1>3, <2>2, MappedStep DEF MapCq, Fail
    <3>2. undo' \in Pending /\ ToUnmap' = {sqRing}
      BY <3>1 DEF Pending, ToUnmap
    <3> QED BY <1>3, <3>1, <3>2 DEF MapCq
  <2> QED BY <2>1, <2>2
<1>4. CASE MapSqes(ok)
  <2>1. CASE ok
    BY <1>4, <2>1, MappedStep DEF MapSqes
  <2>2. CASE ~ok
    <3>1. /\ undo' = <<sqRing, cqRing>> /\ Mapped' = {sqRing, cqRing} /\ phase' = "undo"
          /\ sqRing \in Addrs /\ cqRing \in Addrs /\ sqRing # cqRing
          /\ UNCHANGED <<harm, fd, sqesAt>>
      BY <1>4, <2>2, MappedStep DEF MapSqes, Fail, SqesFailure
    <3>2. undo' \in Pending /\ ToUnmap' = {sqRing, cqRing}
      BY <3>1 DEF Pending, ToUnmap
    <3> QED BY <1>4, <3>1, <3>2 DEF MapSqes
  <2> QED BY <2>1, <2>2
<1> QED BY <1>1, <1>2, <1>3, <1>4 DEF SetupStep

\* ... and so does the drop, but for the SQEs; then one address at a time goes.
LEMMA UndoInvStep ==
  ASSUME AvoidSingle, SetupInv, UndoInv, [UringNext]_uringVars
  PROVE  UndoInv'
<1>1. CASE \E ok \in BOOLEAN : SetupStep(ok)
  BY <1>1, UndoInvSetup
<1>2. CASE ShareMapping \/ FillArray
  BY <1>2, MappedStep DEF ShareMapping, FillArray, SetupInv, UndoInv
<1>3. CASE DropRing
  <2>1. /\ sqRing \in Addrs /\ cqRing \in Addrs /\ sqesAt \in Addrs
        /\ sqesAt \notin {sqRing, cqRing} /\ Mapped' = {sqRing, cqRing, sqesAt}
        /\ undo' = IF cqRing # sqRing THEN <<sqRing, cqRing>> ELSE <<sqRing>>
        /\ phase' = "undo" /\ UNCHANGED <<harm, fd, sqRing, cqRing, sqesAt>>
    BY <1>3, MappedStep DEF DropRing, SetupInv
  <2>2. undo' \in Pending /\ ToUnmap' = {sqRing, cqRing}
    BY <2>1 DEF Pending, ToUnmap
  <2> QED BY <2>1, <2>2, UringAssumption DEF UndoInv
<1>4. CASE Unmap
  <2>1. /\ Head(undo) \in Addrs /\ Head(undo) \in ToUnmap
        /\ undo' \in Pending /\ ToUnmap' = ToUnmap \ {Head(undo)}
    BY <1>4, UnmapNext DEF Unmap, UndoInv
  <2>2. Head(undo) \in Mapped
    BY <1>4, <2>1 DEF Unmap, UndoInv
  <2>3. ~harm'
    BY <1>4, <2>2 DEF Unmap, UndoInv, Mapped
  <2>4. Mapped' = Mapped \ {Head(undo)}
    BY <1>4, <2>1, MappedStep DEF Unmap, SetupInv
  <2> QED BY <1>4, <2>1, <2>3, <2>4 DEF Unmap, UndoInv
<1>5. CASE Close
  <2>1. ToUnmap = {}
    BY <1>5 DEF Close, ToUnmap
  <2>2. Mapped' = Mapped
    BY <1>5, MappedStep DEF Close, SetupInv
  <2> QED BY <1>5, <2>1, <2>2 DEF Close, UndoInv, ToUnmap
<1>6. CASE OtherMaps
  <2>1. Mapped' = Mapped
    BY <1>6, MappedStep DEF OtherMaps, SetupInv
  <2>2. ToUnmap' = ToUnmap /\ UNCHANGED <<phase, fd, sqRing, cqRing, sqesAt, undo, harm>>
    BY <1>6 DEF OtherMaps, ToUnmap
  <2> QED BY <2>1, <2>2 DEF UndoInv
<1>7. CASE UNCHANGED ringVars
  BY <1>7, MappedStep DEF ringVars, SetupInv, UndoInv, ToUnmap
<1> QED
  BY <1>1, <1>2, <1>3, <1>4, <1>5, <1>6, <1>7 DEF UringNext, uringVars

\* Unless the SQEs of a shared mapping cannot be mapped, every failure and
\* every drop is clean, and no mapping of another thread is ever touched.
THEOREM FailuresAreClean == AvoidSingle => (UringSpec => []FailureIsClean)
<1> SUFFICES ASSUME AvoidSingle PROVE UringSpec => []FailureIsClean
  OBVIOUS
<1>1. UringInit => SetupInv /\ UndoInv
  BY SetupInvInit DEF UringInit, UndoInv, Pending
<1>2. SetupInv /\ UndoInv /\ [UringNext]_uringVars => (SetupInv /\ UndoInv)'
  BY SetupInvStep, UndoInvStep
<1>3. SetupInv /\ UndoInv => FailureIsClean
  BY DEF UndoInv, FailureIsClean
<1> QED BY <1>1, <1>2, <1>3, PTL DEF UringSpec
=============================================================================
