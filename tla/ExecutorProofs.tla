---------------------------- MODULE ExecutorProofs ----------------------------
(***************************************************************************)
(* The executor for any number of tasks, requests, indices and buffers,    *)
(* any size of the rings and any length of a chain.                        *)
(***************************************************************************)
EXTENDS Executor, Integers, FiniteSetTheorems, SequenceTheorems, WellFoundedInduction, TLAPS

-----------------------------------------------------------------------------
(* The invariant of the types.                                              *)

\* Where the thread is.
ThreadType ==
  /\ api \in {"none", "run", "block_on", "failed"}
  /\ root \in Tasks \cup {None} /\ output \in BOOLEAN
  /\ pc \in {"out", "turn", "enter", "wait", "process", "poll", "task", "spin"}
  /\ cont \in {"process", "task", "spin"} /\ waitFor \in 0 .. 1
  /\ panicking \in BOOLEAN
  /\ dropping \in Cqids \cup {None}
  /\ (cur # None) = (pc \in {"task", "spin"} \/ (pc \in {"enter", "wait"} /\ cont # "process"))
  /\ cur \in Tasks \cup {None}

\* A LinkedSubmitter and an unfinished drop belong to the task being polled or
\* dropped, and exclude each other.
ThreadInv ==
  /\ link # <<>> => ~panicking /\ (pc = "task" \/ (pc \in {"enter", "wait"} /\ cont = "task"))
  /\ (dropping # None) = (pc = "spin" \/ (pc \in {"enter", "wait"} /\ cont = "spin"))
  /\ panicking => cur # None

SetType ==
  /\ futures \subseteq Tasks /\ runqueue \subseteq Tasks /\ woken \subseteq Tasks
  /\ buffers \subseteq Bufs /\ group \subseteq Bufs
  /\ polled \subseteq Cqids /\ waiting \in [Tasks -> SUBSET Cqids]

\* A future object has its event, which is not detached.
MapType ==
  /\ completions \in [Cqids -> Event \cup {None}]
  /\ fut \in [Cqids -> FutureObject \cup {None}]
  /\ \A c \in Cqids : fut[c] # None => completions[c] # None /\ completions[c].task # Dead
  /\ dropping # None => dropping \in Held(cur)

SeqType ==
  /\ sq \in Seq(Sqe) /\ link \in Seq(Sqe) /\ inflight \in Seq(Sqe) /\ cq \in Seq(CqeRecord)
  /\ Len(link) <= MaxLink /\ Len(cq) <= CqEntries /\ left \in Nat /\ left <= Len(sq)

\* The counters stay within what the bounds allow.
BoundType ==
  /\ created \in Nat /\ queued \in Nat /\ ops \in Nat /\ spawns \in Nat
  /\ queued + Len(link) <= ops /\ ops <= MaxOps
  /\ created <= spawns /\ spawns <= MaxSpawns

TypeInv == ThreadType /\ ThreadInv /\ SetType /\ MapType /\ SeqType /\ BoundType

-----------------------------------------------------------------------------
(* The kernel's operators on sequences.                                     *)

\* Overwriting a slot of the ring keeps its length and its type.
LEMMA OverwriteType ==
  ASSUME NEW s \in Seq(Sqe), NEW e \in Sqe, NEW pos \in Int
  PROVE  /\ Overwrite(s, pos, e) \in Seq(Sqe)
         /\ Len(Overwrite(s, pos, e)) = Len(s)
<1> DEFINE r == Overwrite(s, pos, e)
<1>1. DOMAIN s = 1 .. Len(s) /\ Len(s) \in Nat /\ \A i \in 1 .. Len(s) : s[i] \in Sqe
  OBVIOUS
<1>2. r \in [1 .. Len(s) -> Sqe]
  BY <1>1 DEF Overwrite
<1> HIDE DEF r
<1> QED BY <1>1, <1>2, SeqDef DEF r

\* What the kernel takes are the same requests, with the last link flag cleared.
LEMMA TakenType ==
  ASSUME NEW s \in Seq(Sqe)
  PROVE  /\ Taken(s) \in Seq(Sqe) /\ Len(Taken(s)) = Len(s)
         /\ \A i \in 1 .. Len(s) : /\ Taken(s)[i].ud = s[i].ud /\ Taken(s)[i].kind = s[i].kind
                                   /\ Taken(s)[i].buf = s[i].buf
<1> DEFINE r == Taken(s)
<1>1. DOMAIN s = 1 .. Len(s) /\ Len(s) \in Nat /\ \A i \in 1 .. Len(s) : s[i] \in Sqe
  OBVIOUS
<1>2. r \in [1 .. Len(s) -> Sqe]
  BY <1>1 DEF Taken, Sqe
<1>3. \A i \in 1 .. Len(s) : r[i].ud = s[i].ud /\ r[i].kind = s[i].kind /\ r[i].buf = s[i].buf
  BY <1>1 DEF Taken, Sqe
<1> HIDE DEF r
<1> QED BY <1>1, <1>2, <1>3, SeqDef DEF r

\* What remains around positions i to j.
LEMMA WithoutType ==
  ASSUME NEW T, NEW s \in Seq(T), NEW i \in 1 .. Len(s), NEW j \in i .. Len(s)
  PROVE  /\ Without(s, i, j) \in Seq(T)
         /\ Len(Without(s, i, j)) = Len(s) - (j - i + 1)
         /\ \A k \in 1 .. Len(s) - (j - i + 1) :
              Without(s, i, j)[k] = IF k < i THEN s[k] ELSE s[k + (j - i + 1)]
<1> DEFINE p == SubSeq(s, 1, i - 1)
           q == SubSeq(s, j + 1, Len(s))
           n == j - i + 1
<1>1. Len(s) \in Nat /\ i \in Nat /\ j \in Nat /\ n \in Nat /\ \A k \in 1 .. Len(s) : s[k] \in T
  OBVIOUS
<1>2. p \in Seq(T) /\ Len(p) = i - 1 /\ \A k \in 1 .. i - 1 : p[k] = s[k]
  BY <1>1
<1>3. q \in Seq(T) /\ Len(q) = Len(s) - j /\ \A k \in 1 .. Len(s) - j : q[k] = s[k + j]
  BY <1>1
<1> HIDE DEF p, q
<1>4. /\ p \o q \in Seq(T) /\ Len(p \o q) = Len(p) + Len(q)
      /\ \A k \in 1 .. Len(p) + Len(q) :
           (p \o q)[k] = IF k <= Len(p) THEN p[k] ELSE q[k - Len(p)]
  BY <1>2, <1>3, ConcatProperties
<1>5. Without(s, i, j) = p \o q
  BY DEF Without, p, q
<1>6. Len(p) + Len(q) = Len(s) - n
  BY <1>1, <1>2, <1>3
<1>7. ASSUME NEW k \in 1 .. Len(s) - n
      PROVE  (p \o q)[k] = IF k < i THEN s[k] ELSE s[k + n]
  <2>1. CASE k < i
    BY <1>1, <1>2, <1>4, <1>6, <2>1
  <2>2. CASE ~(k < i)
    <3>1. (p \o q)[k] = q[k - (i - 1)]
      BY <1>1, <1>2, <1>4, <1>6, <2>2
    <3>2. k - (i - 1) \in 1 .. Len(s) - j /\ k - (i - 1) + j = k + n
      BY <1>1, <2>2
    <3>3. q[k - (i - 1)] = s[k - (i - 1) + j]
      BY <1>3, <3>2
    <3> QED BY <2>2, <3>1, <3>2, <3>3
  <2> QED BY <2>1, <2>2
<1> QED BY <1>4, <1>5, <1>6, <1>7 DEF n

\* A sequence cut at a position.
LEMMA SplitAt ==
  ASSUME NEW T, NEW s \in Seq(T), NEW n \in 0 .. Len(s)
  PROVE  LET p == SubSeq(s, 1, n)
             q == SubSeq(s, n + 1, Len(s)) IN
         /\ p \in Seq(T) /\ Len(p) = n /\ \A k \in 1 .. n : p[k] = s[k]
         /\ q \in Seq(T) /\ Len(q) = Len(s) - n /\ \A k \in 1 .. Len(s) - n : q[k] = s[n + k]
         /\ Len(s) - n \in Nat
<1>1. Len(s) \in Nat /\ n \in Nat /\ n <= Len(s)
  OBVIOUS
<1>2. /\ SubSeq(s, 1, n) \in Seq(T) /\ Len(SubSeq(s, 1, n)) = n
      /\ \A k \in 1 .. n : SubSeq(s, 1, n)[k] = s[k]
  BY <1>1
<1>3. /\ SubSeq(s, n + 1, Len(s)) \in Seq(T) /\ Len(SubSeq(s, n + 1, Len(s))) = Len(s) - n
      /\ \A k \in 1 .. Len(s) - n : SubSeq(s, n + 1, Len(s))[k] = s[n + k]
  BY <1>1
<1> QED BY <1>1, <1>2, <1>3

\* The kernel takes no more than the ring holds.
LEMMA TakesSome ==
  ASSUME SeqType
  PROVE  Takes \subseteq 0 .. Len(sq)
<1>1. Len(sq) \in Nat /\ left \in Nat /\ left <= Len(sq)
  BY DEF SeqType
<1> QED BY <1>1 DEF Takes, Unsubmitted

-----------------------------------------------------------------------------
(* Type correctness, part by part.                                          *)

\* Constants.
LEMMA Constants ==
  /\ SqEntries \in Nat \ {0} /\ CqEntries \in Nat /\ MaxLink \in Nat
  /\ MaxOps \in Nat /\ MaxSpawns \in Nat
  /\ None \notin Tasks /\ NoTask \notin Tasks /\ Dead \notin Tasks /\ NoTask # Dead
  /\ None \notin Cqids /\ None \notin Bufs
  /\ None \notin CqeRecord /\ None \notin Event /\ None \notin FutureObject
BY ExecutorAssumption

\* Ids woken by CQEs are tasks.
LEMMA WokenAreTasks ==
  ASSUME MapType
  PROVE  WokenTasks \subseteq Tasks
BY DEF MapType, WokenTasks, Reached, Event

\* Every step keeps the types of the sets of ids and buffers.
LEMMA SetTypeStep ==
  ASSUME TypeInv, [Next]_vars
  PROVE  SetType'
<1> USE DEF SetType
<1>0. SetType /\ MapType /\ ThreadType
  BY DEF TypeInv
<1>1. CASE \E t \in Tasks : RuntimeSpawn(t) \/ CallBlockOn(t)
  BY <1>0, <1>1 DEF RuntimeSpawn, CallBlockOn, ctxVars, futVars, kernVars
<1>2. CASE \/ CallRun \/ Return \/ TurnEnd \/ EnterOk \/ WaitDone \/ MakeRoom \/ SubmitLink
           \/ AbandonLink \/ Spawn \/ Panic \/ UNCHANGED vars
  BY <1>0, <1>2 DEF CallRun, Return, TurnEnd, EnterOk, WaitDone, MakeRoom, SubmitLink,
         AbandonLink, Spawn, Panic, vars, rtVars, ctxVars, futVars, kernVars
<1>3. CASE \E new \in SUBSET (Tasks \ futures), hasNext \in BOOLEAN : TurnBegin(new, hasNext)
  BY <1>0, <1>3 DEF TurnBegin, Runnable, futVars, kernVars
<1>4. CASE TurnProcess \/ EnterTransient
  BY <1>0, <1>4, WokenAreTasks DEF TurnProcess, EnterTransient, ProcessCqes, rtVars, ctxVars, futVars, kernVars
<1>5. CASE \E t \in Tasks : PollNext(t)
  BY <1>0, <1>5 DEF PollNext, ctxVars, futVars, kernVars
<1>6. CASE EnterHard
  <2>1. UNCHANGED <<futures, runqueue, woken, futVars, kernVars>>
    BY <1>6 DEF EnterHard
  <2>2. buffers' \subseteq Bufs
    <3>1. CASE cont = "task"
      BY <1>0, <1>6, <3>1 DEF EnterHard
    <3>2. CASE cont # "task"
      BY <1>0, <1>6, <3>2 DEF EnterHard, ThreadType
    <3> QED BY <3>1, <3>2
  <2> QED BY <1>0, <2>1, <2>2 DEF futVars, kernVars
<1>7. CASE \E k \in Kinds, c \in Cqids, b \in Bufs \cup {None} : StartOp(k, c, b)
  BY <1>0, <1>7 DEF StartOp, rtVars, kernVars
<1>8. CASE \E c \in Cqids : PollPending(c) \/ PollReady(c)
  BY <1>0, <1>8 DEF PollPending, PollReady, rtVars, kernVars
<1>9. CASE \E c \in Cqids, t \in Tasks : Give(c, t)
  BY <1>0, <1>9 DEF Give, rtVars, ctxVars, kernVars
<1>10. CASE Suspend \/ Finish
  BY <1>0, <1>10 DEF Suspend, Finish, PollDone, rtVars, ctxVars, futVars, kernVars
<1>11. CASE \E c \in Cqids : DropReady(c) \/ DropDetach(c) \/ DropSpin(c) \/ DropBorrowed(c)
  BY <1>0, <1>11 DEF DropReady, DropDetach, DropSpin, DropBorrowed, rtVars, ctxVars, futVars, kernVars
<1>12. CASE SpinTest
  BY <1>0, <1>12 DEF SpinTest, rtVars, ctxVars, kernVars
<1>13. CASE UnwindDone
  BY <1>0, <1>13 DEF UnwindDone, ctxVars, kernVars
<1>14. CASE Kernel
  <2>1. PICK i \in DOMAIN inflight : \/ \E j \in i .. Len(inflight) : Fail(i, j)
                                     \/ \E b \in Bufs \cup {None} : Complete(i, b)
    BY <1>14 DEF Kernel
  <2>2. CASE \E j \in i .. Len(inflight) : Fail(i, j)
    BY <1>0, <2>2 DEF Fail, rtVars, ctxVars, futVars
  <2>3. CASE \E b \in Bufs \cup {None} : Complete(i, b)
    <3>1. inflight[i] \in Sqe
      BY DEF TypeInv, SeqType
    <3>2. inflight[i].kind = "provide" => inflight[i].buf \in Bufs
      BY <3>1 DEF Sqe
    <3> QED BY <1>0, <2>3, <3>2 DEF Complete, rtVars, ctxVars, futVars
  <2> QED BY <2>1, <2>2, <2>3
<1> QED
  BY <1>1, <1>2, <1>3, <1>4, <1>5, <1>6, <1>7, <1>8, <1>9, <1>10, <1>11, <1>12, <1>13, <1>14
     DEF Next, Thread, Program, Loop, Client

\* Most of what a future does while it is polled leaves the thread where it is.
LEMMA ThreadStays ==
  ASSUME \/ SubmitLink \/ AbandonLink \/ Spawn \/ EnterTransient \/ UNCHANGED vars
         \/ (\E k \in Kinds, c \in Cqids, b \in Bufs \cup {None} : StartOp(k, c, b))
         \/ (\E c \in Cqids : PollPending(c) \/ PollReady(c) \/ DropReady(c) \/ DropDetach(c))
         \/ (\E c \in Cqids, t \in Tasks : Give(c, t))
         \/ Kernel
  PROVE  /\ UNCHANGED rtVars /\ UNCHANGED thrVars
         /\ link' = link \/ link' = <<>> \/ (pc = "task" /\ ~panicking)
<1>1. CASE SubmitLink \/ AbandonLink \/ Spawn \/ EnterTransient \/ UNCHANGED vars
  BY <1>1 DEF SubmitLink, AbandonLink, Spawn, EnterTransient, vars, ringVars
<1>2. CASE \E k \in Kinds, c \in Cqids, b \in Bufs \cup {None} : StartOp(k, c, b)
  BY <1>2 DEF StartOp, Running
<1>3. CASE \E c \in Cqids : PollPending(c) \/ PollReady(c)
  BY <1>3 DEF PollPending, PollReady, ringVars
<1>4. CASE \E c \in Cqids : DropReady(c) \/ DropDetach(c)
  BY <1>4 DEF DropReady, DropDetach, ringVars
<1>5. CASE \E c \in Cqids, t \in Tasks : Give(c, t)
  BY <1>5 DEF Give, ringVars
<1>6. CASE Kernel
  BY <1>6 DEF Kernel, Fail, Complete, ringVars
<1> QED BY <1>1, <1>2, <1>3, <1>4, <1>5, <1>6

\* Every step keeps the types of the thread's variables.
LEMMA ThreadTypeStep ==
  ASSUME TypeInv, [Next]_vars
  PROVE  ThreadType'
<1> USE DEF ThreadType
<1>0. ThreadType /\ SetType /\ None \notin Tasks
  BY Constants DEF TypeInv
<1>1. CASE \E t \in Tasks : RuntimeSpawn(t) \/ CallBlockOn(t)
  BY <1>0, <1>1 DEF RuntimeSpawn, CallBlockOn, thrVars
<1>2. CASE CallRun \/ Return \/ TurnEnd \/ EnterOk \/ WaitDone
  BY <1>0, <1>2 DEF CallRun, Return, TurnEnd, EnterOk, WaitDone, rtVars
<1>3. CASE \/ SubmitLink \/ AbandonLink \/ Spawn \/ EnterTransient \/ UNCHANGED vars
           \/ (\E k \in Kinds, c \in Cqids, b \in Bufs \cup {None} : StartOp(k, c, b))
           \/ (\E c \in Cqids : PollPending(c) \/ PollReady(c) \/ DropReady(c) \/ DropDetach(c))
           \/ (\E c \in Cqids, t \in Tasks : Give(c, t))
           \/ Kernel
  <2>1. /\ UNCHANGED rtVars /\ UNCHANGED thrVars
        /\ link' = link \/ link' = <<>> \/ (pc = "task" /\ ~panicking)
    BY <1>3, ThreadStays
  <2> QED BY <1>0, <2>1 DEF rtVars, thrVars
<1>4. CASE \E new \in SUBSET (Tasks \ futures), hasNext \in BOOLEAN : TurnBegin(new, hasNext)
  BY <1>0, <1>4 DEF TurnBegin, Submit, WaitCount
<1>5. CASE TurnProcess
  BY <1>0, <1>5 DEF TurnProcess
<1>6. CASE \E t \in Tasks : PollNext(t)
  BY <1>0, <1>6 DEF PollNext
<1>7. CASE EnterHard
  BY <1>0, <1>7 DEF EnterHard
<1>8. CASE MakeRoom
  BY <1>0, <1>8 DEF MakeRoom, Submit, Running, rtVars
<1>9. CASE Suspend \/ Finish
  BY <1>0, <1>9 DEF Suspend, Finish, PollDone, rtVars
<1>10. CASE \E c \in Cqids : DropSpin(c)
  BY <1>0, <1>10 DEF DropSpin, CanDrop, rtVars
<1>11. CASE SpinTest
  BY <1>0, <1>11 DEF SpinTest, Submit, rtVars
<1>12. CASE UnwindDone
  BY <1>0, <1>12 DEF UnwindDone, DropNext
<1>13. CASE Panic \/ \E c \in Cqids : DropBorrowed(c)
  BY <1>0, <1>13 DEF Panic, DropBorrowed, MayPanic, Running, rtVars
<1> QED
  BY <1>1, <1>2, <1>3, <1>4, <1>5, <1>6, <1>7, <1>8, <1>9, <1>10, <1>11, <1>12, <1>13
     DEF Next, Thread, Program, Loop, Client

\* Every step keeps CURRENT_TASK set exactly while a future is polled or dropped.
LEMMA ThreadInvStep ==
  ASSUME TypeInv, [Next]_vars
  PROVE  ThreadInv'
<1> USE DEF ThreadInv
<1>0. ThreadInv /\ ThreadType /\ None \notin Cqids /\ None \notin Tasks
  BY Constants DEF TypeInv
<1>1. CASE \E t \in Tasks : RuntimeSpawn(t) \/ CallBlockOn(t)
  BY <1>0, <1>1 DEF RuntimeSpawn, CallBlockOn, thrVars, ringVars
<1>2. CASE CallRun \/ Return \/ TurnEnd \/ EnterOk \/ WaitDone
  BY <1>0, <1>2 DEF CallRun, Return, TurnEnd, EnterOk, WaitDone, rtVars, ringVars, ThreadType
<1>3. CASE \/ SubmitLink \/ AbandonLink \/ Spawn \/ EnterTransient \/ UNCHANGED vars
           \/ (\E k \in Kinds, c \in Cqids, b \in Bufs \cup {None} : StartOp(k, c, b))
           \/ (\E c \in Cqids : PollPending(c) \/ PollReady(c) \/ DropReady(c) \/ DropDetach(c))
           \/ (\E c \in Cqids, t \in Tasks : Give(c, t))
           \/ Kernel
  <2>1. /\ UNCHANGED rtVars /\ UNCHANGED thrVars
        /\ link' = link \/ link' = <<>> \/ (pc = "task" /\ ~panicking)
    BY <1>3, ThreadStays
  <2> QED BY <1>0, <2>1 DEF rtVars, thrVars, ThreadType
<1>4. CASE \E new \in SUBSET (Tasks \ futures), hasNext \in BOOLEAN : TurnBegin(new, hasNext)
  BY <1>0, <1>4 DEF TurnBegin, Submit, ringVars, ThreadType
<1>5. CASE TurnProcess
  BY <1>0, <1>5 DEF TurnProcess, ringVars, ThreadType
<1>6. CASE \E t \in Tasks : PollNext(t)
  BY <1>0, <1>6 DEF PollNext, ringVars, ThreadType
<1>7. CASE EnterHard
  BY <1>0, <1>7 DEF EnterHard, ThreadType
<1>8. CASE MakeRoom
  BY <1>0, <1>8 DEF MakeRoom, Submit, Running, ringVars, ThreadType
<1>9. CASE Suspend \/ Finish
  BY <1>0, <1>9 DEF Suspend, Finish, PollDone, Unborrowed, Running, ringVars, ThreadType
<1>10. CASE \E c \in Cqids : DropSpin(c)
  BY <1>0, <1>10 DEF DropSpin, CanDrop, ThreadType
<1>11. CASE SpinTest
  BY <1>0, <1>11 DEF SpinTest, Submit, ringVars, ThreadType
<1>12. CASE UnwindDone
  BY <1>0, <1>12 DEF UnwindDone, DropNext, ringVars, ThreadType
<1>13. CASE Panic \/ \E c \in Cqids : DropBorrowed(c)
  BY <1>0, <1>13 DEF Panic, DropBorrowed, MayPanic, Running, ThreadType
<1> QED
  BY <1>1, <1>2, <1>3, <1>4, <1>5, <1>6, <1>7, <1>8, <1>9, <1>10, <1>11, <1>12, <1>13
     DEF Next, Thread, Program, Loop, Client

\* A fatal error of io_uring_enter, by the caller it is returned to.
LEMMA HardCases ==
  ASSUME ThreadType, EnterHard
  PROVE  \/ /\ cont = "process" /\ pc' = "out" /\ api' = "failed"
            /\ UNCHANGED <<panicking, completions, buffers, link>>
         \/ /\ cont = "spin" /\ pc' = "spin"
            /\ UNCHANGED <<api, panicking, completions, buffers, link>>
         \/ /\ cont = "task" /\ pc' = "task" /\ panicking' = TRUE /\ link' = <<>>
            /\ \E c \in Vacant :
                 completions' = [completions EXCEPT ![c] =
                                   [cqe |-> None, task |-> NoTask, action |-> None]]
            /\ buffers' = buffers \/ \E b \in Bufs \ buffers : buffers' = buffers \cup {b}
            /\ UNCHANGED api
<1>1. CASE cont = "process"
  BY <1>1 DEF EnterHard
<1>2. CASE cont = "spin"
  BY <1>2 DEF EnterHard
<1>3. CASE cont = "task"
  BY <1>3 DEF EnterHard
<1> QED BY <1>1, <1>2, <1>3 DEF ThreadType

\* Every step keeps the counters within their bounds.
LEMMA BoundTypeStep ==
  ASSUME TypeInv, [Next]_vars
  PROVE  BoundType'
<1> USE DEF BoundType
<1>0. BoundType /\ ThreadType /\ Len(link) \in Nat /\ Len(<<>>) = 0 /\ link \in Seq(Sqe)
  BY DEF TypeInv, SeqType
<1>1. CASE \E t \in Tasks : RuntimeSpawn(t) \/ CallBlockOn(t)
  BY <1>0, <1>1, Constants DEF RuntimeSpawn, CallBlockOn, ctxVars, ringVars
<1>2. CASE \E new \in SUBSET (Tasks \ futures), hasNext \in BOOLEAN : TurnBegin(new, hasNext)
  BY <1>0, <1>2 DEF TurnBegin, ringVars, bounds
<1>3. CASE TurnProcess
  BY <1>0, <1>3 DEF TurnProcess, ringVars, bounds
<1>4. CASE EnterHard
  <2>1. link' \in {link, <<>>}
    BY <1>0, <1>4, HardCases
  <2>2. UNCHANGED <<created, queued, ops, spawns>>
    BY <1>4 DEF EnterHard, bounds
  <2> QED BY <1>0, <2>1, <2>2
<1>5. CASE \E k \in Kinds, c \in Cqids, b \in Bufs \cup {None} : StartOp(k, c, b)
  <2>1. PICK k \in Kinds, c \in Cqids, b \in Bufs \cup {None} : StartOp(k, c, b)
    BY <1>5
  <2>2. \E e : link' = Append(link, e)
    BY <2>1, Zenon DEF StartOp
  <2>3. Len(link') = Len(link) + 1
    BY <1>0, <2>2
  <2>4. UNCHANGED <<created, queued, spawns>> /\ ops' = ops + 1 /\ ops < MaxOps
    BY <2>1 DEF StartOp
  <2> QED BY <1>0, <2>3, <2>4, Constants
<1>6. CASE SubmitLink
  BY <1>0, <1>6 DEF SubmitLink, bounds
<1>7. CASE AbandonLink
  BY <1>0, <1>7 DEF AbandonLink, bounds, ctxVars
<1>8. CASE Spawn
  BY <1>0, <1>8, Constants DEF Spawn, ringVars
<1>9. CASE \/ CallRun \/ Return \/ TurnEnd \/ EnterOk \/ WaitDone \/ MakeRoom
           \/ (\E t \in Tasks : PollNext(t)) \/ UNCHANGED vars \/ Kernel
  BY <1>0, <1>9 DEF CallRun, Return, TurnEnd, EnterOk, WaitDone, PollNext, MakeRoom, vars,
                    Kernel, Fail, Complete, ctxVars, ringVars, bounds
<1>10. CASE \/ EnterTransient
            \/ (\E c \in Cqids : PollPending(c) \/ PollReady(c))
            \/ (\E c \in Cqids, t \in Tasks : Give(c, t))
  BY <1>0, <1>10 DEF EnterTransient, PollPending, PollReady, Give, ctxVars, ringVars, bounds
<1>11. CASE \E c \in Cqids : DropReady(c) \/ DropDetach(c) \/ DropSpin(c)
  BY <1>0, <1>11 DEF DropReady, DropDetach, DropSpin, ringVars, bounds
<1>12. CASE Suspend \/ Finish \/ SpinTest \/ UnwindDone
  BY <1>0, <1>12 DEF Suspend, Finish, SpinTest, UnwindDone, ctxVars, ringVars, bounds
<1>13. CASE Panic \/ \E c \in Cqids : DropBorrowed(c)
  BY <1>0, <1>13 DEF Panic, DropBorrowed, ctxVars, bounds
<1> QED
  BY <1>1, <1>2, <1>3, <1>4, <1>5, <1>6, <1>7, <1>8, <1>9, <1>10, <1>11, <1>12, <1>13
     DEF Next, Thread, Program, Loop, Client

\* The CQEs of the requests i to j of a chain that failed.
Failures(i, j) == [k \in 1 .. j - i + 1 |-> Cqe(inflight[i + k - 1], FALSE, None)]

\* The CQEs that Fail posts, one for each request of the rest of the chain.
LEMMA FailuresType ==
  ASSUME SeqType, NEW i \in 1 .. Len(inflight), NEW j \in i .. Len(inflight)
  PROVE  /\ Failures(i, j) \in Seq(CqeRecord) /\ Len(Failures(i, j)) = j - i + 1
         /\ \A k \in 1 .. j - i + 1 : Failures(i, j)[k] = Cqe(inflight[i + k - 1], FALSE, None)
<1> DEFINE r == Failures(i, j)
<1>1. j - i + 1 \in Nat /\ inflight \in Seq(Sqe) /\ Len(inflight) \in Nat
  BY DEF SeqType
<1>2. \A k \in 1 .. j - i + 1 : i + k - 1 \in 1 .. Len(inflight)
  BY <1>1
<1>3. \A k \in 1 .. Len(inflight) : Cqe(inflight[k], FALSE, None) \in CqeRecord
  BY <1>1 DEF Cqe, CqeRecord, Sqe
<1>4. r \in [1 .. j - i + 1 -> CqeRecord]
  BY <1>2, <1>3 DEF Failures
<1>5. \A k \in 1 .. j - i + 1 : r[k] = Cqe(inflight[i + k - 1], FALSE, None)
  BY DEF Failures
<1> DEFINE n == j - i + 1
<1> HIDE DEF r, n
<1>6. n \in Nat /\ r \in [1 .. n -> CqeRecord]
  BY <1>1, <1>4 DEF n
<1>7. r \in Seq(CqeRecord) /\ Len(r) = n
  BY <1>6, SeqDef
<1> QED BY <1>5, <1>7, Zenon DEF r, n

\* Every step keeps the rings and the running requests well-formed and within capacity.
LEMMA SeqTypeStep ==
  ASSUME TypeInv, [Next]_vars
  PROVE  SeqType'
<1> USE DEF SeqType
<1>0. /\ SeqType /\ ThreadType /\ MaxLink \in Nat /\ CqEntries \in Nat
      /\ <<>> \in Seq(Sqe) /\ <<>> \in Seq(CqeRecord) /\ Len(<<>>) = 0
  BY Constants DEF TypeInv
<1>1. CASE \E t \in Tasks : RuntimeSpawn(t) \/ CallBlockOn(t)
  BY <1>0, <1>1 DEF RuntimeSpawn, CallBlockOn, kernVars, ringVars
<1>2. CASE \E new \in SUBSET (Tasks \ futures), hasNext \in BOOLEAN : TurnBegin(new, hasNext)
  BY <1>0, <1>2 DEF TurnBegin, ringVars, kernVars
<1>3. CASE TurnProcess \/ EnterTransient
  <2>1. cq' = <<>> /\ UNCHANGED <<sq, left, link, inflight>>
    BY <1>3 DEF TurnProcess, EnterTransient, ProcessCqes, ringVars
  <2> QED BY <1>0, <2>1
<1>4. CASE EnterHard
  <2>1. link' \in {link, <<>>}
    BY <1>0, <1>4, HardCases
  <2>2. UNCHANGED <<sq, left, inflight, cq>>
    BY <1>4 DEF EnterHard, kernVars
  <2>3. CASE link' = link
    BY <1>0, <2>2, <2>3
  <2>4. CASE link' = <<>>
    BY <1>0, <2>2, <2>4
  <2> QED BY <2>1, <2>3, <2>4
<1>5. CASE EnterOk
  <2>1. PICK n \in 0 .. Len(sq) : /\ inflight' = inflight \o Taken(SubSeq(sq, 1, n))
                                 /\ sq' = SubSeq(sq, n + 1, Len(sq)) /\ left' = Len(sq) - n
    BY <1>0, <1>5, TakesSome DEF EnterOk
  <2>2. UNCHANGED <<link, cq>>
    BY <1>5 DEF EnterOk
  <2> DEFINE p == SubSeq(sq, 1, n)
             q == SubSeq(sq, n + 1, Len(sq))
  <2>3. p \in Seq(Sqe) /\ q \in Seq(Sqe) /\ Len(q) = Len(sq) - n /\ Len(sq) - n \in Nat
    BY <1>0, <2>1, SplitAt
  <2> HIDE DEF p, q
  <2>4. inflight' \in Seq(Sqe)
    <3>1. Taken(p) \in Seq(Sqe) /\ inflight' = inflight \o Taken(p)
      BY <2>1, <2>3, TakenType DEF p
    <3> QED BY <1>0, <3>1, ConcatProperties
  <2>5. sq' \in Seq(Sqe) /\ left' \in Nat /\ left' <= Len(sq')
    <3>1. sq' = q /\ left' = Len(q)
      BY <2>1, <2>3 DEF q
    <3> QED BY <2>3, <3>1
  <2>6. /\ link' \in Seq(Sqe) /\ cq' \in Seq(CqeRecord)
        /\ Len(link') <= MaxLink /\ Len(cq') <= CqEntries
    BY <1>0, <2>2
  <2> HIDE DEF SeqType
  <2> QED BY <2>4, <2>5, <2>6 DEF SeqType
<1>6. CASE \E k \in Kinds, c \in Cqids, b \in Bufs \cup {None} : StartOp(k, c, b)
  <2>1. PICK k \in Kinds, c \in Cqids, b \in Bufs \cup {None} : StartOp(k, c, b)
    BY <1>6
  <2> DEFINE e == [ud |-> c, kind |-> k, buf |-> b, link |-> TRUE]
  <2>2. e \in Sqe
    BY <2>1, Constants DEF StartOp, Sqe
  <2>3. /\ sq' = Overwrite(sq, Len(sq) + Len(link) + 1, e) /\ link' = Append(link, e)
        /\ Len(link) < MaxLink /\ UNCHANGED <<left, inflight, cq>>
    BY <2>1 DEF StartOp, kernVars
  <2> HIDE DEF e
  <2>4. Len(sq) + Len(link) + 1 \in Int
    BY <1>0
  <2>5. sq' \in Seq(Sqe) /\ Len(sq') = Len(sq)
    BY <1>0, <2>2, <2>3, <2>4, OverwriteType
  <2>6. link' \in Seq(Sqe) /\ Len(link') = Len(link) + 1
    BY <1>0, <2>2, <2>3
  <2>7. Len(link) \in Nat
    BY <1>0
  <2> QED BY <1>0, <2>3, <2>5, <2>6, <2>7
<1>7. CASE SubmitLink
  <2> DEFINE n == Len(link)
             end == [link[n] EXCEPT !.link = FALSE]
             l == [link EXCEPT ![n] = end]
  <2>1. n \in Nat /\ n \in 1 .. Len(link) /\ link[n] \in Sqe
    BY <1>0, <1>7 DEF SubmitLink
  <2>2. end \in Sqe
    BY <2>1 DEF Sqe
  <2>3. sq' = Overwrite(sq, Len(sq) + n, end) \o l /\ link' = <<>> /\ UNCHANGED <<left, inflight, cq>>
    BY <1>7 DEF SubmitLink, kernVars
  <2>4. Len(sq) + n \in Int
    BY <1>0, <2>1
  <2> HIDE DEF end
  <2> DEFINE o == Overwrite(sq, Len(sq) + n, end)
  <2>5. o \in Seq(Sqe) /\ Len(o) = Len(sq)
    BY <1>0, <2>2, <2>4, OverwriteType
  <2>6. l \in Seq(Sqe)
    BY <1>0, <2>1, <2>2, ExceptSeq
  <2>7. sq' = o \o l
    BY <2>3
  <2> HIDE DEF l, n, o
  <2>8. sq' \in Seq(Sqe) /\ Len(sq') = Len(o) + Len(l)
    BY <2>5, <2>6, <2>7, ConcatProperties
  <2>9. Len(l) \in Nat /\ Len(sq) \in Nat
    BY <1>0, <2>6
  <2>10. left' \in Nat /\ left' <= Len(sq')
    BY <1>0, <2>3, <2>5, <2>8, <2>9
  <2> QED BY <1>0, <2>3, <2>8, <2>10
<1>8. CASE AbandonLink
  BY <1>0, <1>8 DEF AbandonLink, kernVars
<1>9. CASE \E c \in Cqids : DropSpin(c)
  <2>1. sq' = Overwrite(sq, Len(sq) + 1, AsyncCancel) /\ UNCHANGED <<left, link, inflight, cq>>
    BY <1>9 DEF DropSpin, kernVars
  <2>2. AsyncCancel \in Sqe
    BY DEF AsyncCancel, Sqe
  <2>3. Len(sq) + 1 \in Int
    BY <1>0
  <2>4. sq' \in Seq(Sqe) /\ Len(sq') = Len(sq)
    BY <1>0, <2>1, <2>2, <2>3, OverwriteType
  <2> QED BY <1>0, <2>1, <2>4
<1>10. CASE Kernel
  <2>1. PICK i \in DOMAIN inflight : \/ \E j \in i .. Len(inflight) : Fail(i, j)
                                     \/ \E b \in Bufs \cup {None} : Complete(i, b)
    BY <1>10 DEF Kernel
  <2>2. i \in 1 .. Len(inflight) /\ inflight[i] \in Sqe /\ inflight \in Seq(Sqe)
    BY <1>0
  <2>3. CASE \E j \in i .. Len(inflight) : Fail(i, j)
    <3>1. PICK j \in i .. Len(inflight) : Fail(i, j)
      BY <2>3
    <3>2. /\ Len(cq) + (j - i + 1) <= CqEntries
          /\ cq' = cq \o Failures(i, j) /\ inflight' = Without(inflight, i, j)
          /\ UNCHANGED <<sq, left, link>>
      BY <3>1 DEF Fail, Failures, ringVars
    <3>3. Failures(i, j) \in Seq(CqeRecord) /\ Len(Failures(i, j)) = j - i + 1
      BY <1>0, <2>2, FailuresType
    <3>4. inflight' \in Seq(Sqe)
      BY <2>2, <3>2, WithoutType
    <3> DEFINE f == Failures(i, j)
    <3>5. cq' = cq \o f /\ f \in Seq(CqeRecord) /\ Len(f) = j - i + 1 /\ cq \in Seq(CqeRecord)
      BY <1>0, <3>2, <3>3
    <3> HIDE DEF f
    <3>6. cq' \in Seq(CqeRecord) /\ Len(cq') = Len(cq) + Len(f)
      BY <3>5, ConcatProperties
    <3>7. Len(cq') <= CqEntries
      BY <3>2, <3>5, <3>6
    <3> QED BY <1>0, <3>2, <3>4, <3>6, <3>7
  <2>4. CASE \E b \in Bufs \cup {None} : Complete(i, b)
    <3>1. PICK b \in Bufs \cup {None} : Complete(i, b)
      BY <2>4
    <3> DEFINE e == Cqe(inflight[i], TRUE, b)
    <3>2. /\ Len(cq) < CqEntries
          /\ cq' = Append(cq, e) /\ inflight' = Without(inflight, i, i)
          /\ UNCHANGED <<sq, left, link>>
      BY <3>1 DEF Complete, ringVars
    <3>3. e \in CqeRecord
      BY <2>2 DEF Cqe, CqeRecord, Sqe
    <3> HIDE DEF e
    <3>4. i \in i .. Len(inflight)
      BY <2>2
    <3>5. inflight' \in Seq(Sqe)
      BY <2>2, <3>2, <3>4, WithoutType
    <3>6. cq' \in Seq(CqeRecord) /\ Len(cq') = Len(cq) + 1 /\ Len(cq) \in Nat
      BY <1>0, <3>2, <3>3, AppendProperties
    <3>7. Len(cq') <= CqEntries
      BY <1>0, <3>2, <3>6
    <3> QED BY <1>0, <3>2, <3>5, <3>6, <3>7
  <2> QED BY <2>1, <2>3, <2>4
<1>11. CASE \/ CallRun \/ Return \/ TurnEnd \/ WaitDone \/ MakeRoom \/ Spawn
            \/ (\E t \in Tasks : PollNext(t)) \/ UNCHANGED vars
  BY <1>0, <1>11 DEF CallRun, Return, TurnEnd, WaitDone, PollNext, MakeRoom, Spawn, vars,
                     ringVars, kernVars
<1>12. CASE \/ (\E c \in Cqids : PollPending(c) \/ PollReady(c) \/ DropReady(c) \/ DropDetach(c))
            \/ (\E c \in Cqids, t \in Tasks : Give(c, t))
  <2>1. UNCHANGED <<ringVars, kernVars>>
    BY <1>12 DEF PollPending, PollReady, DropReady, DropDetach, Give
  <2> QED BY <1>0, <2>1 DEF ringVars, kernVars
<1>13. CASE Suspend \/ Finish \/ SpinTest \/ UnwindDone
  BY <1>0, <1>13 DEF Suspend, Finish, SpinTest, UnwindDone, ringVars, kernVars
<1>14. CASE Panic \/ \E c \in Cqids : DropBorrowed(c)
  <2>1. link' = <<>> /\ UNCHANGED <<sq, left, inflight, cq>>
    BY <1>14 DEF Panic, DropBorrowed, kernVars
  <2> QED BY <1>0, <2>1
<1> QED
  BY <1>1, <1>2, <1>3, <1>4, <1>5, <1>6, <1>7, <1>8, <1>9, <1>10, <1>11, <1>12, <1>13, <1>14
     DEF Next, Thread, Program, Loop, Client

\* A non-empty set of positions has a first and a last one.
LEMMA FirstExists ==
  ASSUME NEW S, S \subseteq Nat, S # {}
  PROVE  \E x \in S : \A y \in S : x <= y
<1> DEFINE R == {ss \in Nat \X Nat : ss[1] < ss[2]}
<1>1. IsWellFoundedOn(R, Nat)
  BY NatLessThanWellFounded DEF OpToRel
<1>2. \A x, y \in Nat : y < x => <<y, x>> \in R
  OBVIOUS
<1> HIDE DEF R
<1>3. PICK x \in S : \A y \in S : ~(<<y, x>> \in R)
  BY <1>1, WFMin
<1>4. \A y \in S : ~(y < x)
  BY <1>2, <1>3
<1> QED BY <1>4

\* A non-empty set of positions has a last one.
LEMMA LastExists ==
  ASSUME NEW n \in Nat, NEW S, S \subseteq 1 .. n, S # {}
  PROVE  \E x \in S : \A y \in S : x >= y
<1> DEFINE B == {n - y : y \in S}
<1>0. PICK w \in S : TRUE
  OBVIOUS
<1>1. B \subseteq Nat /\ B # {}
  <2>1. \A y \in S : n - y \in Nat
    OBVIOUS
  <2>2. n - w \in B
    OBVIOUS
  <2> QED BY <2>1, <2>2
<1>2. PICK x \in B : \A y \in B : x <= y
  <2> HIDE DEF B
  <2> QED BY <1>1, FirstExists
<1>3. PICK z \in S : x = n - z
  OBVIOUS
<1>4. \A y \in S : n - z <= n - y
  BY <1>2, <1>3
<1> QED BY <1>4

\* The CQEs an event is given are in the ring.
LEMMA CqesInRing ==
  ASSUME SeqType, NEW c, CqesOf(c) # {}
  PROVE  /\ \E i \in CqesOf(c) : FirstCqe(c) = cq[i]
         /\ \E i \in CqesOf(c) : LastCqe(c) = cq[i]
<1>1. CqesOf(c) \subseteq 1 .. Len(cq) /\ Len(cq) \in Nat
  BY DEF CqesOf, SeqType
<1>2. \E i \in CqesOf(c) : \A j \in CqesOf(c) : i <= j
  BY <1>1, FirstExists
<1>3. \E i \in CqesOf(c) : \A j \in CqesOf(c) : i >= j
  BY <1>1, LastExists
<1> QED BY <1>2, <1>3 DEF FirstCqe, LastCqe

\* process_cqes removes detached events and records in the others.
LEMMA DeliveredType ==
  ASSUME SeqType, MapType, NEW c \in Cqids
  PROVE  /\ Delivered(c) \in Event \cup {None}
         /\ c \notin Reached => Delivered(c) = completions[c]
         /\ c \in Reached /\ completions[c].task = Dead => Delivered(c) = None
         /\ c \in Reached /\ completions[c].task # Dead =>
              /\ Delivered(c) # None /\ Delivered(c).cqe # None
              /\ Delivered(c).task = completions[c].task
              /\ Delivered(c).action = completions[c].action
              /\ \E i \in CqesOf(c) : Delivered(c).cqe = cq[i]
<1>1. completions[c] \in Event \cup {None}
  BY DEF MapType
<1>2. CASE c \notin Reached \/ completions[c].task = Dead
  BY <1>1, <1>2 DEF Delivered
<1>3. CASE c \in Reached /\ completions[c].task # Dead
  <2>1. PICK i \in CqesOf(c) : LastCqe(c) = cq[i]
    BY <1>3, CqesInRing DEF Reached
  <2>2. cq[i] \in CqeRecord /\ cq[i] # None
    BY <2>1, Constants DEF CqesOf, SeqType
  <2>3. completions[c] \in Event
    BY <1>1, <1>3 DEF Reached
  <2>4. Delivered(c) = [completions[c] EXCEPT !.cqe = cq[i]]
    BY <1>3, <2>1 DEF Delivered
  <2>5. Delivered(c) \in Event /\ Delivered(c).cqe = cq[i]
        /\ Delivered(c).task = completions[c].task /\ Delivered(c).action = completions[c].action
    BY <2>2, <2>3, <2>4 DEF Event
  <2> QED BY <1>3, <2>1, <2>2, <2>5, Constants
<1> QED BY <1>2, <1>3

\* Every step keeps the maps of events and of future objects well-formed.
LEMMA MapTypeStep ==
  ASSUME TypeInv, [Next]_vars
  PROVE  MapType'
<1>0. MapType /\ SeqType /\ ThreadType /\ ThreadInv
  BY DEF TypeInv
<1>1. CASE \E t \in Tasks : RuntimeSpawn(t) \/ CallBlockOn(t)
  BY <1>0, <1>1 DEF RuntimeSpawn, CallBlockOn, thrVars, ctxVars, futVars, MapType, Held
<1>2. CASE \E new \in SUBSET (Tasks \ futures), hasNext \in BOOLEAN : TurnBegin(new, hasNext)
  BY <1>0, <1>2 DEF TurnBegin, futVars, MapType, Held
<1>3. CASE TurnProcess \/ EnterTransient
  <2>1. completions' = [c \in Cqids |-> Delivered(c)] /\ UNCHANGED <<fut, dropping, cur>>
    BY <1>3 DEF TurnProcess, EnterTransient, ProcessCqes, futVars, thrVars
  <2>2. \A c \in Cqids : completions'[c] \in Event \cup {None}
    BY <1>0, <2>1, DeliveredType
  <2>3. ASSUME NEW c \in Cqids, fut[c] # None
        PROVE  completions'[c] # None /\ completions'[c].task # Dead
    BY <1>0, <2>1, <2>3, DeliveredType DEF MapType
  <2> QED BY <1>0, <2>1, <2>2, <2>3 DEF MapType, Held
<1>4. CASE EnterHard
  <2>1. UNCHANGED <<fut, dropping, cur>>
    BY <1>4 DEF EnterHard, futVars
  <2>2. CASE completions' = completions
    BY <1>0, <2>1, <2>2 DEF MapType, Held
  <2>3. CASE \E c \in Vacant : completions' = [completions EXCEPT ![c] =
                                   [cqe |-> None, task |-> NoTask, action |-> None]]
    <3>1. [cqe |-> None, task |-> NoTask, action |-> None] \in Event
      BY DEF Event
    <3>2. NoTask # Dead
      BY Constants
    <3> QED BY <1>0, <2>1, <2>3, <3>1, <3>2, Constants DEF MapType, Held, Vacant
  <2> QED BY <1>0, <1>4, <2>2, <2>3, HardCases
<1>5. CASE \E k \in Kinds, c \in Cqids, b \in Bufs \cup {None} : StartOp(k, c, b)
  <2>1. PICK k \in Kinds, c \in Cqids, b \in Bufs \cup {None} : StartOp(k, c, b)
    BY <1>5
  <2>2. /\ completions' = [completions EXCEPT ![c] = [cqe |-> None, task |-> NoTask, action |-> b]]
        /\ fut' = [fut EXCEPT ![c] = [owner |-> cur, kind |-> k, buf |-> b]]
        /\ pc = "task" /\ UNCHANGED <<dropping, cur>>
    BY <2>1 DEF StartOp, Running, thrVars
  <2>3. [cqe |-> None, task |-> NoTask, action |-> b] \in Event /\ NoTask # Dead
    BY Constants DEF Event
  <2>4. cur \in Tasks /\ dropping = None
    BY <1>0, <2>2 DEF ThreadType, ThreadInv
  <2>5. [owner |-> cur, kind |-> k, buf |-> b] \in FutureObject
    BY <2>4 DEF FutureObject
  <2> QED BY <1>0, <2>2, <2>3, <2>4, <2>5, Constants DEF MapType
<1>6. CASE \E c \in Cqids : PollPending(c)
  <2>1. PICK c \in Cqids : PollPending(c)
    BY <1>6
  <2>2. /\ completions' = [completions EXCEPT ![c] = [completions[c] EXCEPT !.task = cur]]
        /\ pc = "task" /\ c \in Held(cur) /\ UNCHANGED <<fut, dropping, cur>>
    BY <2>1 DEF PollPending, Unborrowed, Running, thrVars, Register
  <2>3. cur \in Tasks /\ cur # Dead /\ dropping = None
    BY <1>0, <2>2, Constants DEF ThreadType, ThreadInv
  <2>4. completions[c] \in Event
    BY <1>0, <2>2 DEF MapType, Held
  <2>5. [completions[c] EXCEPT !.task = cur] \in Event
        /\ [completions[c] EXCEPT !.task = cur].task = cur
    BY <2>3, <2>4 DEF Event
  <2> QED BY <1>0, <2>2, <2>3, <2>5, Constants DEF MapType
<1>7. CASE \E c \in Cqids : PollReady(c) \/ DropReady(c)
  <2>1. PICK c \in Cqids : PollReady(c) \/ DropReady(c)
    BY <1>7
  <2>2. /\ completions' = [completions EXCEPT ![c] = None] /\ fut' = [fut EXCEPT ![c] = None]
        /\ pc = "task" /\ UNCHANGED <<dropping, cur>>
    BY <2>1 DEF PollReady, DropReady, Unborrowed, Running, CanDrop, thrVars
  <2>3. dropping = None
    BY <1>0, <2>2 DEF ThreadType, ThreadInv
  <2> QED BY <1>0, <2>2, <2>3 DEF MapType
<1>8. CASE \E c \in Cqids : DropDetach(c)
  <2>1. PICK c \in Cqids : DropDetach(c)
    BY <1>8
  <2>2. /\ completions' = [completions EXCEPT ![c] = [completions[c] EXCEPT !.task = Dead]]
        /\ fut' = [fut EXCEPT ![c] = None] /\ c \in Held(cur)
        /\ pc = "task" /\ UNCHANGED <<dropping, cur>>
    BY <2>1 DEF DropDetach, Detach, CanDrop, thrVars
  <2>3. dropping = None
    BY <1>0, <2>2 DEF ThreadType, ThreadInv
  <2>4. completions[c] \in Event
    BY <1>0, <2>2 DEF MapType, Held
  <2>5. [completions[c] EXCEPT !.task = Dead] \in Event
    BY <2>4 DEF Event
  <2> QED BY <1>0, <2>2, <2>3, <2>5 DEF MapType
<1>9. CASE \E c \in Cqids : DropSpin(c)
  <2>1. PICK c \in Cqids : DropSpin(c)
    BY <1>9
  <2>2. /\ completions' = [completions EXCEPT ![c] = [completions[c] EXCEPT !.task = NoTask]]
        /\ dropping' = c /\ c \in Held(cur) /\ UNCHANGED <<fut, cur>>
    BY <2>1 DEF DropSpin, CanDrop, futVars
  <2>3. completions[c] \in Event /\ NoTask # Dead
    BY <1>0, <2>2, Constants DEF MapType, Held
  <2>4. [completions[c] EXCEPT !.task = NoTask] \in Event
        /\ [completions[c] EXCEPT !.task = NoTask].task = NoTask
    BY <2>3 DEF Event
  <2> QED BY <1>0, <2>2, <2>3, <2>4, Constants DEF MapType, Held
<1>10. CASE \E c \in Cqids, t \in Tasks : Give(c, t)
  <2>1. PICK c \in Cqids, t \in Tasks : Give(c, t)
    BY <1>10
  <2>2. /\ fut' = [fut EXCEPT ![c] = [fut[c] EXCEPT !.owner = t]] /\ c \in Held(cur)
        /\ pc = "task" /\ UNCHANGED <<completions, dropping, cur>>
    BY <2>1 DEF Give, Unborrowed, Running, thrVars, ctxVars
  <2>3. dropping = None
    BY <1>0, <2>2 DEF ThreadType, ThreadInv
  <2>4. fut[c] \in FutureObject
    BY <1>0, <2>2 DEF MapType, Held
  <2>5. [fut[c] EXCEPT !.owner = t] \in FutureObject
    BY <2>4 DEF FutureObject
  <2> QED BY <1>0, <2>2, <2>3, <2>4, <2>5, Constants DEF MapType
<1>11. CASE SpinTest
  <2>1. CASE SpinOver
    <3>1. /\ fut' = [fut EXCEPT ![dropping] = None] /\ dropping' = None
          /\ UNCHANGED <<completions, cur>>
      BY <1>11, <2>1 DEF SpinTest, ctxVars
    <3> QED BY <1>0, <3>1 DEF MapType
  <2>2. CASE ~SpinOver
    BY <1>0, <1>11, <2>2 DEF SpinTest, ctxVars, MapType, Held
  <2> QED BY <2>1, <2>2
<1>12. CASE (\E t \in Tasks : PollNext(t)) \/ Suspend \/ Finish \/ UnwindDone
  <2>1. pc \in {"poll", "task"} /\ UNCHANGED <<completions, fut, dropping>>
    BY <1>12 DEF PollNext, Suspend, Finish, UnwindDone, Unborrowed, Running, ctxVars, futVars
  <2>2. dropping = None
    BY <1>0, <2>1 DEF ThreadType, ThreadInv
  <2> QED BY <1>0, <2>1, <2>2 DEF MapType
<1>13. CASE \E c \in Cqids : DropBorrowed(c)
  <2>1. PICK c \in Cqids : DropBorrowed(c)
    BY <1>13
  <2>2. fut' = [fut EXCEPT ![c] = None] /\ pc = "task" /\ UNCHANGED <<completions, dropping, cur>>
    BY <2>1 DEF DropBorrowed, MayPanic, Running, ctxVars
  <2>3. dropping = None
    BY <1>0, <2>2 DEF ThreadType, ThreadInv
  <2> QED BY <1>0, <2>2, <2>3 DEF MapType
<1>14. CASE \/ CallRun \/ Return \/ TurnEnd \/ EnterOk \/ WaitDone \/ MakeRoom \/ SubmitLink
            \/ AbandonLink \/ Spawn \/ Panic \/ UNCHANGED vars \/ Kernel
  <2>1. UNCHANGED <<completions, fut, dropping, cur>>
    BY <1>14 DEF CallRun, Return, TurnEnd, EnterOk, WaitDone, MakeRoom, SubmitLink, AbandonLink,
           Spawn, Panic, vars, Kernel, Fail, Complete, thrVars, ctxVars, futVars
  <2> QED BY <1>0, <2>1 DEF MapType, Held
<1> QED
  BY <1>1, <1>2, <1>3, <1>4, <1>5, <1>6, <1>7, <1>8, <1>9, <1>10, <1>11, <1>12, <1>13, <1>14
     DEF Next, Thread, Program, Loop, Client

\* The invariant of the types holds, whatever clients and kernel do.
THEOREM TypeInvariance == Spec => []TypeInv
<1>1. Init => TypeInv
  <2> SUFFICES ASSUME Init PROVE TypeInv
    OBVIOUS
  <2> USE Constants DEF Init
  <2>1. SetType
    BY DEF SetType
  <2>2. ThreadType
    <3>1. ~(cur # None)
      OBVIOUS
    <3>2. ~(pc \in {"task", "spin"} \/ (pc \in {"enter", "wait"} /\ cont # "process"))
      OBVIOUS
    <3>3. waitFor \in 0 .. 1
      <4>1. waitFor = 0
        OBVIOUS
      <4> HIDE DEF Init
      <4> QED BY <4>1
    <3>4. output \in BOOLEAN /\ panicking \in BOOLEAN
      BY Zenon
    <3> QED BY <3>1, <3>2, <3>3, <3>4 DEF ThreadType
  <2>3. ThreadInv
    BY DEF ThreadInv
  <2>4. MapType
    BY DEF MapType
  <2>5. SeqType
    BY DEF SeqType
  <2>6. BoundType
    BY DEF BoundType
  <2> QED BY <2>1, <2>2, <2>3, <2>4, <2>5, <2>6 DEF TypeInv
<1>2. TypeInv /\ [Next]_vars => TypeInv'
  BY SetTypeStep, ThreadTypeStep, ThreadInvStep, BoundTypeStep, SeqTypeStep, MapTypeStep DEF TypeInv
<1> QED BY <1>1, <1>2, PTL DEF Spec

\* The executor keeps its types, and CURRENT_TASK is set exactly while a future is
\* polled or dropped, also inside a submit that was called from there.
THEOREM TypeCorrect == Spec => []TypeOK
<1>1. TypeInv => TypeOK
  <2> SUFFICES ASSUME TypeInv PROVE TypeOK
    OBVIOUS
  <2>1. created \in 0 .. MaxSpawns /\ queued \in 0 .. MaxOps
    <3>1. BoundType /\ Len(link) \in Nat
      BY DEF TypeInv, SeqType
    <3> QED BY <3>1, Constants DEF BoundType
  <2> QED BY <2>1 DEF TypeInv, ThreadType, SetType, MapType, SeqType, TypeOK
<1> QED BY <1>1, TypeInvariance, PTL
-----------------------------------------------------------------------------
(* Who is woken by what.                                                    *)

\* The futures a task has seen pending are its own and will wake it.  A task
\* that is being dropped has lost interest, and so has one that waits in the
\* drop of a future.
WaitInv ==
  /\ \A t \in Tasks \ {cur} : \A c \in waiting[t] :
       c \in Held(t) /\ (completions[c].cqe = None => completions[c].task = t)
  /\ \A c \in polled : c \in Held(cur)
  /\ \A c \in polled \ {dropping} : completions[c].cqe = None => completions[c].task = cur
  /\ cur = None => polled = {}
  /\ cur # None /\ ~panicking => waiting[cur] = {}

\* Without panics: nothing leaves the queues of tasks to poll but by being
\* polled.
QueueInv ==
  /\ ~panicking
  /\ cur # None => cur \in futures
  /\ \A t \in Tasks \ futures : waiting[t] = {}
  /\ \A t \in Tasks \ {cur} : \A c \in waiting[t] : completions[c].cqe # None => t \in runqueue \cup woken
  /\ \A c \in polled \ {dropping} : completions[c].cqe # None => cur \in runqueue \cup woken
  /\ \A t \in futures \ {cur} : t \in runqueue \cup woken \/ waiting[t] # {}

\* block_on's future is stored until it has produced its value.
RootInv ==
  /\ api \in {"none", "run"} => root = None
  /\ output => root = None

\* block_on that returns a value, or unwinds from a panic in any future, has
\* removed its own future.
THEOREM BlockOnRemovesFuture == Spec => []UnwindingRemovesFuture
<1>1. Init => RootInv
  BY DEF Init, RootInv
<1>2. TypeInv /\ RootInv /\ [Next]_vars => RootInv'
  <2> SUFFICES ASSUME TypeInv, RootInv, [Next]_vars PROVE RootInv'
    OBVIOUS
  <2> USE DEF RootInv
  <2>1. CASE \E t \in Tasks : RuntimeSpawn(t) \/ CallBlockOn(t)
    BY <2>1 DEF RuntimeSpawn, CallBlockOn
  <2>2. CASE CallRun \/ Return
    BY <2>2 DEF CallRun, Return, LoopDone
  <2>3. CASE \E new \in SUBSET (Tasks \ futures), hasNext \in BOOLEAN : TurnBegin(new, hasNext)
    BY <2>3 DEF TurnBegin
  <2>4. CASE TurnProcess \/ TurnEnd \/ EnterOk \/ WaitDone \/ (\E t \in Tasks : PollNext(t))
    BY <2>4 DEF TurnProcess, TurnEnd, EnterOk, WaitDone, PollNext, rtVars
  <2>5. CASE EnterHard
    <3>1. UNCHANGED <<root, output>>
      BY <2>5 DEF EnterHard
    <3>2. api' \in {api, "failed"}
      BY <2>5, HardCases DEF TypeInv
    <3> QED BY <3>1, <3>2
  <2>6. CASE \/ SubmitLink \/ AbandonLink \/ Spawn \/ EnterTransient \/ UNCHANGED vars
             \/ (\E k \in Kinds, c \in Cqids, b \in Bufs \cup {None} : StartOp(k, c, b))
             \/ (\E c \in Cqids : PollPending(c) \/ PollReady(c) \/ DropReady(c) \/ DropDetach(c))
             \/ (\E c \in Cqids, t \in Tasks : Give(c, t))
             \/ Kernel
    <3>1. UNCHANGED rtVars
      BY <2>6, ThreadStays
    <3> QED BY <3>1 DEF rtVars
  <2>7. CASE MakeRoom \/ SpinTest \/ Panic \/ Suspend \/ (\E c \in Cqids : DropSpin(c) \/ DropBorrowed(c))
    BY <2>7 DEF MakeRoom, SpinTest, Panic, Suspend, DropSpin, DropBorrowed, rtVars
  <2>8. CASE Finish
    BY <2>8 DEF Finish
  <2>9. CASE UnwindDone
    BY <2>9 DEF UnwindDone, DropNext
  <2> QED
    BY <2>1, <2>2, <2>3, <2>4, <2>5, <2>6, <2>7, <2>8, <2>9 DEF Next, Thread, Program, Loop, Client
<1>3. RootInv => UnwindingRemovesFuture
  BY DEF RootInv, UnwindingRemovesFuture
<1> QED BY <1>1, <1>2, <1>3, TypeInvariance, PTL DEF Spec

\* What may happen to the event of a future object while nobody touches the
\* object: it is left alone, or its CQE is recorded.
EventKept(c) ==
  /\ fut[c] # None => fut'[c] = fut[c]
  /\ fut[c] # None /\ completions'[c].cqe = None =>
       completions[c].cqe = None /\ completions'[c].task = completions[c].task

\* process_cqes keeps the events that have a future.
LEMMA ProcessKeeps ==
  ASSUME TypeInv, TurnProcess \/ EnterTransient, NEW c \in Cqids
  PROVE  EventKept(c)
<1>1. completions' = [d \in Cqids |-> Delivered(d)] /\ fut' = fut
  BY DEF TurnProcess, EnterTransient, ProcessCqes, futVars
<1>2. completions'[c] = Delivered(c)
  BY <1>1
<1>3. SeqType /\ MapType
  BY DEF TypeInv
<1>4. fut[c] # None => completions[c].task # Dead
  BY <1>3 DEF MapType
<1>5. c \notin Reached => Delivered(c) = completions[c]
  BY <1>3, DeliveredType
<1>6. c \in Reached /\ completions[c].task # Dead => Delivered(c).cqe # None
  BY <1>3, DeliveredType
<1> QED BY <1>1, <1>2, <1>4, <1>5, <1>6 DEF EventKept

\* Most steps keep every event that has a future ...
LEMMA StepKeeps ==
  ASSUME TypeInv,
         \/ (\E t \in Tasks : RuntimeSpawn(t) \/ CallBlockOn(t) \/ PollNext(t))
         \/ (\E new \in SUBSET (Tasks \ futures), hasNext \in BOOLEAN : TurnBegin(new, hasNext))
         \/ (\E k \in Kinds, c \in Cqids, b \in Bufs \cup {None} : StartOp(k, c, b))
         \/ CallRun \/ Return \/ TurnProcess \/ TurnEnd \/ EnterOk \/ WaitDone \/ EnterTransient
         \/ EnterHard \/ MakeRoom \/ SubmitLink \/ AbandonLink \/ Spawn \/ Suspend \/ Finish
         \/ Panic \/ UnwindDone \/ UNCHANGED vars \/ Kernel,
         NEW c \in Cqids
  PROVE  EventKept(c)
<1>0. MapType /\ ThreadType
  BY DEF TypeInv
<1>1. CASE \E t \in Tasks : RuntimeSpawn(t) \/ CallBlockOn(t) \/ PollNext(t)
  BY <1>1 DEF RuntimeSpawn, CallBlockOn, PollNext, ctxVars, futVars, EventKept
<1>2. CASE \E new \in SUBSET (Tasks \ futures), hasNext \in BOOLEAN : TurnBegin(new, hasNext)
  BY <1>2 DEF TurnBegin, futVars, EventKept
<1>3. CASE \E k \in Kinds, d \in Cqids, b \in Bufs \cup {None} : StartOp(k, d, b)
  <2>1. PICK k \in Kinds, d \in Cqids, b \in Bufs \cup {None} : StartOp(k, d, b)
    BY <1>3
  <2>2. /\ completions' = [completions EXCEPT ![d] = [cqe |-> None, task |-> NoTask, action |-> b]]
        /\ fut' = [fut EXCEPT ![d] = [owner |-> cur, kind |-> k, buf |-> b]]
        /\ completions[d] = None
    BY <2>1 DEF StartOp, Vacant
  <2> QED BY <1>0, <2>2 DEF EventKept, MapType
<1>4. CASE TurnProcess \/ EnterTransient
  BY <1>4, ProcessKeeps
<1>5. CASE EnterHard
  <2>1. fut' = fut
    BY <1>5 DEF EnterHard, futVars
  <2>2. \/ completions' = completions
        \/ \E d \in Vacant : completions' = [completions EXCEPT ![d] =
                                  [cqe |-> None, task |-> NoTask, action |-> None]]
    BY <1>0, <1>5, HardCases
  <2> QED BY <1>0, <2>1, <2>2 DEF EventKept, MapType, Vacant
<1>6. CASE \/ CallRun \/ Return \/ TurnEnd \/ EnterOk \/ WaitDone \/ MakeRoom \/ SubmitLink
           \/ AbandonLink \/ Spawn \/ Suspend \/ Finish \/ Panic \/ UnwindDone
           \/ UNCHANGED vars \/ Kernel
  <2>1. UNCHANGED <<fut, completions>>
    BY <1>6 DEF CallRun, Return, TurnEnd, EnterOk, WaitDone, MakeRoom, SubmitLink, AbandonLink,
           Spawn, Suspend, Finish, Panic, UnwindDone, vars, Kernel, Fail, Complete, ctxVars, futVars
  <2> QED BY <2>1 DEF EventKept
<1> QED BY <1>1, <1>2, <1>3, <1>4, <1>5, <1>6

\* ... and the others touch one future of the current task.
LEMMA StepTouches ==
  ASSUME TypeInv, NEW c \in Cqids,
         \/ PollPending(c) \/ PollReady(c) \/ DropReady(c) \/ DropDetach(c) \/ DropSpin(c)
         \/ (\E t \in Tasks : Give(c, t)) \/ (SpinTest /\ c = dropping) \/ DropBorrowed(c)
  PROVE  c \in Held(cur) /\ \A d \in Cqids \ {c} : EventKept(d)
<1>0. MapType
  BY DEF TypeInv
<1>1. CASE PollPending(c) \/ PollReady(c) \/ (\E t \in Tasks : Give(c, t))
  BY <1>0, <1>1 DEF PollPending, PollReady, Give, ctxVars, EventKept, MapType
<1>2. CASE DropReady(c) \/ DropDetach(c) \/ DropSpin(c)
  BY <1>0, <1>2 DEF DropReady, DropDetach, DropSpin, CanDrop, futVars, EventKept, MapType
<1>3. CASE SpinTest /\ c = dropping
  BY <1>0, <1>3, Constants DEF SpinTest, ctxVars, EventKept, MapType
<1>4. CASE DropBorrowed(c)
  BY <1>0, <1>4 DEF DropBorrowed, ctxVars, EventKept, MapType
<1> QED BY <1>1, <1>2, <1>3, <1>4

\* Every step keeps a pending future the waker of the task that waits for it.
LEMMA WaitInvStep ==
  ASSUME TypeInv, WaitInv, [Next]_vars
  PROVE  WaitInv'
<1>0. /\ MapType /\ ThreadType /\ ThreadInv /\ None \notin Tasks /\ None \notin Cqids
      /\ polled \subseteq Cqids /\ waiting \in [Tasks -> SUBSET Cqids]
  BY Constants DEF TypeInv, SetType
\* An event that is kept still belongs to the same task and still wakes it.
<1>1. ASSUME NEW t \in Tasks, NEW c \in Cqids, EventKept(c), c \in Held(t)
      PROVE  /\ fut'[c] # None /\ fut'[c].owner = t
             /\ completions'[c].cqe = None /\ (completions[c].cqe = None => completions[c].task = t)
                  => completions'[c].task = t
  BY <1>1 DEF EventKept, Held
<1>2. ASSUME \A c \in Cqids : EventKept(c), UNCHANGED <<cur, polled, waiting, dropping>>,
             ~panicking' => ~panicking
      PROVE  WaitInv'
  <2>1. ASSUME NEW t \in Tasks \ {cur}, NEW c \in waiting[t]
        PROVE  /\ c \in Cqids /\ fut'[c] # None /\ fut'[c].owner = t
               /\ completions'[c].cqe = None => completions'[c].task = t
    BY <1>0, <1>1, <1>2 DEF WaitInv
  <2>2. polled # {} => cur \in Tasks
    BY <1>0 DEF WaitInv, ThreadType
  <2>3. ASSUME NEW c \in polled
        PROVE  /\ c \in Cqids /\ fut'[c] # None /\ fut'[c].owner = cur
               /\ c # dropping => (completions'[c].cqe = None => completions'[c].task = cur)
    BY <1>0, <1>1, <1>2, <2>2 DEF WaitInv
  <2> QED BY <1>2, <2>1, <2>3 DEF WaitInv, Held
<1>3. CASE \/ (\E t \in Tasks : RuntimeSpawn(t) \/ CallBlockOn(t))
           \/ (\E new \in SUBSET (Tasks \ futures), hasNext \in BOOLEAN : TurnBegin(new, hasNext))
           \/ (\E k \in Kinds, c \in Cqids, b \in Bufs \cup {None} : StartOp(k, c, b))
           \/ CallRun \/ Return \/ TurnProcess \/ TurnEnd \/ EnterOk \/ WaitDone \/ EnterTransient
           \/ EnterHard \/ MakeRoom \/ SubmitLink \/ AbandonLink \/ Spawn
           \/ Panic \/ UNCHANGED vars \/ Kernel
  <2>1. \A c \in Cqids : EventKept(c)
    BY <1>3, StepKeeps
  <2>2. UNCHANGED <<cur, polled, waiting, dropping>> /\ (~panicking' => ~panicking)
    <3>1. CASE \/ (\E t \in Tasks : RuntimeSpawn(t) \/ CallBlockOn(t))
               \/ (\E new \in SUBSET (Tasks \ futures), hasNext \in BOOLEAN : TurnBegin(new, hasNext))
      BY <3>1 DEF RuntimeSpawn, CallBlockOn, TurnBegin, thrVars, futVars
    <3>2. CASE \E k \in Kinds, c \in Cqids, b \in Bufs \cup {None} : StartOp(k, c, b)
      BY <3>2 DEF StartOp, thrVars
    <3>3. CASE CallRun \/ Return \/ TurnProcess \/ TurnEnd \/ EnterOk \/ WaitDone \/ EnterTransient
      BY <3>3 DEF CallRun, Return, TurnProcess, TurnEnd, EnterOk, WaitDone, EnterTransient, thrVars, futVars
    <3>4. CASE EnterHard
      <4>1. UNCHANGED <<cur, polled, waiting, dropping>>
        BY <3>4 DEF EnterHard, futVars
      <4>2. panicking' = panicking \/ panicking' = TRUE
        BY <1>0, <3>4, HardCases, Zenon
      <4>3. ~panicking' => ~panicking
        BY <4>2, Zenon
      <4> QED BY <4>1, <4>3
    <3>5. CASE MakeRoom \/ SubmitLink \/ AbandonLink \/ Spawn \/ UNCHANGED vars \/ Kernel
      <4>1. UNCHANGED <<cur, panicking, polled, waiting, dropping>>
        BY <3>5 DEF MakeRoom, SubmitLink, AbandonLink, Spawn, vars, Kernel, Fail, Complete,
               thrVars, futVars
      <4> QED BY <4>1
    <3>6. CASE Panic
      BY <3>6, Zenon DEF Panic, MayPanic, Running, futVars
    <3> QED BY <1>3, <3>1, <3>2, <3>3, <3>4, <3>5, <3>6
  <2> QED BY <1>2, <2>1, <2>2
<1>4. CASE \E t \in Tasks : PollNext(t)
  <2>1. PICK t \in Tasks : PollNext(t)
    BY <1>4
  <2>2. cur = None /\ polled = {} /\ UNCHANGED <<completions, fut, polled, dropping, panicking>>
    BY <1>0, <2>1 DEF PollNext, ThreadType, WaitInv, ctxVars
  <2>3. CASE t \in futures
    <3>1. cur' = t /\ waiting' = [waiting EXCEPT ![t] = {}]
      BY <2>1, <2>3 DEF PollNext
    <3> QED BY <1>0, <2>2, <3>1 DEF WaitInv, Held
  <2>4. CASE t \notin futures
    <3>1. UNCHANGED <<cur, waiting>>
      BY <2>1, <2>4 DEF PollNext
    <3> QED BY <2>2, <3>1 DEF WaitInv, Held
  <2> QED BY <2>3, <2>4
<1>5. CASE Suspend
  <2>1. /\ waiting' = [waiting EXCEPT ![cur] = polled] /\ polled' = {} /\ cur' = None
        /\ pc = "task" /\ UNCHANGED <<completions, fut, dropping>>
    BY <1>5 DEF Suspend, PollDone, Unborrowed, Running, ctxVars
  <2>2. cur \in Tasks /\ dropping = None
    BY <1>0, <2>1 DEF ThreadType, ThreadInv
  <2>3. \A c \in polled : c \in Held(cur) /\ (completions[c].cqe = None => completions[c].task = cur)
    BY <1>0, <2>2 DEF WaitInv
  <2>4. ASSUME NEW t \in Tasks, NEW c \in waiting'[t]
        PROVE  c \in Held(t) /\ (completions[c].cqe = None => completions[c].task = t)
    BY <1>0, <2>1, <2>2, <2>3 DEF WaitInv
  <2> QED BY <2>1, <2>4 DEF WaitInv, Held
<1>6. CASE Finish
  <2>1. /\ UNCHANGED <<completions, fut, dropping, waiting, polled>> /\ Held(cur) = {}
        /\ cur' = None /\ ~panicking /\ pc = "task"
    BY <1>6 DEF Finish, PollDone, Unborrowed, Running, ctxVars, futVars
  <2>2. waiting[cur] = {} /\ polled = {}
    BY <1>0, <2>1 DEF ThreadType, WaitInv
  <2> QED BY <1>0, <2>1, <2>2 DEF WaitInv, Held
<1>7. CASE UnwindDone
  <2>1. /\ waiting' = [waiting EXCEPT ![cur] = {}] /\ polled' = {} /\ panicking
        /\ UNCHANGED <<completions, fut, dropping>> /\ (cur' # None => panicking' = panicking)
    BY <1>7 DEF UnwindDone, ctxVars
  <2> QED BY <1>0, <2>1 DEF WaitInv, Held
<1>8. CASE \E c \in Cqids : PollPending(c)
  <2>1. PICK c \in Cqids : PollPending(c)
    BY <1>8
  <2>2. /\ completions' = [completions EXCEPT ![c] = [completions[c] EXCEPT !.task = cur]]
        /\ polled' = polled \cup {c} /\ pc = "task" /\ c \in Held(cur)
        /\ UNCHANGED <<fut, waiting, dropping, cur, panicking>>
    BY <2>1 DEF PollPending, Unborrowed, Running, thrVars, Register
  <2>3. completions[c] \in Event /\ cur \in Tasks
    BY <1>0, <2>2 DEF MapType, Held, ThreadType
  <2>4. completions'[c].task = cur /\ \A d \in Cqids \ {c} : completions'[d] = completions[d]
    BY <1>0, <2>2, <2>3 DEF MapType, Event
  <2>5. \A t \in Tasks \ {cur} : c \notin waiting[t]
    BY <2>2 DEF WaitInv, Held
  <2> QED BY <1>0, <2>2, <2>3, <2>4, <2>5 DEF WaitInv, Held
<1>9. CASE \E c \in Cqids : \/ PollReady(c) \/ DropReady(c) \/ DropDetach(c) \/ DropBorrowed(c)
                            \/ (\E t \in Tasks : Give(c, t))
  <2>1. PICK c \in Cqids : \/ PollReady(c) \/ DropReady(c) \/ DropDetach(c) \/ DropBorrowed(c)
                           \/ (\E t \in Tasks : Give(c, t))
    BY <1>9
  <2>2. c \in Held(cur) /\ \A d \in Cqids \ {c} : EventKept(d)
    BY <2>1, StepTouches
  <2>3. polled' = polled \ {c} /\ UNCHANGED <<waiting, dropping, cur>> /\ (panicking' = panicking \/ panicking')
    BY <2>1, Zenon DEF PollReady, DropReady, DropDetach, DropBorrowed, Give, thrVars
  <2> QED BY <1>0, <1>1, <2>2, <2>3 DEF WaitInv, Held, ThreadType
<1>10. CASE SpinTest \/ \E c \in Cqids : DropSpin(c)
  <2>1. PICK c \in Cqids : DropSpin(c) \/ (SpinTest /\ c = dropping)
    BY <1>0, <1>10 DEF SpinTest, ThreadInv, ThreadType
  <2>2. c \in Held(cur) /\ \A d \in Cqids \ {c} : EventKept(d)
    BY <2>1, StepTouches
  <2>3. UNCHANGED <<waiting, cur, panicking>>
    BY <2>1 DEF DropSpin, SpinTest, futVars
  <2>4. \/ dropping' = c /\ polled' \subseteq polled /\ UNCHANGED fut
        \/ polled' = polled \ {c}
    BY <2>1 DEF DropSpin, SpinTest, futVars
  <2>5. cur \in Tasks /\ \A t \in Tasks \ {cur} : c \notin waiting[t]
    BY <1>0, <2>2 DEF WaitInv, Held, MapType, FutureObject
  <2>6. ASSUME NEW t \in Tasks \ {cur}, NEW d \in waiting[t]
        PROVE  /\ d \in Cqids /\ fut'[d] # None /\ fut'[d].owner = t
               /\ completions'[d].cqe = None => completions'[d].task = t
    BY <1>0, <1>1, <2>2, <2>5 DEF WaitInv
  <2>7. ASSUME NEW d \in polled \ {c}
        PROVE  /\ d \in Cqids /\ fut'[d] # None /\ fut'[d].owner = cur
               /\ completions'[d].cqe = None /\ d # dropping => completions'[d].task = cur
    BY <1>0, <1>1, <2>2, <2>5 DEF WaitInv
  <2>9. dropping \in {c, None} /\ c # None
    BY <1>0, <2>1 DEF DropSpin, CanDrop, ThreadInv
  <2>10. \A d \in polled' : d # c => d \in polled
    BY <2>4
  <2>11. polled' = polled \ {c} \/ (dropping' = c /\ fut' = fut)
    BY <2>4
  <2>12. polled \subseteq Cqids
    BY <1>0
  <2>13. \A d \in polled' : d \in Cqids /\ fut'[d] # None /\ fut'[d].owner = cur
    BY <2>2, <2>7, <2>10, <2>11 DEF Held
  <2>14. \A d \in polled' \ {dropping'} : completions'[d].cqe = None => completions'[d].task = cur
    BY <1>0, <2>7, <2>9, <2>10, <2>11, <2>12
  <2> QED BY <1>0, <2>3, <2>5, <2>6, <2>13, <2>14 DEF WaitInv, Held
<1> QED
  BY <1>3, <1>4, <1>5, <1>6, <1>7, <1>8, <1>9, <1>10 DEF Next, Thread, Program, Loop, Client

\* A task that has not been woken is the one that the completions it waits for
\* will queue, also after a panic has thrown the run queue away, whatever order
\* requests complete in and whoever the futures are given to.
THEOREM RegistrationsSurvive == Spec => []RegistrationSurvives
<1>1. Init => WaitInv
  BY DEF Init, WaitInv
<1>2. TypeInv /\ WaitInv /\ [Next]_vars => WaitInv'
  BY WaitInvStep
<1>3. TypeInv /\ WaitInv => RegistrationSurvives
  BY DEF TypeInv, SetType, MapType, WaitInv, RegistrationSurvives, Held
<1> QED BY <1>1, <1>2, <1>3, TypeInvariance, PTL DEF Spec

\* Every step keeps a woken task in a queue, unless a panic or an error throws the queue away.
LEMMA QueueInvStep ==
  ASSUME TypeInv, WaitInv, QueueInv, ~Panics, ~HardErrors, [Next]_vars
  PROVE  QueueInv'
<1> DEFINE Q == runqueue \cup woken
<1>0. /\ MapType /\ ThreadType /\ ThreadInv /\ None \notin Tasks /\ None \notin Cqids /\ NoTask \notin Tasks
      /\ polled \subseteq Cqids /\ waiting \in [Tasks -> SUBSET Cqids] /\ futures \subseteq Tasks
  BY Constants DEF TypeInv, SetType
\* A pending future that a CQE is recorded for wakes the task that waits for it.
<1>1. ASSUME UNCHANGED <<cur, polled, waiting, dropping, panicking>>,
             futures \subseteq futures', futures' \ futures \subseteq Q', Q \subseteq Q',
             \A c \in Cqids : fut[c] # None /\ completions'[c].cqe # None =>
                completions[c].cqe # None \/ completions[c].task \in Q' \cup {NoTask}
      PROVE  QueueInv'
  <2>1. ASSUME NEW t \in Tasks \ {cur}, NEW c \in waiting[t], completions'[c].cqe # None
        PROVE  t \in Q'
    <3>1. c \in Cqids /\ fut[c] # None /\ (completions[c].cqe = None => completions[c].task = t)
      BY <1>0 DEF WaitInv, Held
    <3>2. completions[c].cqe # None => t \in Q
      BY DEF QueueInv
    <3> QED BY <1>0, <1>1, <2>1, <3>1, <3>2
  <2>2. ASSUME NEW c \in polled \ {dropping}, completions'[c].cqe # None
        PROVE  cur \in Q'
    <3>1. cur \in Tasks
      BY <1>0 DEF WaitInv, ThreadType
    <3>2. c \in Cqids /\ fut[c] # None /\ (completions[c].cqe = None => completions[c].task = cur)
      BY <1>0 DEF WaitInv, Held
    <3>3. completions[c].cqe # None => cur \in Q
      BY DEF QueueInv
    <3> QED BY <1>0, <1>1, <2>2, <3>1, <3>2, <3>3
  <2>3. ASSUME NEW t \in futures' \ {cur}
        PROVE  t \in Q' \/ waiting[t] # {}
    BY <1>1 DEF QueueInv
  <2>4. ~panicking' /\ (cur # None => cur \in futures') /\ \A t \in Tasks \ futures' : waiting[t] = {}
    BY <1>1 DEF QueueInv
  <2> QED BY <1>1, <2>1, <2>2, <2>3, <2>4 DEF QueueInv
<1>2. CASE \E t \in Tasks : RuntimeSpawn(t) \/ CallBlockOn(t)
  <2>1. /\ UNCHANGED <<cur, polled, waiting, dropping, panicking, completions, woken>>
        /\ \E t \in Tasks : futures' = futures \cup {t} /\ runqueue' = runqueue \cup {t}
    BY <1>2 DEF RuntimeSpawn, CallBlockOn, thrVars, ctxVars, futVars
  <2> QED BY <1>1, <2>1
<1>3. CASE \E new \in SUBSET (Tasks \ futures), hasNext \in BOOLEAN : TurnBegin(new, hasNext)
  <2>1. /\ UNCHANGED <<cur, polled, waiting, dropping, panicking, completions>> /\ woken' = {}
        /\ \E new : futures' = futures \cup new /\ runqueue' = runqueue \cup new \cup woken
    BY <1>3 DEF TurnBegin, Runnable, thrVars, ctxVars, futVars
  <2> QED BY <1>1, <2>1
<1>4. CASE TurnProcess \/ EnterTransient
  <2>1. /\ UNCHANGED <<cur, polled, waiting, dropping, panicking, futures>>
        /\ Q' = Q \cup WokenTasks /\ completions' = [c \in Cqids |-> Delivered(c)]
    BY <1>4 DEF TurnProcess, EnterTransient, ProcessCqes, rtVars, thrVars, futVars
  <2>2. ASSUME NEW c \in Cqids, fut[c] # None, completions'[c].cqe # None, completions[c].cqe = None
        PROVE  completions[c].task \in Q' \cup {NoTask}
    <3>1. c \in Reached
      BY <2>1, <2>2, <1>0, DeliveredType DEF TypeInv
    <3>2. completions[c].task # Dead
      BY <1>0, <2>2 DEF MapType
    <3> QED BY <2>1, <3>1, <3>2 DEF WokenTasks
  <2> HIDE DEF Q
  <2> QED BY <1>1, <2>1, <2>2
<1>5. CASE \E k \in Kinds, c \in Cqids, b \in Bufs \cup {None} : StartOp(k, c, b)
  <2>1. PICK k \in Kinds, c \in Cqids, b \in Bufs \cup {None} : StartOp(k, c, b)
    BY <1>5
  <2>2. UNCHANGED <<cur, polled, waiting, dropping, panicking, futures, runqueue, woken>>
    BY <2>1 DEF StartOp, rtVars, thrVars
  <2>3. /\ completions' = [completions EXCEPT ![c] = [cqe |-> None, task |-> NoTask, action |-> b]]
        /\ completions[c] = None
    BY <2>1 DEF StartOp, Vacant
  <2>4. \A d \in Cqids : fut[d] # None => completions'[d] = completions[d]
    BY <1>0, <2>3 DEF MapType
  <2> QED BY <1>1, <2>2, <2>4
<1>6. CASE \/ CallRun \/ Return \/ TurnEnd \/ EnterOk \/ WaitDone \/ MakeRoom \/ SubmitLink
           \/ AbandonLink \/ Spawn \/ UNCHANGED vars \/ Kernel
  <2>1. UNCHANGED <<cur, polled, waiting, dropping, panicking, futures, runqueue, woken, completions>>
    BY <1>6 DEF CallRun, Return, TurnEnd, EnterOk, WaitDone, MakeRoom, SubmitLink, AbandonLink, Spawn,
           vars, Kernel, Fail, Complete, rtVars, thrVars, ctxVars, futVars
  <2> QED BY <1>1, <2>1
<1>7. CASE EnterHard \/ Panic \/ UnwindDone \/ \E c \in Cqids : DropBorrowed(c)
  BY <1>7 DEF EnterHard, Panic, DropBorrowed, MayPanic, UnwindDone, QueueInv
<1>8. CASE \E t \in Tasks : PollNext(t)
  <2>1. PICK t \in Tasks : PollNext(t)
    BY <1>8
  <2>2. /\ runqueue' = runqueue \ {t}
        /\ UNCHANGED <<completions, polled, dropping, panicking, futures, woken>>
    BY <2>1 DEF PollNext, ctxVars
  <2>3. cur = None /\ polled = {}
    BY <1>0, <2>1 DEF PollNext, ThreadType, WaitInv
  <2>4. CASE t \in futures
    <3>1. cur' = t /\ waiting' = [waiting EXCEPT ![t] = {}]
      BY <2>1, <2>4 DEF PollNext
    <3> QED BY <1>0, <2>2, <2>3, <2>4, <3>1 DEF QueueInv
  <2>5. CASE t \notin futures
    <3>1. UNCHANGED <<cur, waiting>>
      BY <2>1, <2>5 DEF PollNext
    <3> QED BY <1>0, <2>2, <2>3, <2>5, <3>1 DEF QueueInv
  <2> QED BY <2>4, <2>5
<1>9. CASE Suspend
  <2>1. /\ waiting' = [waiting EXCEPT ![cur] = polled] /\ polled # {} /\ polled' = {} /\ cur' = None
        /\ pc = "task" /\ UNCHANGED <<completions, dropping, panicking, futures, runqueue, woken>>
    BY <1>9 DEF Suspend, PollDone, Unborrowed, Running, ctxVars, rtVars
  <2>2. cur \in Tasks /\ dropping = None
    BY <1>0, <2>1 DEF ThreadType, ThreadInv
  <2>3. \A c \in polled : completions[c].cqe # None => cur \in Q
    BY <1>0, <2>2 DEF QueueInv
  <2> QED BY <1>0, <2>1, <2>2, <2>3 DEF QueueInv
<1>10. CASE Finish
  <2>1. /\ UNCHANGED <<completions, dropping, waiting, polled, panicking, runqueue, woken>>
        /\ Held(cur) = {} /\ cur' = None /\ ~panicking /\ pc = "task" /\ futures' = futures \ {cur}
    BY <1>10 DEF Finish, PollDone, Unborrowed, Running, ctxVars, futVars
  <2>2. cur # None /\ waiting[cur] = {} /\ polled = {}
    BY <1>0, <2>1 DEF ThreadType, WaitInv
  <2> QED BY <1>0, <2>1, <2>2 DEF QueueInv
<1>11. CASE \/ SpinTest \/ (\E c \in Cqids, t \in Tasks : Give(c, t))
            \/ \E c \in Cqids : PollPending(c) \/ PollReady(c) \/ DropReady(c) \/ DropDetach(c) \/ DropSpin(c)
  <2>1. PICK c \in Cqids : \/ PollPending(c) \/ PollReady(c) \/ DropReady(c) \/ DropDetach(c) \/ DropSpin(c)
                           \/ (\E t \in Tasks : Give(c, t)) \/ (SpinTest /\ c = dropping)
    BY <1>0, <1>11 DEF SpinTest, ThreadInv, ThreadType
  <2>2. c \in Held(cur)
    BY <2>1, StepTouches
  <2>3. UNCHANGED <<cur, waiting, panicking, futures, runqueue, woken>>
    <3>1. CASE PollPending(c) \/ PollReady(c) \/ (\E t \in Tasks : Give(c, t))
      BY <3>1 DEF PollPending, PollReady, Give, rtVars, thrVars, ctxVars
    <3>2. CASE DropReady(c) \/ DropDetach(c) \/ DropSpin(c)
      BY <3>2 DEF DropReady, DropDetach, DropSpin, rtVars, thrVars, futVars
    <3>3. CASE SpinTest
      BY <3>3 DEF SpinTest, rtVars, ctxVars
    <3> QED BY <2>1, <3>1, <3>2, <3>3
  <2>4. \A d \in Cqids \ {c} : completions'[d] = completions[d]
    BY <1>0, <2>1 DEF PollPending, PollReady, DropReady, DropDetach, DropSpin, Give, SpinTest, ctxVars, MapType
  <2>5. /\ \A d \in polled' : d # c => d \in polled
        /\ dropping \in {None, c}
        /\ c \notin polled' \/ dropping' = c \/ completions'[c].cqe = None
    <3>1. CASE PollPending(c)
      <4>1. /\ completions' = [completions EXCEPT ![c] = [completions[c] EXCEPT !.task = cur]]
            /\ polled' = polled \cup {c} /\ pc = "task" /\ completions[c].cqe = None
        BY <3>1 DEF PollPending, Unborrowed, Running, Register
      <4>2. completions[c] \in Event
        BY <1>0, <2>2 DEF MapType, Held
      <4> QED BY <1>0, <4>1, <4>2 DEF ThreadInv, MapType, Event
    <3>2. CASE PollReady(c) \/ DropReady(c) \/ DropDetach(c) \/ (\E t \in Tasks : Give(c, t))
      BY <1>0, <3>2 DEF PollReady, DropReady, DropDetach, Give, Unborrowed, Running, CanDrop, ThreadInv
    <3>3. CASE DropSpin(c) \/ (SpinTest /\ c = dropping)
      BY <1>0, <3>3 DEF DropSpin, SpinTest, CanDrop, futVars, ThreadInv
    <3> QED BY <2>1, <3>1, <3>2, <3>3
  <2>6. cur \in Tasks /\ \A t \in Tasks \ {cur} : c \notin waiting[t]
    BY <1>0, <2>2 DEF WaitInv, Held, MapType, FutureObject
  <2>7. ASSUME NEW t \in Tasks \ {cur}, NEW d \in waiting[t], completions'[d].cqe # None
        PROVE  t \in Q
    BY <1>0, <2>4, <2>6, <2>7 DEF QueueInv
  <2>8. ASSUME NEW d \in polled' \ {dropping'}, completions'[d].cqe # None
        PROVE  cur \in Q
    <3>1. d \in polled \ {dropping} /\ completions[d].cqe # None
      BY <1>0, <2>4, <2>5, <2>8
    <3> QED BY <3>1 DEF QueueInv
  <2> QED BY <2>3, <2>7, <2>8 DEF QueueInv
<1> QED
  BY <1>2, <1>3, <1>4, <1>5, <1>6, <1>7, <1>8, <1>9, <1>10, <1>11 DEF Next, Thread, Program, Loop, Client

\* What nobody panics over: the queues keep every task that has something to do.
THEOREM QueueInvariance ==
  ~Panics /\ ~HardErrors => (Spec => [](TypeInv /\ WaitInv /\ QueueInv))
<1> SUFFICES ASSUME ~Panics, ~HardErrors PROVE Spec => [](TypeInv /\ WaitInv /\ QueueInv)
  OBVIOUS
<1>1. Init => WaitInv /\ QueueInv
  <2> SUFFICES ASSUME Init PROVE WaitInv /\ QueueInv
    OBVIOUS
  <2>1. WaitInv
    BY DEF Init, WaitInv
  <2>2. ~panicking
    BY DEF Init
  <2> QED BY <2>1, <2>2 DEF Init, QueueInv
<1>2. TypeInv /\ WaitInv /\ [Next]_vars => WaitInv'
  BY WaitInvStep
<1>3. TypeInv /\ WaitInv /\ QueueInv /\ [Next]_vars => QueueInv'
  BY QueueInvStep
<1> QED BY <1>1, <1>2, <1>3, TypeInvariance, PTL DEF Spec

\* While nothing panics, no wakeup is lost: a suspended task whose request has
\* completed is queued, and one whose request runs is the task its completion
\* will queue, also when CQEs are taken inside a submit or in the drop of
\* another future.
THEOREM WakeupsAreKept == ~Panics /\ ~HardErrors => (Spec => []NoLostWakeup)
<1> SUFFICES ASSUME ~Panics, ~HardErrors PROVE Spec => []NoLostWakeup
  OBVIOUS
<1>1. TypeInv /\ WaitInv /\ QueueInv => NoLostWakeup
  <2> SUFFICES ASSUME TypeInv, WaitInv, QueueInv, NEW t \in futures, NEW c \in waiting[t]
               PROVE  /\ completions[c] # None
                      /\ completions[c].cqe = None => completions[c].task = t
                      /\ completions[c].cqe # None => t \in runqueue \cup woken
    BY DEF NoLostWakeup
  <2>1. t \in Tasks /\ t # cur
    BY Constants DEF TypeInv, SetType, WaitInv, QueueInv
  <2>2. c \in Held(t) /\ MapType
    BY <2>1 DEF WaitInv, TypeInv
  <2>3. completions[c] # None
    BY <2>2 DEF MapType, Held
  <2> QED BY <2>1, <2>3 DEF WaitInv, QueueInv
<1>2. Spec => [](TypeInv /\ WaitInv /\ QueueInv)
  BY QueueInvariance
<1> QED BY <1>1, <1>2, PTL

=============================================================================
