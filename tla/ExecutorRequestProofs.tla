------------------------- MODULE ExecutorRequestProofs -------------------------
(***************************************************************************)
(* Requests, completions and buffers of the executor, while its clients    *)
(* leave a full submission ring alone: which event a completion belongs    *)
(* to, which memory a request refers to, and who owns a buffer.            *)
(***************************************************************************)
EXTENDS ExecutorProofs

-----------------------------------------------------------------------------
(* What a sequence of requests or completions carries.                      *)

Uds(s) == {s[i].ud : i \in DOMAIN s}
Distinct(s) == \A i, j \in DOMAIN s : s[i].ud = s[j].ud => i = j

\* A request without its link flag.
Request(op) == [ud |-> op.ud, kind |-> op.kind, buf |-> op.buf]
Requests(s) == {Request(s[i]) : i \in DOMAIN s}

\* An empty ring carries nothing.
LEMMA CarryEmpty == Uds(<<>>) = {} /\ Requests(<<>>) = {} /\ Distinct(<<>>)
BY DEF Uds, Requests, Distinct

\* Appending carries one index and one request more.
LEMMA CarryAppend ==
  ASSUME NEW T, NEW s \in Seq(T), NEW e \in T
  PROVE  /\ Uds(Append(s, e)) = Uds(s) \cup {e.ud}
         /\ Requests(Append(s, e)) = Requests(s) \cup {Request(e)}
         /\ Distinct(s) /\ e.ud \notin Uds(s) => Distinct(Append(s, e))
<1> DEFINE r == Append(s, e)
           n == Len(s)
<1>1. n \in Nat /\ DOMAIN s = 1 .. n
  OBVIOUS
<1>2. DOMAIN r = 1 .. n + 1 /\ (\A i \in 1 .. n : r[i] = s[i]) /\ r[n + 1] = e
  BY AppendProperties
<1> HIDE DEF r, n
<1>3. \A i \in 1 .. n + 1 : i \in 1 .. n \/ i = n + 1
  BY <1>1
<1>4. n + 1 \in 1 .. n + 1 /\ 1 .. n \subseteq 1 .. n + 1
  BY <1>1
<1>5. Uds(r) = Uds(s) \cup {e.ud}
  BY <1>1, <1>2, <1>3, <1>4 DEF Uds
<1>6. Requests(r) = Requests(s) \cup {Request(e)}
  BY <1>1, <1>2, <1>3, <1>4 DEF Requests
<1>7. ASSUME Distinct(s), e.ud \notin Uds(s)
      PROVE  Distinct(r)
  <2> SUFFICES ASSUME NEW i \in 1 .. n + 1, NEW j \in 1 .. n + 1, r[i].ud = r[j].ud
               PROVE  i = j
    BY <1>2 DEF Distinct
  <2>1. \A k \in 1 .. n : r[k].ud # e.ud
    BY <1>1, <1>2, <1>7 DEF Uds
  <2> QED BY <1>1, <1>2, <1>3, <1>7, <2>1 DEF Distinct
<1> QED BY <1>5, <1>6, <1>7 DEF r

\* A concatenation carries what its parts carry.
LEMMA CarryConcat ==
  ASSUME NEW T, NEW s \in Seq(T), NEW u \in Seq(T)
  PROVE  /\ s \o u \in Seq(T)
         /\ Uds(s \o u) = Uds(s) \cup Uds(u)
         /\ Requests(s \o u) = Requests(s) \cup Requests(u)
         /\ Distinct(s) /\ Distinct(u) /\ Uds(s) \cap Uds(u) = {} => Distinct(s \o u)
<1> DEFINE r == s \o u
           n == Len(s)
           m == Len(u)
<1>1. n \in Nat /\ DOMAIN s = 1 .. n /\ m \in Nat /\ DOMAIN u = 1 .. m
  OBVIOUS
<1>2. r \in Seq(T) /\ Len(r) = n + m /\ \A i \in 1 .. n + m : r[i] = IF i <= n THEN s[i] ELSE u[i - n]
  BY ConcatProperties
<1>3. DOMAIN r = 1 .. n + m
  BY <1>2
<1> HIDE DEF r, n, m
<1>4. \A i \in 1 .. n : i \in 1 .. n + m /\ r[i] = s[i]
  BY <1>1, <1>2
<1>5. \A i \in 1 .. m : n + i \in 1 .. n + m /\ r[n + i] = u[i]
  <2> SUFFICES ASSUME NEW i \in 1 .. m PROVE n + i \in 1 .. n + m /\ r[n + i] = u[i]
    OBVIOUS
  <2>1. n + i \in 1 .. n + m /\ ~(n + i <= n) /\ (n + i) - n = i
    BY <1>1
  <2>2. r[n + i] = u[(n + i) - n]
    BY <1>2, <2>1
  <2> QED BY <2>1, <2>2
<1>6. \A i \in 1 .. n + m : i \in 1 .. n \/ \E k \in 1 .. m : i = n + k
  <2> SUFFICES ASSUME NEW i \in 1 .. n + m, i \notin 1 .. n PROVE \E k \in 1 .. m : i = n + k
    OBVIOUS
  <2>1. i - n \in 1 .. m /\ i = n + (i - n)
    BY <1>1
  <2> QED BY <2>1
<1>7. Uds(r) = Uds(s) \cup Uds(u)
  <2>1. \A x \in Uds(r) : x \in Uds(s) \/ x \in Uds(u)
    <3> SUFFICES ASSUME NEW i \in 1 .. n + m PROVE r[i].ud \in Uds(s) \/ r[i].ud \in Uds(u)
      BY <1>3 DEF Uds
    <3>1. CASE i \in 1 .. n
      BY <1>1, <1>4, <3>1 DEF Uds
    <3>2. CASE \E k \in 1 .. m : i = n + k
      BY <1>1, <1>5, <3>2 DEF Uds
    <3> QED BY <1>6, <3>1, <3>2
  <2>2. \A x \in Uds(s) : x \in Uds(r)
    BY <1>1, <1>3, <1>4 DEF Uds
  <2>3. \A x \in Uds(u) : x \in Uds(r)
    BY <1>1, <1>3, <1>5 DEF Uds
  <2> QED BY <2>1, <2>2, <2>3
<1>8. Requests(r) = Requests(s) \cup Requests(u)
  <2>1. \A x \in Requests(r) : x \in Requests(s) \/ x \in Requests(u)
    <3> SUFFICES ASSUME NEW i \in 1 .. n + m PROVE Request(r[i]) \in Requests(s) \/ Request(r[i]) \in Requests(u)
      BY <1>3 DEF Requests
    <3>1. CASE i \in 1 .. n
      BY <1>1, <1>4, <3>1 DEF Requests
    <3>2. CASE \E k \in 1 .. m : i = n + k
      BY <1>1, <1>5, <3>2 DEF Requests
    <3> QED BY <1>6, <3>1, <3>2
  <2>2. \A x \in Requests(s) : x \in Requests(r)
    BY <1>1, <1>3, <1>4 DEF Requests
  <2>3. \A x \in Requests(u) : x \in Requests(r)
    BY <1>1, <1>3, <1>5 DEF Requests
  <2> QED BY <2>1, <2>2, <2>3
<1>9. ASSUME Distinct(s), Distinct(u), Uds(s) \cap Uds(u) = {}
      PROVE  Distinct(r)
  <2> SUFFICES ASSUME NEW i \in 1 .. n + m, NEW j \in 1 .. n + m, r[i].ud = r[j].ud
               PROVE  i = j
    BY <1>3 DEF Distinct
  <2>1. \A k \in 1 .. n, l \in 1 .. m : s[k].ud # u[l].ud
    BY <1>1, <1>9 DEF Uds
  <2>2. CASE i \in 1 .. n /\ j \in 1 .. n
    BY <1>1, <1>4, <1>9, <2>2 DEF Distinct
  <2>3. CASE i \in 1 .. n /\ \E k \in 1 .. m : j = n + k
    BY <1>4, <1>5, <2>1, <2>3
  <2>4. CASE j \in 1 .. n /\ \E k \in 1 .. m : i = n + k
    BY <1>4, <1>5, <2>1, <2>4
  <2>5. CASE (\E k \in 1 .. m : i = n + k) /\ (\E k \in 1 .. m : j = n + k)
    <3>1. PICK k \in 1 .. m, l \in 1 .. m : i = n + k /\ j = n + l
      BY <2>5
    <3>2. u[k].ud = u[l].ud
      BY <1>5, <3>1
    <3>3. k = l
      BY <1>1, <1>9, <3>2 DEF Distinct
    <3> QED BY <3>1, <3>3
  <2> QED BY <1>6, <2>2, <2>3, <2>4, <2>5
<1> QED BY <1>2, <1>7, <1>8, <1>9 DEF r

\* A sequence with the same requests at the same places carries the same.
LEMMA CarrySame ==
  ASSUME NEW s, NEW r, DOMAIN r = DOMAIN s, \A i \in DOMAIN s : Request(r[i]) = Request(s[i])
  PROVE  /\ Uds(r) = Uds(s) /\ Requests(r) = Requests(s)
         /\ Distinct(s) => Distinct(r)
<1>1. \A i \in DOMAIN s : r[i].ud = s[i].ud
  BY DEF Request
<1> QED BY <1>1 DEF Uds, Requests, Distinct

\* The kernel takes the requests as they are.
LEMMA CarryTaken ==
  ASSUME NEW s \in Seq(Sqe)
  PROVE  /\ Taken(s) \in Seq(Sqe)
         /\ Uds(Taken(s)) = Uds(s) /\ Requests(Taken(s)) = Requests(s)
         /\ Distinct(s) => Distinct(Taken(s))
<1>1. Taken(s) \in Seq(Sqe) /\ DOMAIN Taken(s) = DOMAIN s
  BY TakenType
<1>2. \A i \in DOMAIN s : Request(Taken(s)[i]) = Request(s[i])
  BY TakenType DEF Request
<1> QED BY <1>1, <1>2, CarrySame

\* The two parts of a sequence of distinct requests share none of them.
LEMMA CarrySplit ==
  ASSUME NEW T, NEW s \in Seq(T), NEW n \in 0 .. Len(s)
  PROVE  LET p == SubSeq(s, 1, n)
             q == SubSeq(s, n + 1, Len(s)) IN
         /\ p \in Seq(T) /\ q \in Seq(T) /\ Len(q) = Len(s) - n
         /\ Uds(p) \cup Uds(q) = Uds(s) /\ Requests(p) \cup Requests(q) = Requests(s)
         /\ Distinct(s) => Distinct(p) /\ Distinct(q) /\ Uds(p) \cap Uds(q) = {}
<1> DEFINE p == SubSeq(s, 1, n)
           q == SubSeq(s, n + 1, Len(s))
           m == Len(s) - n
<1>1. /\ p \in Seq(T) /\ Len(p) = n /\ (\A k \in 1 .. n : p[k] = s[k])
      /\ q \in Seq(T) /\ Len(q) = m /\ (\A k \in 1 .. m : q[k] = s[n + k])
      /\ m \in Nat
  BY SplitAt
<1>0. Len(s) \in Nat /\ n \in Nat /\ DOMAIN s = 1 .. Len(s)
  OBVIOUS
<1>2. n \in Nat /\ DOMAIN s = 1 .. n + m
  <2> DEFINE l == Len(s)
  <2>1. l \in Nat /\ n \in Nat /\ n + (l - n) = l
    BY <1>0
  <2> QED BY <1>0, <2>1
<1> HIDE DEF p, q, m
<1>3. DOMAIN p = 1 .. n /\ DOMAIN q = 1 .. m
  BY <1>1
<1>4. 1 .. n \subseteq 1 .. n + m /\ \A k \in 1 .. m : n + k \in 1 .. n + m
  BY <1>1, <1>2
<1>5. ASSUME NEW i \in 1 .. n + m, i \notin 1 .. n PROVE \E k \in 1 .. m : i = n + k
  <2>1. i - n \in 1 .. m /\ i = n + (i - n)
    BY <1>1, <1>2, <1>5
  <2> QED BY <2>1
<1>6. Uds(p) \cup Uds(q) = Uds(s)
  <2>1. Uds(p) \subseteq Uds(s)
    BY <1>1, <1>2, <1>3, <1>4 DEF Uds
  <2>2. ASSUME NEW k \in 1 .. m PROVE q[k].ud \in Uds(s)
    <3>1. q[k] = s[n + k] /\ n + k \in DOMAIN s
      BY <1>1, <1>2, <1>4
    <3> QED BY <3>1 DEF Uds
  <2>3. ASSUME NEW i \in 1 .. n + m PROVE s[i].ud \in Uds(p) \/ s[i].ud \in Uds(q)
    <3>1. CASE i \in 1 .. n
      BY <1>1, <1>3, <3>1 DEF Uds
    <3>2. CASE i \notin 1 .. n
      <4>1. PICK k \in 1 .. m : i = n + k
        BY <1>5, <3>2
      <4>2. s[i] = q[k]
        BY <1>1, <4>1
      <4> QED BY <1>3, <4>2 DEF Uds
    <3> QED BY <3>1, <3>2
  <2> QED BY <1>2, <1>3, <2>1, <2>2, <2>3 DEF Uds
<1>7. Requests(p) \cup Requests(q) = Requests(s)
  <2>1. Requests(p) \subseteq Requests(s)
    BY <1>1, <1>2, <1>3, <1>4 DEF Requests
  <2>2. ASSUME NEW k \in 1 .. m PROVE Request(q[k]) \in Requests(s)
    <3>1. q[k] = s[n + k] /\ n + k \in DOMAIN s
      BY <1>1, <1>2, <1>4
    <3> QED BY <3>1 DEF Requests
  <2>3. ASSUME NEW i \in 1 .. n + m PROVE Request(s[i]) \in Requests(p) \/ Request(s[i]) \in Requests(q)
    <3>1. CASE i \in 1 .. n
      BY <1>1, <1>3, <3>1 DEF Requests
    <3>2. CASE i \notin 1 .. n
      <4>1. PICK k \in 1 .. m : i = n + k
        BY <1>5, <3>2
      <4>2. s[i] = q[k]
        BY <1>1, <4>1
      <4> QED BY <1>3, <4>2 DEF Requests
    <3> QED BY <3>1, <3>2
  <2> QED BY <1>2, <1>3, <2>1, <2>2, <2>3 DEF Requests
<1>8. ASSUME Distinct(s) PROVE Distinct(p) /\ Distinct(q) /\ Uds(p) \cap Uds(q) = {}
  <2>1. \A i, j \in 1 .. n + m : s[i].ud = s[j].ud => i = j
    BY <1>2, <1>8 DEF Distinct
  <2>2. Distinct(p)
    BY <1>1, <1>3, <1>4, <2>1 DEF Distinct
  <2>3. ASSUME NEW k \in 1 .. m, NEW l \in 1 .. m, q[k].ud = q[l].ud PROVE k = l
    <3>1. n + k = n + l
      BY <1>1, <1>4, <2>1, <2>3
    <3> QED BY <1>1, <1>2, <3>1
  <2>4. Distinct(q)
    BY <1>3, <2>3 DEF Distinct
  <2>5. ASSUME NEW k \in 1 .. n, NEW l \in 1 .. m PROVE p[k].ud # q[l].ud
    <3>1. k # n + l
      BY <1>1, <1>2
    <3> QED BY <1>1, <1>4, <2>1, <3>1
  <2> QED BY <1>3, <2>2, <2>4, <2>5 DEF Uds
<1> QED BY <1>1, <1>6, <1>7, <1>8 DEF p, q, m

\* Taking positions i to j out of a sequence of distinct requests.
LEMMA CarryWithout ==
  ASSUME NEW T, NEW s \in Seq(T), NEW i \in 1 .. Len(s), NEW j \in i .. Len(s), Distinct(s)
  PROVE  /\ Uds(Without(s, i, j)) = Uds(s) \ {s[k].ud : k \in i .. j}
         /\ Requests(Without(s, i, j)) \subseteq Requests(s)
         /\ Distinct(Without(s, i, j))
<1> DEFINE r == Without(s, i, j)
           n == Len(s)
           d == j - i + 1
<1>0. n \in Nat /\ DOMAIN s = 1 .. n
  OBVIOUS
<1>1. /\ n \in Nat /\ DOMAIN s = 1 .. n /\ i \in 1 .. n /\ j \in i .. n /\ d \in 1 .. n
      /\ i \in Nat /\ j \in Nat /\ d \in Nat
  <2> HIDE DEF n
  <2> QED BY <1>0 DEF n
<1>2. DOMAIN r = 1 .. n - d /\ \A k \in 1 .. n - d : r[k] = IF k < i THEN s[k] ELSE s[k + d]
  <2>1. /\ r \in Seq(T) /\ Len(r) = n - d
        /\ \A k \in 1 .. n - d : r[k] = IF k < i THEN s[k] ELSE s[k + d]
    BY WithoutType
  <2> HIDE DEF r
  <2> QED BY <2>1
<1> DEFINE f(k) == IF k < i THEN k ELSE k + d
<1>3. ASSUME NEW k \in 1 .. n - d
      PROVE  f(k) \in 1 .. n /\ f(k) \notin i .. j /\ r[k] = s[f(k)]
  <2>1. CASE k < i
    BY <1>1, <1>2, <2>1
  <2>2. CASE ~(k < i)
    <3>1. f(k) = k + d /\ r[k] = s[k + d]
      BY <1>2, <2>2
    <3>2. k + d \in 1 .. n /\ k + d > j
      BY <1>1, <2>2 DEF d
    <3> QED BY <1>1, <3>1, <3>2
  <2> QED BY <2>1, <2>2
<1>4. ASSUME NEW l \in 1 .. n, l \notin i .. j
      PROVE  \E k \in 1 .. n - d : f(k) = l
  <2>1. CASE l < i
    <3>1. l \in 1 .. n - d /\ f(l) = l
      BY <1>1, <2>1 DEF d
    <3> QED BY <3>1
  <2>2. CASE l > j
    <3>1. l - d \in 1 .. n - d /\ ~(l - d < i) /\ (l - d) + d = l
      BY <1>1, <2>2 DEF d
    <3>2. f(l - d) = l
      BY <3>1
    <3> QED BY <3>1, <3>2
  <2> QED BY <1>1, <1>4, <2>1, <2>2
<1>5. ASSUME NEW k \in 1 .. n - d, NEW l \in 1 .. n - d, f(k) = f(l)
      PROVE  k = l
  BY <1>1, <1>5
<1> HIDE DEF r, n, d, f
<1>6. Uds(r) \subseteq Uds(s) \ {s[k].ud : k \in i .. j}
  <2> SUFFICES ASSUME NEW k \in 1 .. n - d
               PROVE  r[k].ud \in Uds(s) /\ \A l \in i .. j : r[k].ud # s[l].ud
    BY <1>2 DEF Uds
  <2>1. f(k) \in 1 .. n /\ f(k) \notin i .. j /\ r[k] = s[f(k)]
    BY <1>3
  <2>2. i .. j \subseteq 1 .. n
    BY <1>1
  <2> QED BY <1>1, <2>1, <2>2 DEF Uds, Distinct
<1>7. Uds(s) \ {s[k].ud : k \in i .. j} \subseteq Uds(r)
  <2> SUFFICES ASSUME NEW l \in 1 .. n, s[l].ud \notin {s[k].ud : k \in i .. j}
               PROVE  s[l].ud \in Uds(r)
    BY <1>1 DEF Uds
  <2>1. l \notin i .. j
    OBVIOUS
  <2>2. PICK k \in 1 .. n - d : f(k) = l
    BY <1>4, <2>1
  <2> QED BY <1>2, <1>3, <2>2 DEF Uds
<1>8. Requests(r) \subseteq Requests(s)
  BY <1>1, <1>2, <1>3 DEF Requests
<1>9. Distinct(r)
  BY <1>1, <1>2, <1>3, <1>5 DEF Distinct
<1> QED BY <1>6, <1>7, <1>8, <1>9 DEF r

\* An index that is carried once is counted once.
LEMMA CountOnce ==
  ASSUME NEW s, Distinct(s), NEW c
  PROVE  CountUd(s, c) = IF c \in Uds(s) THEN 1 ELSE 0
<1> DEFINE S == {i \in DOMAIN s : s[i].ud = c}
<1>1. CASE c \in Uds(s)
  <2>1. PICK i \in DOMAIN s : s[i].ud = c
    BY <1>1 DEF Uds
  <2>2. S = {i}
    BY <2>1 DEF Distinct
  <2> QED BY <1>1, <2>2, FS_Singleton DEF CountUd
<1>2. CASE c \notin Uds(s)
  <2>1. S = {}
    BY <1>2 DEF Uds
  <2> QED BY <1>2, <2>1, FS_EmptySet DEF CountUd
<1> QED BY <1>1, <1>2

-----------------------------------------------------------------------------
(* The submission ring, while clients leave a full one alone.               *)

\* A number below the ring's size is its own remainder.
LEMMA ModSmall ==
  ASSUME NEW a \in Nat, a < SqEntries
  PROVE  a % SqEntries = a
BY Constants

\* Writing to a free slot changes none of the SQEs that wait.
LEMMA OverwriteNothing ==
  ASSUME NEW s \in Seq(Sqe), NEW pos \in Nat, NEW e, Len(s) < pos, pos <= SqEntries
  PROVE  Overwrite(s, pos, e) = s
<1>1. Len(s) \in Nat /\ DOMAIN s = 1 .. Len(s) /\ SqEntries \in Nat \ {0}
  BY Constants
<1>2. ASSUME NEW i \in DOMAIN s
      PROVE  ~((pos - i) % SqEntries = 0)
  <2> DEFINE a == pos - i
  <2>1. a \in Nat /\ a < SqEntries /\ a # 0
    BY <1>1, <1>2
  <2> HIDE DEF a
  <2>2. a % SqEntries = a
    BY <2>1, ModSmall
  <2> QED BY <2>1, <2>2 DEF a
<1>3. Overwrite(s, pos, e) = [i \in DOMAIN s |-> s[i]]
  BY <1>2 DEF Overwrite
<1>4. s = [i \in DOMAIN s |-> s[i]]
  BY <1>1
<1> QED BY <1>3, <1>4

\* Free is exact.
LEMMA FreeIsRoom ==
  ASSUME SeqType, Len(sq) < SqEntries
  PROVE  Free = SqEntries - Len(sq)
<1>1. Len(sq) \in Nat /\ SqEntries \in Nat \ {0}
  BY Constants DEF SeqType
<1>2. Len(sq) % SqEntries = Len(sq)
  BY <1>1, ModSmall
<1> QED BY <1>1, <1>2 DEF Free

-----------------------------------------------------------------------------
(* Whose completion is whose.                                               *)

\* The indices that an SQE, a running request or a CQE carries.
Live == Uds(sq) \cup Uds(link) \cup Uds(inflight) \cup Uds(cq)

\* The events that wait for a CQE.
Awaiting == {c \in Cqids : completions[c] # None /\ completions[c].cqe = None}

\* Every index is carried once, and only for an event that waits.
CarriedInv ==
  /\ Len(sq) + Len(link) <= SqEntries
  /\ Distinct(sq) /\ Distinct(link) /\ Distinct(inflight) /\ Distinct(cq)
  /\ Uds(sq) \cap Uds(link) = {} /\ (Uds(sq) \cup Uds(link)) \cap Uds(inflight) = {}
  /\ (Uds(sq) \cup Uds(link) \cup Uds(inflight)) \cap Uds(cq) = {}
  /\ Live \subseteq Awaiting

\* Registering, detaching and removing an event that has its CQE does not change
\* who waits.
LEMMA AwaitingStays ==
  ASSUME TypeInv, NEW c \in Cqids,
         PollPending(c) \/ PollReady(c) \/ DropReady(c) \/ DropDetach(c) \/ DropSpin(c)
  PROVE  Awaiting' = Awaiting
<1>0. MapType /\ c \in Held(cur)
  BY StepTouches DEF TypeInv
<1>1. completions[c] \in Event /\ completions[c] # None /\ completions \in [Cqids -> Event \cup {None}]
  BY <1>0 DEF MapType, Held
<1>2. CASE PollPending(c) \/ DropDetach(c) \/ DropSpin(c)
  <2>1. PICK t \in {cur, Dead, NoTask} :
          completions' = [completions EXCEPT ![c] = [completions[c] EXCEPT !.task = t]]
    BY <1>2 DEF PollPending, DropDetach, DropSpin, Register, Detach
  <2>2. completions'[c] = [completions[c] EXCEPT !.task = t]
        /\ \A d \in Cqids \ {c} : completions'[d] = completions[d]
    BY <1>1, <2>1
  <2>3. t \in Tasks \cup {NoTask, Dead}
    <3>1. CASE PollPending(c)
      BY <1>0, <2>1, <3>1 DEF PollPending, Unborrowed, Running, TypeInv, ThreadType
    <3>2. CASE DropDetach(c) \/ DropSpin(c)
      BY <1>0, <2>1, <3>2 DEF DropDetach, DropSpin, CanDrop, TypeInv, ThreadType
    <3> QED BY <1>2, <3>1, <3>2
  <2>4. completions'[c] \in Event /\ completions'[c].cqe = completions[c].cqe
    BY <1>1, <2>2, <2>3 DEF Event
  <2> QED BY <1>1, <2>2, <2>4, Constants DEF Awaiting
<1>3. CASE PollReady(c) \/ DropReady(c)
  BY <1>1, <1>3 DEF PollReady, DropReady, Awaiting
<1> QED BY <1>2, <1>3

\* What process_cqes leaves waiting: the events no CQE was there for.
LEMMA AwaitingProcessed ==
  ASSUME TypeInv, CarriedInv, TurnProcess \/ EnterTransient
  PROVE  Awaiting' = Awaiting \ Uds(cq)
<1>1. completions' = [c \in Cqids |-> Delivered(c)] /\ SeqType /\ MapType
  BY DEF TurnProcess, EnterTransient, ProcessCqes, TypeInv
<1>2. ASSUME NEW c \in Cqids
      PROVE  c \in Awaiting' <=> c \in Awaiting \ Uds(cq)
  <2>1. completions'[c] = Delivered(c)
    BY <1>1
  <2>2. c \in Reached <=> completions[c] # None /\ c \in Uds(cq)
    BY DEF Reached, CqesOf, Uds
  <2>3. c \in Awaiting' <=> Delivered(c) # None /\ Delivered(c).cqe = None
    BY <2>1 DEF Awaiting
  <2>4. CASE c \notin Reached
    <3>1. Delivered(c) = completions[c]
      BY <1>1, <2>4, DeliveredType
    <3> QED BY <2>2, <2>3, <2>4, <3>1 DEF Awaiting
  <2>5. CASE c \in Reached
    <3>1. Delivered(c) = None \/ Delivered(c).cqe # None
      BY <1>1, <2>5, DeliveredType
    <3> QED BY <2>2, <2>3, <2>5, <3>1
  <2> QED BY <2>4, <2>5
<1> QED BY <1>2 DEF Awaiting

\* What a LinkedSubmitter's calls do to the ring: nothing that waits in it is
\* touched.
LEMMA StartWrites ==
  ASSUME AvoidFull, TypeInv, CarriedInv, NEW k \in Kinds, NEW c \in Cqids, NEW b \in Bufs \cup {None},
         StartOp(k, c, b)
  PROVE  LET e == [ud |-> c, kind |-> k, buf |-> b, link |-> TRUE] IN
         /\ e \in Sqe /\ link' = Append(link, e) /\ Len(link') = Len(link) + 1
         /\ UNCHANGED <<sq, inflight, cq>> /\ Len(sq) + Len(link) < SqEntries
<1> DEFINE e == [ud |-> c, kind |-> k, buf |-> b, link |-> TRUE]
<1>0. /\ SeqType /\ sq \in Seq(Sqe) /\ link \in Seq(Sqe) /\ Len(sq) \in Nat /\ Len(link) \in Nat
      /\ SqEntries \in Nat
  BY Constants DEF TypeInv, SeqType
<1>1. e \in Sqe
  BY Constants DEF StartOp, Sqe
<1>2. /\ sq' = Overwrite(sq, Len(sq) + Len(link) + 1, e) /\ link' = Append(link, e)
      /\ Len(link) < Free /\ Len(sq) < SqEntries /\ UNCHANGED <<inflight, cq>>
  BY DEF StartOp, kernVars
<1>3. Len(sq) + Len(link) < SqEntries
  BY <1>0, <1>2, FreeIsRoom
<1> HIDE DEF e
<1>4. Len(sq) + Len(link) + 1 \in Nat /\ Len(sq) < Len(sq) + Len(link) + 1
      /\ Len(sq) + Len(link) + 1 <= SqEntries
  BY <1>0, <1>3
<1>5. sq' = sq
  BY <1>0, <1>2, <1>4, OverwriteNothing
<1>6. Len(link') = Len(link) + 1
  BY <1>0, <1>1, <1>2, AppendProperties
<1> QED BY <1>1, <1>2, <1>3, <1>5, <1>6 DEF e

\* submit moves the chain behind the SQEs in the ring and overwrites none of them.
LEMMA SubmitWrites ==
  ASSUME TypeInv, CarriedInv, SubmitLink
  PROVE  /\ sq' \in Seq(Sqe) /\ Len(sq') = Len(sq) + Len(link)
         /\ Uds(sq') = Uds(sq) \cup Uds(link) /\ Requests(sq') = Requests(sq) \cup Requests(link)
         /\ Distinct(sq') /\ link' = <<>> /\ UNCHANGED <<inflight, cq, completions, fut>>
<1> DEFINE n == Len(link)
           end == [link[n] EXCEPT !.link = FALSE]
           l == [link EXCEPT ![n] = end]
<1>0. /\ sq \in Seq(Sqe) /\ link \in Seq(Sqe) /\ Len(sq) \in Nat /\ n \in Nat /\ SqEntries \in Nat
      /\ n \in DOMAIN link /\ link[n] \in Sqe
  BY Constants DEF TypeInv, SeqType, SubmitLink
<1>1. sq' = Overwrite(sq, Len(sq) + n, end) \o l /\ link' = <<>> /\ UNCHANGED <<inflight, cq, completions, fut>>
  BY DEF SubmitLink, kernVars, futVars
<1>2. Len(sq) + n \in Nat /\ Len(sq) < Len(sq) + n /\ Len(sq) + n <= SqEntries
  BY <1>0 DEF CarriedInv
<1>3. end \in Sqe /\ Request(end) = Request(link[n])
  BY <1>0 DEF Sqe, Request
<1> HIDE DEF end
<1>4. Overwrite(sq, Len(sq) + n, end) = sq
  BY <1>0, <1>2, OverwriteNothing
<1>5. l \in Seq(Sqe) /\ DOMAIN l = DOMAIN link /\ \A i \in DOMAIN link : Request(l[i]) = Request(link[i])
  <2>1. l \in Seq(Sqe)
    BY <1>0, <1>3, ExceptSeq
  <2> QED BY <1>0, <1>3, <2>1
<1>6. Len(l) = n
  BY <1>0, <1>5
<1> HIDE DEF l, n
<1>7. Uds(l) = Uds(link) /\ Requests(l) = Requests(link) /\ Distinct(l)
  BY <1>5, CarrySame DEF CarriedInv
<1>8. sq' = sq \o l
  BY <1>1, <1>4
<1>9. /\ sq' \in Seq(Sqe) /\ Uds(sq') = Uds(sq) \cup Uds(l) /\ Requests(sq') = Requests(sq) \cup Requests(l)
      /\ Distinct(sq')
  BY <1>0, <1>5, <1>7, <1>8, CarryConcat DEF CarriedInv
<1>10. Len(sq') = Len(sq) + n
  BY <1>0, <1>5, <1>6, <1>8, ConcatProperties
<1> QED BY <1>1, <1>7, <1>9, <1>10 DEF n

\* The cancel request of a must_wait drop is written beside what waits.
LEMMA CancelWrites ==
  ASSUME AvoidFull, TypeInv, NEW c \in Cqids, DropSpin(c)
  PROVE  sq' = sq
<1>1. sq \in Seq(Sqe) /\ Len(sq) \in Nat /\ SqEntries \in Nat
  BY Constants DEF TypeInv, SeqType
<1>2. sq' = Overwrite(sq, Len(sq) + 1, AsyncCancel) /\ Len(sq) < SqEntries
  BY DEF DropSpin
<1>3. Len(sq) + 1 \in Nat /\ Len(sq) < Len(sq) + 1 /\ Len(sq) + 1 <= SqEntries
  BY <1>1, <1>2
<1> QED BY <1>1, <1>2, <1>3, OverwriteNothing

\* The kernel takes requests from the ring, all of them unless it may take fewer.
LEMMA EnterTakes ==
  ASSUME TypeInv, CarriedInv, EnterOk
  PROVE  /\ UNCHANGED <<link, cq, completions, fut>>
         /\ Len(sq') \in Nat /\ Len(sq') <= Len(sq) /\ Distinct(sq') /\ Distinct(inflight')
         /\ Uds(sq') \cup Uds(inflight') = Uds(sq) \cup Uds(inflight)
         /\ Uds(sq') \cap Uds(inflight') = {}
         /\ Requests(sq') \cup Requests(inflight') = Requests(sq) \cup Requests(inflight)
         /\ ~Short /\ left = 0 => Uds(sq') = {} /\ left' = 0 /\ waitFor' = waitFor
<1>0. SeqType /\ sq \in Seq(Sqe) /\ inflight \in Seq(Sqe) /\ Len(sq) \in Nat
  BY DEF TypeInv, SeqType
<1>1. UNCHANGED <<link, cq, completions, fut>>
  BY DEF EnterOk, ctxVars, futVars
<1>2. PICK n \in Takes :
        /\ waitFor' = IF n < Unsubmitted THEN 0 ELSE waitFor
        /\ inflight' = inflight \o Taken(SubSeq(sq, 1, n)) /\ sq' = SubSeq(sq, n + 1, Len(sq))
        /\ left' = Len(sq) - n
  BY DEF EnterOk
<1>3. n \in 0 .. Len(sq)
  BY <1>0, <1>2, TakesSome
<1> DEFINE p == SubSeq(sq, 1, n)
           q == SubSeq(sq, n + 1, Len(sq))
           u == Taken(p)
<1>4. /\ p \in Seq(Sqe) /\ q \in Seq(Sqe) /\ Len(q) = Len(sq) - n
      /\ Uds(p) \cup Uds(q) = Uds(sq) /\ Requests(p) \cup Requests(q) = Requests(sq)
      /\ Distinct(p) /\ Distinct(q) /\ Uds(p) \cap Uds(q) = {}
  BY <1>0, <1>3, CarrySplit DEF CarriedInv
<1>5. inflight' = inflight \o u /\ sq' = q
  BY <1>2
<1> HIDE DEF p, q
<1>6. u \in Seq(Sqe) /\ Uds(u) = Uds(p) /\ Requests(u) = Requests(p) /\ Distinct(u)
  BY <1>4, CarryTaken
<1> HIDE DEF u
<1>7. Uds(inflight) \cap Uds(sq) = {} /\ Distinct(inflight)
  BY DEF CarriedInv
<1>8. Uds(inflight) \cap Uds(u) = {}
  BY <1>4, <1>6, <1>7
<1>9. /\ Uds(inflight \o u) = Uds(inflight) \cup Uds(u)
      /\ Requests(inflight \o u) = Requests(inflight) \cup Requests(u)
      /\ Distinct(inflight \o u)
  BY <1>0, <1>6, <1>7, <1>8, CarryConcat
<1>10. Len(sq') \in Nat /\ Len(sq') <= Len(sq)
  BY <1>0, <1>3, <1>4, <1>5
<1>11. ASSUME ~Short, left = 0 PROVE Uds(sq') = {} /\ left' = 0 /\ waitFor' = waitFor
  <2>1. n = Len(sq) /\ Unsubmitted = Len(sq)
    BY <1>0, <1>2, <1>11 DEF Takes, Unsubmitted
  <2>2. left' = 0 /\ waitFor' = waitFor /\ Len(q) = 0
    BY <1>0, <1>2, <1>4, <2>1
  <2>3. q = <<>>
    BY <1>4, <2>2
  <2> QED BY <1>5, <2>2, <2>3, CarryEmpty
<1>12. /\ Uds(sq') \cup Uds(inflight') = Uds(sq) \cup Uds(inflight)
       /\ Uds(sq') \cap Uds(inflight') = {}
  BY <1>4, <1>5, <1>6, <1>7, <1>9
<1>13. Requests(sq') \cup Requests(inflight') = Requests(sq) \cup Requests(inflight)
  BY <1>4, <1>5, <1>6, <1>9
<1> QED BY <1>1, <1>4, <1>5, <1>9, <1>10, <1>11, <1>12, <1>13

\* The kernel turns some of the running requests into CQEs.
LEMMA KernelPosts ==
  ASSUME TypeInv, CarriedInv, Kernel
  PROVE  /\ UNCHANGED <<sq, link, completions, fut>>
         /\ \E M \in SUBSET Uds(inflight) :
              /\ Uds(inflight') = Uds(inflight) \ M /\ Requests(inflight') \subseteq Requests(inflight)
              /\ Uds(cq') = Uds(cq) \cup M /\ Distinct(inflight') /\ Distinct(cq')
<1>0. /\ SeqType /\ inflight \in Seq(Sqe) /\ cq \in Seq(CqeRecord) /\ Distinct(inflight) /\ Distinct(cq)
      /\ Uds(inflight) \cap Uds(cq) = {}
  BY DEF TypeInv, SeqType, CarriedInv
<1>1. UNCHANGED <<sq, link, completions, fut>>
  BY DEF Kernel, Fail, Complete, ringVars, ctxVars, futVars
<1>2. PICK i \in DOMAIN inflight : \/ \E j \in i .. Len(inflight) : Fail(i, j)
                                   \/ \E b \in Bufs \cup {None} : Complete(i, b)
  BY DEF Kernel
<1>3. i \in 1 .. Len(inflight) /\ inflight[i] \in Sqe /\ Len(inflight) \in Nat
  BY <1>0
<1>4. CASE \E j \in i .. Len(inflight) : Fail(i, j)
  <2>1. PICK j \in i .. Len(inflight) : Fail(i, j)
    BY <1>4
  <2> DEFINE F == Failures(i, j)
             n == j - i + 1
             M == {inflight[k].ud : k \in i .. j}
  <2>2. cq' = cq \o F /\ inflight' = Without(inflight, i, j)
    BY <2>1 DEF Fail, Failures
  <2>3. /\ F \in Seq(CqeRecord) /\ Len(F) = n
        /\ \A k \in 1 .. n : F[k] = Cqe(inflight[i + k - 1], FALSE, None)
    BY <1>0, <1>3, FailuresType
  <2>4. Uds(inflight') = Uds(inflight) \ M /\ Requests(inflight') \subseteq Requests(inflight)
        /\ Distinct(inflight')
    BY <1>0, <1>3, <2>2, CarryWithout
  <2>5. DOMAIN F = 1 .. n
    BY <2>3
  <2>6. \A k \in 1 .. n : F[k].ud = inflight[i + k - 1].ud /\ i + k - 1 \in i .. j
    BY <1>3, <2>3 DEF Cqe
  <2>7. i .. j \subseteq DOMAIN inflight
    BY <1>0, <1>3
  <2>8. M \subseteq Uds(inflight)
    BY <2>7 DEF Uds
  <2>9. Uds(F) \subseteq M
    BY <2>5, <2>6 DEF Uds
  <2>10. ASSUME NEW k \in i .. j PROVE inflight[k].ud \in Uds(F)
    <3>1. k - i + 1 \in 1 .. n /\ i + (k - i + 1) - 1 = k
      BY <1>3
    <3>2. F[k - i + 1].ud = inflight[k].ud
      BY <2>6, <3>1
    <3> QED BY <2>5, <3>1, <3>2 DEF Uds
  <2>11. Distinct(F)
    <3> SUFFICES ASSUME NEW k \in 1 .. n, NEW l \in 1 .. n, F[k].ud = F[l].ud PROVE k = l
      BY <2>5 DEF Distinct
    <3>1. i + k - 1 = i + l - 1
      BY <1>0, <2>6, <2>7 DEF Distinct
    <3> QED BY <1>3, <3>1
  <2>12. Uds(F) = M
    BY <2>9, <2>10
  <2> HIDE DEF F, M, n
  <2>13. Uds(cq') = Uds(cq) \cup M /\ Distinct(cq')
    BY <1>0, <2>2, <2>3, <2>8, <2>11, <2>12, CarryConcat
  <2> QED BY <1>1, <2>4, <2>8, <2>13
<1>5. CASE \E b \in Bufs \cup {None} : Complete(i, b)
  <2>1. PICK b \in Bufs \cup {None} : Complete(i, b)
    BY <1>5
  <2> DEFINE e == Cqe(inflight[i], TRUE, b)
             M == {inflight[i].ud}
  <2>2. cq' = Append(cq, e) /\ inflight' = Without(inflight, i, i)
    BY <2>1 DEF Complete
  <2>3. e \in CqeRecord /\ e.ud = inflight[i].ud
    BY <1>3 DEF Cqe, CqeRecord, Sqe
  <2>4. i \in i .. Len(inflight) /\ {inflight[k].ud : k \in i .. i} = M
    BY <1>3
  <2>5. Uds(inflight') = Uds(inflight) \ M /\ Requests(inflight') \subseteq Requests(inflight)
        /\ Distinct(inflight')
    BY <1>0, <1>3, <2>2, <2>4, CarryWithout
  <2>6. M \subseteq Uds(inflight)
    BY DEF Uds
  <2> HIDE DEF e
  <2>7. Uds(cq') = Uds(cq) \cup {e.ud} /\ (e.ud \notin Uds(cq) => Distinct(cq'))
    BY <1>0, <2>2, <2>3, CarryAppend
  <2> QED BY <1>0, <1>1, <2>3, <2>5, <2>6, <2>7
<1> QED BY <1>2, <1>4, <1>5

\* One step: an index is still carried once, and, unless a chain was thrown away,
\* every event that waits is still carried.
LEMMA CarriedStep ==
  ASSUME AvoidFull, TypeInv, CarriedInv, [Next]_vars
  PROVE  /\ CarriedInv'
         /\ ~Abandons /\ ~Panics /\ ~HardErrors /\ Awaiting \subseteq Live => Awaiting' \subseteq Live'
<1> DEFINE Goal == /\ CarriedInv'
                   /\ ~Abandons /\ ~Panics /\ ~HardErrors /\ Awaiting \subseteq Live => Awaiting' \subseteq Live'
<1>0. /\ MapType /\ SeqType /\ ThreadType /\ Len(sq) \in Nat /\ Len(link) \in Nat /\ Len(<<>>) = 0
      /\ SqEntries \in Nat
  BY Constants DEF TypeInv, SeqType
<1>1. ASSUME UNCHANGED <<sq, link, inflight, cq>>, Awaiting' = Awaiting
      PROVE  Goal
  BY <1>1 DEF CarriedInv, Live
<1>2. CASE \/ (\E t \in Tasks : RuntimeSpawn(t) \/ CallBlockOn(t) \/ PollNext(t))
           \/ (\E new \in SUBSET (Tasks \ futures), hasNext \in BOOLEAN : TurnBegin(new, hasNext))
  <2>1. UNCHANGED <<sq, link, inflight, cq, completions>>
    BY <1>2 DEF RuntimeSpawn, CallBlockOn, PollNext, TurnBegin, ringVars, kernVars, ctxVars
  <2> QED BY <1>1, <2>1 DEF Awaiting
<1>3. CASE \/ CallRun \/ Return \/ TurnEnd \/ WaitDone \/ MakeRoom \/ Spawn \/ Suspend \/ Finish
           \/ SpinTest \/ UnwindDone \/ UNCHANGED vars \/ (\E c \in Cqids, t \in Tasks : Give(c, t))
  <2>1. UNCHANGED <<sq, link, inflight, cq, completions>>
    BY <1>3 DEF CallRun, Return, TurnEnd, WaitDone, MakeRoom, Spawn, Suspend, Finish, SpinTest,
           UnwindDone, vars, Give, ringVars, kernVars, ctxVars
  <2> QED BY <1>1, <2>1 DEF Awaiting
<1>4. CASE \E c \in Cqids : PollPending(c) \/ PollReady(c) \/ DropReady(c) \/ DropDetach(c)
  <2>1. UNCHANGED <<sq, link, inflight, cq>>
    BY <1>4 DEF PollPending, PollReady, DropReady, DropDetach, ringVars, kernVars
  <2>2. Awaiting' = Awaiting
    BY <1>4, AwaitingStays
  <2> QED BY <1>1, <2>1, <2>2
<1>5. CASE \E c \in Cqids : DropSpin(c)
  <2>1. UNCHANGED <<link, inflight, cq>>
    BY <1>5 DEF DropSpin, kernVars
  <2>2. Awaiting' = Awaiting /\ sq' = sq
    BY <1>5, AwaitingStays, CancelWrites
  <2> QED BY <1>1, <2>1, <2>2
<1>6. CASE TurnProcess \/ EnterTransient
  <2>1. cq' = <<>> /\ UNCHANGED <<sq, link, inflight>>
    BY <1>6 DEF TurnProcess, EnterTransient, ProcessCqes, ringVars
  <2>2. Awaiting' = Awaiting \ Uds(cq)
    BY <1>6, AwaitingProcessed
  <2>3. Live' = Uds(sq) \cup Uds(link) \cup Uds(inflight)
    BY <2>1, CarryEmpty DEF Live
  <2> QED BY <2>1, <2>2, <2>3, CarryEmpty DEF CarriedInv, Live
<1>7. CASE EnterHard
  <2>1. HardErrors /\ UNCHANGED <<sq, inflight, cq>>
    BY <1>7 DEF EnterHard, kernVars
  <2>2. link' = link \/ link' = <<>>
    BY <1>0, <1>7, HardCases
  <2>3. Uds(link') \subseteq Uds(link) /\ Distinct(link') /\ Len(link') <= Len(link)
    BY <1>0, <2>2, CarryEmpty DEF CarriedInv
  <2>4. Awaiting \subseteq Awaiting'
    <3>1. CASE completions' = completions
      BY <3>1 DEF Awaiting
    <3>2. CASE \E c \in Vacant : completions' = [completions EXCEPT ![c] =
                                   [cqe |-> None, task |-> NoTask, action |-> None]]
      BY <1>0, <3>2 DEF Awaiting, Vacant, MapType
    <3> QED BY <1>0, <1>7, <3>1, <3>2, HardCases
  <2>5. Len(link') \in Nat
    BY <1>0, <2>2
  <2> QED BY <1>0, <2>1, <2>3, <2>4, <2>5 DEF CarriedInv, Live
<1>8. CASE EnterOk
  <2>1. /\ UNCHANGED <<link, cq, completions>> /\ Len(sq') \in Nat /\ Len(sq') <= Len(sq)
        /\ Distinct(sq') /\ Distinct(inflight')
        /\ Uds(sq') \cup Uds(inflight') = Uds(sq) \cup Uds(inflight)
        /\ Uds(sq') \cap Uds(inflight') = {}
    BY <1>8, EnterTakes
  <2>2. Live' = Live /\ Awaiting' = Awaiting
    BY <2>1 DEF Live, Awaiting
  <2>3. /\ Uds(sq') \cap Uds(link') = {} /\ (Uds(sq') \cup Uds(link')) \cap Uds(inflight') = {}
        /\ (Uds(sq') \cup Uds(link') \cup Uds(inflight')) \cap Uds(cq') = {}
    BY <2>1 DEF CarriedInv
  <2>4. Len(sq') + Len(link') <= SqEntries
    BY <1>0, <2>1 DEF CarriedInv
  <2> QED BY <2>1, <2>2, <2>3, <2>4 DEF CarriedInv
<1>9. CASE \E k \in Kinds, c \in Cqids, b \in Bufs \cup {None} : StartOp(k, c, b)
  <2>1. PICK k \in Kinds, c \in Cqids, b \in Bufs \cup {None} : StartOp(k, c, b)
    BY <1>9
  <2> DEFINE e == [ud |-> c, kind |-> k, buf |-> b, link |-> TRUE]
  <2>2. /\ e \in Sqe /\ link' = Append(link, e) /\ Len(link') = Len(link) + 1
        /\ UNCHANGED <<sq, inflight, cq>> /\ Len(sq) + Len(link) < SqEntries
    BY <2>1, StartWrites
  <2>3. e.ud = c
    OBVIOUS
  <2> HIDE DEF e
  <2>4. /\ completions' = [completions EXCEPT ![c] = [cqe |-> None, task |-> NoTask, action |-> b]]
        /\ completions[c] = None
    BY <2>1 DEF StartOp, Vacant
  <2>5. [cqe |-> None, task |-> NoTask, action |-> b] # None
    <3>1. [cqe |-> None, task |-> NoTask, action |-> b] \in Event
      BY DEF Event
    <3> QED BY <3>1, Constants
  <2>6. Awaiting' = Awaiting \cup {c} /\ c \notin Awaiting
    BY <1>0, <2>4, <2>5 DEF Awaiting, MapType
  <2>7. c \notin Live
    BY <2>6 DEF CarriedInv
  <2>8. Uds(link') = Uds(link) \cup {c} /\ Distinct(link')
    <3>1. Uds(link') = Uds(link) \cup {e.ud} /\ (Distinct(link) /\ e.ud \notin Uds(link) => Distinct(link'))
      BY <1>0, <2>2, CarryAppend DEF SeqType
    <3> QED BY <2>3, <2>7, <3>1 DEF CarriedInv, Live
  <2>9. Live' = Live \cup {c}
    BY <2>2, <2>8 DEF Live
  <2>10. Len(sq') + Len(link') <= SqEntries
    BY <1>0, <2>2
  <2> QED BY <2>2, <2>6, <2>7, <2>8, <2>9, <2>10 DEF CarriedInv, Live
<1>10. CASE SubmitLink
  <2>1. /\ Len(sq') = Len(sq) + Len(link) /\ Uds(sq') = Uds(sq) \cup Uds(link)
        /\ Distinct(sq') /\ link' = <<>> /\ UNCHANGED <<inflight, cq, completions>>
    BY <1>10, SubmitWrites
  <2>2. Live' = Live /\ Awaiting' = Awaiting
    BY <2>1, CarryEmpty DEF Live, Awaiting
  <2>3. Uds(link') = {} /\ Distinct(link') /\ Len(link') = 0
    BY <1>0, <2>1, CarryEmpty
  <2> QED BY <1>0, <2>1, <2>2, <2>3 DEF CarriedInv
<1>11. CASE AbandonLink \/ Panic \/ \E c \in Cqids : DropBorrowed(c)
  <2>1. (Abandons \/ Panics) /\ link' = <<>> /\ UNCHANGED <<sq, inflight, cq, completions>>
    BY <1>11 DEF AbandonLink, Panic, DropBorrowed, MayPanic, kernVars, ctxVars
  <2>2. Uds(link') = {} /\ Distinct(link') /\ Len(link') = 0
    BY <1>0, <2>1, CarryEmpty
  <2>3. Live' \subseteq Live /\ Awaiting' = Awaiting
    BY <2>1, <2>2 DEF Live, Awaiting
  <2> QED BY <1>0, <2>1, <2>2, <2>3 DEF CarriedInv
<1>12. CASE Kernel
  <2>1. UNCHANGED <<sq, link, completions>>
    BY <1>12, KernelPosts
  <2>2. PICK M \in SUBSET Uds(inflight) :
          /\ Uds(inflight') = Uds(inflight) \ M
          /\ Uds(cq') = Uds(cq) \cup M /\ Distinct(inflight') /\ Distinct(cq')
    BY <1>12, KernelPosts
  <2>3. Live' = Live /\ Awaiting' = Awaiting
    BY <2>1, <2>2 DEF Live, Awaiting
  <2> QED BY <2>1, <2>2, <2>3 DEF CarriedInv
<1> QED
  BY <1>2, <1>3, <1>4, <1>5, <1>6, <1>7, <1>8, <1>9, <1>10, <1>11, <1>12
     DEF Next, Thread, Program, Loop, Client

\* Nothing is carried and nothing waited for at first.
LEMMA CarriedInit == Init => CarriedInv /\ Awaiting \subseteq Live
<1> SUFFICES ASSUME Init PROVE CarriedInv /\ Awaiting \subseteq Live
  OBVIOUS
<1>1. Awaiting = {}
  BY DEF Init, Awaiting
<1>2. sq = <<>> /\ link = <<>> /\ inflight = <<>> /\ cq = <<>>
  BY DEF Init
<1>3. Len(sq) + Len(link) <= SqEntries
  BY <1>2, Constants
<1> QED BY <1>1, <1>2, <1>3, CarryEmpty DEF CarriedInv, Live

\* How often an index is carried.
LEMMA OutstandingOnce ==
  ASSUME TypeInv, CarriedInv, NEW c
  PROVE  Outstanding(c) = IF c \in Live THEN 1 ELSE 0
<1> DEFINE T == Sqe \cup CqeRecord
<1>1. sq \in Seq(T) /\ link \in Seq(T) /\ inflight \in Seq(T) /\ cq \in Seq(T)
  BY DEF TypeInv, SeqType
<1> HIDE DEF T
<1> DEFINE s1 == sq \o link
           s2 == s1 \o inflight
           s3 == s2 \o cq
<1>2. s1 \in Seq(T) /\ Uds(s1) = Uds(sq) \cup Uds(link) /\ Distinct(s1)
  BY <1>1, CarryConcat DEF CarriedInv
<1> HIDE DEF s1
<1>3. s2 \in Seq(T) /\ Uds(s2) = Uds(s1) \cup Uds(inflight) /\ Distinct(s2)
  BY <1>1, <1>2, CarryConcat DEF CarriedInv
<1> HIDE DEF s2
<1>4. Uds(s3) = Uds(s2) \cup Uds(cq) /\ Distinct(s3)
  BY <1>1, <1>2, <1>3, CarryConcat DEF CarriedInv
<1>5. Uds(s3) = Live
  BY <1>2, <1>3, <1>4 DEF Live
<1> HIDE DEF s3
<1>6. CountUd(s3, c) = IF c \in Uds(s3) THEN 1 ELSE 0
  BY <1>4, CountOnce
<1>7. Outstanding(c) = CountUd(s3, c)
  BY DEF Outstanding, s1, s2, s3
<1> QED BY <1>5, <1>6, <1>7

\* While clients leave a full ring alone, every index is carried once, and only
\* for an event that waits.
THEOREM CarriedInvariance == AvoidFull => (Spec => [](TypeInv /\ CarriedInv))
<1> SUFFICES ASSUME AvoidFull PROVE Spec => [](TypeInv /\ CarriedInv)
  OBVIOUS
<1>1. Init => CarriedInv
  BY CarriedInit
<1>2. TypeInv /\ CarriedInv /\ [Next]_vars => CarriedInv'
  BY CarriedStep
<1> QED BY <1>1, <1>2, TypeInvariance, PTL DEF Spec

\* An index is never shared by two requests, and no completion arrives for an
\* event that has its CQE or is gone, also when chains are abandoned, futures
\* panic or io_uring_enter fails for good.
THEOREM NoForeignCompletions == AvoidFull => (Spec => []NoForeignCompletion)
<1> SUFFICES ASSUME AvoidFull PROVE Spec => []NoForeignCompletion
  OBVIOUS
<1>1. TypeInv /\ CarriedInv => NoForeignCompletion
  <2> SUFFICES ASSUME TypeInv, CarriedInv, NEW c \in Cqids
               PROVE  Outstanding(c) <= IF completions[c] # None /\ completions[c].cqe = None THEN 1 ELSE 0
    BY DEF NoForeignCompletion
  <2>1. Outstanding(c) = IF c \in Live THEN 1 ELSE 0
    BY OutstandingOnce
  <2>2. c \in Live => completions[c] # None /\ completions[c].cqe = None
    BY DEF CarriedInv, Awaiting
  <2> QED BY <2>1, <2>2
<1>2. Spec => [](TypeInv /\ CarriedInv)
  BY CarriedInvariance
<1> QED BY <1>1, <1>2, PTL

\* When no chain is thrown away, the events that wait are exactly the indices
\* that are carried.
THEOREM WaitingIsCarried ==
  AvoidFull /\ ~Abandons /\ ~Panics /\ ~HardErrors => (Spec => [](TypeInv /\ CarriedInv /\ Awaiting \subseteq Live))
<1> SUFFICES ASSUME AvoidFull, ~Abandons, ~Panics, ~HardErrors
             PROVE  Spec => [](TypeInv /\ CarriedInv /\ Awaiting \subseteq Live)
  OBVIOUS
<1>1. Init => CarriedInv /\ Awaiting \subseteq Live
  BY CarriedInit
<1>2. TypeInv /\ CarriedInv /\ Awaiting \subseteq Live /\ [Next]_vars =>
        CarriedInv' /\ (Awaiting \subseteq Live)'
  <2> SUFFICES ASSUME TypeInv, CarriedInv, Awaiting \subseteq Live, [Next]_vars
               PROVE  CarriedInv' /\ Awaiting' \subseteq Live'
    OBVIOUS
  <2> QED BY CarriedStep
<1> QED BY <1>1, <1>2, TypeInvariance, PTL DEF Spec

\* The index of a CompletionEvent identifies one request: while the event waits,
\* exactly one SQE, running request or CQE carries it, and afterwards none.
THEOREM OneRequestPerIndex ==
  AvoidFull /\ ~Abandons /\ ~Panics /\ ~HardErrors => (Spec => []OneOpPerCqid)
<1> SUFFICES ASSUME AvoidFull, ~Abandons, ~Panics, ~HardErrors PROVE Spec => []OneOpPerCqid
  OBVIOUS
<1>1. TypeInv /\ CarriedInv /\ Awaiting \subseteq Live => OneOpPerCqid
  <2> SUFFICES ASSUME TypeInv, CarriedInv, Awaiting \subseteq Live, NEW c \in Cqids
               PROVE  Outstanding(c) = IF completions[c] # None /\ completions[c].cqe = None THEN 1 ELSE 0
    BY DEF OneOpPerCqid
  <2>1. Outstanding(c) = IF c \in Live THEN 1 ELSE 0
    BY OutstandingOnce
  <2>2. c \in Live <=> completions[c] # None /\ completions[c].cqe = None
    BY DEF CarriedInv, Awaiting
  <2> QED BY <2>1, <2>2
<1>2. Spec => [](TypeInv /\ CarriedInv /\ Awaiting \subseteq Live)
  BY WaitingIsCarried
<1> QED BY <1>1, <1>2, PTL

-----------------------------------------------------------------------------
(* Which memory a request refers to.                                        *)

\* What was asked of the kernel and is not completed.
Asked == Requests(sq) \cup Requests(link) \cup Requests(inflight)

\* A request is what its future, if it has one, and its event say it is.
RequestInv ==
  /\ \A r \in Asked :
       /\ fut[r.ud] # None => fut[r.ud].kind = r.kind
       /\ r.buf = completions[r.ud].action
       /\ r.kind # "provide" => r.buf = None
  /\ \A c \in Cqids : fut[c] # None => fut[c].buf = completions[c].action

\* A request that is not completed has an event that waits and no CQE.
LEMMA AskedIsAwaited ==
  ASSUME CarriedInv, NEW r \in Asked
  PROVE  /\ r.ud \in Cqids /\ r.ud \in Awaiting /\ r.ud \notin Uds(cq) /\ CqesOf(r.ud) = {}
         /\ completions[r.ud] # None /\ completions[r.ud].cqe = None
<1>1. r.ud \in Uds(sq) \cup Uds(link) \cup Uds(inflight)
  BY DEF Asked, Requests, Request, Uds
<1>2. r.ud \in Awaiting /\ r.ud \notin Uds(cq)
  BY <1>1 DEF CarriedInv, Live
<1> QED BY <1>2 DEF Awaiting, Uds, CqesOf

\* What a step leaves of the requests it does not make.
RequestsKept ==
  /\ Asked' \subseteq Asked
  /\ \A r \in Asked' :
       /\ completions'[r.ud].action = completions[r.ud].action
       /\ fut'[r.ud] # None => fut[r.ud] # None /\ fut'[r.ud].kind = fut[r.ud].kind
  /\ \A c \in Cqids : fut'[c] # None =>
       /\ fut[c] # None /\ fut'[c].buf = fut[c].buf
       /\ completions'[c].action = completions[c].action

\* Nothing but a LinkedSubmitter's call asks the kernel for anything.
LEMMA AskedStays ==
  ASSUME AvoidFull, TypeInv, CarriedInv, [Next]_vars,
         ~\E k \in Kinds, c \in Cqids, b \in Bufs \cup {None} : StartOp(k, c, b)
  PROVE  Asked' \subseteq Asked
<1>0. ThreadType
  BY DEF TypeInv
<1>1. CASE \/ (\E t \in Tasks : RuntimeSpawn(t) \/ CallBlockOn(t) \/ PollNext(t))
           \/ (\E new \in SUBSET (Tasks \ futures), hasNext \in BOOLEAN : TurnBegin(new, hasNext))
  <2>1. UNCHANGED <<sq, link, inflight>>
    BY <1>1 DEF RuntimeSpawn, CallBlockOn, PollNext, TurnBegin, ringVars, kernVars
  <2> QED BY <2>1 DEF Asked
<1>2. CASE \/ CallRun \/ Return \/ TurnEnd \/ WaitDone \/ MakeRoom \/ Spawn \/ Suspend \/ Finish
           \/ SpinTest \/ UnwindDone \/ UNCHANGED vars \/ (\E c \in Cqids, t \in Tasks : Give(c, t))
           \/ TurnProcess \/ EnterTransient
  <2>1. UNCHANGED <<sq, link, inflight>>
    BY <1>2 DEF CallRun, Return, TurnEnd, WaitDone, MakeRoom, Spawn, Suspend, Finish, SpinTest,
           UnwindDone, vars, Give, TurnProcess, EnterTransient, ringVars, kernVars
  <2> QED BY <2>1 DEF Asked
<1>3. CASE \E c \in Cqids : PollPending(c) \/ PollReady(c) \/ DropReady(c) \/ DropDetach(c) \/ DropSpin(c)
  <2>1. UNCHANGED <<link, inflight>>
    BY <1>3 DEF PollPending, PollReady, DropReady, DropDetach, DropSpin, ringVars, kernVars
  <2>2. sq' = sq
    BY <1>3, CancelWrites DEF PollPending, PollReady, DropReady, DropDetach, ringVars
  <2> QED BY <2>1, <2>2 DEF Asked
<1>4. CASE EnterHard \/ AbandonLink \/ Panic \/ \E c \in Cqids : DropBorrowed(c)
  <2>1. UNCHANGED <<sq, inflight>>
    BY <1>4 DEF EnterHard, AbandonLink, Panic, DropBorrowed, kernVars
  <2>2. link' = link \/ link' = <<>>
    BY <1>0, <1>4, HardCases DEF AbandonLink, Panic, DropBorrowed
  <2> QED BY <1>4, <2>1, <2>2, CarryEmpty DEF Asked
<1>5. CASE EnterOk
  <2>1. link' = link /\ Requests(sq') \cup Requests(inflight') = Requests(sq) \cup Requests(inflight)
    BY <1>5, EnterTakes
  <2> QED BY <2>1 DEF Asked
<1>6. CASE SubmitLink
  <2>1. link' = <<>> /\ inflight' = inflight /\ Requests(sq') = Requests(sq) \cup Requests(link)
    BY <1>6, SubmitWrites
  <2> QED BY <2>1, CarryEmpty DEF Asked
<1>7. CASE Kernel
  <2>1. UNCHANGED <<sq, link>> /\ Requests(inflight') \subseteq Requests(inflight)
    BY <1>7, KernelPosts
  <2> QED BY <1>7, <2>1 DEF Asked
<1> QED
  BY <1>1, <1>2, <1>3, <1>4, <1>5, <1>6, <1>7 DEF Next, Thread, Program, Loop, Client

\* Every step keeps requests, events and futures in agreement.
LEMMA RequestStep ==
  ASSUME AvoidFull, TypeInv, CarriedInv, RequestInv, [Next]_vars
  PROVE  RequestInv'
<1>0. MapType /\ SeqType /\ ThreadType /\ ThreadInv
  BY DEF TypeInv
<1>1. ASSUME RequestsKept PROVE RequestInv'
  BY <1>1 DEF RequestInv, RequestsKept
<1>2. CASE \E k \in Kinds, c \in Cqids, b \in Bufs \cup {None} : StartOp(k, c, b)
  <2>1. PICK k \in Kinds, c \in Cqids, b \in Bufs \cup {None} : StartOp(k, c, b)
    BY <1>2
  <2> DEFINE e == [ud |-> c, kind |-> k, buf |-> b, link |-> TRUE]
             f == [owner |-> cur, kind |-> k, buf |-> b]
  <2>2. e \in Sqe /\ link' = Append(link, e) /\ UNCHANGED <<sq, inflight>>
    BY <2>1, StartWrites
  <2>3. Request(e) = [ud |-> c, kind |-> k, buf |-> b]
    BY DEF Request
  <2>4. /\ completions' = [completions EXCEPT ![c] = [cqe |-> None, task |-> NoTask, action |-> b]]
        /\ fut' = [fut EXCEPT ![c] = f] /\ pc = "task"
        /\ completions[c] = None /\ (k # "provide" => b = None)
    BY <2>1 DEF StartOp, Vacant, Running
  <2>5. f # None
    <3>1. cur \in Tasks
      BY <1>0, <2>4 DEF ThreadType
    <3>2. f \in FutureObject
      BY <3>1 DEF FutureObject
    <3> QED BY <3>2, Constants
  <2>6. fut'[c] = f /\ f.kind = k /\ f.buf = b /\ completions'[c].action = b
    BY <1>0, <2>4 DEF MapType
  <2>7. \A d \in Cqids \ {c} : fut'[d] = fut[d] /\ completions'[d] = completions[d]
    BY <1>0, <2>4 DEF MapType
  <2> HIDE DEF e, f
  <2>8. Requests(link') = Requests(link) \cup {Request(e)}
    BY <1>0, <2>2, CarryAppend DEF SeqType
  <2>9. Asked' = Asked \cup {[ud |-> c, kind |-> k, buf |-> b]}
    BY <2>2, <2>3, <2>8 DEF Asked
  <2>10. \A r \in Asked : r.ud \in Cqids \ {c}
    BY <2>4, AskedIsAwaited
  <2>11. \A r \in Asked : /\ fut'[r.ud] # None => fut'[r.ud].kind = r.kind
                          /\ r.buf = completions'[r.ud].action
                          /\ r.kind # "provide" => r.buf = None
    BY <2>7, <2>10 DEF RequestInv
  <2>12. \A d \in Cqids : fut'[d] # None => fut'[d].buf = completions'[d].action
    BY <2>6, <2>7 DEF RequestInv
  <2> QED BY <2>4, <2>5, <2>6, <2>9, <2>11, <2>12 DEF RequestInv
<1>3. CASE ~\E k \in Kinds, c \in Cqids, b \in Bufs \cup {None} : StartOp(k, c, b)
  <2>0. Asked' \subseteq Asked /\ \A r \in Asked' : r.ud \in Cqids
    BY <1>3, AskedStays, AskedIsAwaited
  <2>1. CASE \/ (\E t \in Tasks : RuntimeSpawn(t) \/ CallBlockOn(t) \/ PollNext(t))
             \/ (\E new \in SUBSET (Tasks \ futures), hasNext \in BOOLEAN : TurnBegin(new, hasNext))
    <3>1. UNCHANGED <<completions, fut>>
      BY <2>1 DEF RuntimeSpawn, CallBlockOn, PollNext, TurnBegin, ctxVars, futVars
    <3> QED BY <1>1, <2>0, <3>1 DEF RequestsKept, RequestInv
  <2>2. CASE \/ CallRun \/ Return \/ TurnEnd \/ WaitDone \/ MakeRoom \/ Spawn \/ Suspend \/ Finish
             \/ Panic \/ UnwindDone \/ UNCHANGED vars \/ AbandonLink \/ EnterOk \/ SubmitLink \/ Kernel
    <3>1. UNCHANGED <<completions, fut>>
      BY <2>2 DEF CallRun, Return, TurnEnd, WaitDone, MakeRoom, Spawn, Suspend, Finish, Panic, UnwindDone,
             vars, AbandonLink, EnterOk, SubmitLink, Kernel, Fail, Complete, ctxVars, futVars
    <3> QED BY <1>1, <2>0, <3>1 DEF RequestsKept, RequestInv
  <2>3. CASE TurnProcess \/ EnterTransient
    <3>1. completions' = [c \in Cqids |-> Delivered(c)] /\ fut' = fut
      BY <2>3 DEF TurnProcess, EnterTransient, ProcessCqes, futVars
    <3>2. \A r \in Asked : completions'[r.ud] = completions[r.ud]
      <4> SUFFICES ASSUME NEW r \in Asked PROVE completions'[r.ud] = completions[r.ud]
        OBVIOUS
      <4>1. r.ud \in Cqids /\ r.ud \notin Reached
        BY AskedIsAwaited DEF Reached
      <4> QED BY <1>0, <3>1, <4>1, DeliveredType
    <3>3. \A c \in Cqids : fut[c] # None => completions'[c].action = completions[c].action
      BY <1>0, <3>1, DeliveredType DEF MapType
    <3> QED BY <1>1, <2>0, <3>1, <3>2, <3>3 DEF RequestsKept, RequestInv
  <2>4. CASE EnterHard
    <3>1. fut' = fut
      BY <2>4 DEF EnterHard, futVars
    <3>2. \A c \in Cqids : completions[c] # None => completions'[c] = completions[c]
      <4>1. CASE completions' = completions
        BY <4>1
      <4>2. CASE \E c \in Vacant : completions' = [completions EXCEPT ![c] =
                                     [cqe |-> None, task |-> NoTask, action |-> None]]
        BY <1>0, <4>2 DEF Vacant, MapType
      <4> QED BY <1>0, <2>4, <4>1, <4>2, HardCases
    <3>3. \A r \in Asked : completions'[r.ud] = completions[r.ud]
      BY <3>2, AskedIsAwaited
    <3> QED BY <1>0, <1>1, <2>0, <3>1, <3>2, <3>3 DEF RequestsKept, RequestInv, MapType
  <2>5. CASE \E c \in Cqids : PollReady(c) \/ DropReady(c)
    <3>1. PICK c \in Cqids : PollReady(c) \/ DropReady(c)
      BY <2>5
    <3>2. /\ completions' = [completions EXCEPT ![c] = None] /\ fut' = [fut EXCEPT ![c] = None]
          /\ completions[c].cqe # None
      BY <3>1 DEF PollReady, DropReady
    <3>3. \A r \in Asked : r.ud # c
      BY <3>2, AskedIsAwaited
    <3> QED BY <1>0, <1>1, <2>0, <3>2, <3>3 DEF RequestsKept, RequestInv, MapType
  <2>6. CASE \E c \in Cqids : PollPending(c) \/ DropSpin(c)
    <3>1. PICK c \in Cqids : PollPending(c) \/ DropSpin(c)
      BY <2>6
    <3>2. PICK t : completions' = [completions EXCEPT ![c] = [completions[c] EXCEPT !.task = t]]
      BY <3>1 DEF PollPending, DropSpin, Register
    <3>3. fut' = fut /\ completions[c] \in Event
      BY <1>0, <3>1, StepTouches DEF PollPending, DropSpin, futVars, MapType, Held
    <3>4. \A d \in Cqids : completions'[d].action = completions[d].action
      BY <1>0, <3>2, <3>3 DEF MapType, Event
    <3> QED BY <1>1, <2>0, <3>3, <3>4 DEF RequestsKept, RequestInv
  <2>7. CASE \E c \in Cqids : DropDetach(c)
    <3>1. PICK c \in Cqids : DropDetach(c)
      BY <2>7
    <3>2. /\ completions' = [completions EXCEPT ![c] = [completions[c] EXCEPT !.task = Dead]]
          /\ fut' = [fut EXCEPT ![c] = None]
      BY <3>1 DEF DropDetach, Detach
    <3>3. completions[c] \in Event
      BY <1>0, <3>1, StepTouches DEF MapType, Held
    <3>4. \A d \in Cqids : completions'[d].action = completions[d].action
      BY <1>0, <3>2, <3>3 DEF MapType, Event
    <3> QED BY <1>0, <1>1, <2>0, <3>2, <3>4 DEF RequestsKept, RequestInv, MapType
  <2>10. CASE \E c \in Cqids : DropBorrowed(c)
    <3>1. PICK c \in Cqids : DropBorrowed(c)
      BY <2>10
    <3>2. completions' = completions /\ fut' = [fut EXCEPT ![c] = None]
      BY <3>1 DEF DropBorrowed, ctxVars
    <3> QED BY <1>0, <1>1, <2>0, <3>2 DEF RequestsKept, RequestInv, MapType
  <2>8. CASE \E c \in Cqids, t \in Tasks : Give(c, t)
    <3>1. PICK c \in Cqids, t \in Tasks : Give(c, t)
      BY <2>8
    <3>2. fut' = [fut EXCEPT ![c] = [fut[c] EXCEPT !.owner = t]] /\ completions' = completions
      BY <3>1 DEF Give, ctxVars
    <3>3. fut[c] \in FutureObject /\ fut[c] # None
      BY <1>0, <3>1 DEF Give, MapType, Held
    <3>4. fut'[c] \in FutureObject /\ fut'[c].kind = fut[c].kind /\ fut'[c].buf = fut[c].buf
      BY <1>0, <3>2, <3>3 DEF MapType, FutureObject
    <3>5. \A d \in Cqids \ {c} : fut'[d] = fut[d]
      BY <1>0, <3>2 DEF MapType
    <3> QED BY <1>1, <2>0, <3>2, <3>3, <3>4, <3>5, Constants DEF RequestsKept, RequestInv
  <2>9. CASE SpinTest
    <3>1. completions' = completions /\ dropping \in Cqids
      BY <1>0, <2>9 DEF SpinTest, ctxVars, ThreadInv, ThreadType
    <3>2. CASE SpinOver
      <4>1. fut' = [fut EXCEPT ![dropping] = None] /\ completions[dropping].cqe # None
        BY <2>9, <3>2 DEF SpinTest, SpinOver
      <4>2. \A r \in Asked : r.ud # dropping
        BY <4>1, AskedIsAwaited
      <4> QED BY <1>0, <1>1, <2>0, <3>1, <4>1, <4>2 DEF RequestsKept, RequestInv, MapType
    <3>3. CASE ~SpinOver
      <4>1. fut' = fut
        BY <2>9, <3>3 DEF SpinTest
      <4> QED BY <1>1, <2>0, <3>1, <4>1 DEF RequestsKept, RequestInv
    <3> QED BY <3>2, <3>3
  <2> QED
    BY <1>3, <2>1, <2>2, <2>3, <2>4, <2>5, <2>6, <2>7, <2>8, <2>9, <2>10
       DEF Next, Thread, Program, Loop, Client
<1> QED BY <1>2, <1>3

\* Every request is what its future and its event say.
THEOREM RequestInvariance == AvoidFull => (Spec => [](TypeInv /\ CarriedInv /\ RequestInv))
<1> SUFFICES ASSUME AvoidFull PROVE Spec => [](TypeInv /\ CarriedInv /\ RequestInv)
  OBVIOUS
<1>1. Init => RequestInv
  BY CarryEmpty DEF Init, RequestInv, Asked
<1>2. TypeInv /\ CarriedInv /\ RequestInv /\ [Next]_vars => RequestInv'
  BY RequestStep
<1>3. Spec => [](TypeInv /\ CarriedInv)
  BY CarriedInvariance
<1> QED BY <1>1, <1>2, <1>3, PTL DEF Spec

\* What waits in the ring, is being written or runs was asked for.
LEMMA OpsAreAsked ==
  ASSUME TypeInv
  PROVE  Asked = {Request(op) : op \in ToSet(sq \o link \o inflight)}
<1>1. sq \in Seq(Sqe) /\ link \in Seq(Sqe) /\ inflight \in Seq(Sqe)
  BY DEF TypeInv, SeqType
<1> DEFINE s1 == sq \o link
           s2 == s1 \o inflight
<1>2. s1 \in Seq(Sqe) /\ Requests(s1) = Requests(sq) \cup Requests(link)
  BY <1>1, CarryConcat
<1> HIDE DEF s1
<1>3. Requests(s2) = Requests(s1) \cup Requests(inflight)
  BY <1>1, <1>2, CarryConcat
<1>4. ToSet(sq \o link \o inflight) = {s2[i] : i \in DOMAIN s2}
  BY DEF s1, ToSet
<1> HIDE DEF s2
<1>5. Requests(s2) = {Request(op) : op \in ToSet(sq \o link \o inflight)}
  BY <1>4 DEF Requests
<1> QED BY <1>2, <1>3, <1>5 DEF Asked

\* A future that borrows the caller's memory is gone only when its request is
\* over, also when it is dropped by a panic or while completions are delivered;
\* the one step that breaks this is a drop while a chain is open, which panics.
THEOREM BorrowsOutlastRequests == AvoidFull => (Spec => MustWaitSafe)
<1> SUFFICES ASSUME AvoidFull PROVE Spec => MustWaitSafe
  OBVIOUS
<1> DEFINE Safe == \A c \in Borrowing : fut[c] # None /\ fut'[c] = None =>
                     \/ c \notin Borrowing'
                     \/ link # <<>> /\ ~panicking /\ panicking'
<1>1. TypeInv /\ CarriedInv /\ RequestInv /\ [Next]_vars => Safe
  <2> SUFFICES ASSUME TypeInv, CarriedInv, RequestInv, [Next]_vars,
                      NEW c \in Borrowing, fut[c] # None, fut'[c] = None
               PROVE  link # <<>> /\ ~panicking /\ panicking'
    OBVIOUS
  <2>0. MapType /\ ThreadType /\ ThreadInv
    BY DEF TypeInv
  <2>1. PICK r \in Asked : r.ud = c /\ r.kind = "mem"
    <3>1. sq \in Seq(Sqe) /\ inflight \in Seq(Sqe)
      BY DEF TypeInv, SeqType
    <3>2. Requests(sq \o inflight) = Requests(sq) \cup Requests(inflight)
      BY <3>1, CarryConcat
    <3>3. PICK op \in ToSet(sq \o inflight) : op.kind = "mem" /\ op.ud = c
      BY DEF Borrowing
    <3>4. Request(op) \in Requests(sq \o inflight)
      BY <3>3 DEF ToSet, Requests
    <3>5. Request(op).ud = c /\ Request(op).kind = "mem"
      BY <3>3 DEF Request
    <3> QED BY <3>2, <3>4, <3>5 DEF Asked
  <2>2. c \in Cqids /\ completions[c] # None /\ completions[c].cqe = None
    BY <2>1, AskedIsAwaited
  <2>3. fut[c].kind = "mem"
    BY <2>1 DEF RequestInv
  <2>4. fut' # fut
    OBVIOUS
  \* What takes a future away.
  <2>5. ASSUME NEW d \in Cqids, PollReady(d) \/ DropReady(d) PROVE FALSE
    <3>1. fut' = [fut EXCEPT ![d] = None] /\ completions[d].cqe # None
      BY <2>5 DEF PollReady, DropReady
    <3> QED BY <2>0, <2>2, <3>1 DEF MapType
  <2>6. ASSUME NEW d \in Cqids, DropDetach(d) PROVE FALSE
    <3>1. fut' = [fut EXCEPT ![d] = None] /\ fut[d].kind # "mem"
      BY <2>6 DEF DropDetach
    <3> QED BY <2>0, <2>2, <2>3, <3>1 DEF MapType
  <2>7. ASSUME SpinTest PROVE FALSE
    <3>1. dropping \in Cqids /\ fut' = [fut EXCEPT ![dropping] = None] /\ completions[dropping].cqe # None
      BY <2>0, <2>4, <2>7 DEF SpinTest, SpinOver, ThreadInv, ThreadType
    <3> QED BY <2>0, <2>2, <3>1 DEF MapType
  <2>8. ASSUME NEW k \in Kinds, NEW d \in Cqids, NEW b \in Bufs \cup {None}, StartOp(k, d, b) PROVE FALSE
    <3>1. fut' = [fut EXCEPT ![d] = [owner |-> cur, kind |-> k, buf |-> b]] /\ completions[d] = None
      BY <2>8 DEF StartOp, Vacant
    <3> QED BY <2>0, <2>2, <3>1 DEF MapType
  <2>9. ASSUME NEW d \in Cqids, NEW t \in Tasks, Give(d, t) PROVE FALSE
    <3>1. fut' = [fut EXCEPT ![d] = [fut[d] EXCEPT !.owner = t]] /\ fut[d] # None
      BY <2>9 DEF Give, Held
    <3>2. fut'[d] \in FutureObject
      BY <2>0, <3>1 DEF MapType, FutureObject
    <3>3. fut'[d] # None
      BY <3>2, Constants
    <3> QED BY <2>0, <2>2, <3>1, <3>3 DEF MapType
  <2>10. \E d \in Cqids : DropBorrowed(d)
    <3>1. ~(UNCHANGED vars \/ Program \/ Loop \/ Kernel)
      BY <2>4 DEF vars, Program, Loop, Kernel, RuntimeSpawn, CallBlockOn, CallRun, Return, TurnBegin,
             TurnProcess, TurnEnd, PollNext, EnterOk, WaitDone, EnterTransient, EnterHard, Fail, Complete, futVars
    <3>2. ~(\/ MakeRoom \/ SubmitLink \/ AbandonLink \/ Spawn \/ Suspend \/ Finish \/ Panic \/ UnwindDone
            \/ \E d \in Cqids : PollPending(d) \/ DropSpin(d))
      BY <2>4 DEF MakeRoom, SubmitLink, AbandonLink, Spawn, Suspend, Finish, Panic, UnwindDone,
             PollPending, DropSpin, futVars
    <3> QED BY <2>5, <2>6, <2>7, <2>8, <2>9, <3>1, <3>2 DEF Next, Thread, Client
  <2> QED BY <2>10 DEF DropBorrowed, MayPanic, Running
<1>2. Spec => [](TypeInv /\ CarriedInv /\ RequestInv)
  BY RequestInvariance
<1>3. Safe => [\A c \in Borrowing : fut[c] # None /\ fut'[c] = None =>
                 \/ c \notin Borrowing'
                 \/ link # <<>> /\ ~panicking /\ panicking']_vars
  OBVIOUS
<1> HIDE DEF Safe
<1> QED BY <1>1, <1>2, <1>3, PTL DEF Spec, MustWaitSafe

-----------------------------------------------------------------------------
(* When the thread sleeps.                                                  *)

\* A call that has not returned is run or block_on, and block_on's future is
\* stored until it has produced its value.
CallInv ==
  /\ pc # "out" => api \in {"run", "block_on"}
  /\ api = "block_on" /\ ~output => root \in futures

\* The thread asks to wait only if something is on its way.
SleepInv ==
  /\ pc = "enter" /\ waitFor = 1 => Uds(sq) \cup Uds(inflight) \cup Uds(cq) # {}
  /\ pc = "wait" /\ waitFor = 1 => Uds(inflight) \cup Uds(cq) # {}

\* A sequence that carries no index is empty.
LEMMA CarryNothing ==
  ASSUME NEW T, NEW s \in Seq(T)
  PROVE  s = <<>> <=> Uds(s) = {}
<1>1. ASSUME s # <<>> PROVE Uds(s) # {}
  <2>1. 1 \in DOMAIN s
    BY <1>1
  <2> QED BY <2>1 DEF Uds
<1> QED BY <1>1, CarryEmpty

\* Without panics and errors, block_on returns only when its future has produced
\* its value.
LEMMA CallStep ==
  ASSUME TypeInv, QueueInv, CallInv, ~Panics, ~HardErrors, [Next]_vars
  PROVE  CallInv'
<1> USE DEF CallInv
<1>1. CASE \E t \in Tasks : RuntimeSpawn(t) \/ CallBlockOn(t)
  BY <1>1 DEF RuntimeSpawn, CallBlockOn, thrVars
<1>2. CASE CallRun \/ Return
  BY <1>2 DEF CallRun, Return
<1>3. CASE \E new \in SUBSET (Tasks \ futures), hasNext \in BOOLEAN : TurnBegin(new, hasNext)
  BY <1>3 DEF TurnBegin
<1>4. CASE TurnProcess \/ TurnEnd \/ EnterOk \/ WaitDone \/ (\E t \in Tasks : PollNext(t))
  BY <1>4 DEF TurnProcess, TurnEnd, EnterOk, WaitDone, PollNext, rtVars
<1>5. CASE EnterHard \/ Panic \/ UnwindDone \/ \E c \in Cqids : DropBorrowed(c)
  BY <1>5 DEF EnterHard, Panic, DropBorrowed, MayPanic, UnwindDone, QueueInv
<1>6. CASE \/ SubmitLink \/ AbandonLink \/ Spawn \/ EnterTransient \/ UNCHANGED vars
           \/ (\E k \in Kinds, c \in Cqids, b \in Bufs \cup {None} : StartOp(k, c, b))
           \/ (\E c \in Cqids : PollPending(c) \/ PollReady(c) \/ DropReady(c) \/ DropDetach(c))
           \/ (\E c \in Cqids, t \in Tasks : Give(c, t))
           \/ Kernel
  <2>1. UNCHANGED rtVars /\ UNCHANGED thrVars
    BY <1>6, ThreadStays
  <2> QED BY <2>1 DEF rtVars, thrVars
<1>7. CASE MakeRoom \/ SpinTest \/ Suspend \/ (\E c \in Cqids : DropSpin(c))
  <2>1. pc # "out" /\ UNCHANGED rtVars
    BY <1>7 DEF MakeRoom, SpinTest, Suspend, DropSpin, Unborrowed, Running, CanDrop
  <2> QED BY <2>1 DEF rtVars
<1>8. CASE Finish
  <2>1. /\ futures' = futures \ {cur} /\ output' = (output \/ cur = root) /\ pc # "out" /\ api' = api
        /\ (cur # root => root' = root)
    BY <1>8 DEF Finish, Unborrowed, Running
  <2> QED BY <2>1
<1> QED
  BY <1>1, <1>2, <1>3, <1>4, <1>5, <1>6, <1>7, <1>8 DEF Next, Thread, Program, Loop, Client

\* A task that waits for a CQE has its request on the way.
LEMMA WaitedIsCarried ==
  ASSUME TypeInv, Awaiting \subseteq Live, link = <<>>, NEW c \in Awaiting
  PROVE  Uds(sq) \cup Uds(inflight) \cup Uds(cq) # {}
BY CarryEmpty DEF Live

\* A kernel that takes all it is offered leaves nothing behind sqe_tail.
LEMMA LeftStep ==
  ASSUME TypeInv, CarriedInv, ~Short, left = 0, [Next]_vars
  PROVE  left' = 0
<1>1. CASE EnterOk
  BY <1>1, EnterTakes
<1>2. CASE Program \/ Kernel \/ UNCHANGED vars
  BY <1>2 DEF vars, Program, Kernel, RuntimeSpawn, CallBlockOn, CallRun, Return, Fail, Complete, ringVars
<1>3. CASE Loop /\ ~EnterOk
  BY <1>3 DEF Loop, TurnBegin, TurnProcess, TurnEnd, PollNext, WaitDone, EnterTransient, EnterHard, ringVars
<1>4. CASE Client
  BY <1>4 DEF Client, StartOp, MakeRoom, SubmitLink, AbandonLink, PollPending, PollReady, Give, Spawn, Suspend,
         Finish, DropReady, DropDetach, DropSpin, DropBorrowed, SpinTest, Panic, UnwindDone, ringVars
<1> QED BY <1>1, <1>2, <1>3, <1>4 DEF Next, Thread

\* Every step keeps the thread from sleeping without a request that can wake it.
LEMMA SleepStep ==
  ASSUME AvoidFull, ~Panics, ~HardErrors, ~Short, left = 0, [Next]_vars, TypeInv, WaitInv, QueueInv, CarriedInv,
         Awaiting \subseteq Live, CallInv, SleepInv
  PROVE  SleepInv'
<1>0. /\ MapType /\ ThreadType /\ ThreadInv /\ SetType
      /\ sq \in Seq(Sqe) /\ inflight \in Seq(Sqe) /\ cq \in Seq(CqeRecord)
  BY DEF TypeInv, SeqType
<1>1. ASSUME pc' \notin {"enter", "wait"} \/ waitFor' = 0 PROVE SleepInv'
  BY <1>1 DEF SleepInv
<1>2. ASSUME UNCHANGED <<pc, waitFor, sq, inflight, cq>> PROVE SleepInv'
  BY <1>2 DEF SleepInv
<1>3. CASE \E new \in SUBSET (Tasks \ futures), hasNext \in BOOLEAN : TurnBegin(new, hasNext)
  <2>1. PICK new \in SUBSET (Tasks \ futures), hasNext \in BOOLEAN : TurnBegin(new, hasNext)
    BY <1>3
  <2>2. /\ pc = "turn" /\ ~LoopDone /\ Cardinality(new) = created
        /\ runqueue' = runqueue \cup new \cup woken /\ UNCHANGED <<sq, inflight, cq>>
    BY <2>1 DEF TurnBegin, Runnable, ringVars, kernVars
  <2>3. \/ pc' = "process"
        \/ pc' = "enter" /\ waitFor' = WaitCount(runqueue', hasNext)
    BY <2>1 DEF TurnBegin, Submit
  <2>4. CASE runqueue' = {}
    <3>1. new = {} /\ runqueue = {} /\ woken = {}
      BY <2>2, <2>4
    <3>2. created = 0
      BY <2>2, <3>1, FS_EmptySet
    <3>3. \E t \in futures : TRUE
      BY <2>2, <3>2 DEF LoopDone, CallInv
    <3>4. PICK t \in futures : TRUE
      BY <3>3
    <3>5. t \in Tasks /\ cur = None /\ t # cur /\ link = <<>>
      BY <1>0, <2>2, Constants DEF SetType, ThreadType, ThreadInv
    <3>6. PICK c \in waiting[t] : TRUE
      BY <3>1, <3>5 DEF QueueInv
    <3>7. c \in Held(t) /\ completions[c].cqe = None
      BY <3>1, <3>5 DEF WaitInv, QueueInv
    <3>8. c \in Awaiting
      BY <1>0, <3>7 DEF Awaiting, Held, MapType
    <3>9. Uds(sq) \cup Uds(inflight) \cup Uds(cq) # {}
      BY <3>5, <3>8, WaitedIsCarried
    <3> QED BY <2>2, <2>3, <3>9 DEF SleepInv
  <2>5. CASE runqueue' # {}
    <3>1. WaitCount(runqueue', hasNext) = 0
      BY <2>5 DEF WaitCount
    <3> QED BY <1>1, <2>3, <3>1
  <2> QED BY <2>4, <2>5
<1>4. CASE \E c \in Cqids : DropSpin(c)
  <2>1. PICK c \in Cqids : DropSpin(c)
    BY <1>4
  <2>2. sq' = sq /\ UNCHANGED <<inflight, cq>> /\ pc' = "enter" /\ link = <<>> /\ completions[c].cqe = None
    BY <2>1, CancelWrites DEF DropSpin, CanDrop, kernVars
  <2>3. c \in Awaiting
    BY <1>0, <2>1, <2>2, StepTouches DEF Awaiting, Held, MapType
  <2>4. Uds(sq) \cup Uds(inflight) \cup Uds(cq) # {}
    BY <2>2, <2>3, WaitedIsCarried
  <2> QED BY <2>2, <2>4 DEF SleepInv
<1>5. CASE SpinTest
  <2>1. CASE SpinOver
    BY <1>1, <1>5, <2>1 DEF SpinTest
  <2>2. CASE ~SpinOver
    <3>1. pc = "spin" /\ UNCHANGED <<sq, inflight, cq>> /\ completions[dropping].cqe = None /\ pc' # "wait"
      BY <1>5, <2>2 DEF SpinTest, SpinOver, ringVars, kernVars, Submit
    <3>2. dropping \in Cqids /\ dropping \in Held(cur) /\ link = <<>>
      BY <1>0, <3>1, Constants DEF ThreadInv, ThreadType, MapType
    <3>3. dropping \in Awaiting
      BY <1>0, <3>1, <3>2 DEF Awaiting, Held, MapType
    <3>4. Uds(sq) \cup Uds(inflight) \cup Uds(cq) # {}
      BY <3>2, <3>3, WaitedIsCarried
    <3> QED BY <3>1, <3>4 DEF SleepInv
  <2> QED BY <2>1, <2>2
<1>6. CASE EnterOk
  <2>1. pc = "enter" /\ pc' = "wait"
    BY <1>6 DEF EnterOk
  <2>2. UNCHANGED <<waitFor, cq>> /\ Uds(inflight') = Uds(inflight) \cup Uds(sq)
    BY <1>6, EnterTakes
  <2> QED BY <2>1, <2>2 DEF SleepInv
<1>7. CASE EnterTransient
  <2>0. pc = "enter" /\ Len(sq) - 0 > 0 /\ UNCHANGED <<pc, sq>>
    BY <1>7 DEF EnterTransient, Unsubmitted, thrVars, ringVars
  <2>1. pc = "enter" /\ sq # <<>> /\ UNCHANGED <<pc, sq>>
    BY <2>0
  <2>2. Uds(sq) # {}
    BY <1>0, <2>1, CarryNothing
  <2> QED BY <2>1, <2>2 DEF SleepInv
<1>8. CASE Kernel
  <2>1. sq' = sq /\ \E M \in SUBSET Uds(inflight) :
                      Uds(inflight') = Uds(inflight) \ M /\ Uds(cq') = Uds(cq) \cup M
    BY <1>8, KernelPosts
  <2>2. UNCHANGED <<pc, waitFor>>
    BY <1>8, ThreadStays DEF thrVars
  <2> QED BY <2>1, <2>2 DEF SleepInv
<1>9. CASE WaitDone
  BY <1>0, <1>1, <1>9 DEF WaitDone, ThreadType
<1>10. CASE MakeRoom
  BY <1>1, <1>10 DEF MakeRoom, Submit
<1>11. CASE \/ CallRun \/ Return \/ TurnEnd \/ Suspend \/ Finish \/ TurnProcess \/ EnterHard \/ Panic \/ UnwindDone
            \/ (\E c \in Cqids : DropBorrowed(c))
            \/ (\E t \in Tasks : PollNext(t) \/ CallBlockOn(t) \/ RuntimeSpawn(t))
  <2>1. ~EnterHard /\ ~Panic /\ ~UnwindDone /\ ~\E c \in Cqids : DropBorrowed(c)
    BY DEF EnterHard, Panic, DropBorrowed, MayPanic, UnwindDone, QueueInv
  <2>2. pc' \notin {"enter", "wait"}
    BY <1>11, <2>1 DEF CallRun, Return, TurnEnd, Suspend, Finish, PollDone, TurnProcess, PollNext, CallBlockOn,
           RuntimeSpawn, thrVars
  <2> QED BY <1>1, <2>2
<1>12. CASE \/ SubmitLink \/ AbandonLink \/ Spawn
            \/ (\E k \in Kinds, c \in Cqids, b \in Bufs \cup {None} : StartOp(k, c, b))
            \/ (\E c \in Cqids : PollPending(c) \/ PollReady(c) \/ DropReady(c) \/ DropDetach(c))
            \/ (\E c \in Cqids, t \in Tasks : Give(c, t))
  <2>1. pc = "task"
    BY <1>12 DEF SubmitLink, AbandonLink, Spawn, StartOp, PollPending, PollReady, DropReady, DropDetach, Give,
           Unborrowed, Running, CanDrop
  <2>2. pc' = pc
    BY <1>12, ThreadStays DEF thrVars
  <2> QED BY <1>1, <2>1, <2>2
<1>13. CASE UNCHANGED vars
  BY <1>2, <1>13 DEF vars, thrVars, ringVars, kernVars
<1> QED
  BY <1>3, <1>4, <1>5, <1>6, <1>7, <1>8, <1>9, <1>10, <1>11, <1>12, <1>13
     DEF Next, Thread, Program, Loop, Client

\* The thread goes to sleep in the kernel only if a request runs that can end the
\* sleep: run, block_on and the drop of a must_wait future never wait for nothing.
THEOREM SleepsOverWork ==
  AvoidFull /\ ~Abandons /\ ~Panics /\ ~HardErrors /\ ~Short => (Spec => []BlockedHasWork)
<1> SUFFICES ASSUME AvoidFull, ~Abandons, ~Panics, ~HardErrors, ~Short PROVE Spec => []BlockedHasWork
  OBVIOUS
<1>1. Init => CallInv /\ SleepInv /\ left = 0
  BY DEF Init, CallInv, SleepInv
<1>2. TypeInv /\ QueueInv /\ CallInv /\ [Next]_vars => CallInv'
  BY CallStep
<1>3. /\ TypeInv /\ WaitInv /\ QueueInv /\ CarriedInv /\ Awaiting \subseteq Live /\ CallInv /\ left = 0
      /\ SleepInv /\ [Next]_vars
      => SleepInv'
  BY SleepStep
<1>7. TypeInv /\ CarriedInv /\ left = 0 /\ [Next]_vars => (left = 0)'
  BY LeftStep
<1>4. TypeInv /\ SleepInv => BlockedHasWork
  <2> SUFFICES ASSUME TypeInv, SleepInv, pc = "wait", Len(cq) < waitFor PROVE inflight # <<>>
    BY DEF BlockedHasWork
  <2>1. waitFor \in 0 .. 1 /\ cq \in Seq(CqeRecord) /\ inflight \in Seq(Sqe) /\ Len(cq) \in Nat
    BY DEF TypeInv, ThreadType, SeqType
  <2>2. waitFor = 1 /\ Len(cq) = 0
    BY <2>1
  <2>3. cq = <<>>
    BY <2>1, <2>2
  <2>4. Uds(inflight) # {}
    BY <2>2, <2>3, CarryEmpty DEF SleepInv
  <2> QED BY <2>4, CarryEmpty
<1>5. Spec => [](TypeInv /\ WaitInv /\ QueueInv)
  BY QueueInvariance
<1>6. Spec => [](TypeInv /\ CarriedInv /\ Awaiting \subseteq Live)
  BY WaitingIsCarried
<1> QED BY <1>1, <1>2, <1>3, <1>4, <1>5, <1>6, <1>7, PTL DEF Spec

-----------------------------------------------------------------------------
(* Who owns a buffer.                                                       *)

\* Index c has buffer b from the kernel: its CQE, in the ring or recorded, names b.
Picks(c, b) ==
  \/ \E i \in CqesOf(c) : cq[i].buf = b
  \/ completions[c] # None /\ completions[c].cqe # None /\ completions[c].cqe.buf = b

\* Index c offers buffer b to the kernel: its request names b, or has failed and
\* gives b back.
Offers(c, b) ==
  \/ \E r \in Asked : r.ud = c /\ r.buf = b
  \/ \E i \in CqesOf(c) : ~cq[i].ok /\ completions[c].action = b
  \/ completions[c] # None /\ completions[c].cqe # None /\ ~completions[c].cqe.ok /\ completions[c].action = b

Claims(c, b) == Picks(c, b) \/ Offers(c, b)

\* The kernel's buffers are in the pool, and so are those an index stands for,
\* which the kernel does not have; no two indices stand for the same buffer.
BufferInv ==
  /\ group \subseteq buffers
  /\ \A c \in Cqids, b \in Bufs : Claims(c, b) => b \in buffers /\ b \notin group
  /\ \A c, d \in Cqids, b \in Bufs : Claims(c, b) /\ Claims(d, b) => c = d

\* An event that keeps its CQE and its action stands for no more than before.
LEMMA ClaimsStay ==
  ASSUME Asked' \subseteq Asked, cq' = cq, NEW c, NEW b,
         \/ completions'[c] = completions[c]
         \/ /\ completions[c] # None
            /\ completions'[c].cqe = completions[c].cqe /\ completions'[c].action = completions[c].action
  PROVE  (Picks(c, b)' => Picks(c, b)) /\ (Offers(c, b)' => Offers(c, b))
BY DEF Picks, Offers, CqesOf

\* An index that is vacant stands for nothing.
LEMMA VacantClaims ==
  ASSUME TypeInv, CarriedInv, NEW c \in Cqids, completions[c] = None, NEW b
  PROVE  ~Claims(c, b)
<1>1. c \notin Awaiting
  BY DEF Awaiting
<1>2. CqesOf(c) = {}
  BY <1>1 DEF CarriedInv, Live, Uds, CqesOf
<1>3. \A r \in Asked : r.ud # c
  BY AskedIsAwaited
<1> QED BY <1>2, <1>3 DEF Claims, Picks, Offers

\* What process_cqes does to the claims.
LEMMA ProcessedClaims ==
  ASSUME AvoidFull, TypeInv, CarriedInv, TurnProcess \/ EnterTransient, NEW c \in Cqids, NEW b
  PROVE  /\ (Picks(c, b)' => Picks(c, b)) /\ (Offers(c, b)' => Offers(c, b))
         /\ Claims(c, b)' => ~(c \in Reached /\ completions[c].task = Dead)
<1>1. completions' = [d \in Cqids |-> Delivered(d)] /\ cq' = <<>> /\ UNCHANGED <<sq, link, inflight>>
  BY DEF TurnProcess, EnterTransient, ProcessCqes, ringVars
<1>2. SeqType /\ MapType
  BY DEF TypeInv
<1>3. Asked' = Asked /\ CqesOf(c)' = {} /\ completions'[c] = Delivered(c)
  BY <1>1 DEF Asked, CqesOf
<1>4. Picks(c, b)' => Delivered(c) # None /\ Delivered(c).cqe # None /\ Delivered(c).cqe.buf = b
  BY <1>3 DEF Picks
<1>5. Offers(c, b)' => \/ \E r \in Asked : r.ud = c /\ r.buf = b
                       \/ Delivered(c) # None /\ Delivered(c).cqe # None /\ ~Delivered(c).cqe.ok /\ Delivered(c).action = b
  BY <1>3 DEF Offers
<1>6. CASE c \notin Reached
  <2>1. Delivered(c) = completions[c]
    BY <1>2, <1>6, DeliveredType
  <2> QED BY <1>4, <1>5, <1>6, <2>1 DEF Picks, Offers
<1>7. CASE c \in Reached
  <2>1. \A r \in Asked : r.ud # c
    BY <1>7, AskedIsAwaited DEF Reached
  <2>2. CASE completions[c].task = Dead
    <3>1. Delivered(c) = None
      BY <1>2, <1>7, <2>2, DeliveredType
    <3> QED BY <1>4, <1>5, <2>1, <3>1 DEF Claims
  <2>3. CASE completions[c].task # Dead
    <3>1. PICK i \in CqesOf(c) : Delivered(c).cqe = cq[i]
      BY <1>2, <1>7, <2>3, DeliveredType
    <3>2. Delivered(c).action = completions[c].action
      BY <1>2, <1>7, <2>3, DeliveredType
    <3> QED BY <1>4, <1>5, <2>1, <2>3, <3>1, <3>2 DEF Picks, Offers
  <2> QED BY <2>2, <2>3
<1> QED BY <1>6, <1>7

\* A CQE for one running request: the index now stands for what the CQE names.
LEMMA CompletedClaims ==
  ASSUME AvoidFull, TypeInv, CarriedInv, RequestInv, NEW i \in DOMAIN inflight, NEW b0 \in Bufs \cup {None},
         Complete(i, b0), NEW c \in Cqids, NEW b
  PROVE  /\ c # inflight[i].ud => (Picks(c, b)' => Picks(c, b)) /\ (Offers(c, b)' => Offers(c, b))
         /\ c = inflight[i].ud => (Picks(c, b)' <=> b = b0) /\ ~Offers(c, b)' /\ ~Picks(c, b)
<1> DEFINE e == Cqe(inflight[i], TRUE, b0)
           u == inflight[i].ud
           n == Len(cq)
<1>0. SeqType /\ inflight \in Seq(Sqe) /\ cq \in Seq(CqeRecord) /\ n \in Nat /\ Kernel
  BY DEF TypeInv, SeqType, Kernel
<1>1. cq' = Append(cq, e) /\ UNCHANGED <<sq, link, completions>> /\ inflight' = Without(inflight, i, i)
  BY DEF Complete, ringVars, ctxVars
<1>2. e \in CqeRecord /\ e.ud = u /\ e.buf = b0 /\ e.ok
  <2>1. inflight[i] \in Sqe
    BY <1>0
  <2>2. e \in CqeRecord /\ e.ud = u /\ e.buf = b0
    BY <2>1 DEF Cqe, CqeRecord, Sqe
  <2>3. e.ok
    BY DEF Cqe
  <2> QED BY <2>2, <2>3
<1> HIDE DEF e
<1>3. /\ DOMAIN cq = 1 .. n /\ DOMAIN cq' = 1 .. n + 1 /\ cq'[n + 1] = e
      /\ \A k \in 1 .. n : cq'[k] = cq[k]
  BY <1>0, <1>1, <1>2, AppendProperties
<1>4. \A k \in 1 .. n + 1 : k \in 1 .. n \/ k = n + 1
  BY <1>0
<1>5. \A k \in CqesOf(c)' : (k \in CqesOf(c) /\ cq'[k] = cq[k]) \/ (cq'[k] = e /\ c = u)
  BY <1>2, <1>3, <1>4 DEF CqesOf
<1>6. Requests(inflight') \subseteq Requests(inflight) /\ u \notin Uds(inflight')
  <2>1. i \in 1 .. Len(inflight) /\ i \in i .. Len(inflight) /\ i \in i .. i
    BY <1>0
  <2>2. /\ Uds(inflight') = Uds(inflight) \ {inflight[k].ud : k \in i .. i}
        /\ Requests(inflight') \subseteq Requests(inflight)
    BY <1>0, <1>1, <2>1, CarryWithout DEF CarriedInv
  <2> QED BY <2>1, <2>2
<1>7. Asked' \subseteq Asked
  BY <1>1, <1>6 DEF Asked
<1>8. Request(inflight[i]) \in Asked /\ Request(inflight[i]).ud = u
  BY DEF Asked, Requests, Request
<1>9. CqesOf(u) = {} /\ completions[u].cqe = None /\ u \in Uds(inflight)
  BY <1>8, AskedIsAwaited DEF Uds
<1>10. \A r \in Asked' : r.ud # u
  <2>1. \A r \in Asked' : r.ud \in Uds(sq) \cup Uds(link) \cup Uds(inflight')
    BY <1>1 DEF Asked, Requests, Request, Uds
  <2> QED BY <1>6, <1>9, <2>1 DEF CarriedInv
<1>11. ASSUME c # u PROVE (Picks(c, b)' => Picks(c, b)) /\ (Offers(c, b)' => Offers(c, b))
  BY <1>1, <1>5, <1>7, <1>11 DEF Picks, Offers
<1>12. ASSUME c = u PROVE (Picks(c, b)' <=> b = b0) /\ ~Offers(c, b)' /\ ~Picks(c, b)
  <2>1. n + 1 \in CqesOf(c)'
    BY <1>0, <1>2, <1>3, <1>12 DEF CqesOf
  <2>2. \A k \in CqesOf(c)' : cq'[k] = e
    BY <1>5, <1>9, <1>12
  <2> QED BY <1>1, <1>2, <1>9, <1>10, <1>12, <2>1, <2>2 DEF Picks, Offers
<1> QED BY <1>11, <1>12

\* The CQEs of a failed chain: every index stands for no more than before.
LEMMA FailedClaims ==
  ASSUME AvoidFull, TypeInv, CarriedInv, RequestInv, NEW i \in DOMAIN inflight, NEW j \in i .. Len(inflight),
         Fail(i, j), NEW c \in Cqids, NEW b \in Bufs
  PROVE  (Picks(c, b)' => Picks(c, b)) /\ (Offers(c, b)' => Offers(c, b))
<1> DEFINE F == Failures(i, j)
           n == Len(cq)
           m == j - i + 1
<1>0. /\ SeqType /\ inflight \in Seq(Sqe) /\ cq \in Seq(CqeRecord) /\ n \in Nat /\ Kernel
      /\ i \in 1 .. Len(inflight) /\ m \in Nat /\ Len(inflight) \in Nat
  BY DEF TypeInv, SeqType, Kernel
<1>1. cq' = cq \o F /\ UNCHANGED <<sq, link, completions>>
  BY DEF Fail, Failures, ringVars, ctxVars
<1>2. /\ F \in Seq(CqeRecord) /\ Len(F) = m
      /\ \A k \in 1 .. m : F[k] = Cqe(inflight[i + k - 1], FALSE, None)
  BY <1>0, FailuresType
<1> HIDE DEF F
<1>3. \A k \in 1 .. m : i + k - 1 \in DOMAIN inflight
  BY <1>0
<1> HIDE DEF m, n
<1>4. cq' \in Seq(CqeRecord) /\ Len(cq') = n + m /\ \A k \in 1 .. n + m : cq'[k] = IF k <= n THEN cq[k] ELSE F[k - n]
  BY <1>0, <1>1, <1>2, ConcatProperties DEF n
<1>5. DOMAIN cq = 1 .. n /\ DOMAIN cq' = 1 .. n + m
  BY <1>0, <1>4 DEF n
<1>6. ASSUME NEW k \in CqesOf(c)'
      PROVE  \/ k \in CqesOf(c) /\ cq'[k] = cq[k]
             \/ \E l \in DOMAIN inflight : cq'[k] = Cqe(inflight[l], FALSE, None) /\ inflight[l].ud = c
  <2>0. k \in 1 .. n + m /\ cq'[k].ud = c
    BY <1>5 DEF CqesOf
  <2>1. CASE k <= n
    <3>1. k \in 1 .. n /\ cq'[k] = cq[k]
      BY <1>0, <1>4, <2>0, <2>1
    <3> QED BY <1>5, <2>0, <3>1 DEF CqesOf
  <2>2. CASE ~(k <= n)
    <3>1. cq'[k] = F[k - n] /\ k - n \in 1 .. m
      BY <1>0, <1>4, <2>0, <2>2
    <3>2. cq'[k] = Cqe(inflight[i + (k - n) - 1], FALSE, None) /\ i + (k - n) - 1 \in DOMAIN inflight
      BY <1>2, <1>3, <3>1
    <3>3. inflight[i + (k - n) - 1].ud = c
      BY <2>0, <3>2 DEF Cqe
    <3> QED BY <3>2, <3>3
  <2> QED BY <2>1, <2>2
<1>7. Asked' \subseteq Asked
  <2>1. Requests(inflight') \subseteq Requests(inflight)
    BY <1>0, KernelPosts
  <2> QED BY <1>1, <2>1 DEF Asked
<1>8. ASSUME Picks(c, b)' PROVE Picks(c, b)
  <2>1. CASE \E k \in CqesOf(c)' : cq'[k].buf = b
    <3>1. PICK k \in CqesOf(c)' : cq'[k].buf = b
      BY <2>1
    <3>2. b # None
      BY Constants
    <3>3. ASSUME NEW l \in DOMAIN inflight, cq'[k] = Cqe(inflight[l], FALSE, None) PROVE FALSE
      <4>1. Cqe(inflight[l], FALSE, None).buf = None
        BY DEF Cqe
      <4> QED BY <3>1, <3>2, <3>3, <4>1
    <3>4. k \in CqesOf(c) /\ cq'[k] = cq[k]
      BY <1>6, <3>3
    <3> QED BY <3>1, <3>4 DEF Picks
  <2>2. CASE ~\E k \in CqesOf(c)' : cq'[k].buf = b
    BY <1>1, <1>8, <2>2 DEF Picks
  <2> QED BY <2>1, <2>2
<1>9. ASSUME Offers(c, b)' PROVE Offers(c, b)
  <2>1. CASE \E k \in CqesOf(c)' : ~cq'[k].ok /\ completions[c].action = b
    <3>1. PICK k \in CqesOf(c)' : ~cq'[k].ok /\ completions[c].action = b
      BY <2>1
    <3>2. CASE k \in CqesOf(c) /\ cq'[k] = cq[k]
      BY <3>1, <3>2 DEF Offers
    <3>3. CASE \E l \in DOMAIN inflight : inflight[l].ud = c
      <4>1. PICK l \in DOMAIN inflight : inflight[l].ud = c
        BY <3>3
      <4>2. Request(inflight[l]) \in Asked /\ Request(inflight[l]).ud = c
        BY <4>1 DEF Asked, Requests, Request
      <4>3. Request(inflight[l]).buf = b
        BY <3>1, <4>2 DEF RequestInv
      <4> QED BY <4>2, <4>3 DEF Offers
    <3> QED BY <1>6, <3>2, <3>3
  <2>2. CASE ~\E k \in CqesOf(c)' : ~cq'[k].ok /\ completions[c].action = b
    BY <1>1, <1>7, <1>9, <2>2 DEF Offers
  <2> QED BY <2>1, <2>2
<1> QED BY <1>8, <1>9


\* What a step leaves of the event at index c, if it makes no request at c.
Kept(c) ==
  \/ completions'[c] = None
  \/ completions[c] = None /\ completions'[c].cqe = None
  \/ /\ completions[c] # None /\ completions'[c].action = completions[c].action
     /\ completions'[c].cqe = completions[c].cqe \/ completions'[c].cqe.ud = c

\* A step that neither makes nor completes a request: no index stands for more
\* than before, and a buffer leaves the pool with the index that stood for it.
Handled ==
  /\ group' = group /\ (buffers' \subseteq buffers \/ HardErrors)
  /\ \A c \in Cqids : Kept(c)
  /\ \A c \in Cqids, b \in Bufs : (Picks(c, b)' => Picks(c, b)) /\ (Offers(c, b)' => Offers(c, b))
  /\ \A b \in Bufs : b \in buffers /\ b \notin buffers' => \E c \in Cqids : Claims(c, b) /\ ~Claims(c, b)'

\* A step that leaves the CQEs, the events and the pool alone.
LEMMA HandledQuietly ==
  ASSUME Asked' \subseteq Asked, UNCHANGED <<cq, completions, buffers, group>>
  PROVE  Handled
<1>1. \A c \in Cqids, b \in Bufs : (Picks(c, b)' => Picks(c, b)) /\ (Offers(c, b)' => Offers(c, b))
  BY ClaimsStay
<1>2. \A c \in Cqids : Kept(c)
  BY DEF Kept
<1> QED BY <1>1, <1>2 DEF Handled

\* Polling or dropping a completed future takes at most the buffer its CQE
\* names, or the one its failed request offered.
LEMMA HandledReady ==
  ASSUME TypeInv, CarriedInv, RequestInv, NEW c \in Cqids, PollReady(c) \/ DropReady(c)
  PROVE  Handled
<1>0. MapType
  BY DEF TypeInv
<1>1. /\ UNCHANGED <<sq, link, inflight, cq, group>> /\ completions' = [completions EXCEPT ![c] = None]
      /\ completions[c].cqe # None
  BY DEF PollReady, DropReady, ringVars, kernVars
<1>2. completions[c] # None /\ fut[c] # None /\ completions'[c] = None
      /\ \A d \in Cqids \ {c} : completions'[d] = completions[d]
  <2>1. fut[c] # None
    BY StepTouches DEF Held
  <2> QED BY <1>0, <1>1, <2>1 DEF MapType
<1>3. Asked' = Asked
  BY <1>1 DEF Asked
<1>4. \A b \in Bufs : ~Claims(c, b)'
  <2>1. c \notin Awaiting
    BY <1>1 DEF Awaiting
  <2>2. CqesOf(c)' = {}
    BY <1>1, <2>1 DEF CarriedInv, Live, Uds, CqesOf
  <2>3. \A r \in Asked : r.ud # c
    BY <2>1, AskedIsAwaited
  <2> QED BY <1>2, <1>3, <2>2, <2>3 DEF Claims, Picks, Offers
<1>5. ASSUME NEW d \in Cqids, NEW b \in Bufs
      PROVE  (Picks(d, b)' => Picks(d, b)) /\ (Offers(d, b)' => Offers(d, b))
  <2>1. CASE d = c
    BY <1>4, <2>1 DEF Claims
  <2>2. CASE d # c
    BY <1>1, <1>2, <1>3, <2>2, ClaimsStay
  <2> QED BY <2>1, <2>2
<1>6. buffers' \subseteq buffers /\ \A b \in Bufs : b \in buffers /\ b \notin buffers' => Claims(c, b)
  <2>1. CASE DropReady(c)
    BY <2>1 DEF DropReady
  <2>2. CASE PollReady(c)
    <3>1. CASE fut[c].kind = "read" /\ completions[c].cqe.ok
      <4>1. buffers' = buffers \ {completions[c].cqe.buf}
        BY <2>2, <3>1 DEF PollReady
      <4> QED BY <1>1, <1>2, <4>1 DEF Claims, Picks
    <3>2. CASE fut[c].kind = "provide" /\ ~completions[c].cqe.ok
      <4>1. buffers' = buffers \ {fut[c].buf}
        BY <2>2, <3>2 DEF PollReady
      <4>2. fut[c].buf = completions[c].action
        BY <1>2 DEF RequestInv
      <4> QED BY <1>1, <1>2, <3>2, <4>1, <4>2 DEF Claims, Offers
    <3>3. CASE ~(fut[c].kind = "read" /\ completions[c].cqe.ok) /\ ~(fut[c].kind = "provide" /\ ~completions[c].cqe.ok)
      <4>1. buffers' = buffers \ {}
        BY <2>2, <3>3 DEF PollReady
      <4> QED BY <4>1
    <3> QED BY <3>1, <3>2, <3>3
  <2> QED BY <2>1, <2>2
<1>7. \A d \in Cqids : Kept(d)
  BY <1>2 DEF Kept
<1> QED BY <1>1, <1>4, <1>5, <1>6, <1>7 DEF Handled

\* process_cqes deletes the buffer of a detached request that failed, with its
\* event; the others keep their action.
LEMMA HandledCqes ==
  ASSUME AvoidFull, TypeInv, CarriedInv, TurnProcess \/ EnterTransient
  PROVE  Handled
<1>0. MapType /\ SeqType
  BY DEF TypeInv
<1>1. /\ buffers' = buffers \ Discarded /\ group' = group
      /\ completions' = [d \in Cqids |-> Delivered(d)]
  BY DEF TurnProcess, EnterTransient, ProcessCqes
<1>2. \A c \in Cqids, b \in Bufs :
        /\ (Picks(c, b)' => Picks(c, b)) /\ (Offers(c, b)' => Offers(c, b))
        /\ Claims(c, b)' => ~(c \in Reached /\ completions[c].task = Dead)
  BY ProcessedClaims
<1>3. ASSUME NEW b \in Bufs, b \in Discarded
      PROVE  \E d \in Cqids : Claims(d, b) /\ d \in Reached /\ completions[d].task = Dead
  <2>1. PICK d \in Reached : b = completions[d].action /\ completions[d].task = Dead /\ ~FirstCqe(d).ok
    BY <1>3 DEF Discarded
  <2>2. PICK i \in CqesOf(d) : FirstCqe(d) = cq[i]
    BY <1>0, <2>1, CqesInRing DEF Reached
  <2> QED BY <2>1, <2>2 DEF Claims, Offers, Reached
<1>4. ASSUME NEW c \in Cqids PROVE Kept(c)
  <2>0. completions'[c] = Delivered(c)
    BY <1>1
  <2>1. CASE c \notin Reached \/ completions[c].task = Dead
    BY <1>0, <2>0, <2>1, DeliveredType DEF Kept
  <2>2. CASE c \in Reached /\ completions[c].task # Dead
    <3>1. completions[c] # None
      BY <2>2 DEF Reached
    <3>2. Delivered(c).action = completions[c].action
      BY <1>0, <2>2, DeliveredType
    <3>3. PICK i \in CqesOf(c) : Delivered(c).cqe = cq[i]
      BY <1>0, <2>2, DeliveredType
    <3>4. Delivered(c).cqe.ud = c
      BY <3>3 DEF CqesOf
    <3> QED BY <2>0, <3>1, <3>2, <3>4 DEF Kept
  <2> QED BY <2>1, <2>2
<1>5. \A b \in Bufs : b \in buffers /\ b \notin buffers' => \E c \in Cqids : Claims(c, b) /\ ~Claims(c, b)'
  BY <1>1, <1>2, <1>3
<1>6. buffers' \subseteq buffers /\ group' = group
  BY <1>1
<1> QED BY <1>2, <1>4, <1>5, <1>6 DEF Handled

\* An error of io_uring_enter drops a chain, and leaves an event and perhaps a
\* buffer that stand for nothing.
LEMMA HandledHard ==
  ASSUME TypeInv, CarriedInv, EnterHard
  PROVE  Handled
<1>0. MapType /\ ThreadType
  BY DEF TypeInv
<1>1. UNCHANGED <<sq, inflight, cq, group>> /\ HardErrors
  BY DEF EnterHard, kernVars
<1>2. link' = link \/ link' = <<>>
  BY <1>0, HardCases
<1>3. Asked' \subseteq Asked
  BY <1>1, <1>2, CarryEmpty DEF Asked
<1>4. buffers \subseteq buffers'
  BY <1>0, HardCases
<1>5. ASSUME NEW c \in Cqids
      PROVE  \/ completions'[c] = completions[c]
             \/ completions[c] = None /\ completions'[c].cqe = None
  <2>1. CASE completions'[c] # completions[c]
    <3>1. completions[c] = None /\ completions'[c] = [cqe |-> None, task |-> NoTask, action |-> None]
      BY <1>0, <2>1, HardCases DEF Vacant, MapType
    <3> QED BY <3>1
  <2> QED BY <2>1
<1>6. ASSUME NEW c \in Cqids, NEW b \in Bufs
      PROVE  (Picks(c, b)' => Picks(c, b)) /\ (Offers(c, b)' => Offers(c, b))
  <2>1. CASE completions'[c] = completions[c]
    BY <1>1, <1>3, <2>1, ClaimsStay
  <2>2. CASE completions[c] = None /\ completions'[c].cqe = None
    <3>1. CqesOf(c)' = {}
      <4>1. c \notin Awaiting
        BY <2>2 DEF Awaiting
      <4>2. c \notin Uds(cq)
        BY <4>1 DEF CarriedInv, Live
      <4> QED BY <1>1, <4>2 DEF Uds, CqesOf
    <3> QED BY <1>3, <2>2, <3>1 DEF Picks, Offers
  <2> QED BY <1>5, <2>1, <2>2
<1>7. \A c \in Cqids : Kept(c)
  BY <1>5 DEF Kept
<1> QED BY <1>1, <1>4, <1>6, <1>7 DEF Handled

\* Every step but a new request and a successful completion is of this kind.
LEMMA HandledStep ==
  ASSUME AvoidFull, TypeInv, CarriedInv, RequestInv, [Next]_vars,
         ~\E k \in Kinds, c \in Cqids, b \in Bufs \cup {None} : StartOp(k, c, b),
         ~\E i \in DOMAIN inflight, b \in Bufs \cup {None} : Complete(i, b)
  PROVE  Handled
<1>0. /\ MapType /\ SeqType /\ ThreadType
  BY DEF TypeInv
<1>2. CASE \/ (\E t \in Tasks : RuntimeSpawn(t) \/ CallBlockOn(t) \/ PollNext(t))
           \/ (\E new \in SUBSET (Tasks \ futures), hasNext \in BOOLEAN : TurnBegin(new, hasNext))
  <2>1. UNCHANGED <<sq, link, inflight, cq, completions, buffers, group>>
    BY <1>2 DEF RuntimeSpawn, CallBlockOn, PollNext, TurnBegin, ctxVars, ringVars, kernVars
  <2>2. Asked' = Asked
    BY <2>1 DEF Asked
  <2> QED BY <2>1, <2>2, HandledQuietly
<1>3. CASE \/ CallRun \/ Return \/ TurnEnd \/ WaitDone \/ MakeRoom \/ Spawn \/ Suspend \/ Finish
           \/ SpinTest \/ UnwindDone \/ UNCHANGED vars \/ (\E c \in Cqids, t \in Tasks : Give(c, t))
  <2>1. UNCHANGED <<sq, link, inflight, cq, completions, buffers, group>>
    BY <1>3 DEF CallRun, Return, TurnEnd, WaitDone, MakeRoom, Spawn, Suspend, Finish, SpinTest,
           UnwindDone, vars, Give, ringVars, kernVars, ctxVars
  <2>2. Asked' = Asked
    BY <2>1 DEF Asked
  <2> QED BY <2>1, <2>2, HandledQuietly
<1>4. CASE SubmitLink \/ AbandonLink \/ EnterOk \/ Panic \/ \E c \in Cqids : DropBorrowed(c)
  <2>1. UNCHANGED <<cq, completions, buffers, group>>
    BY <1>4 DEF SubmitLink, AbandonLink, EnterOk, Panic, DropBorrowed, ctxVars, kernVars
  <2>2. ~\E k \in Kinds, c \in Cqids, b \in Bufs \cup {None} : StartOp(k, c, b)
    OBVIOUS
  <2>3. Asked' \subseteq Asked
    BY <2>2, AskedStays
  <2> QED BY <2>1, <2>3, HandledQuietly
<1>5. CASE \E c \in Cqids : PollPending(c) \/ DropDetach(c) \/ DropSpin(c)
  <2>1. PICK c \in Cqids : PollPending(c) \/ DropDetach(c) \/ DropSpin(c)
    BY <1>5
  <2>2. UNCHANGED <<link, inflight, cq, buffers, group>>
    BY <2>1 DEF PollPending, DropDetach, DropSpin, ringVars, kernVars
  <2>3. sq' = sq
    BY <2>1, CancelWrites DEF PollPending, DropDetach, ringVars
  <2>4. Asked' = Asked
    BY <2>2, <2>3 DEF Asked
  <2>5. PICK t : completions' = [completions EXCEPT ![c] = [completions[c] EXCEPT !.task = t]]
    BY <2>1 DEF PollPending, DropDetach, DropSpin, Register, Detach
  <2>6. completions[c] \in Event /\ completions[c] # None
    BY <1>0, <2>1, StepTouches DEF MapType, Held
  <2>7. /\ completions'[c].action = completions[c].action /\ completions'[c].cqe = completions[c].cqe
        /\ \A d \in Cqids \ {c} : completions'[d] = completions[d]
    BY <1>0, <2>5, <2>6 DEF MapType, Event
  <2>8. ASSUME NEW d \in Cqids, NEW b \in Bufs
        PROVE  (Picks(d, b)' => Picks(d, b)) /\ (Offers(d, b)' => Offers(d, b))
    BY <2>2, <2>4, <2>6, <2>7, ClaimsStay
  <2>9. \A d \in Cqids : Kept(d)
    BY <2>6, <2>7 DEF Kept
  <2> QED BY <2>2, <2>8, <2>9 DEF Handled
<1>6. CASE EnterHard
  BY <1>6, HandledHard
<1>7. CASE \E c \in Cqids : PollReady(c) \/ DropReady(c)
  BY <1>7, HandledReady
<1>8. CASE TurnProcess \/ EnterTransient
  BY <1>8, HandledCqes
<1>9. CASE \E i \in DOMAIN inflight : \E j \in i .. Len(inflight) : Fail(i, j)
  <2>1. PICK i \in DOMAIN inflight : \E j \in i .. Len(inflight) : Fail(i, j)
    BY <1>9
  <2>2. PICK j \in i .. Len(inflight) : Fail(i, j)
    BY <2>1
  <2>3. group' = group /\ buffers' = buffers /\ completions' = completions
    BY <2>2 DEF Fail, ctxVars
  <2>4. \A c \in Cqids, b \in Bufs : (Picks(c, b)' => Picks(c, b)) /\ (Offers(c, b)' => Offers(c, b))
    BY <2>2, FailedClaims
  <2>5. \A c \in Cqids : Kept(c)
    BY <2>3 DEF Kept
  <2> QED BY <2>3, <2>4, <2>5 DEF Handled
<1>10. Kernel => \/ \E i \in DOMAIN inflight : \E j \in i .. Len(inflight) : Fail(i, j)
                 \/ \E i \in DOMAIN inflight, b \in Bufs \cup {None} : Complete(i, b)
  BY DEF Kernel
<1> QED
  BY <1>2, <1>3, <1>4, <1>5, <1>6, <1>7, <1>8, <1>9, <1>10 DEF Next, Thread, Program, Loop, Client

\* Such a step keeps the claims in order.
LEMMA HandledBuffers ==
  ASSUME BufferInv, Handled, group \subseteq Bufs
  PROVE  BufferInv'
<1>1. \A c \in Cqids, b \in Bufs : Claims(c, b)' => Claims(c, b)
  BY DEF Handled, Claims
<1>2. \A c \in Cqids, b \in Bufs : Claims(c, b)' => b \in buffers' /\ b \notin group'
  BY <1>1 DEF BufferInv, Handled
<1>3. group' \subseteq buffers'
  BY DEF BufferInv, Handled
<1> QED BY <1>1, <1>2, <1>3 DEF BufferInv

\* A new request: its index stands for the buffer it provides and nothing else.
LEMMA StartClaims ==
  ASSUME AvoidFull, TypeInv, CarriedInv,
         NEW k \in Kinds, NEW c \in Cqids, NEW b \in Bufs \cup {None}, StartOp(k, c, b),
         NEW d \in Cqids, NEW x
  PROVE  /\ ~Claims(c, x) /\ completions[c] = None /\ completions'[c].cqe = None
         /\ d # c => /\ completions'[d] = completions[d]
                     /\ (Picks(d, x)' => Picks(d, x)) /\ (Offers(d, x)' => Offers(d, x))
         /\ d = c => ~Picks(d, x)' /\ (Offers(d, x)' <=> x = b)
<1>0. MapType /\ SeqType
  BY DEF TypeInv
<1> DEFINE e == [ud |-> c, kind |-> k, buf |-> b, link |-> TRUE]
<1>1. e \in Sqe /\ link' = Append(link, e) /\ UNCHANGED <<sq, inflight, cq>>
  BY StartWrites
<1>2. /\ completions' = [completions EXCEPT ![c] = [cqe |-> None, task |-> NoTask, action |-> b]]
      /\ completions[c] = None
  BY DEF StartOp, Vacant
<1>3. Request(e) = [ud |-> c, kind |-> k, buf |-> b]
  BY DEF Request
<1> HIDE DEF e
<1>4. Requests(link') = Requests(link) \cup {Request(e)}
  BY <1>0, <1>1, CarryAppend DEF SeqType
<1>5. Asked' = Asked \cup {[ud |-> c, kind |-> k, buf |-> b]}
  BY <1>1, <1>3, <1>4 DEF Asked
<1>6. completions'[c].cqe = None /\ \A y \in Cqids \ {c} : completions'[y] = completions[y]
  BY <1>0, <1>2 DEF MapType
<1>7. ~Claims(c, x)
  BY <1>2, VacantClaims
<1>8. CqesOf(d)' = CqesOf(d)
  BY <1>1 DEF CqesOf
<1>9. ASSUME d # c PROVE (Picks(d, x)' => Picks(d, x)) /\ (Offers(d, x)' => Offers(d, x))
  BY <1>1, <1>5, <1>6, <1>8, <1>9 DEF Picks, Offers
<1>10. ASSUME d = c PROVE ~Picks(d, x)' /\ (Offers(d, x)' <=> x = b)
  <2>1. CqesOf(c) = {} /\ \A r \in Asked : r.ud # c
    BY <1>2, AskedIsAwaited DEF CarriedInv, Live, Awaiting, Uds, CqesOf
  <2> DEFINE r0 == [ud |-> c, kind |-> k, buf |-> b]
  <2>2. r0.ud = c /\ r0.buf = b
    OBVIOUS
  <2>3. Asked' = Asked \cup {r0}
    BY <1>5
  <2> HIDE DEF r0
  <2>4. ~Picks(d, x)'
    BY <1>6, <1>8, <1>10, <2>1 DEF Picks
  <2>5. Offers(d, x)' <=> \E r \in Asked' : r.ud = c /\ r.buf = x
    BY <1>6, <1>8, <1>10, <2>1 DEF Offers
  <2>6. (\E r \in Asked' : r.ud = c /\ r.buf = x) <=> x = b
    BY <2>1, <2>2, <2>3
  <2> QED BY <2>4, <2>5, <2>6
<1> QED BY <1>2, <1>6, <1>7, <1>9, <1>10

\* What a completion does to the group.
LEMMA CompletedGroup ==
  ASSUME TypeInv, CarriedInv, RequestInv, NEW i \in DOMAIN inflight, NEW b0 \in Bufs \cup {None}, Complete(i, b0)
  PROVE  /\ inflight[i].ud \in Cqids /\ buffers' = buffers /\ completions' = completions
         /\ \/ /\ inflight[i].buf \in Bufs /\ Offers(inflight[i].ud, inflight[i].buf)
               /\ b0 = None /\ group' = group \cup {inflight[i].buf}
            \/ b0 = None /\ group' = group
            \/ /\ b0 \in group /\ group' = group \ {b0}
               /\ completions[inflight[i].ud].action = None
<1> DEFINE op == inflight[i]
<1>0. SeqType /\ group \subseteq Bufs
  BY DEF TypeInv, SetType
<1>1. op \in Sqe /\ Request(op) \in Asked /\ Request(op).ud = op.ud /\ Request(op).buf = op.buf
      /\ Request(op).kind = op.kind
  BY <1>0 DEF SeqType, Asked, Requests, Request
<1>2. op.ud \in Cqids
  BY <1>1, AskedIsAwaited
<1>3. /\ buffers' = buffers /\ completions' = completions
      /\ group' = IF op.kind = "provide" THEN group \cup {op.buf} ELSE group \ {b0}
      /\ (op.kind # "read" => b0 = None) /\ (op.kind = "read" => b0 \in group)
  BY DEF Complete, ctxVars
<1>4. CASE op.kind = "provide"
  <2>1. op.buf \in Bufs /\ Offers(op.ud, op.buf)
    BY <1>1, <1>4 DEF Sqe, Offers
  <2> QED BY <1>2, <1>3, <1>4, <2>1
<1>5. CASE op.kind = "read"
  <2>1. completions[op.ud].action = None
    BY <1>1, <1>5 DEF RequestInv
  <2> QED BY <1>2, <1>3, <1>5, <2>1
<1>6. CASE op.kind # "provide" /\ op.kind # "read"
  <2>1. b0 = None /\ None \notin group
    BY <1>0, <1>3, <1>6, Constants
  <2>2. group' = group
    BY <1>3, <1>6, <2>1
  <2> QED BY <1>2, <1>3, <2>1, <2>2
<1> QED BY <1>4, <1>5, <1>6

\* Every step keeps the buffers with their owners.
LEMMA BufferStep ==
  ASSUME AvoidFull, TypeInv, CarriedInv, RequestInv, BufferInv, [Next]_vars
  PROVE  BufferInv'
<1>0. buffers \subseteq Bufs /\ group \subseteq Bufs /\ None \notin Bufs
  BY Constants DEF TypeInv, SetType
<1>1. CASE \E k \in Kinds, c \in Cqids, b \in Bufs \cup {None} : StartOp(k, c, b)
  <2>1. PICK k \in Kinds, c \in Cqids, b \in Bufs \cup {None} : StartOp(k, c, b)
    BY <1>1
  <2>2. /\ b \notin buffers /\ group' = group
        /\ buffers' = IF b = None THEN buffers ELSE buffers \cup {b}
    BY <1>0, <2>1 DEF StartOp, kernVars
  <2>3. ASSUME NEW d \in Cqids, NEW x \in Bufs, Claims(d, x)'
        PROVE  (d # c /\ Claims(d, x)) \/ (d = c /\ x = b)
    BY <2>1, <2>3, StartClaims DEF Claims
  <2> QED BY <1>0, <2>2, <2>3 DEF BufferInv
<1>2. CASE \E i \in DOMAIN inflight, b \in Bufs \cup {None} : Complete(i, b)
  <2>1. PICK i \in DOMAIN inflight, b0 \in Bufs \cup {None} : Complete(i, b0)
    BY <1>2
  <2> DEFINE u == inflight[i].ud
             p == inflight[i].buf
  <2>2. /\ u \in Cqids /\ buffers' = buffers
        /\ \/ p \in Bufs /\ Claims(u, p) /\ b0 = None /\ group' = group \cup {p}
           \/ b0 = None /\ group' = group
           \/ b0 \in group /\ group' = group \ {b0}
    BY <2>1, CompletedGroup DEF Claims
  <2>3. ASSUME NEW c \in Cqids, NEW b \in Bufs, Claims(c, b)'
        PROVE  (c # u /\ Claims(c, b)) \/ (c = u /\ b = b0)
    BY <2>1, <2>3, CompletedClaims DEF Claims
  <2> HIDE DEF u, p
  <2>4. \A c \in Cqids, b \in Bufs : Claims(c, b)' => b \in buffers' /\ b \notin group'
    BY <1>0, <2>2, <2>3 DEF BufferInv
  <2>5. \A c, d \in Cqids, b \in Bufs : Claims(c, b)' /\ Claims(d, b)' => c = d
    BY <1>0, <2>2, <2>3 DEF BufferInv
  <2>6. group' \subseteq buffers'
    BY <1>0, <2>2 DEF BufferInv
  <2> QED BY <2>4, <2>5, <2>6 DEF BufferInv
<1>3. CASE /\ ~\E k \in Kinds, c \in Cqids, b \in Bufs \cup {None} : StartOp(k, c, b)
           /\ ~\E i \in DOMAIN inflight, b \in Bufs \cup {None} : Complete(i, b)
  BY <1>0, <1>3, HandledStep, HandledBuffers
<1> QED BY <1>1, <1>2, <1>3

\* Every buffer has at most one owner, and the pool has those it needs.
THEOREM BufferInvariance ==
  AvoidFull => (Spec => [](TypeInv /\ CarriedInv /\ RequestInv /\ BufferInv))
<1> SUFFICES ASSUME AvoidFull PROVE Spec => [](TypeInv /\ CarriedInv /\ RequestInv /\ BufferInv)
  OBVIOUS
<1>1. Init => BufferInv
  <2> SUFFICES ASSUME Init PROVE BufferInv
    OBVIOUS
  <2>1. Asked = {} /\ group = {} /\ \A c \in Cqids : CqesOf(c) = {} /\ completions[c] = None
    BY CarryEmpty DEF Init, Asked, CqesOf
  <2>2. \A c \in Cqids, b \in Bufs : ~Claims(c, b)
    BY <2>1 DEF Claims, Picks, Offers
  <2> QED BY <2>1, <2>2 DEF BufferInv
<1>2. TypeInv /\ CarriedInv /\ RequestInv /\ BufferInv /\ [Next]_vars => BufferInv'
  BY BufferStep
<1>3. Spec => [](TypeInv /\ CarriedInv /\ RequestInv)
  BY RequestInvariance
<1> QED BY <1>1, <1>2, <1>3, PTL DEF Spec

\* The pool owns every buffer the kernel may write to or a completion names, in
\* whatever order requests are detached, fail and complete: neither a lookup of a
\* missing buffer nor a write to freed memory is possible.
THEOREM PoolOwnsKernelBuffers == AvoidFull => (Spec => []KernelBuffersLive)
<1> SUFFICES ASSUME AvoidFull PROVE Spec => []KernelBuffersLive
  OBVIOUS
<1>1. TypeInv /\ CarriedInv /\ BufferInv => KernelBuffersLive
  <2> SUFFICES ASSUME TypeInv, CarriedInv, BufferInv, NEW b \in Referenced, b # None PROVE b \in buffers
    BY DEF KernelBuffersLive
  <2>0. /\ SeqType /\ MapType
    BY DEF TypeInv
  <2>1. CASE b \in group
    BY <2>1 DEF BufferInv
  <2>2. CASE \E op \in ToSet(sq \o link \o inflight) : b = op.buf
    <3>1. PICK op \in ToSet(sq \o link \o inflight) : b = op.buf
      BY <2>2
    <3>2. Request(op) \in Asked /\ Request(op).buf = b
      BY <3>1, OpsAreAsked DEF Request
    <3>3. Request(op).ud \in Cqids /\ Claims(Request(op).ud, b)
      BY <3>2, AskedIsAwaited DEF Claims, Offers
    <3>4. b \in Bufs
      <4>1. \A r \in Asked : r.buf \in Bufs \cup {None}
        BY <2>0 DEF SeqType, Asked, Requests, Request, Sqe
      <4> QED BY <3>2, <4>1
    <3> QED BY <3>3, <3>4 DEF BufferInv
  <2>3. CASE \E e \in ToSet(cq) : b = e.buf
    <3>1. PICK i \in DOMAIN cq : b = cq[i].buf
      BY <2>3 DEF ToSet
    <3>2. cq[i].ud \in Cqids /\ i \in CqesOf(cq[i].ud)
      BY DEF CarriedInv, Live, Uds, Awaiting, CqesOf
    <3>3. Claims(cq[i].ud, b)
      BY <3>1, <3>2 DEF Claims, Picks
    <3>4. b \in Bufs
      <4>1. cq[i] \in CqeRecord
        BY <2>0 DEF SeqType
      <4> QED BY <3>1, <4>1 DEF CqeRecord
    <3> QED BY <3>2, <3>3, <3>4 DEF BufferInv
  <2>4. CASE \E c \in Cqids : completions[c] # None /\ completions[c].cqe # None /\ b = completions[c].cqe.buf
    <3>1. PICK c \in Cqids : completions[c] # None /\ completions[c].cqe # None /\ b = completions[c].cqe.buf
      BY <2>4
    <3>2. b \in Bufs
      BY <2>0, <3>1 DEF MapType, Event, CqeRecord
    <3>3. Claims(c, b)
      BY <3>1 DEF Claims, Picks
    <3> QED BY <3>2, <3>3 DEF BufferInv
  <2> QED BY <2>1, <2>2, <2>3, <2>4 DEF Referenced
<1>2. Spec => [](TypeInv /\ CarriedInv /\ RequestInv /\ BufferInv)
  BY BufferInvariance
<1> QED BY <1>1, <1>2, PTL

-----------------------------------------------------------------------------
(* The pool of buffers goes round as BufferPool says.                       *)

\* An index that has a buffer from the kernel offers none, and a recorded CQE
\* is its index's own.
PickInv ==
  \A c \in Cqids : completions[c] # None =>
    /\ \A b \in Bufs : Picks(c, b) => completions[c].action = None
    /\ completions[c].cqe # None => completions[c].cqe.ud = c

\* Every step keeps the indices that have a buffer from the kernel apart from those that offer one.
LEMMA PickStep ==
  ASSUME AvoidFull, TypeInv, CarriedInv, RequestInv, BufferInv, PickInv, [Next]_vars
  PROVE  PickInv'
<1>0. None \notin Bufs
  BY Constants
<1> SUFFICES ASSUME NEW d \in Cqids, completions'[d] # None
             PROVE  /\ \A x \in Bufs : Picks(d, x)' => completions'[d].action = None
                    /\ completions'[d].cqe # None => completions'[d].cqe.ud = d
  BY DEF PickInv
<1>1. CASE \E k \in Kinds, c \in Cqids, b \in Bufs \cup {None} : StartOp(k, c, b)
  <2>1. PICK k \in Kinds, c \in Cqids, b \in Bufs \cup {None} : StartOp(k, c, b)
    BY <1>1
  <2>2. CASE d = c
    <3>1. completions'[d].cqe = None /\ \A x \in Bufs : ~Picks(d, x)'
      BY <2>1, <2>2, StartClaims
    <3> QED BY <3>1
  <2>3. CASE d # c
    <3>1. completions'[d] = completions[d] /\ \A x \in Bufs : Picks(d, x)' => Picks(d, x)
      <4>1. ASSUME NEW x PROVE completions'[d] = completions[d] /\ (Picks(d, x)' => Picks(d, x))
        BY <2>1, <2>3, StartClaims
      <4> QED BY <4>1
    <3> QED BY <3>1 DEF PickInv
  <2> QED BY <2>2, <2>3
<1>2. CASE \E i \in DOMAIN inflight, b \in Bufs \cup {None} : Complete(i, b)
  <2>1. PICK i \in DOMAIN inflight, b0 \in Bufs \cup {None} : Complete(i, b0)
    BY <1>2
  <2> DEFINE u == inflight[i].ud
  <2>2. completions' = completions /\ (b0 \in Bufs => completions[u].action = None)
    BY <1>0, <2>1, CompletedGroup
  <2>3. \A x \in Bufs : Picks(d, x)' => (d # u /\ Picks(d, x)) \/ (d = u /\ x = b0)
    BY <2>1, CompletedClaims
  <2> HIDE DEF u
  <2> QED BY <2>2, <2>3 DEF PickInv
<1>3. CASE /\ ~\E k \in Kinds, c \in Cqids, b \in Bufs \cup {None} : StartOp(k, c, b)
           /\ ~\E i \in DOMAIN inflight, b \in Bufs \cup {None} : Complete(i, b)
  <2>1. Handled
    BY <1>3, HandledStep
  <2>2. Kept(d) /\ \A x \in Bufs : Picks(d, x)' => Picks(d, x)
    BY <2>1 DEF Handled
  <2>3. CASE completions[d] = None
    <3>1. \A x \in Bufs : ~Picks(d, x)'
      BY <2>2, <2>3, VacantClaims DEF Claims
    <3>2. completions'[d].cqe = None
      BY <2>2, <2>3 DEF Kept
    <3> QED BY <3>1, <3>2
  <2>4. CASE completions[d] # None
    <3>1. completions'[d].action = completions[d].action
      BY <2>2, <2>4 DEF Kept
    <3>2. completions'[d].cqe = completions[d].cqe \/ completions'[d].cqe.ud = d
      BY <2>2, <2>4 DEF Kept
    <3> QED BY <2>2, <2>4, <3>1, <3>2 DEF PickInv
  <2> QED BY <2>3, <2>4
<1> QED BY <1>1, <1>2, <1>3

\* The place of a buffer is told by its owner.
PlaceInv ==
  \A b \in Bufs :
    /\ b \notin buffers => Place(b) = "out"
    /\ b \in group => Place(b) = "group"
    /\ \A c \in Cqids : Picks(c, b) => Place(b) = "picked" /\ ~Offers(c, b)
    /\ \A c \in Cqids : Offers(c, b) => Place(b) = "offered"
    /\ (b \in buffers /\ b \notin group /\ \A c \in Cqids : ~Claims(c, b)) => Place(b) = "leaked"

\* The invariants tell the place of every buffer.
LEMMA PlaceByOwner ==
  ASSUME TypeInv, CarriedInv, BufferInv, PickInv
  PROVE  PlaceInv
<1> SUFFICES ASSUME NEW b \in Bufs
             PROVE  /\ b \notin buffers => Place(b) = "out"
                    /\ b \in group => Place(b) = "group"
                    /\ \A c \in Cqids : Picks(c, b) => Place(b) = "picked" /\ ~Offers(c, b)
                    /\ \A c \in Cqids : Offers(c, b) => Place(b) = "offered"
                    /\ (b \in buffers /\ b \notin group /\ \A c \in Cqids : ~Claims(c, b)) => Place(b) = "leaked"
  BY DEF PlaceInv
<1>0. MapType /\ SeqType /\ b # None
  BY Constants DEF TypeInv
<1>1. ASSUME NEW e \in Posted
      PROVE  \E c \in Cqids : /\ e.ud = c /\ c # None /\ completions[c] # None
                              /\ \/ \E i \in CqesOf(c) : e = cq[i]
                                 \/ completions[c].cqe # None /\ e = completions[c].cqe
  <2>1. CASE e \in ToSet(cq)
    <3>1. PICK i \in DOMAIN cq : e = cq[i]
      BY <2>1 DEF ToSet
    <3>2. e.ud \in Cqids /\ completions[e.ud] # None /\ i \in CqesOf(e.ud)
      BY <3>1 DEF CarriedInv, Live, Uds, Awaiting, CqesOf
    <3> QED BY <3>1, <3>2, Constants
  <2>2. CASE e \in Recorded
    <3>1. PICK c \in Cqids : completions[c] # None /\ e = completions[c].cqe /\ e # None
      BY <2>2 DEF Recorded
    <3>2. e.ud = c
      BY <3>1 DEF PickInv
    <3> QED BY <3>1, <3>2, Constants
  <2> QED BY <2>1, <2>2 DEF Posted
<1>2. ASSUME NEW c \in Cqids, NEW i \in CqesOf(c) PROVE cq[i] \in Posted /\ cq[i].ud = c
  BY DEF CqesOf, Posted, ToSet
<1>3. ASSUME NEW c \in Cqids, completions[c] # None, completions[c].cqe # None
      PROVE  completions[c].cqe \in Posted /\ completions[c].cqe.ud = c
  BY <1>3 DEF Posted, Recorded, PickInv
<1>4. (\E e \in Posted : e.buf = b) <=> \E c \in Cqids : Picks(c, b)
  BY <1>1, <1>2, <1>3 DEF Picks
<1> DEFINE Offered == \/ \E op \in ToSet(sq \o link \o inflight) : op.buf = b
                      \/ \E e \in Posted : ProvideFailed(e, b)
<1>5. Offered => \E c \in Cqids : Offers(c, b)
  <2>1. CASE \E op \in ToSet(sq \o link \o inflight) : op.buf = b
    <3>1. PICK op \in ToSet(sq \o link \o inflight) : op.buf = b
      BY <2>1
    <3>2. Request(op) \in Asked /\ Request(op).buf = b
      BY <3>1, OpsAreAsked DEF Request
    <3> QED BY <3>2, AskedIsAwaited DEF Offers
  <2>2. CASE \E e \in Posted : ProvideFailed(e, b)
    <3>1. PICK e \in Posted : ProvideFailed(e, b)
      BY <2>2
    <3>2. PICK c \in Cqids : /\ e.ud = c /\ c # None /\ completions[c] # None
                             /\ \/ \E i \in CqesOf(c) : e = cq[i]
                                \/ completions[c].cqe # None /\ e = completions[c].cqe
      BY <1>1
    <3>3. ~e.ok /\ completions[c].action = b
      BY <3>1, <3>2 DEF ProvideFailed
    <3> QED BY <3>2, <3>3 DEF Offers
  <2> QED BY <2>1, <2>2
<1>6. ASSUME NEW c \in Cqids, Offers(c, b) PROVE Offered
  <2>1. CASE \E r \in Asked : r.ud = c /\ r.buf = b
    <3>1. PICK op \in ToSet(sq \o link \o inflight) : Request(op).buf = b
      BY <2>1, OpsAreAsked
    <3> QED BY <3>1 DEF Request
  <2>2. CASE \E i \in CqesOf(c) : ~cq[i].ok /\ completions[c].action = b
    <3>1. PICK i \in CqesOf(c) : ~cq[i].ok /\ completions[c].action = b
      BY <2>2
    <3>2. cq[i] \in Posted /\ cq[i].ud = c
      BY <1>2
    <3>3. completions[c] # None /\ c # None
      BY Constants DEF CarriedInv, Live, Uds, Awaiting, CqesOf
    <3> QED BY <3>1, <3>2, <3>3 DEF ProvideFailed
  <2>3. CASE completions[c] # None /\ completions[c].cqe # None /\ ~completions[c].cqe.ok /\ completions[c].action = b
    <3>1. c # None
      BY Constants
    <3> QED BY <1>3, <2>3, <3>1 DEF ProvideFailed
  <2> QED BY <1>6, <2>1, <2>2, <2>3 DEF Offers
<1> HIDE DEF Offered
<1>7. Place(b) = IF b \notin buffers THEN "out"
                 ELSE IF b \in group THEN "group"
                 ELSE IF \E e \in Posted : e.buf = b THEN "picked"
                 ELSE IF Offered THEN "offered" ELSE "leaked"
  BY DEF Place, Offered
<1>8. ASSUME NEW c \in Cqids, Picks(c, b) PROVE ~Offers(c, b)
  <2>1. completions[c] # None
    BY <1>8, VacantClaims DEF Claims
  <2>2. completions[c].action = None
    BY <1>8, <2>1 DEF PickInv
  <2>3. \A r \in Asked : r.ud = c => CqesOf(c) = {} /\ completions[c].cqe = None
    BY AskedIsAwaited
  <2>4. \A r \in Asked : r.ud # c
    BY <1>8, <2>3 DEF Picks
  <2> QED BY <1>0, <2>2, <2>4 DEF Offers
<1>9. \A c, d \in Cqids : Claims(c, b) /\ Claims(d, b) => c = d
  BY DEF BufferInv
<1>10. \A c \in Cqids : Claims(c, b) => b \in buffers /\ b \notin group
  BY DEF BufferInv
<1>11. group \subseteq buffers
  BY DEF BufferInv
<1>12. b \notin buffers => Place(b) = "out"
  BY <1>7
<1>13. b \in group => Place(b) = "group"
  BY <1>7, <1>11
<1>14. ASSUME NEW c \in Cqids, Picks(c, b) PROVE Place(b) = "picked"
  <2>1. b \in buffers /\ b \notin group
    BY <1>10, <1>14 DEF Claims
  <2>2. \E e \in Posted : e.buf = b
    BY <1>4, <1>14
  <2> QED BY <1>7, <2>1, <2>2
<1>15. ASSUME NEW c \in Cqids, Offers(c, b) PROVE Place(b) = "offered"
  <2>1. b \in buffers /\ b \notin group
    BY <1>10, <1>15 DEF Claims
  <2>2. ~\E e \in Posted : e.buf = b
    BY <1>4, <1>8, <1>9, <1>15 DEF Claims
  <2> QED BY <1>6, <1>7, <1>15, <2>1, <2>2
<1>16. (b \in buffers /\ b \notin group /\ \A c \in Cqids : ~Claims(c, b)) => Place(b) = "leaked"
  BY <1>4, <1>5, <1>7 DEF Claims
<1> QED BY <1>8, <1>12, <1>13, <1>14, <1>15, <1>16

\* Where a buffer may go in one step.
LEMMA PoolMoves ==
  ASSUME AvoidFull, ~HardErrors, TypeInv, CarriedInv, RequestInv, BufferInv, PlaceInv, BufferInv', PlaceInv',
         [Next]_vars, NEW b \in Bufs
  PROVE  Place(b)' = Place(b) \/ <<Place(b), Place(b)'>> \in Pool!Moves
<1>0. None \notin Bufs /\ group \subseteq Bufs
  BY Constants DEF TypeInv, SetType
\* The five places before the step, and after it.
<1>1. /\ b \notin buffers => Place(b) = "out"
      /\ b \in group => Place(b) = "group"
      /\ \A c \in Cqids : Picks(c, b) => Place(b) = "picked" /\ ~Offers(c, b)
      /\ \A c \in Cqids : Offers(c, b) => Place(b) = "offered"
      /\ (b \in buffers /\ b \notin group /\ \A c \in Cqids : ~Claims(c, b)) => Place(b) = "leaked"
  BY DEF PlaceInv
<1>2. /\ b \notin buffers' => Place(b)' = "out"
      /\ b \in group' => Place(b)' = "group"
      /\ \A c \in Cqids : Picks(c, b)' => Place(b)' = "picked" /\ ~Offers(c, b)'
      /\ \A c \in Cqids : Offers(c, b)' => Place(b)' = "offered"
      /\ (b \in buffers' /\ b \notin group' /\ \A c \in Cqids : ~Claims(c, b)') => Place(b)' = "leaked"
  BY DEF PlaceInv
<1>3. /\ group \subseteq buffers
      /\ \A c \in Cqids : Claims(c, b) => b \in buffers /\ b \notin group
      /\ \A c, d \in Cqids : Claims(c, b) /\ Claims(d, b) => c = d
  BY DEF BufferInv
<1>4. /\ group' \subseteq buffers'
      /\ \A c \in Cqids : Claims(c, b)' => b \in buffers' /\ b \notin group'
      /\ \A c, d \in Cqids : Claims(c, b)' /\ Claims(d, b)' => c = d
  BY DEF BufferInv
<1>5. \A c \in Cqids : (Claims(c, b) <=> Picks(c, b) \/ Offers(c, b)) /\ (Claims(c, b)' <=> Picks(c, b)' \/ Offers(c, b)')
  BY DEF Claims
\* No index stands for more of b than before.
<1>6. ASSUME b \in group' <=> b \in group, b \in buffers' => b \in buffers,
             \A c \in Cqids : (Picks(c, b)' => Picks(c, b)) /\ (Offers(c, b)' => Offers(c, b)),
             b \in buffers /\ b \notin buffers' => \E c \in Cqids : Claims(c, b)
      PROVE  Place(b)' = Place(b) \/ <<Place(b), Place(b)'>> \in Pool!Moves
  <2>1. CASE b \notin buffers
    BY <1>1, <1>2, <1>6, <2>1
  <2>2. CASE b \in group
    BY <1>1, <1>2, <1>6, <2>2
  <2>3. CASE \E c \in Cqids : Picks(c, b)
    <3>1. PICK c \in Cqids : Picks(c, b)
      BY <2>3
    <3>2. Place(b) = "picked" /\ \A d \in Cqids : ~Offers(d, b)
      BY <1>1, <1>3, <1>5, <3>1
    <3>3. b \notin group'
      BY <1>3, <1>5, <1>6, <3>1
    <3>4. Place(b)' \in {"out", "picked", "leaked"}
      BY <1>2, <1>5, <1>6, <3>2, <3>3
    <3> QED BY <3>2, <3>4 DEF Pool!Moves
  <2>4. CASE \E c \in Cqids : Offers(c, b)
    <3>1. PICK c \in Cqids : Offers(c, b)
      BY <2>4
    <3>2. Place(b) = "offered" /\ \A d \in Cqids : ~Picks(d, b)
      BY <1>1, <1>3, <1>5, <3>1
    <3>3. b \notin group'
      BY <1>3, <1>5, <1>6, <3>1
    <3>4. Place(b)' \in {"out", "offered", "leaked"}
      BY <1>2, <1>5, <1>6, <3>2, <3>3
    <3> QED BY <3>2, <3>4 DEF Pool!Moves
  <2>5. CASE b \in buffers /\ b \notin group /\ \A c \in Cqids : ~Claims(c, b)
    BY <1>1, <1>2, <1>5, <1>6, <2>5
  <2> QED BY <1>5, <2>1, <2>2, <2>3, <2>4, <2>5
<1>7. CASE \E k \in Kinds, c \in Cqids, x \in Bufs \cup {None} : StartOp(k, c, x)
  <2>1. PICK k \in Kinds, c \in Cqids, x \in Bufs \cup {None} : StartOp(k, c, x)
    BY <1>7
  <2>2. /\ x \notin buffers /\ group' = group
        /\ buffers' = IF x = None THEN buffers ELSE buffers \cup {x}
    BY <1>0, <2>1 DEF StartOp, kernVars, TypeInv, SetType
  <2>3. ~Picks(c, b)' /\ (Offers(c, b)' <=> b = x)
    BY <2>1, StartClaims
  <2>4. CASE b = x
    <3>1. Place(b) = "out" /\ Place(b)' = "offered"
      BY <1>1, <1>2, <2>2, <2>3, <2>4
    <3> QED BY <3>1 DEF Pool!Moves
  <2>5. CASE b # x
    <3>1. b \in buffers <=> b \in buffers'
      BY <2>2, <2>5
    <3>2. ASSUME NEW d \in Cqids PROVE (Picks(d, b)' => Picks(d, b)) /\ (Offers(d, b)' => Offers(d, b))
      BY <2>1, <2>3, <2>5, StartClaims
    <3> QED BY <1>6, <2>2, <3>1, <3>2
  <2> QED BY <2>4, <2>5
<1>8. CASE \E i \in DOMAIN inflight, x \in Bufs \cup {None} : Complete(i, x)
  <2>1. PICK i \in DOMAIN inflight, b0 \in Bufs \cup {None} : Complete(i, b0)
    BY <1>8
  <2>0. PICK u, p : u = inflight[i].ud /\ p = inflight[i].buf
    OBVIOUS
  <2>2. /\ u \in Cqids /\ buffers' = buffers
        /\ \/ p \in Bufs /\ Offers(u, p) /\ b0 = None /\ group' = group \cup {p}
           \/ b0 = None /\ group' = group
           \/ b0 \in group /\ group' = group \ {b0}
    BY <2>0, <2>1, CompletedGroup
  <2>3. /\ (Picks(u, b)' <=> b = b0) /\ ~Offers(u, b)' /\ ~Picks(u, b)
        /\ \A c \in Cqids : c # u => (Picks(c, b)' => Picks(c, b)) /\ (Offers(c, b)' => Offers(c, b))
    BY <2>0, <2>1, <2>2, CompletedClaims
  <2>4. CASE b = b0
    <3>1. Place(b) = "group" /\ Place(b)' = "picked"
      BY <1>0, <1>1, <1>2, <2>2, <2>3, <2>4
    <3> QED BY <3>1 DEF Pool!Moves
  <2>5. CASE b # b0 /\ Offers(u, b)
    <3>1. Place(b) = "offered" /\ b \in buffers' /\ \A c \in Cqids : ~Claims(c, b)'
      BY <1>1, <1>3, <1>5, <2>2, <2>3, <2>5
    <3>2. Place(b)' = "group" \/ Place(b)' = "leaked"
      BY <1>2, <3>1
    <3> QED BY <3>1, <3>2 DEF Pool!Moves
  <2>6. CASE b # b0 /\ ~Offers(u, b)
    <3>1. b \in group <=> b \in group'
      BY <2>2, <2>6
    <3>2. \A c \in Cqids : (Picks(c, b)' => Picks(c, b)) /\ (Offers(c, b)' => Offers(c, b))
      BY <2>3, <2>6
    <3> QED BY <1>6, <2>2, <3>1, <3>2
  <2> QED BY <2>4, <2>5, <2>6
<1>9. CASE /\ ~\E k \in Kinds, c \in Cqids, x \in Bufs \cup {None} : StartOp(k, c, x)
           /\ ~\E i \in DOMAIN inflight, x \in Bufs \cup {None} : Complete(i, x)
  <2>1. Handled
    BY <1>9, HandledStep
  <2> QED BY <1>6, <2>1 DEF Handled
<1> QED BY <1>7, <1>8, <1>9

\* The pool of buffers does what BufferPool promises: a buffer is offered before
\* the kernel has it, is picked out of the group once, and leaves the pool only
\* through the request that stands for it.
THEOREM BuffersGoRound == AvoidFull /\ ~HardErrors => (Spec => ImplementsBufferPool)
<1> SUFFICES ASSUME AvoidFull, ~HardErrors PROVE Spec => ImplementsBufferPool
  OBVIOUS
<1>1. Init => Pool!Init
  <2> SUFFICES ASSUME Init PROVE Pool!Init
    OBVIOUS
  <2>1. \A b \in Bufs : Place(b) = "out"
    BY DEF Init, Place
  <2> QED BY <2>1 DEF Pool!Init
<1>2. TypeInv /\ CarriedInv /\ BufferInv /\ PickInv => PlaceInv
  BY PlaceByOwner
<1>3. /\ TypeInv /\ CarriedInv /\ RequestInv /\ BufferInv /\ PlaceInv
      /\ BufferInv' /\ PlaceInv' /\ [Next]_vars
      => [Pool!Next]_([b \in Bufs |-> Place(b)])
  <2> SUFFICES ASSUME TypeInv, CarriedInv, RequestInv, BufferInv, PlaceInv, BufferInv', PlaceInv', [Next]_vars
               PROVE  Pool!Next
    OBVIOUS
  <2>1. \A b \in Bufs : Place(b)' = Place(b) \/ <<Place(b), Place(b)'>> \in Pool!Moves
    BY PoolMoves
  <2>2. \A b \in Bufs : Place(b)' \in Pool!Places
    BY DEF Place, Pool!Places
  <2> QED BY <2>1, <2>2 DEF Pool!Next, Pool!Move
<1>4. Init => PickInv
  BY DEF Init, PickInv
<1>5. TypeInv /\ CarriedInv /\ RequestInv /\ BufferInv /\ PickInv /\ [Next]_vars => PickInv'
  BY PickStep
<1>6. Spec => [](TypeInv /\ CarriedInv /\ RequestInv /\ BufferInv)
  BY BufferInvariance
<1> QED BY <1>1, <1>2, <1>3, <1>4, <1>5, <1>6, PTL DEF Spec, ImplementsBufferPool, Pool!Spec

=============================================================================
