------------------------------- MODULE DDSketch -------------------------------
(***************************************************************************)
(* metrics/src/ddsketch.rs: a histogram of atomic counters that any number *)
(* of threads update without a lock.  Each call is the list of atomic      *)
(* updates it makes, in the order of the code; the steps of different      *)
(* threads interleave.                                                     *)
(*                                                                         *)
(* gamma is the fraction GNum / GDen.  The floating-point logarithms are   *)
(* taken to be exact, so ceil(log_gamma(x)) is the least k with            *)
(* gamma^k >= x.  log is a history variable: how often each value was      *)
(* inserted.                                                               *)
(***************************************************************************)
EXTENDS Naturals, Sequences, SequencesExt, FiniteSetsExt

CONSTANTS
  Users,          \* the threads that update the sketch
  GNum, GDen,     \* gamma = (1 + alpha) / (1 - alpha)
  U64Max,
  Limits,         \* limits a sketch may be created with
  Samples,        \* values inserted
  Counts,         \* arguments `count` of insert_n
  Others,         \* values held, once each, by the sketch merge adds
  MaxCalls        \* bound on the number of calls that add to the sketch

ASSUME SketchAssumption ==
  /\ GDen \in Nat \ {0} /\ GNum \in Nat /\ GNum > GDen
  /\ IsFiniteSet(Users) /\ U64Max \in Nat /\ Counts \subseteq Nat
  /\ Limits \subseteq 1 .. U64Max /\ Samples \cup Others \subseteq 0 .. U64Max

VARIABLES
  limit,
  sk,             \* cell -> value: min, max, count and the buckets
  todo,           \* thread -> the updates its call has still to make
  expected,       \* thread -> what saturating_add has loaded
  log, calls      \* history; calls is bounded by MaxCalls

sketchVars == <<limit, sk, todo, expected, log, calls>>

-----------------------------------------------------------------------------
(* The layout of the buckets.                                               *)

\* gamma^k >= n / d
Reaches(k, n, d) == GNum^k * d >= n * GDen^k

CeilLog(n, d) ==
  CHOOSE k \in 0 .. n * GNum : Reaches(k, n, d) /\ \A j \in 0 .. k - 1 : ~Reaches(j, n, d)

\* with_limit: where the linear buckets end, ceil(-log_gamma(gamma - 1)) ...
Cutoff == CeilLog(GDen, GNum - GDen)

\* ... and how many there are in all, with one for 0 and one above the limit.
BucketsFor(l) ==
  LET logLimit == CeilLog(l, 1)
      rest == CeilLog(l * GDen, GNum - GDen)
      n == IF logLimit <= Cutoff THEN logLimit + 2 ELSE Cutoff + rest + 2
  IN IF l = U64Max THEN n - 1 ELSE n

NumBuckets == BucketsFor(limit)

ASSUME LayoutAssumption == \A l \in Limits : BucketsFor(l) \in Nat

\* Seeded fault: the logarithmic buckets start one bucket too early.
BadIndexOf(v) ==
  CASE v > limit -> NumBuckets - 1
    [] v <= limit /\ v < Cutoff + 1 -> v
    [] v <= limit /\ v >= Cutoff + 1 -> CeilLog(v, 1)

\* index_of; the field cutoff is Cutoff + 1.
IndexOf(v) ==
  CASE v > limit -> NumBuckets - 1
    [] v <= limit /\ v < Cutoff + 1 -> v
    [] v <= limit /\ v >= Cutoff + 1 -> CeilLog(v, 1) + 1

MinCell == <<"min", 0>>
MaxCell == <<"max", 0>>
CountCell == <<"count", 0>>
Bucket(b) == <<"bucket", b>>

Fresh ==
  [c \in {MinCell, MaxCell, CountCell} \cup {Bucket(b) : b \in 0 .. NumBuckets - 1} |->
     IF c = MinCell THEN U64Max ELSE 0]

SketchInit ==
  /\ limit \in Limits
  /\ sk = Fresh
  /\ todo = [th \in Users |-> <<>>]
  /\ expected = [th \in Users |-> U64Max + 1]     \* nothing loaded
  /\ log = [v \in Samples \cup Others |-> 0]
  /\ calls = 0

\* with_limit: a new, empty sketch.
SketchNew == sk' = Fresh /\ UNCHANGED <<limit, todo, expected, log, calls>>

-----------------------------------------------------------------------------
Update(kind, c, n) == [kind |-> kind, cell |-> c, val |-> n]

Begin(th, updates, lg) ==
  /\ todo[th] = <<>> /\ calls < MaxCalls
  /\ todo' = [todo EXCEPT ![th] = updates]
  /\ log' = lg
  /\ calls' = calls + 1
  /\ UNCHANGED <<limit, sk, expected>>

\* insert_n, with 1 insert.
InsertN(th, v, n) ==
  Begin(th, << Update("max", MaxCell, v), Update("min", MinCell, v),
               Update("add", CountCell, n), Update("add", Bucket(IndexOf(v)), n) >>,
        [log EXCEPT ![v] = @ + n])

\* merge of a sketch nobody updates, which holds every value of Others once:
\* the buckets in order, the count, min and max.
Merge(th) ==
  Begin(th, [k \in 1 .. NumBuckets |->
               Update("add", Bucket(k - 1), Cardinality({v \in Others : IndexOf(v) = k - 1}))]
            \o << Update("add", CountCell, Cardinality(Others)),
                  Update("min", MinCell, Min(Others \cup {U64Max})),
                  Update("max", MaxCell, Max(Others \cup {0})) >>,
        [v \in DOMAIN log |-> log[v] + IF v \in Others THEN 1 ELSE 0])

\* clear: while no other thread updates the sketch, as its comment asks for.
Clear(th) ==
  /\ \A u \in Users : todo[u] = <<>>
  /\ sk' = Fresh
  /\ log' = [v \in DOMAIN log |-> 0]
  /\ UNCHANGED <<limit, todo, expected, calls>>

Now(th) == Head(todo[th])
Done(th) == todo' = [todo EXCEPT ![th] = Tail(@)]

\* fetch_min, fetch_max
FetchMinMax(th) ==
  /\ todo[th] # <<>> /\ Now(th).kind \in {"min", "max"}
  /\ sk' = [sk EXCEPT ![Now(th).cell] =
              IF Now(th).kind = "min" THEN Min({@, Now(th).val}) ELSE Max({@, Now(th).val})]
  /\ Done(th)
  /\ UNCHANGED <<limit, expected, log, calls>>

\* saturating_add: the load ...
AddLoad(th) ==
  /\ todo[th] # <<>> /\ Now(th).kind = "add" /\ expected[th] = U64Max + 1
  /\ expected' = [expected EXCEPT ![th] = sk[Now(th).cell]]
  /\ UNCHANGED <<limit, sk, todo, log, calls>>

\* Seeded fault: a store in place of the compare_exchange.
BadAddCas(th) ==
  /\ todo[th] # <<>> /\ Now(th).kind = "add" /\ expected[th] # U64Max + 1
  /\ sk' = [sk EXCEPT ![Now(th).cell] = Min({U64Max, expected[th] + Now(th).val})]
  /\ expected' = [expected EXCEPT ![th] = U64Max + 1]
  /\ Done(th)
  /\ UNCHANGED <<limit, log, calls>>

\* ... and the compare_exchange_weak, which reloads when it fails; a spurious
\* failure reloads the value it has.
AddCas(th) ==
  /\ todo[th] # <<>> /\ Now(th).kind = "add" /\ expected[th] # U64Max + 1
  /\ IF sk[Now(th).cell] = expected[th]
     THEN /\ sk' = [sk EXCEPT ![Now(th).cell] = Min({U64Max, @ + Now(th).val})]
          /\ expected' = [expected EXCEPT ![th] = U64Max + 1]
          /\ Done(th)
     ELSE /\ expected' = [expected EXCEPT ![th] = sk[Now(th).cell]]
          /\ UNCHANGED <<sk, todo>>
  /\ UNCHANGED <<limit, log, calls>>

SketchStep(th) ==
  \/ \E v \in Samples, n \in Counts : InsertN(th, v, n)
  \/ Merge(th) \/ Clear(th)
  \/ FetchMinMax(th) \/ AddLoad(th) \/ AddCas(th)

-----------------------------------------------------------------------------
(* The queries, in a state where no thread updates the sketch.              *)

\* The sum of the buckets before b.
Below(b) == MapThenSumSet(LAMBDA k : sk[Bucket(k)], 0 .. b - 1)

\* rank
Rank(v) == Below(IndexOf(v))

\* too_high: the last bucket, when not every value is within the limit.
TooHigh == IF limit = U64Max THEN 0 ELSE sk[Bucket(NumBuckets - 1)]

Clamp(x) == Max({Min({x, sk[MaxCell]}), sk[MinCell]})

\* quantile of the fraction num / den below 1: the first bucket by which more
\* than rank samples have been counted; gamma^index / ((gamma + 1) / 2), rounded.
Quantile(num, den) ==
  LET rank == (num * sk[CountCell]) \div den
      found == {b \in 0 .. NumBuckets - 1 : Below(b + 1) > rank}
      b == Min(found)
      index == IF b < Cutoff + 1 THEN b ELSE b - 1
      p == 2 * GNum^index * GDen
      q == GDen^index * (GNum + GDen)
  IN IF found = {} \/ (b >= Cutoff + 1 /\ b = NumBuckets - 1) THEN sk[MaxCell]
     ELSE Clamp((2 * p + q) \div (2 * q))

Idle == \A th \in Users : todo[th] = <<>>

\* The samples inserted with a value in S, each k-th one of a value v as <<v, k>>.
Inserted(S) == Cardinality(UNION {{v} \X (1 .. log[v]) : v \in S})
Present == {v \in DOMAIN log : log[v] > 0}
Saturated(n) == Min({n, U64Max})

\* No concurrent update is lost: when the threads are done every bucket and the
\* count hold what was inserted, cut at u64::MAX, and min and max are exact.
Complete ==
  /\ sk[CountCell] = Saturated(Inserted(Present))
  /\ \A b \in 0 .. NumBuckets - 1 :
       sk[Bucket(b)] = Saturated(Inserted({v \in Present : IndexOf(v) = b}))
  /\ sk[MinCell] = Min(Present \cup {U64Max})
  /\ sk[MaxCell] = Max(Present \cup {0})

\* The sample that quantile num / den of the inserted values should return.
Exact(num, den) ==
  Min({v \in Present : Inserted({u \in Present : u <= v})
                         > (num * Inserted(Present)) \div den})

\* |x - v| <= alpha * v, up to the rounding to an integer.
Close(x, v) ==
  LET d == IF x > v THEN x - v ELSE v - x
  IN 2 * d * (GNum + GDen) <= 2 * (GNum - GDen) * v + (GNum + GDen)

Fractions == {<<0, 1>>, <<1, 4>>, <<1, 2>>, <<3, 4>>, <<9, 10>>}

\* What the comment on quantile promises of a sketch that has not saturated;
\* rank counts no sample that is not below its argument, and too_high counts
\* the samples above the limit.
Accurate ==
  Present # {} /\ Inserted(Present) <= U64Max =>
    /\ \A f \in Fractions : LET x == Quantile(f[1], f[2]) IN
         x <= limit => Close(x, Exact(f[1], f[2]))
    /\ \A v \in Samples : Rank(v) <= Inserted({u \in Present : u < v})
    /\ TooHigh = Inserted({v \in Present : v > limit})
=============================================================================
