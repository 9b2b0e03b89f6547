----------------------------- MODULE MetricsProofs -----------------------------
(***************************************************************************)
(* The lazily initialised metric, for any set of threads: the safety of    *)
(* LazyCell, and that no sample given to its sketch is lost.               *)
(***************************************************************************)
EXTENDS Metrics, Integers, FiniteSetTheorems, SequenceTheorems, WellFoundedInduction, TLAPS

-----------------------------------------------------------------------------
(* The cell.                                                               *)

\* A fresh cell, as LazyCell::new makes it, satisfies the invariant.
LEMMA InitInv == Init => IInv
  BY DEF Init, IInv, TypeOK, CellInv, ThreadInv, OneWorker, Working, PCs

\* The threads' steps: each moves one thread and keeps the invariant.
LEMMA StepInv ==
  ASSUME IInv, NEW th \in Threads, Step(th)
  PROVE  IInv'
<1> USE DEF IInv, TypeOK, Goto, cell, PCs, Working
<1>1. CASE Get(th)
  BY <1>1 DEF Get, CellInv, ThreadInv, OneWorker
<1>2. CASE ForceLoad(th)
  BY <1>2 DEF ForceLoad, CellInv, ThreadInv, OneWorker
<1>3. CASE InitCas(th)
  <2>1. CASE state = "UNINIT"
    <3>1. \A u \in Threads : pc[u] \notin Working
      BY <2>1 DEF ThreadInv
    <3>2. alive
      BY <1>3 DEF InitCas, CellInv
    <3>3. TypeOK' /\ CellInv'
      BY <1>3, <2>1, <3>2 DEF InitCas, CellInv
    <3>4. ThreadInv'
      BY <1>3, <2>1, <3>1, <3>2 DEF InitCas, CellInv, ThreadInv
    <3>5. OneWorker'
      BY <1>3, <2>1, <3>1 DEF InitCas, OneWorker
    <3> QED BY <3>3, <3>4, <3>5
  <2>2. CASE state # "UNINIT"
    BY <1>3, <2>2 DEF InitCas, CellInv, ThreadInv, OneWorker
  <2> QED BY <2>1, <2>2
<1>4. CASE FuncReturns(th)
  BY <1>4 DEF FuncReturns, CellInv, ThreadInv, OneWorker
<1>5. CASE FuncPanics(th)
  BY <1>5 DEF FuncPanics, CellInv, ThreadInv, OneWorker
<1>6. CASE WriteValue(th)
  BY <1>6 DEF WriteValue, CellInv, ThreadInv, OneWorker
<1>7. CASE Publish(th)
  BY <1>7 DEF Publish, CellInv, ThreadInv, OneWorker
<1>8. CASE Spin(th)
  BY <1>8 DEF Spin, CellInv, ThreadInv, OneWorker
<1>9. CASE Release(th)
  BY <1>9 DEF Release, CellInv, ThreadInv, OneWorker
<1> QED
  BY <1>1, <1>2, <1>3, <1>4, <1>5, <1>6, <1>7, <1>8, <1>9 DEF Step, Shared

\* The owner's steps: no thread is inside, so the state is not
\* INIT_IN_PROGRESS and the other three are told apart.
LEMMA OwnerInv ==
  ASSUME IInv, ForceMut \/ ForceMutPanics \/ DropCell \/ IntoInner
  PROVE  IInv'
<1> USE DEF IInv, TypeOK, PCs, Working
<1>1. alive /\ \A th \in Threads : pc[th] = "idle"
  BY DEF ForceMut, ForceMutPanics, DropCell, IntoInner, Exclusive
<1>2. state \in {"UNINIT", "INIT", "POISONED"}
  BY <1>1 DEF OneWorker
<1>3. CASE ForceMut
  BY <1>1, <1>3 DEF ForceMut, CellInv, ThreadInv, OneWorker
<1>4. CASE ForceMutPanics
  BY <1>1, <1>4 DEF ForceMutPanics, CellInv, ThreadInv, OneWorker
<1>5. CASE DropCell
  <2>1. ~alive' /\ UNCHANGED <<state, value, pc>>
    BY <1>5 DEF DropCell
  <2>2. funcEnds' = 1 /\ valueEnds' = (IF state = "INIT" THEN 1 ELSE 0)
    BY <1>1, <1>2, <1>5 DEF DropCell, DropFunc, DropValue, CellInv
  <2>3. value = "live" => state = "INIT"
    BY <1>1, <1>2 DEF CellInv
  <2>4. TypeOK'
    <3>1. alive' \in BOOLEAN
      BY <1>5, Zenon DEF DropCell
    <3> QED BY <2>1, <2>2, <3>1
  <2>5. CellInv'
    BY <1>1, <2>1, <2>2, <2>3 DEF CellInv
  <2>6. ThreadInv' /\ OneWorker'
    BY <1>1, <1>2, <2>1 DEF ThreadInv, OneWorker
  <2> QED
    BY <2>4, <2>5, <2>6
<1>6. CASE IntoInner
  <2>1. /\ ~alive' /\ UNCHANGED pc
        /\ state' \in {"UNINIT", "POISONED"} /\ value' = "uninit"
    BY <1>1, <1>2, <1>6 DEF IntoInner, CellInv
  <2>2. funcEnds' = 1 /\ valueEnds' = (IF state = "INIT" THEN 1 ELSE 0)
    BY <1>1, <1>2, <1>6 DEF IntoInner, DropFunc, DropValue, CellInv
  <2>3. TypeOK'
    <3>1. alive' \in BOOLEAN
      BY <1>6, Zenon DEF IntoInner
    <3> QED BY <2>1, <2>2, <3>1
  <2>4. CellInv'
    BY <1>1, <2>1, <2>2 DEF CellInv
  <2>5. ThreadInv' /\ OneWorker'
    BY <1>1, <1>2, <2>1 DEF ThreadInv, OneWorker
  <2> QED
    BY <2>3, <2>4, <2>5
<1> QED
  BY <1>3, <1>4, <1>5, <1>6

\* The invariant holds in every reachable state, for any number of threads.
THEOREM Invariance == Spec => []IInv
<1>1. IInv /\ [Next]_vars => IInv'
  <2> SUFFICES ASSUME IInv, [Next]_vars PROVE IInv'
    OBVIOUS
  <2>1. CASE \E th \in Threads : Step(th)
    BY <2>1, StepInv
  <2>2. CASE ForceMut \/ ForceMutPanics \/ DropCell \/ IntoInner
    BY <2>2, OwnerInv
  <2>3. CASE UNCHANGED vars
    BY <2>3 DEF vars, IInv, TypeOK, CellInv, ThreadInv, OneWorker
  <2> QED
    BY <2>1, <2>2, <2>3 DEF Next
<1> QED
  BY InitInv, <1>1, PTL DEF Spec

\* Every reference force or get hands out refers to a written, live value.
THEOREM ReferencesValid == Spec => []RefsValid
<1>1. IInv => RefsValid
  BY DEF IInv, TypeOK, CellInv, ThreadInv, RefsValid
<1> QED
  BY <1>1, Invariance, PTL

\* The closure runs, and the value is written, by one thread that has the cell
\* for itself.
THEOREM InitialiserAlone == Spec => []OneInitialiser
<1>1. IInv => OneInitialiser
  BY DEF IInv, ThreadInv, OneWorker, Working, OneInitialiser
<1> QED
  BY <1>1, Invariance, PTL

\* The unreachable!() arms of init and force_mut are unreachable.
THEOREM UnreachableArms == Spec => []NoUnreachable
<1>1. IInv => NoUnreachable
  BY DEF IInv, TypeOK, ThreadInv, OneWorker, Working, NoUnreachable, Exclusive
<1> QED
  BY <1>1, Invariance, PTL

\* Neither the closure nor the value is dropped twice or leaked.
THEOREM NoDoubleDrop == Spec => []DroppedOnce
<1>1. IInv => DroppedOnce
  BY DEF IInv, TypeOK, CellInv, DroppedOnce
<1> QED
  BY <1>1, Invariance, PTL

-----------------------------------------------------------------------------
(* Sums over a finite set, counted as in Inserted.                         *)

Pairs(f, S) == UNION {{x} \X (1 .. f[x]) : x \in S}
Total(f, S) == Cardinality(Pairs(f, S))

\* What is counted: the k-th unit of x, for k up to f[x].
LEMMA PairsHas ==
  ASSUME NEW S, NEW f
  PROVE  /\ \A p \in Pairs(f, S) : \E x \in S : \E k \in 1 .. f[x] : p = <<x, k>>
         /\ \A x \in S : \A k \in 1 .. f[x] : <<x, k>> \in Pairs(f, S)
<1>1. \A p \in Pairs(f, S) : \E x \in S : \E k \in 1 .. f[x] : p = <<x, k>>
  BY DEF Pairs
<1>2. \A x \in S : \A k \in 1 .. f[x] : <<x, k>> \in Pairs(f, S)
  BY DEF Pairs
<1> QED BY <1>1, <1>2

\* A sum over a finite set is a number.
LEMMA TotalType ==
  ASSUME NEW S, IsFiniteSet(S), NEW f, \A x \in S : f[x] \in Nat
  PROVE  IsFiniteSet(Pairs(f, S)) /\ Total(f, S) \in Nat
<1> DEFINE g == [x \in S |-> {x} \X (1 .. f[x])]
           R == {{x} \X (1 .. f[x]) : x \in S}
<1>1. g \in Surjection(S, R)
  BY DEF Surjection
<1>2. IsFiniteSet(R)
  <2> HIDE DEF g, R
  <2> QED BY <1>1, FS_Surjection
<1>3. \A T \in R : IsFiniteSet(T)
  <2> SUFFICES ASSUME NEW x \in S PROVE IsFiniteSet({x} \X (1 .. f[x]))
    OBVIOUS
  <2>1. IsFiniteSet({x})
    BY FS_Singleton
  <2>2. IsFiniteSet(1 .. f[x])
    BY FS_Interval
  <2> QED BY <2>1, <2>2, FS_Product
<1>4. IsFiniteSet(UNION R)
  <2> HIDE DEF R
  <2> QED BY <1>2, <1>3, FS_UNION
<1>5. IsFiniteSet(Pairs(f, S))
  BY <1>4 DEF Pairs
<1> QED BY <1>5, FS_CardinalityType DEF Total

\* A sum of zeros.
LEMMA TotalZero ==
  ASSUME NEW S, NEW f, \A x \in S : f[x] = 0
  PROVE  Total(f, S) = 0
<1>1. Pairs(f, S) = {}
  BY DEF Pairs
<1> QED BY <1>1, FS_EmptySet DEF Total

\* What is added on some of the summands, one each.
LEMMA TotalPlus ==
  ASSUME NEW S, IsFiniteSet(S), NEW f, NEW g, NEW O,
         \A x \in S : f[x] \in Nat,
         \A x \in S : g[x] = f[x] + IF x \in O THEN 1 ELSE 0
  PROVE  Total(g, S) = Total(f, S) + Cardinality(S \cap O)
<1> DEFINE T == S \cap O
           N == {<<x, f[x] + 1>> : x \in T}
           h == [x \in T |-> <<x, f[x] + 1>>]
<1>1. IsFiniteSet(T) /\ Cardinality(T) \in Nat
  BY FS_Intersection, FS_CardinalityType
<1>2. h \in Bijection(T, N)
  <2>1. h \in Surjection(T, N)
    BY DEF Surjection
  <2>2. h \in Injection(T, N)
    <3>1. h \in [T -> N]
      OBVIOUS
    <3>2. \A x, y \in T : h[x] = h[y] => x = y
      <4> SUFFICES ASSUME NEW x \in T, NEW y \in T, h[x] = h[y] PROVE x = y
        OBVIOUS
      <4>1. h[x] = <<x, f[x] + 1>> /\ h[y] = <<y, f[y] + 1>>
        OBVIOUS
      <4>2. <<x, f[x] + 1>> = <<y, f[y] + 1>>
        BY <4>1, Zenon
      <4> QED BY <4>2, Zenon
    <3>3. DOMAIN h = T
      OBVIOUS
    <3> HIDE DEF h, T, N
    <3> QED BY <3>1, <3>2, <3>3 DEF Injection, IsInjective
  <2> QED BY <2>1, <2>2 DEF Bijection
<1>3. IsFiniteSet(N) /\ Cardinality(N) = Cardinality(T)
  <2>1. ExistsBijection(T, N)
    BY <1>2 DEF ExistsBijection
  <2> HIDE DEF N, T
  <2> QED BY <1>1, <2>1, FS_Bijection
<1>4. Pairs(g, S) = Pairs(f, S) \cup N
  <2>1. ASSUME NEW p \in Pairs(g, S) PROVE p \in Pairs(f, S) \cup N
    <3>1. PICK x \in S, k \in Nat : k \in 1 .. g[x] /\ p = <<x, k>>
      BY PairsHas
    <3>2. k \in 1 .. f[x] \/ (x \in T /\ k = f[x] + 1)
      BY <3>1
    <3> QED BY <3>1, <3>2, PairsHas
  <2>2. ASSUME NEW p \in Pairs(f, S) PROVE p \in Pairs(g, S)
    <3>1. PICK x \in S, k \in Nat : k \in 1 .. f[x] /\ p = <<x, k>>
      BY PairsHas
    <3>2. k \in 1 .. g[x]
      BY <3>1
    <3> QED BY <3>1, <3>2, PairsHas
  <2>3. ASSUME NEW p \in N PROVE p \in Pairs(g, S)
    <3>1. PICK x \in T : p = <<x, f[x] + 1>>
      OBVIOUS
    <3>2. f[x] + 1 \in 1 .. g[x]
      BY <3>1
    <3> QED BY <3>1, <3>2, PairsHas
  <2> QED BY <2>1, <2>2, <2>3
<1>5. Pairs(f, S) \cap N = {}
  <2> SUFFICES ASSUME NEW p \in Pairs(f, S), p \in N PROVE FALSE
    OBVIOUS
  <2>1. PICK x \in S, k \in Nat : k \in 1 .. f[x] /\ p = <<x, k>>
    BY PairsHas
  <2>2. PICK y \in T : p = <<y, f[y] + 1>>
    OBVIOUS
  <2>3. x = y /\ k = f[y] + 1
    BY <2>1, <2>2
  <2> QED BY <2>1, <2>3
<1>6. IsFiniteSet(Pairs(f, S)) /\ Total(f, S) \in Nat
  BY TotalType
<1> HIDE DEF N, T
<1>7. Cardinality(Pairs(f, S) \cup N) = Cardinality(Pairs(f, S)) + Cardinality(N) - 0
  BY <1>3, <1>5, <1>6, FS_Union, FS_EmptySet
<1> QED BY <1>1, <1>3, <1>4, <1>6, <1>7 DEF Total, T

\* One summand of the sum.
LEMMA TotalSplit ==
  ASSUME NEW S, IsFiniteSet(S), NEW f, \A x \in S : f[x] \in Nat, NEW y \in S
  PROVE  Total(f, S) = Total(f, S \ {y}) + f[y]
<1> DEFINE N == {y} \X (1 .. f[y])
           R == S \ {y}
<1>1. IsFiniteSet(R)
  BY FS_RemoveElement
<1>2. IsFiniteSet(Pairs(f, R)) /\ Total(f, R) \in Nat
  BY <1>1, TotalType
<1>3. IsFiniteSet(N) /\ Cardinality(N) = f[y]
  <2>1. IsFiniteSet({y}) /\ Cardinality({y}) = 1
    BY FS_Singleton
  <2>2. IsFiniteSet(1 .. f[y]) /\ Cardinality(1 .. f[y]) = f[y]
    BY FS_Interval
  <2>3. IsFiniteSet(N) /\ Cardinality(N) = Cardinality({y}) * Cardinality(1 .. f[y])
    BY <2>1, <2>2, FS_Product
  <2> QED BY <2>1, <2>2, <2>3
<1>4. Pairs(f, S) = Pairs(f, R) \cup N
  BY DEF Pairs
<1>5. Pairs(f, R) \cap N = {}
  BY DEF Pairs
<1> HIDE DEF N, R
<1>6. Cardinality(Pairs(f, R) \cup N) = Cardinality(Pairs(f, R)) + Cardinality(N) - 0
  BY <1>2, <1>3, <1>5, FS_Union, FS_EmptySet
<1>7. Total(f, S) = Total(f, R) + f[y]
  BY <1>2, <1>3, <1>4, <1>6 DEF Total
<1> QED BY <1>7 DEF R

\* Only the summands count.
LEMMA TotalSame ==
  ASSUME NEW S, NEW f, NEW g, \A x \in S : f[x] = g[x]
  PROVE  Total(f, S) = Total(g, S)
<1>1. {{x} \X (1 .. f[x]) : x \in S} = {{x} \X (1 .. g[x]) : x \in S}
  OBVIOUS
<1> QED BY <1>1 DEF Total, Pairs

\* A change of one summand changes the sum by as much.
LEMMA TotalAt ==
  ASSUME NEW S, IsFiniteSet(S), NEW f, NEW g, NEW y \in S,
         \A x \in S : f[x] \in Nat /\ g[x] \in Nat,
         \A x \in S \ {y} : f[x] = g[x]
  PROVE  Total(g, S) + f[y] = Total(f, S) + g[y]
<1> DEFINE a == Total(f, S \ {y})
           b == Total(g, S \ {y})
<1>1. Total(f, S) = a + f[y] /\ Total(g, S) = b + g[y]
  BY TotalSplit
<1>2. a = b
  BY TotalSame
<1>3. a \in Nat
  BY FS_RemoveElement, TotalType
<1> HIDE DEF a, b
<1> QED BY <1>1, <1>2, <1>3

-----------------------------------------------------------------------------
(* Least and greatest elements.                                            *)

\* A set of numbers has a least element.
LEMMA LeastOf ==
  ASSUME NEW S, S \subseteq Nat, S # {}
  PROVE  \E x \in S : \A y \in S : x <= y
<1> DEFINE R == {ss \in Nat \X Nat : ss[1] < ss[2]}
<1>1. IsWellFoundedOn(R, Nat)
  BY NatLessThanWellFounded DEF OpToRel
<1>2. \A x, y \in Nat : y < x => <<y, x>> \in R
  OBVIOUS
<1> HIDE DEF R
<1>3. PICK x \in S : \A y \in S : ~(<<y, x>> \in R)
  BY <1>1, WFMin
<1>4. \A y \in S : ~(y < x)
  BY <1>2, <1>3
<1> QED BY <1>4

\* An element below all others is the minimum ...
LEMMA MinIs ==
  ASSUME NEW S, S \subseteq Nat, NEW x \in S, \A y \in S : x <= y
  PROVE  Min(S) = x
<1>1. Min(S) \in S /\ \A y \in S : Min(S) <= y
  BY DEF Min
<1> DEFINE m == Min(S)
<1>2. m \in Nat /\ x \in Nat /\ m <= x /\ x <= m
  BY <1>1
<1> HIDE DEF m
<1>3. m = x
  BY <1>2
<1> QED BY <1>3 DEF m

\* ... and one above all others the maximum.
LEMMA MaxIs ==
  ASSUME NEW S, S \subseteq Nat, NEW x \in S, \A y \in S : x >= y
  PROVE  Max(S) = x
<1>1. Max(S) \in S /\ \A y \in S : Max(S) >= y
  BY DEF Max
<1> DEFINE m == Max(S)
<1>2. m \in Nat /\ x \in Nat /\ m >= x /\ x >= m
  BY <1>1
<1> HIDE DEF m
<1>3. m = x
  BY <1>2
<1> QED BY <1>3 DEF m

\* fetch_min and fetch_max of two numbers.
LEMMA PairMinMax ==
  ASSUME NEW a \in Nat, NEW b \in Nat
  PROVE  /\ Min({a, b}) = IF a <= b THEN a ELSE b
         /\ Max({a, b}) = IF a >= b THEN a ELSE b
<1>1. CASE a <= b
  <2>1. Min({a, b}) = a
    <3>1. \A y \in {a, b} : a <= y
      BY <1>1
    <3> QED BY <3>1, MinIs
  <2>2. Max({a, b}) = b
    <3>1. \A y \in {a, b} : b >= y
      BY <1>1
    <3> QED BY <3>1, MaxIs
  <2> QED BY <1>1, <2>1, <2>2
<1>2. CASE ~(a <= b)
  <2>1. Min({a, b}) = b
    <3>1. \A y \in {a, b} : b <= y
      BY <1>2
    <3> QED BY <3>1, MinIs
  <2>2. Max({a, b}) = a
    <3>1. \A y \in {a, b} : a >= y
      BY <1>2
    <3> QED BY <3>1, MaxIs
  <2> QED BY <1>2, <2>1, <2>2
<1> QED BY <1>1, <1>2

\* The extremes of the values of a sketch, with the ones of an empty sketch.
LEMMA Extremes ==
  ASSUME NEW S, S \subseteq 0 .. U64Max
  PROVE  /\ Min(S \cup {U64Max}) \in S \cup {U64Max}
         /\ \A y \in S \cup {U64Max} : Min(S \cup {U64Max}) <= y
         /\ Max(S \cup {0}) \in S \cup {0}
         /\ \A y \in S \cup {0} : Max(S \cup {0}) >= y
<1>u. U64Max \in Nat
  BY SketchAssumption
<1>n. S \cup {U64Max} \subseteq Nat
  BY <1>u
<1>1. PICK x \in S \cup {U64Max} : \A y \in S \cup {U64Max} : x <= y
  BY <1>n, LeastOf
<1> DEFINE B == {U64Max - y : y \in S \cup {0}}
<1>2. B \subseteq Nat
  BY <1>u
<1>3. U64Max - 0 \in B
  OBVIOUS
<1>4. PICK w \in B : \A y \in B : w <= y
  <2> HIDE DEF B
  <2> QED BY <1>2, <1>3, LeastOf
<1>5. PICK z \in S \cup {0} : w = U64Max - z
  OBVIOUS
<1>6. \A y \in S \cup {0} : U64Max - z <= U64Max - y
  BY <1>4, <1>5
<1>7. \A y \in S \cup {0} : z >= y
  <2> SUFFICES ASSUME NEW y \in S \cup {0} PROVE z >= y
    OBVIOUS
  <2>1. y \in Nat /\ z \in Nat
    BY <1>u
  <2> QED BY <1>6, <1>u, <2>1
<1>8. Min(S \cup {U64Max}) = x
  BY <1>n, <1>1, MinIs, ZenonT(30)
<1>9. Max(S \cup {0}) = z
  <2> DEFINE T == S \cup {0}
  <2>1. T \subseteq Nat /\ z \in T
    BY <1>u
  <2>2. \A y \in T : z >= y
    BY <1>7
  <2> HIDE DEF T
  <2>3. Max(T) = z
    BY <2>1, <2>2, MaxIs
  <2> QED BY <2>3 DEF T
<1> QED BY <1>1, <1>7, <1>8, <1>9

\* The cut of saturating_add.
LEMMA SaturatedIs ==
  ASSUME NEW n \in Nat
  PROVE  /\ Saturated(n) = IF n <= U64Max THEN n ELSE U64Max
         /\ Min({U64Max, n}) = Saturated(n)
<1>1. U64Max \in Nat
  BY SketchAssumption
<1>2. {U64Max, n} = {n, U64Max}
  OBVIOUS
<1> QED BY <1>1, <1>2, PairMinMax DEF Saturated

-----------------------------------------------------------------------------
(* The inductive invariant of the sketch.                                  *)

Values == Samples \cup Others
AddCells == {CountCell} \cup {Bucket(b) : b \in 0 .. NumBuckets - 1}
Cells == {MinCell, MaxCell} \cup AddCells
Touched == Cells \cup {Bucket(IndexOf(v)) : v \in Values}
Upd == [kind : {"min", "max", "add"}, cell : Touched, val : Nat]

\* A call updates a cell once, min with fetch_min and max with fetch_max.
Neat(s) ==
  /\ \A i \in DOMAIN s : /\ s[i].kind = "min" <=> s[i].cell = MinCell
                         /\ s[i].kind = "max" <=> s[i].cell = MaxCell
  /\ \A i, j \in DOMAIN s : s[i].cell = s[j].cell => i = j

Ops(s) == {s[i] : i \in DOMAIN s}

\* What the updates in s will add to cell c, and what all threads will.
Pend(s, c) ==
  IF \E u \in Ops(s) : u.cell = c THEN (CHOOSE u \in Ops(s) : u.cell = c).val ELSE 0
PendAll(c) == Total([th \in Users |-> Pend(todo[th], c)], Users)

\* The values counted in c.
Want(c) == {v \in Values : c = CountCell \/ c = Bucket(IndexOf(v))}

TypeInv ==
  /\ limit \in Limits
  /\ sk \in [Cells -> 0 .. U64Max]
  /\ log \in [Values -> Nat]
  /\ todo \in [Users -> Seq(Upd)]
  /\ \A th \in Users : Neat(todo[th])

\* With what the threads have still to add, every counter has all the samples.
AddInv ==
  \A c \in AddCells : Saturated(sk[c] + PendAll(c)) = Saturated(Total(log, Want(c)))

\* min and the pending updates of it are values inserted, and cover all of them.
MinInv ==
  /\ sk[MinCell] \in Present \cup {U64Max}
  /\ \A th \in Users : \A u \in Ops(todo[th]) :
       u.cell = MinCell => u.val \in Present \cup {U64Max}
  /\ \A v \in Present :
       \/ sk[MinCell] <= v
       \/ \E th \in Users : \E u \in Ops(todo[th]) : u.cell = MinCell /\ u.val <= v

\* The same of max.
MaxInv ==
  /\ sk[MaxCell] \in Present \cup {0}
  /\ \A th \in Users : \A u \in Ops(todo[th]) :
       u.cell = MaxCell => u.val \in Present \cup {0}
  /\ \A v \in Present :
       \/ sk[MaxCell] >= v
       \/ \E th \in Users : \E u \in Ops(todo[th]) : u.cell = MaxCell /\ u.val >= v

SketchInv == TypeInv /\ AddInv /\ MinInv /\ MaxInv

\* Nothing is inserted before the cell of the metric is initialised.
LateInv ==
  state \in {"UNINIT", "INIT_IN_PROGRESS"} =>
    /\ todo = [th \in Users |-> <<>>]
    /\ log = [v \in Values |-> 0]

MetricInv == IInv /\ SketchInv /\ LateInv

-----------------------------------------------------------------------------
(* The layout and the lists of updates.                                    *)

\* The fields of a sketch are different memory.
LEMMA CellsDiffer ==
  /\ MinCell # MaxCell /\ MinCell # CountCell /\ MaxCell # CountCell
  /\ \A b : Bucket(b) # MinCell /\ Bucket(b) # MaxCell /\ Bucket(b) # CountCell
  /\ \A a, b : Bucket(a) = Bucket(b) => a = b
  BY DEF MinCell, MaxCell, CountCell, Bucket

\* The layout is fixed by the limit.
LEMMA LayoutSame ==
  ASSUME limit' = limit
  PROVE  /\ NumBuckets' = NumBuckets /\ AddCells' = AddCells /\ Cells' = Cells
         /\ Upd' = Upd /\ \A c : Want(c)' = Want(c)
<1>1. NumBuckets' = NumBuckets
  BY DEF NumBuckets
<1>2. \A v : IndexOf(v)' = IndexOf(v)
  BY <1>1 DEF IndexOf
<1>3. AddCells' = AddCells /\ Cells' = Cells
  BY <1>1 DEF AddCells, Cells
<1>4. Upd' = Upd
  BY <1>2, <1>3 DEF Upd, Touched
<1>5. \A c : Want(c)' = Want(c)
  BY <1>2 DEF Want
<1> QED BY <1>1, <1>3, <1>4, <1>5

\* The values that may be inserted are finitely many u64s.
LEMMA ValuesFinite ==
  /\ IsFiniteSet(Values) /\ Values \subseteq 0 .. U64Max
  /\ \A c : Want(c) \subseteq Values /\ IsFiniteSet(Want(c))
<1>1. U64Max \in Nat /\ Values \subseteq 0 .. U64Max
  BY SketchAssumption DEF Values
<1>2. IsFiniteSet(0 .. U64Max)
  BY <1>1, FS_Interval
<1>3. IsFiniteSet(Values)
  BY <1>1, <1>2, FS_Subset
<1>4. \A c : Want(c) \subseteq Values
  BY DEF Want
<1>5. \A c : IsFiniteSet(Want(c))
  BY <1>3, <1>4, FS_Subset
<1> QED BY <1>1, <1>3, <1>4, <1>5

\* An update taken from the list.
LEMMA OpsTail ==
  ASSUME NEW X, NEW s \in Seq(X), s # <<>>, Neat(s)
  PROVE  /\ Head(s) \in Ops(s) /\ Tail(s) \in Seq(X) /\ Neat(Tail(s))
         /\ Ops(Tail(s)) = {u \in Ops(s) : u.cell # Head(s).cell}
<1> DEFINE t == Tail(s)
<1>1. Len(s) \in Nat \ {0} /\ DOMAIN s = 1 .. Len(s)
  OBVIOUS
<1>2. t \in Seq(X) /\ Len(t) = Len(s) - 1 /\ DOMAIN t = 1 .. Len(t)
  BY HeadTailProperties
<1>3. \A i \in DOMAIN t : t[i] = s[i + 1] /\ i + 1 \in DOMAIN s /\ i + 1 # 1 /\ i \in Nat
  BY <1>1, <1>2
<1>4. Head(s) = s[1] /\ 1 \in DOMAIN s
  BY <1>1
<1>5. \A j \in DOMAIN s : j = 1 \/ (j - 1 \in DOMAIN t /\ (j - 1) + 1 = j)
  BY <1>1, <1>2
<1> HIDE DEF t
<1>6. Head(s) \in Ops(s)
  BY <1>4 DEF Ops
<1>7. Neat(t)
  <2>1. \A i, j \in DOMAIN t : i + 1 = j + 1 => i = j
    BY <1>3
  <2> QED BY <1>3, <2>1 DEF Neat
<1>8. Ops(t) = {u \in Ops(s) : u.cell # Head(s).cell}
  <2>1. ASSUME NEW u \in Ops(t) PROVE u \in Ops(s) /\ u.cell # Head(s).cell
    <3>1. PICK i \in DOMAIN t : u = t[i]
      BY DEF Ops
    <3> QED BY <1>3, <1>4, <3>1 DEF Ops, Neat
  <2>2. ASSUME NEW u \in Ops(s), u.cell # Head(s).cell PROVE u \in Ops(t)
    <3>1. PICK j \in DOMAIN s : u = s[j]
      BY DEF Ops
    <3>2. j - 1 \in DOMAIN t /\ (j - 1) + 1 = j
      BY <1>4, <1>5, <2>2, <3>1
    <3>3. u = t[j - 1]
      BY <1>3, <3>1, <3>2
    <3> QED BY <3>2, <3>3 DEF Ops
  <2> QED BY <2>1, <2>2
<1> QED BY <1>2, <1>6, <1>7, <1>8 DEF t

\* What an update in the list will add to its cell.
LEMMA PendIs ==
  ASSUME NEW s, Neat(s)
  PROVE  /\ \A u \in Ops(s) : Pend(s, u.cell) = u.val
         /\ \A c : (\A u \in Ops(s) : u.cell # c) => Pend(s, c) = 0
<1>1. \A u, w \in Ops(s) : u.cell = w.cell => u = w
  BY DEF Ops, Neat
<1>2. ASSUME NEW u \in Ops(s) PROVE Pend(s, u.cell) = u.val
  <2> DEFINE w == CHOOSE w \in Ops(s) : w.cell = u.cell
  <2>1. w \in Ops(s) /\ w.cell = u.cell
    OBVIOUS
  <2>2. w = u
    BY <1>1, <2>1
  <2>3. Pend(s, u.cell) = w.val
    BY DEF Pend
  <2> QED BY <2>2, <2>3
<1>3. ASSUME NEW c, \A u \in Ops(s) : u.cell # c PROVE Pend(s, c) = 0
  BY <1>3 DEF Pend
<1> QED BY <1>2, <1>3

\* What is pending is a number.
LEMMA PendNat ==
  ASSUME NEW s \in Seq(Upd), Neat(s), NEW c
  PROVE  Pend(s, c) \in Nat
<1>1. \A i \in DOMAIN s : s[i] \in Upd
  OBVIOUS
<1>2. \A u \in Ops(s) : u \in Upd
  BY <1>1 DEF Ops
<1>3. \A u \in Ops(s) : u.val \in Nat
  BY <1>2 DEF Upd
<1> QED BY <1>3, PendIs

\* The list without its first update.
LEMMA PendTail ==
  ASSUME NEW s \in Seq(Upd), s # <<>>, Neat(s), NEW c
  PROVE  /\ c = Head(s).cell => Pend(s, c) = Head(s).val /\ Pend(Tail(s), c) = 0
         /\ c # Head(s).cell => Pend(Tail(s), c) = Pend(s, c)
<1>1. /\ Head(s) \in Ops(s) /\ Neat(Tail(s))
      /\ Ops(Tail(s)) = {u \in Ops(s) : u.cell # Head(s).cell}
  BY OpsTail
<1>2. CASE c = Head(s).cell
  BY <1>1, <1>2, PendIs
<1>3. CASE c # Head(s).cell
  <2>1. CASE \E u \in Ops(s) : u.cell = c
    BY <1>1, <1>3, <2>1, PendIs
  <2>2. CASE \A u \in Ops(s) : u.cell # c
    BY <1>1, <2>2, PendIs
  <2> QED BY <2>1, <2>2
<1> QED BY <1>2, <1>3

\* Nothing is pending in an empty list.
LEMMA EmptyList ==
  /\ Neat(<<>>) /\ Ops(<<>>) = {} /\ <<>> \in Seq(Upd)
  /\ \A c : Pend(<<>>, c) = 0
<1>1. DOMAIN <<>> = {}
  OBVIOUS
<1>2. Neat(<<>>)
  BY <1>1, Zenon DEF Neat
<1>3. Ops(<<>>) = {}
  BY <1>1 DEF Ops
<1> QED BY <1>2, <1>3, PendIs

-----------------------------------------------------------------------------
(* The steps of the sketch.                                                *)

\* A new or cleared sketch of which no thread has an update to make.
Blank ==
  /\ limit \in Limits /\ sk = Fresh
  /\ todo = [th \in Users |-> <<>>]
  /\ log = [v \in Values |-> 0]

\* An empty sketch has all of no samples.
LEMMA BlankInv == Blank => SketchInv
<1> SUFFICES ASSUME Blank PROVE SketchInv
  OBVIOUS
<1>u. U64Max \in Nat
  BY SketchAssumption
<1>1. \A th \in Users : todo[th] = <<>>
  BY DEF Blank
<1>2. TypeInv
  <2>1. Fresh \in [Cells -> 0 .. U64Max]
    BY <1>u DEF Fresh, Cells, AddCells
  <2>2. todo \in [Users -> Seq(Upd)] /\ \A th \in Users : Neat(todo[th])
    BY <1>1, EmptyList DEF Blank
  <2> QED BY <2>1, <2>2 DEF Blank, TypeInv
<1>3. AddInv
  <2> SUFFICES ASSUME NEW c \in AddCells
               PROVE  Saturated(sk[c] + PendAll(c)) = Saturated(Total(log, Want(c)))
    BY DEF AddInv
  <2>1. sk[c] = 0
    BY CellsDiffer DEF Blank, Fresh, AddCells
  <2>2. PendAll(c) = 0
    <3> DEFINE f == [th \in Users |-> Pend(todo[th], c)]
    <3>1. \A th \in Users : f[th] = 0
      BY <1>1, EmptyList
    <3> HIDE DEF f
    <3>2. Total(f, Users) = 0
      BY <3>1, TotalZero
    <3> QED BY <3>2 DEF PendAll, f
  <2>3. Total(log, Want(c)) = 0
    <3>1. \A v \in Want(c) : log[v] = 0
      BY DEF Blank, Want
    <3> QED BY <3>1, TotalZero
  <2> QED BY <2>1, <2>2, <2>3
<1>4. Present = {}
  BY DEF Blank, Present
<1>5. \A th \in Users : Ops(todo[th]) = {}
  BY <1>1, EmptyList
<1>6. sk[MinCell] = U64Max /\ sk[MaxCell] = 0
  BY CellsDiffer DEF Blank, Fresh
<1>7. MinInv
  BY <1>4, <1>5, <1>6 DEF MinInv
<1>8. MaxInv
  BY <1>4, <1>5, <1>6 DEF MaxInv
<1> QED BY <1>2, <1>3, <1>7, <1>8 DEF SketchInv

Counted ==
  /\ U64Max \in Nat /\ IsFiniteSet(Users)
  /\ \A c \in Cells : sk[c] \in Nat /\ sk[c] <= U64Max
  /\ \A c : PendAll(c) \in Nat /\ Total(log, Want(c)) \in Nat

\* Sums of the counters are numbers.
LEMMA Counting == TypeInv => Counted
<1> SUFFICES ASSUME TypeInv PROVE Counted
  OBVIOUS
<1>1. U64Max \in Nat /\ IsFiniteSet(Users)
  BY SketchAssumption
<1>2. \A c \in Cells : sk[c] \in Nat /\ sk[c] <= U64Max
  BY <1>1 DEF TypeInv
<1>3. ASSUME NEW c PROVE PendAll(c) \in Nat
  <2> DEFINE f == [th \in Users |-> Pend(todo[th], c)]
  <2>1. \A th \in Users : f[th] \in Nat
    BY PendNat DEF TypeInv
  <2> HIDE DEF f
  <2>2. Total(f, Users) \in Nat
    BY <1>1, <2>1, TotalType
  <2> QED BY <2>2 DEF PendAll, f
<1>4. ASSUME NEW c PROVE Total(log, Want(c)) \in Nat
  <2>1. \A v \in Want(c) : log[v] \in Nat
    BY ValuesFinite DEF TypeInv
  <2> QED BY <2>1, ValuesFinite, TotalType
<1> QED BY <1>1, <1>2, <1>3, <1>4 DEF Counted

\* One thread's list is replaced.
LEMMA PendMoved ==
  ASSUME TypeInv, NEW th \in Users, NEW s \in Seq(Upd), Neat(s),
         todo' = [todo EXCEPT ![th] = s], NEW c
  PROVE  PendAll(c)' + Pend(todo[th], c) = PendAll(c) + Pend(s, c)
<1> DEFINE f == [u \in Users |-> Pend(todo[u], c)]
           g == [u \in Users |-> Pend(todo'[u], c)]
<1>1. \A u \in Users : f[u] \in Nat /\ g[u] \in Nat
  <2>1. \A u \in Users : todo'[u] \in Seq(Upd) /\ Neat(todo'[u])
    BY DEF TypeInv
  <2>2. \A u \in Users : todo[u] \in Seq(Upd) /\ Neat(todo[u])
    BY DEF TypeInv
  <2> QED BY <2>1, <2>2, PendNat
<1>2. \A u \in Users \ {th} : f[u] = g[u]
  BY DEF TypeInv
<1>3. f[th] = Pend(todo[th], c) /\ g[th] = Pend(s, c)
  BY DEF TypeInv
<1>4. PendAll(c) = Total(f, Users) /\ PendAll(c)' = Total(g, Users)
  BY DEF PendAll
<1> HIDE DEF f, g
<1>5. Total(g, Users) + f[th] = Total(f, Users) + g[th]
  BY <1>1, <1>2, SketchAssumption, TotalAt
<1> QED BY <1>3, <1>4, <1>5

\* What a call must have to fit: its updates are what it adds to the log.
Fits(ups, lg) ==
  /\ ups \in Seq(Upd) /\ Neat(ups)
  /\ lg \in [Values -> Nat] /\ \A v \in Values : lg[v] >= log[v]
  /\ \A c \in AddCells : Total(lg, Want(c)) = Total(log, Want(c)) + Pend(ups, c)
  /\ \A u \in Ops(ups) :
       /\ u.cell = MinCell => u.val = U64Max \/ (u.val \in Values /\ lg[u.val] > 0)
       /\ u.cell = MaxCell => u.val = 0 \/ (u.val \in Values /\ lg[u.val] > 0)
  /\ \A v \in Values : lg[v] > 0 =>
       \/ log[v] > 0
       \/ /\ \E u \in Ops(ups) : u.cell = MinCell /\ u.val <= v
          /\ \E u \in Ops(ups) : u.cell = MaxCell /\ u.val >= v

\* A call that fits keeps the invariant: what it logs it has still to do.
LEMMA BeginInv ==
  ASSUME SketchInv, NEW th \in Users, NEW ups, NEW lg, Fits(ups, lg), Begin(th, ups, lg)
  PROVE  SketchInv'
<1> USE DEF SketchInv
<1>1. /\ todo[th] = <<>> /\ todo' = [todo EXCEPT ![th] = ups] /\ log' = lg
      /\ limit' = limit /\ sk' = sk
  BY DEF Begin
<1>2. AddCells' = AddCells /\ Cells' = Cells /\ Upd' = Upd /\ \A c : Want(c)' = Want(c)
  BY <1>1, LayoutSame
<1>3. \A u \in Users : todo'[u] = IF u = th THEN ups ELSE todo[u]
  BY <1>1 DEF TypeInv
<1>4. TypeInv'
  <2>1. todo' \in [Users -> Seq(Upd)] /\ \A u \in Users : Neat(todo'[u])
    BY <1>1, <1>3 DEF TypeInv, Fits
  <2>2. lg \in [Values -> Nat]
    BY DEF Fits
  <2> QED BY <1>1, <1>2, <2>1, <2>2 DEF TypeInv
<1>5. AddInv'
  <2> SUFFICES ASSUME NEW c \in AddCells
               PROVE  Saturated(sk[c] + PendAll(c)') = Saturated(Total(lg, Want(c)))
    BY <1>1, <1>2 DEF AddInv
  <2> DEFINE k == sk[c]
             p == PendAll(c)
             q == Pend(ups, c)
             t == Total(log, Want(c))
  <2>1. k \in Nat /\ p \in Nat /\ t \in Nat
    BY Counting DEF Cells, Counted
  <2>2. q \in Nat
    BY PendNat DEF Fits
  <2>3. PendAll(c)' = p + q
    <3>1. PendAll(c)' + Pend(todo[th], c) = p + q
      BY <1>1, PendMoved DEF Fits
    <3>2. Pend(todo[th], c) = 0
      BY <1>1, EmptyList
    <3>3. PendAll(c)' \in Nat
      <4>1. Counted'
        BY <1>4, Counting, PTL
      <4> QED BY <4>1 DEF Counted
    <3> HIDE DEF p, q
    <3> QED BY <2>1, <2>2, <3>1, <3>2, <3>3
  <2>4. Total(lg, Want(c)) = t + q
    BY DEF Fits
  <2>5. Saturated(k + p) = Saturated(t)
    BY DEF AddInv
  <2> HIDE DEF k, p, q, t
  <2>6. Saturated(k + (p + q)) = Saturated(t + q)
    <3>1. U64Max \in Nat
      BY SketchAssumption
    <3>0. k + p \in Nat /\ k + (p + q) \in Nat /\ t + q \in Nat
      BY <2>1, <2>2
    <3>2. /\ Saturated(k + p) = IF k + p <= U64Max THEN k + p ELSE U64Max
          /\ Saturated(t) = IF t <= U64Max THEN t ELSE U64Max
      BY <2>1, <3>0, SaturatedIs
    <3>3. /\ Saturated(k + (p + q)) = IF k + (p + q) <= U64Max THEN k + (p + q) ELSE U64Max
          /\ Saturated(t + q) = IF t + q <= U64Max THEN t + q ELSE U64Max
      BY <3>0, SaturatedIs
    <3> QED BY <2>1, <2>2, <2>5, <3>1, <3>2, <3>3
  <2> QED BY <2>3, <2>4, <2>6 DEF k
<1>6. Present' = {v \in Values : lg[v] > 0} /\ Present = {v \in Values : log[v] > 0}
  BY <1>1 DEF Present, TypeInv, Fits
<1>7. Present \subseteq Present'
  BY <1>6 DEF Fits, TypeInv
<1>8. Ops(todo[th]) = {}
  BY <1>1, EmptyList
<1>9. MinInv'
  <2>1. sk[MinCell] \in Present' \cup {U64Max}
    BY <1>7 DEF MinInv
  <2>2. \A w \in Users : \A u \in Ops(todo'[w]) :
          u.cell = MinCell => u.val \in Present' \cup {U64Max}
    BY <1>3, <1>6, <1>7 DEF MinInv, Fits
  <2>3. ASSUME NEW v \in Present'
        PROVE  \/ sk[MinCell] <= v
               \/ \E w \in Users : \E u \in Ops(todo'[w]) : u.cell = MinCell /\ u.val <= v
    <3>1. CASE v \in Present
      BY <1>3, <1>8, <3>1 DEF MinInv
    <3>2. CASE v \notin Present
      BY <1>3, <1>6, <3>2 DEF Fits
    <3> QED BY <3>1, <3>2
  <2> QED BY <1>1, <2>1, <2>2, <2>3 DEF MinInv
<1>10. MaxInv'
  <2>1. sk[MaxCell] \in Present' \cup {0}
    BY <1>7 DEF MaxInv
  <2>2. \A w \in Users : \A u \in Ops(todo'[w]) :
          u.cell = MaxCell => u.val \in Present' \cup {0}
    BY <1>3, <1>6, <1>7 DEF MaxInv, Fits
  <2>3. ASSUME NEW v \in Present'
        PROVE  \/ sk[MaxCell] >= v
               \/ \E w \in Users : \E u \in Ops(todo'[w]) : u.cell = MaxCell /\ u.val >= v
    <3>1. CASE v \in Present
      BY <1>3, <1>8, <3>1 DEF MaxInv
    <3>2. CASE v \notin Present
      BY <1>3, <1>6, <3>2 DEF Fits
    <3> QED BY <3>1, <3>2
  <2> QED BY <1>1, <2>1, <2>2, <2>3 DEF MaxInv
<1> QED BY <1>4, <1>5, <1>9, <1>10

\* The cells a call updates are cells of the layout, or beyond it.
LEMMA UpdatesOf ==
  /\ \A n \in Nat : /\ Update("min", MinCell, n) \in Upd
                    /\ Update("max", MaxCell, n) \in Upd
                    /\ Update("add", CountCell, n) \in Upd
                    /\ \A v \in Values : Update("add", Bucket(IndexOf(v)), n) \in Upd
                    /\ \A b \in 0 .. NumBuckets - 1 : Update("add", Bucket(b), n) \in Upd
  /\ \A k, c, n : /\ Update(k, c, n).kind = k
                  /\ Update(k, c, n).cell = c /\ Update(k, c, n).val = n
  BY DEF Update, Upd, Touched, Cells, AddCells

\* insert_n adds n samples of value v.
LEMMA InsertFits ==
  ASSUME TypeInv, 0 \notin Counts, NEW v \in Samples, NEW n \in Counts
  PROVE  Fits(<< Update("max", MaxCell, v), Update("min", MinCell, v),
                 Update("add", CountCell, n), Update("add", Bucket(IndexOf(v)), n) >>,
              [log EXCEPT ![v] = @ + n])
<1> DEFINE a1 == Update("max", MaxCell, v)
           a2 == Update("min", MinCell, v)
           a3 == Update("add", CountCell, n)
           a4 == Update("add", Bucket(IndexOf(v)), n)
           ups == <<a1, a2, a3, a4>>
           lg == [log EXCEPT ![v] = @ + n]
<1>0. n \in Nat /\ n # 0 /\ v \in Nat /\ v \in Values /\ v <= U64Max /\ U64Max \in Nat
  BY SketchAssumption, ValuesFinite DEF Values
<1>1. a1 \in Upd /\ a2 \in Upd /\ a3 \in Upd /\ a4 \in Upd
  BY <1>0, UpdatesOf
<1>2. /\ a1.kind = "max" /\ a1.cell = MaxCell /\ a1.val = v
      /\ a2.kind = "min" /\ a2.cell = MinCell /\ a2.val = v
      /\ a3.kind = "add" /\ a3.cell = CountCell /\ a3.val = n
      /\ a4.kind = "add" /\ a4.cell = Bucket(IndexOf(v)) /\ a4.val = n
  BY UpdatesOf
<1> HIDE DEF a1, a2, a3, a4
<1>3. ups \in Seq(Upd) /\ DOMAIN ups = {1, 2, 3, 4}
  BY <1>1
<1>4. ups[1] = a1 /\ ups[2] = a2 /\ ups[3] = a3 /\ ups[4] = a4
  OBVIOUS
<1>5. \A w \in Values : lg[w] = IF w = v THEN log[w] + n ELSE log[w]
  BY <1>0 DEF TypeInv
<1>6. lg \in [Values -> Nat]
  BY <1>0 DEF TypeInv
<1>7. \A w \in Values : log[w] \in Nat
  BY DEF TypeInv
<1> HIDE DEF ups, lg
<1>8. Neat(ups)
  <2>1. \A i \in DOMAIN ups : /\ ups[i].kind = "min" <=> ups[i].cell = MinCell
                              /\ ups[i].kind = "max" <=> ups[i].cell = MaxCell
    BY <1>2, <1>3, <1>4, CellsDiffer
  <2>2. \A i, j \in DOMAIN ups : ups[i].cell = ups[j].cell => i = j
    BY <1>2, <1>3, <1>4, CellsDiffer
  <2> QED BY <2>1, <2>2 DEF Neat
<1>9. Ops(ups) = {a1, a2, a3, a4}
  BY <1>3, <1>4 DEF Ops
<1>10. ASSUME NEW c \in AddCells
       PROVE  Total(lg, Want(c)) = Total(log, Want(c)) + Pend(ups, c)
  <2>1. c # MinCell /\ c # MaxCell
    BY CellsDiffer DEF AddCells
  <2>2. IsFiniteSet(Want(c)) /\ Want(c) \subseteq Values
    BY ValuesFinite
  <2>3. Total(log, Want(c)) \in Nat
    BY <1>7, <2>2, TotalType
  <2>4. CASE v \in Want(c)
    <3>1. c = a3.cell \/ c = a4.cell
      BY <1>2, <2>4 DEF Want
    <3>2. Pend(ups, c) = n
      BY <1>2, <1>8, <1>9, <3>1, PendIs
    <3>3. /\ \A w \in Want(c) : log[w] \in Nat /\ lg[w] \in Nat
          /\ \A w \in Want(c) \ {v} : log[w] = lg[w]
      BY <1>5, <1>6, <1>7, <2>2
    <3>4. Total(lg, Want(c)) + log[v] = Total(log, Want(c)) + lg[v]
      BY <2>2, <2>4, <3>3, TotalAt
    <3>5. lg[v] = log[v] + n /\ log[v] \in Nat
      BY <1>0, <1>5, <1>7
    <3>6. Total(lg, Want(c)) \in Nat
      BY <2>2, <3>3, TotalType
    <3> DEFINE A == Total(lg, Want(c))
               B == Total(log, Want(c))
               d == log[v]
    <3> HIDE DEF A, B, d
    <3>7. A + d = B + (d + n)
      BY <3>4, <3>5 DEF A, B, d
    <3>8. A \in Nat /\ B \in Nat /\ d \in Nat
      BY <2>3, <3>5, <3>6 DEF A, B, d
    <3>9. A = B + n
      BY <1>0, <3>7, <3>8
    <3> QED BY <3>2, <3>9 DEF A, B
  <2>5. CASE v \notin Want(c)
    <3>1. c # a3.cell /\ c # a4.cell
      BY <1>0, <1>2, <2>5 DEF Want
    <3>2. \A u \in Ops(ups) : u.cell # c
      BY <1>2, <1>9, <2>1, <3>1
    <3>3. Pend(ups, c) = 0
      BY <1>8, <3>2, PendIs
    <3>4. \A w \in Want(c) : lg[w] = log[w]
      BY <1>5, <2>2, <2>5
    <3>5. Total(lg, Want(c)) = Total(log, Want(c))
      BY <3>4, TotalSame
    <3> QED BY <2>3, <3>3, <3>5
  <2> QED BY <2>4, <2>5
<1>11. \A w \in Values : lg[w] >= log[w]
  BY <1>0, <1>5, <1>7
<1>12. lg[v] > 0
  BY <1>0, <1>5, <1>7
<1>13. \A u \in Ops(ups) :
         /\ u.cell = MinCell => u.val = U64Max \/ (u.val \in Values /\ lg[u.val] > 0)
         /\ u.cell = MaxCell => u.val = 0 \/ (u.val \in Values /\ lg[u.val] > 0)
  BY <1>0, <1>2, <1>9, <1>12, CellsDiffer
<1>14. \A w \in Values : lg[w] > 0 =>
         \/ log[w] > 0
         \/ /\ \E u \in Ops(ups) : u.cell = MinCell /\ u.val <= w
            /\ \E u \in Ops(ups) : u.cell = MaxCell /\ u.val >= w
  <2> SUFFICES ASSUME NEW w \in Values, lg[w] > 0, ~(log[w] > 0)
               PROVE  /\ \E u \in Ops(ups) : u.cell = MinCell /\ u.val <= w
                      /\ \E u \in Ops(ups) : u.cell = MaxCell /\ u.val >= w
    OBVIOUS
  <2>1. w = v
    BY <1>5
  <2>2. v <= v /\ v >= v
    BY <1>0
  <2> QED BY <1>2, <1>9, <2>1, <2>2
<1>15. Fits(ups, lg)
  BY <1>3, <1>6, <1>8, <1>10, <1>11, <1>13, <1>14 DEF Fits
<1> QED BY <1>15 DEF ups, lg, a1, a2, a3, a4

\* merge adds one sample of each of Others.
LEMMA MergeFits ==
  ASSUME TypeInv
  PROVE  Fits([k \in 1 .. NumBuckets |->
                 Update("add", Bucket(k - 1), Cardinality({v \in Others : IndexOf(v) = k - 1}))]
              \o << Update("add", CountCell, Cardinality(Others)),
                    Update("min", MinCell, Min(Others \cup {U64Max})),
                    Update("max", MaxCell, Max(Others \cup {0})) >>,
              [v \in DOMAIN log |-> log[v] + IF v \in Others THEN 1 ELSE 0])
<1> DEFINE N == NumBuckets
           Cn(b) == Cardinality({v \in Others : IndexOf(v) = b})
           lo == Min(Others \cup {U64Max})
           hi == Max(Others \cup {0})
           m == [k \in 1 .. N |-> Update("add", Bucket(k - 1), Cn(k - 1))]
           b1 == Update("add", CountCell, Cardinality(Others))
           b2 == Update("min", MinCell, lo)
           b3 == Update("max", MaxCell, hi)
           e == <<b1, b2, b3>>
           ups == m \o e
           lg == [v \in DOMAIN log |-> log[v] + IF v \in Others THEN 1 ELSE 0]
<1>0. N \in Nat /\ U64Max \in Nat
  BY SketchAssumption, LayoutAssumption DEF NumBuckets, TypeInv
<1>1. Others \subseteq 0 .. U64Max /\ Others \subseteq Values
  BY SketchAssumption DEF Values
<1>2. IsFiniteSet(Others) /\ Cardinality(Others) \in Nat
  <2>1. IsFiniteSet(Others)
    BY <1>1, ValuesFinite, FS_Subset
  <2> QED BY <2>1, FS_CardinalityType
<1>3. \A b : Cn(b) \in Nat
  <2> SUFFICES ASSUME NEW b PROVE Cn(b) \in Nat
    OBVIOUS
  <2>1. {v \in Others : IndexOf(v) = b} \in SUBSET Others
    OBVIOUS
  <2> QED BY <1>2, <2>1, FS_Subset, FS_CardinalityType
<1>4. /\ lo \in Others \cup {U64Max} /\ \A v \in Others : lo <= v
      /\ hi \in Others \cup {0} /\ \A v \in Others : hi >= v
  BY <1>1, Extremes
<1> HIDE DEF Cn, lo, hi, N
<1>5. lo \in Nat /\ hi \in Nat
  <2>1. \A v \in Others : v \in Nat
    BY <1>1
  <2> QED BY <1>0, <1>4, <2>1
<1>6. \A v \in Values : lg[v] = log[v] + IF v \in Others THEN 1 ELSE 0
  BY DEF TypeInv
<1>7. lg \in [Values -> Nat] /\ \A v \in Values : log[v] \in Nat
  BY DEF TypeInv
<1>8. b1 \in Upd /\ b2 \in Upd /\ b3 \in Upd
  <2> DEFINE n == Cardinality(Others)
  <2>1. n \in Nat
    BY <1>2
  <2> HIDE DEF n
  <2>2. Update("add", CountCell, n) \in Upd
    BY <2>1, UpdatesOf
  <2> QED BY <1>5, <2>2, UpdatesOf DEF n
<1>9. /\ b1.kind = "add" /\ b1.cell = CountCell /\ b1.val = Cardinality(Others)
      /\ b2.kind = "min" /\ b2.cell = MinCell /\ b2.val = lo
      /\ b3.kind = "max" /\ b3.cell = MaxCell /\ b3.val = hi
  BY UpdatesOf
<1>10. m \in Seq(Upd) /\ Len(m) = N
  <2>1. \A k \in 1 .. N : k - 1 \in 0 .. N - 1
    BY <1>0
  <2>2. \A k \in 1 .. N : Update("add", Bucket(k - 1), Cn(k - 1)) \in Upd
    BY <1>3, <2>1, UpdatesOf DEF N
  <2>3. m \in [1 .. N -> Upd]
    BY <2>2
  <2> HIDE DEF m
  <2>4. m \in Seq(Upd)
    BY <1>0, <2>3, SeqDef
  <2>5. DOMAIN m = 1 .. N
    BY <2>3
  <2> QED BY <1>0, <2>4, <2>5
<1>11. \A k \in 1 .. N : /\ m[k].kind = "add" /\ m[k].cell = Bucket(k - 1)
                         /\ m[k].val = Cn(k - 1)
  BY UpdatesOf
<1> HIDE DEF b1, b2, b3, lg
<1>12. e \in Seq(Upd) /\ Len(e) = 3 /\ e[1] = b1 /\ e[2] = b2 /\ e[3] = b3
  BY <1>8
<1> HIDE DEF m, e
<1>13. /\ ups \in Seq(Upd) /\ Len(ups) = N + 3
       /\ \A i \in 1 .. N + 3 : ups[i] = IF i <= N THEN m[i] ELSE e[i - N]
  <2>1. /\ m \o e \in Seq(Upd) /\ Len(m \o e) = Len(m) + Len(e)
        /\ \A i \in 1 .. Len(m) + Len(e) :
             (m \o e)[i] = IF i <= Len(m) THEN m[i] ELSE e[i - Len(m)]
    BY <1>10, <1>12, ConcatProperties, ZenonT(60)
  <2> QED BY <1>10, <1>12, <2>1
<1> HIDE DEF ups
<1>14. DOMAIN ups = 1 .. N + 3
  BY <1>13
<1>15. /\ \A i \in 1 .. N : ups[i] = m[i] /\ i \in DOMAIN ups
       /\ ups[N + 1] = b1 /\ ups[N + 2] = b2 /\ ups[N + 3] = b3
       /\ N + 1 \in DOMAIN ups /\ N + 2 \in DOMAIN ups /\ N + 3 \in DOMAIN ups
  <2>1. N + 1 \in 1 .. N + 3 /\ ~(N + 1 <= N) /\ (N + 1) - N = 1
    BY <1>0
  <2>2. N + 2 \in 1 .. N + 3 /\ ~(N + 2 <= N) /\ (N + 2) - N = 2
    BY <1>0
  <2>3. N + 3 \in 1 .. N + 3 /\ ~(N + 3 <= N) /\ (N + 3) - N = 3
    BY <1>0
  <2>4. \A i \in 1 .. N : i \in 1 .. N + 3 /\ i <= N
    BY <1>0
  <2> QED BY <1>12, <1>13, <1>14, <2>1, <2>2, <2>3, <2>4
<1>16. \A i \in DOMAIN ups : i \in 1 .. N \/ i = N + 1 \/ i = N + 2 \/ i = N + 3
  BY <1>0, <1>14
<1>17. Neat(ups)
  <2>1. \A i \in DOMAIN ups : /\ ups[i].kind = "min" <=> ups[i].cell = MinCell
                              /\ ups[i].kind = "max" <=> ups[i].cell = MaxCell
    BY <1>9, <1>11, <1>15, <1>16, CellsDiffer
  <2>2. ASSUME NEW i \in DOMAIN ups, NEW j \in DOMAIN ups, ups[i].cell = ups[j].cell
        PROVE  i = j
    <3>1. CASE i \in 1 .. N /\ j \in 1 .. N
      <4>1. Bucket(i - 1) = Bucket(j - 1)
        BY <1>11, <1>15, <2>2, <3>1
      <4>2. i - 1 = j - 1
        BY <4>1, CellsDiffer
      <4> QED BY <1>0, <3>1, <4>2
    <3>2. CASE ~(i \in 1 .. N /\ j \in 1 .. N)
      BY <1>9, <1>11, <1>15, <1>16, <2>2, <3>2, CellsDiffer
    <3> QED BY <3>1, <3>2
  <2> QED BY <2>1, <2>2 DEF Neat
<1>18. b1 \in Ops(ups) /\ b2 \in Ops(ups) /\ b3 \in Ops(ups) /\ \A i \in 1 .. N : m[i] \in Ops(ups)
  BY <1>15 DEF Ops
<1>19. \A u \in Ops(ups) : u = b1 \/ u = b2 \/ u = b3 \/ \E i \in 1 .. N : u = m[i]
  BY <1>15, <1>16 DEF Ops
<1>20. ASSUME NEW c \in AddCells
       PROVE  Total(lg, Want(c)) = Total(log, Want(c)) + Pend(ups, c)
  <2>1. Pend(ups, c) = Cardinality(Want(c) \cap Others)
    <3>1. CASE c = CountCell
      <4>1. Want(c) \cap Others = Others
        BY <1>1, <3>1 DEF Want
      <4>2. Pend(ups, c) = Cardinality(Others)
        BY <1>9, <1>17, <1>18, <3>1, PendIs
      <4> QED BY <4>1, <4>2
    <3>2. CASE c # CountCell
      <4>1. PICK b \in 0 .. N - 1 : c = Bucket(b)
        BY <3>2 DEF AddCells, N
      <4>2. b + 1 \in 1 .. N /\ (b + 1) - 1 = b
        BY <1>0
      <4>3. m[b + 1].cell = c /\ m[b + 1].val = Cn(b)
        BY <1>11, <4>1, <4>2
      <4>4. Pend(ups, c) = Cn(b)
        BY <1>17, <1>18, <4>2, <4>3, PendIs
      <4>5. Want(c) \cap Others = {v \in Others : IndexOf(v) = b}
        BY <1>1, <3>2, <4>1, CellsDiffer DEF Want
      <4> QED BY <4>4, <4>5 DEF Cn
    <3> QED BY <3>1, <3>2
  <2>2. IsFiniteSet(Want(c)) /\ Want(c) \subseteq Values
    BY ValuesFinite
  <2>3. /\ \A v \in Want(c) : log[v] \in Nat
        /\ \A v \in Want(c) : lg[v] = log[v] + IF v \in Others THEN 1 ELSE 0
    BY <1>6, <1>7, <2>2
  <2>4. Total(lg, Want(c)) = Total(log, Want(c)) + Cardinality(Want(c) \cap Others)
    BY <2>2, <2>3, TotalPlus
  <2> QED BY <2>1, <2>4
<1>21. \A v \in Values : lg[v] >= log[v]
  BY <1>6, <1>7
<1>22. \A v \in Others : v \in Values /\ lg[v] > 0
  BY <1>1, <1>6, <1>7
<1>23. \A u \in Ops(ups) :
         /\ u.cell = MinCell => u.val = U64Max \/ (u.val \in Values /\ lg[u.val] > 0)
         /\ u.cell = MaxCell => u.val = 0 \/ (u.val \in Values /\ lg[u.val] > 0)
  <2> SUFFICES ASSUME NEW u \in Ops(ups)
               PROVE  /\ u.cell = MinCell => u.val = U64Max \/ (u.val \in Values /\ lg[u.val] > 0)
                      /\ u.cell = MaxCell => u.val = 0 \/ (u.val \in Values /\ lg[u.val] > 0)
    OBVIOUS
  <2>1. u.cell = MinCell => u.val = lo
    BY <1>9, <1>11, <1>19, CellsDiffer
  <2>2. u.cell = MaxCell => u.val = hi
    BY <1>9, <1>11, <1>19, CellsDiffer
  <2> QED BY <1>4, <1>22, <2>1, <2>2
<1>24. ASSUME NEW v \in Values, lg[v] > 0
       PROVE  \/ log[v] > 0
              \/ /\ \E u \in Ops(ups) : u.cell = MinCell /\ u.val <= v
                 /\ \E u \in Ops(ups) : u.cell = MaxCell /\ u.val >= v
  <2>1. CASE v \in Others
    BY <1>4, <1>9, <1>18, <2>1
  <2>2. CASE v \notin Others
    BY <1>6, <1>7, <1>24, <2>2
  <2> QED BY <2>1, <2>2
<1>25. Fits(ups, lg)
  BY <1>7, <1>13, <1>17, <1>20, <1>21, <1>23, <1>24 DEF Fits
<1> QED BY <1>25 DEF ups, lg, m, e, b1, b2, b3, lo, hi, Cn, N

\* The update u made to its cell.
Applied(u) ==
  sk' = [c \in Cells |->
           IF c # u.cell THEN sk[c]
           ELSE IF c = MinCell THEN Min({sk[c], u.val})
           ELSE IF c = MaxCell THEN Max({sk[c], u.val})
           ELSE Saturated(sk[c] + u.val)]

\* A thread makes the next of its updates.
LEMMA TakeInv ==
  ASSUME SketchInv, NEW th \in Users, todo[th] # <<>>, Applied(Head(todo[th])), Done(th),
         limit' = limit, log' = log
  PROVE  SketchInv'
<1> USE DEF SketchInv
<1> DEFINE s == todo[th]
           u == Head(s)
<1>1. s \in Seq(Upd) /\ s # <<>> /\ Neat(s)
  BY DEF TypeInv
<1> HIDE DEF s
<1>2. u \in Ops(s) /\ u.val \in Nat /\ Tail(s) \in Seq(Upd) /\ Neat(Tail(s))
  <2>1. u \in Upd
    BY <1>1, HeadTailProperties
  <2>2. u.val \in Nat
    BY <2>1 DEF Upd
  <2> QED BY <1>1, <2>2, OpsTail
<1>3. Applied(u) /\ todo' = [todo EXCEPT ![th] = Tail(s)]
  BY DEF s, Done
<1>4. /\ AddCells' = AddCells /\ Cells' = Cells /\ Upd' = Upd /\ \A c : Want(c)' = Want(c)
      /\ Present' = Present
  BY LayoutSame DEF Present
<1>5. /\ U64Max \in Nat /\ \A c \in Cells : sk[c] \in Nat /\ sk[c] <= U64Max
      /\ \A c : PendAll(c) \in Nat /\ Total(log, Want(c)) \in Nat
  BY Counting DEF Counted
<1>c. MinCell \in Cells /\ MaxCell \in Cells /\ AddCells \subseteq Cells
  BY DEF Cells
<1>6. \A x \in Ops(s) : x.cell = u.cell => x = u
  <2>1. \A x, y \in Ops(s) : x.cell = y.cell => x = y
    BY <1>1 DEF Ops, Neat
  <2> QED BY <1>2, <2>1
<1>7. \A w \in Users : Ops(todo'[w]) =
        IF w = th THEN {x \in Ops(s) : x.cell # u.cell} ELSE Ops(todo[w])
  <2>1. Ops(Tail(s)) = {x \in Ops(s) : x.cell # u.cell}
    BY <1>1, OpsTail
  <2>2. \A w \in Users : todo'[w] = IF w = th THEN Tail(s) ELSE todo[w]
    BY <1>3 DEF TypeInv
  <2> HIDE DEF u
  <2> QED BY <2>1, <2>2
<1>8. Present \subseteq Values /\ \A v \in Values : v \in Nat
  BY ValuesFinite DEF Present, TypeInv
<1>o. Ops(todo[th]) = Ops(s)
  BY DEF s
<1> HIDE DEF u
<1>9. TypeInv'
  <2>1. todo' \in [Users -> Seq(Upd)] /\ \A w \in Users : Neat(todo'[w])
    BY <1>2, <1>3 DEF TypeInv
  <2>2. \A c \in Cells : sk'[c] \in 0 .. U64Max
    <3> SUFFICES ASSUME NEW c \in Cells PROVE sk'[c] \in 0 .. U64Max
      OBVIOUS
    <3>0. sk[c] \in Nat /\ sk[c] <= U64Max /\ sk[c] + u.val \in Nat
      BY <1>2, <1>5
    <3>1. CASE c # u.cell
      <4>1. sk'[c] = sk[c]
        BY <1>3, <3>1 DEF Applied
      <4> QED BY <1>5, <3>0, <4>1
    <3>2. CASE c = u.cell /\ c = MinCell
      <4>1. sk'[c] = Min({sk[c], u.val})
        BY <1>3, <3>2 DEF Applied
      <4>2. Min({sk[c], u.val}) = IF sk[c] <= u.val THEN sk[c] ELSE u.val
        BY <1>2, <3>0, PairMinMax
      <4> QED BY <1>2, <1>5, <3>0, <4>1, <4>2
    <3>3. CASE c = u.cell /\ c = MaxCell
      <4>1. sk'[c] = Max({sk[c], u.val})
        BY <1>3, <3>3, CellsDiffer DEF Applied
      <4>2. Max({sk[c], u.val}) = IF sk[c] >= u.val THEN sk[c] ELSE u.val
        BY <1>2, <3>0, PairMinMax
      <4>3. u.val <= U64Max
        <5>1. u.val \in Present \cup {0}
          BY <1>2, <1>o, <3>3 DEF MaxInv
        <5>2. \A v \in Values : v <= U64Max
          BY ValuesFinite, <1>5
        <5> QED BY <1>5, <1>8, <5>1, <5>2
      <4> QED BY <1>2, <1>5, <3>0, <4>1, <4>2, <4>3
    <3>4. CASE c = u.cell /\ c # MinCell /\ c # MaxCell
      <4>1. sk'[c] = Saturated(sk[c] + u.val)
        BY <1>3, <3>4 DEF Applied
      <4>2. Saturated(sk[c] + u.val) = IF sk[c] + u.val <= U64Max THEN sk[c] + u.val ELSE U64Max
        BY <3>0, SaturatedIs
      <4> QED BY <1>5, <3>0, <4>1, <4>2
    <3> QED BY <3>1, <3>2, <3>3, <3>4
  <2>3. sk' \in [Cells -> 0 .. U64Max]
    <3>1. sk' = [c \in Cells |-> sk'[c]]
      BY <1>3 DEF Applied
    <3> QED BY <2>2, <3>1
  <2> QED BY <1>4, <2>1, <2>3 DEF TypeInv
<1>10. AddInv'
  <2> SUFFICES ASSUME NEW c \in AddCells
               PROVE  Saturated(sk'[c] + PendAll(c)') = Saturated(Total(log, Want(c)))
    BY <1>4 DEF AddInv
  <2> DEFINE k == sk[c]
             p == PendAll(c)
             q == PendAll(c)'
             a == Pend(s, c)
             b == Pend(Tail(s), c)
  <2>1. k \in Nat /\ k <= U64Max /\ p \in Nat /\ U64Max \in Nat
    BY <1>5, <1>c
  <2>2. q \in Nat
    <3>1. Counted'
      BY <1>9, Counting, PTL
    <3> QED BY <3>1 DEF Counted
  <2>3. q + a = p + b
    BY <1>2, <1>3, PendMoved DEF s
  <2>4. a \in Nat /\ b \in Nat
    BY <1>1, <1>2, PendNat
  <2>5. Saturated(k + p) = Saturated(Total(log, Want(c)))
    BY DEF AddInv
  <2>6. CASE c # u.cell
    <3>1. a = b
      BY <1>1, <2>6, PendTail DEF u
    <3>2. sk'[c] = k
      BY <1>3, <1>c, <2>6 DEF Applied
    <3> HIDE DEF k, p, q, a, b
    <3>3. q = p
      BY <2>1, <2>2, <2>3, <2>4, <3>1
    <3> QED BY <2>5, <3>2, <3>3 DEF q
  <2>7. CASE c = u.cell
    <3>1. a = u.val /\ b = 0
      BY <1>1, <2>7, PendTail DEF u
    <3>2. sk'[c] = Saturated(k + u.val)
      <4>1. c # MinCell /\ c # MaxCell
        BY CellsDiffer DEF AddCells
      <4> QED BY <1>3, <1>c, <2>7, <4>1 DEF Applied
    <3> HIDE DEF k, p, q, a, b
    <3>3. p = q + a
      BY <2>1, <2>2, <2>3, <2>4, <3>1
    <3>4. k + a \in Nat /\ k + p \in Nat
      BY <2>1, <2>4
    <3> DEFINE z == Saturated(k + a)
    <3>5. z = (IF k + a <= U64Max THEN k + a ELSE U64Max)
      BY <3>4, SaturatedIs
    <3> HIDE DEF z
    <3>6. z \in Nat /\ z + q \in Nat
      BY <2>1, <2>2, <3>4, <3>5
    <3>7. Saturated(z + q) = IF z + q <= U64Max THEN z + q ELSE U64Max
      BY <3>6, SaturatedIs
    <3>8. Saturated(k + p) = IF k + p <= U64Max THEN k + p ELSE U64Max
      BY <3>4, SaturatedIs
    <3>9. Saturated(z + q) = Saturated(k + p)
      BY <2>1, <2>2, <2>4, <3>3, <3>5, <3>7, <3>8
    <3> QED BY <2>5, <3>1, <3>2, <3>9 DEF z, q
  <2> QED BY <2>6, <2>7
<1>m. sk[MinCell] \in Nat /\ sk[MaxCell] \in Nat
  BY <1>5, <1>c
<1>11. MinInv'
  <2>1. sk'[MinCell] = IF u.cell = MinCell /\ u.val <= sk[MinCell] THEN u.val ELSE sk[MinCell]
    <3>1. CASE u.cell = MinCell
      <4>1. sk'[MinCell] = Min({sk[MinCell], u.val})
        BY <1>3, <1>c, <3>1, CellsDiffer DEF Applied
      <4> QED BY <1>2, <1>m, <3>1, <4>1, PairMinMax
    <3>2. CASE u.cell # MinCell
      BY <1>3, <1>c, <3>2 DEF Applied
    <3> QED BY <3>1, <3>2
  <2>2. sk'[MinCell] \in Present \cup {U64Max}
    BY <1>2, <1>o, <2>1 DEF MinInv
  <2>3. \A w \in Users : \A x \in Ops(todo'[w]) :
          x.cell = MinCell => x.val \in Present \cup {U64Max}
    BY <1>7, <1>o DEF MinInv
  <2>4. ASSUME NEW v \in Present
        PROVE  \/ sk'[MinCell] <= v
               \/ \E w \in Users : \E x \in Ops(todo'[w]) : x.cell = MinCell /\ x.val <= v
    <3>0. v \in Nat
      BY <1>8
    <3>1. CASE sk[MinCell] <= v
      <4>1. \A a, b, d \in Nat : a <= b /\ b <= d => a <= d
        OBVIOUS
      <4> QED BY <1>2, <1>m, <2>1, <3>0, <3>1, <4>1
    <3>2. CASE \E w \in Users : \E x \in Ops(todo[w]) : x.cell = MinCell /\ x.val <= v
      <4>1. PICK w \in Users, x \in UNION {Ops(todo[q]) : q \in Users} :
              x \in Ops(todo[w]) /\ x.cell = MinCell /\ x.val <= v
        BY <3>2
      <4>2. CASE w = th /\ u.cell = MinCell
        <5>1. x = u
          BY <1>2, <1>6, <1>o, <4>1, <4>2
        <5>2. sk'[MinCell] <= u.val
          <6>1. \A a, b \in Nat : (a <= b \/ b <= a) /\ a <= a
            OBVIOUS
          <6> QED BY <1>2, <1>m, <2>1, <4>2, <6>1
        <5>3. \A a, b, d \in Nat : a <= b /\ b <= d => a <= d
          OBVIOUS
        <5>4. sk'[MinCell] \in Nat
          BY <1>2, <1>m, <2>1
        <5> QED BY <1>2, <3>0, <4>1, <5>1, <5>2, <5>3, <5>4
      <4>3. CASE w = th /\ u.cell # MinCell
        BY <1>7, <1>o, <4>1, <4>3
      <4>4. CASE w # th
        BY <1>7, <4>1, <4>4
      <4> QED BY <4>2, <4>3, <4>4
    <3> QED BY <3>1, <3>2 DEF MinInv
  <2> QED BY <1>4, <2>2, <2>3, <2>4 DEF MinInv
<1>12. MaxInv'
  <2>1. sk'[MaxCell] = IF u.cell = MaxCell /\ u.val >= sk[MaxCell] THEN u.val ELSE sk[MaxCell]
    <3>1. CASE u.cell = MaxCell
      <4>1. sk'[MaxCell] = Max({sk[MaxCell], u.val})
        BY <1>3, <1>c, <3>1, CellsDiffer DEF Applied
      <4> QED BY <1>2, <1>m, <3>1, <4>1, PairMinMax
    <3>2. CASE u.cell # MaxCell
      BY <1>3, <1>c, <3>2 DEF Applied
    <3> QED BY <3>1, <3>2
  <2>2. sk'[MaxCell] \in Present \cup {0}
    BY <1>2, <1>o, <2>1 DEF MaxInv
  <2>3. \A w \in Users : \A x \in Ops(todo'[w]) :
          x.cell = MaxCell => x.val \in Present \cup {0}
    BY <1>7, <1>o DEF MaxInv
  <2>4. ASSUME NEW v \in Present
        PROVE  \/ sk'[MaxCell] >= v
               \/ \E w \in Users : \E x \in Ops(todo'[w]) : x.cell = MaxCell /\ x.val >= v
    <3>0. v \in Nat
      BY <1>8
    <3>1. CASE sk[MaxCell] >= v
      <4>1. \A a, b, d \in Nat : a >= b /\ b >= d => a >= d
        OBVIOUS
      <4> QED BY <1>2, <1>m, <2>1, <3>0, <3>1, <4>1
    <3>2. CASE \E w \in Users : \E x \in Ops(todo[w]) : x.cell = MaxCell /\ x.val >= v
      <4>1. PICK w \in Users, x \in UNION {Ops(todo[q]) : q \in Users} :
              x \in Ops(todo[w]) /\ x.cell = MaxCell /\ x.val >= v
        BY <3>2
      <4>2. CASE w = th /\ u.cell = MaxCell
        <5>1. x = u
          BY <1>2, <1>6, <1>o, <4>1, <4>2
        <5>2. sk'[MaxCell] >= u.val
          <6>1. \A a, b \in Nat : (a >= b \/ b >= a) /\ a >= a
            OBVIOUS
          <6> QED BY <1>2, <1>m, <2>1, <4>2, <6>1
        <5>3. \A a, b, d \in Nat : a >= b /\ b >= d => a >= d
          OBVIOUS
        <5>4. sk'[MaxCell] \in Nat
          BY <1>2, <1>m, <2>1
        <5> QED BY <1>2, <3>0, <4>1, <5>1, <5>2, <5>3, <5>4
      <4>3. CASE w = th /\ u.cell # MaxCell
        BY <1>7, <1>o, <4>1, <4>3
      <4>4. CASE w # th
        BY <1>7, <4>1, <4>4
      <4> QED BY <4>2, <4>3, <4>4
    <3> QED BY <3>1, <3>2 DEF MaxInv
  <2> QED BY <1>4, <2>2, <2>3, <2>4 DEF MaxInv
<1> QED BY <1>9, <1>10, <1>11, <1>12

\* The invariant is about the sketch, the lists and the log.
LEMMA SameInv ==
  ASSUME SketchInv, UNCHANGED <<limit, sk, todo, log>>
  PROVE  SketchInv'
<1>1. AddCells' = AddCells /\ Cells' = Cells /\ Upd' = Upd /\ \A c : Want(c)' = Want(c)
  BY LayoutSame
<1>2. Present' = Present /\ \A c : PendAll(c)' = PendAll(c)
  BY DEF Present, PendAll
<1>3. TypeInv'
  BY <1>1 DEF SketchInv, TypeInv
<1>4. AddInv'
  BY <1>1, <1>2 DEF SketchInv, AddInv
<1>5. MinInv' /\ MaxInv'
  BY <1>2 DEF SketchInv, MinInv, MaxInv
<1> QED BY <1>3, <1>4, <1>5 DEF SketchInv

\* Every step a thread makes with a reference to the sketch.
LEMMA SketchStepInv ==
  ASSUME SketchInv, 0 \notin Counts, NEW th \in Users, SketchStep(th)
  PROVE  SketchInv'
<1>t. TypeInv
  BY DEF SketchInv
<1>1. ASSUME NEW v \in Samples, NEW n \in Counts, InsertN(th, v, n) PROVE SketchInv'
  BY <1>1, <1>t, InsertFits, BeginInv DEF InsertN
<1>2. CASE Merge(th)
  BY <1>2, <1>t, MergeFits, BeginInv DEF Merge
<1>3. CASE Clear(th)
  <2>1. Blank'
    <3>1. limit' = limit /\ NumBuckets' = NumBuckets
      BY <1>3, LayoutSame DEF Clear
    <3>2. sk' = Fresh'
      BY <1>3, <3>1 DEF Clear, Fresh
    <3>3. todo' = [u \in Users |-> <<>>]
      BY <1>3, <1>t DEF Clear, TypeInv
    <3>4. log' = [v \in Values |-> 0]
      BY <1>3, <1>t DEF Clear, TypeInv
    <3> QED BY <1>t, <3>1, <3>2, <3>3, <3>4 DEF Blank, TypeInv
  <2> QED BY <2>1, BlankInv, PTL
<1> DEFINE u == Head(todo[th])
<1>u. todo[th] # <<>> => u \in Upd /\ u.val \in Nat /\ u.kind \in {"min", "max", "add"}
                         /\ (u.kind = "min" <=> u.cell = MinCell)
                         /\ (u.kind = "max" <=> u.cell = MaxCell)
  <2> SUFFICES ASSUME todo[th] # <<>>
               PROVE  u \in Upd /\ u.val \in Nat /\ u.kind \in {"min", "max", "add"}
                      /\ (u.kind = "min" <=> u.cell = MinCell)
                      /\ (u.kind = "max" <=> u.cell = MaxCell)
    OBVIOUS
  <2>1. todo[th] \in Seq(Upd) /\ Neat(todo[th])
    BY <1>t DEF TypeInv
  <2>2. u \in Upd
    BY <2>1, HeadTailProperties
  <2>3. u = todo[th][1] /\ 1 \in DOMAIN todo[th]
    BY <2>1
  <2> QED BY <2>1, <2>2, <2>3 DEF Upd, Neat
<1>d. DOMAIN sk = Cells /\ \A c \in Cells : sk[c] \in Nat
  BY <1>t, Counting DEF Counted, TypeInv
<1>4. CASE FetchMinMax(th)
  <2>1. /\ todo[th] # <<>> /\ u.kind \in {"min", "max"} /\ limit' = limit /\ log' = log
        /\ Done(th)
    BY <1>4 DEF FetchMinMax, Now
  <2>2. sk' = [sk EXCEPT ![u.cell] =
                 IF u.kind = "min" THEN Min({@, u.val}) ELSE Max({@, u.val})]
    BY <1>4 DEF FetchMinMax, Now
  <2>3. Applied(u)
    <3> HIDE DEF u
    <3>1. sk' = [c \in Cells |-> IF c # u.cell THEN sk[c]
                   ELSE IF u.kind = "min" THEN Min({sk[c], u.val}) ELSE Max({sk[c], u.val})]
      BY <1>d, <2>2
    <3>2. CASE u.kind = "min"
      <4>1. u.cell = MinCell
        BY <1>u, <2>1, <3>2
      <4> QED BY <3>1, <3>2, <4>1 DEF Applied
    <3>3. CASE u.kind = "max"
      <4>1. u.cell = MaxCell /\ u.cell # MinCell
        BY <1>u, <2>1, <3>3, CellsDiffer
      <4> QED BY <3>1, <3>3, <4>1 DEF Applied
    <3> QED BY <2>1, <3>2, <3>3
  <2> QED BY <2>1, <2>3, TakeInv
<1>5. CASE AddLoad(th)
  BY <1>5, SameInv DEF AddLoad
<1>6. CASE AddCas(th)
  <2>1. CASE sk[u.cell] # expected[th]
    BY <1>6, <2>1, SameInv DEF AddCas, Now
  <2>2. CASE sk[u.cell] = expected[th]
    <3>1. /\ todo[th] # <<>> /\ u.kind = "add" /\ limit' = limit /\ log' = log /\ Done(th)
      BY <1>6, <2>2 DEF AddCas, Now
    <3>2. sk' = [sk EXCEPT ![u.cell] = Min({U64Max, @ + u.val})]
      BY <1>6, <2>2 DEF AddCas, Now
    <3>3. u.cell # MinCell /\ u.cell # MaxCell /\ u.val \in Nat
      BY <1>u, <3>1
    <3>4. Applied(u)
      <4> HIDE DEF u
      <4>1. sk' = [c \in Cells |-> IF c # u.cell THEN sk[c] ELSE Min({U64Max, sk[c] + u.val})]
        BY <1>d, <3>2
      <4>2. \A c \in Cells : Min({U64Max, sk[c] + u.val}) = Saturated(sk[c] + u.val)
        <5> SUFFICES ASSUME NEW c \in Cells
                     PROVE  Min({U64Max, sk[c] + u.val}) = Saturated(sk[c] + u.val)
          OBVIOUS
        <5>1. sk[c] + u.val \in Nat
          BY <1>d, <3>3
        <5> QED BY <5>1, SaturatedIs
      <4>3. sk' = [c \in Cells |-> IF c # u.cell THEN sk[c] ELSE Saturated(sk[c] + u.val)]
        BY <4>1, <4>2
      <4> QED BY <3>3, <4>3 DEF Applied
    <3> QED BY <3>1, <3>4, TakeInv
  <2> QED BY <2>1, <2>2
<1> QED BY <1>1, <1>2, <1>3, <1>4, <1>5, <1>6 DEF SketchStep

-----------------------------------------------------------------------------
(* The metric: the sketch in its lazily initialised cell.                  *)

\* The metric uses its cell only as LazyCell allows: what is proved of the cell
\* holds of every metric.
THEOREM MetricUsesCell == MetricSpec => Spec
<1>1. MetricInit => Init
  BY DEF MetricInit
<1>2. [MetricNext]_metricVars => [Next]_vars
  <2> SUFFICES ASSUME [MetricNext]_metricVars PROVE [Next]_vars
    OBVIOUS
  <2>1. ASSUME NEW th \in Threads, Construct(th) \/ CellStep(th) PROVE Next
    BY <2>1 DEF Construct, CellStep, Next, Step, Shared
  <2>2. ASSUME NEW th \in Threads, Use(th) PROVE UNCHANGED vars
    BY <2>2 DEF Use
  <2>3. CASE Owner
    BY <2>3 DEF Owner, Next
  <2>4. CASE UNCHANGED metricVars
    BY <2>4 DEF metricVars
  <2> QED BY <2>1, <2>2, <2>3, <2>4 DEF MetricNext
<1> QED BY <1>1, <1>2, PTL DEF MetricSpec, Spec

\* A metric nobody has forced yet.
LEMMA MetricInitInv == MetricInit => MetricInv
<1> SUFFICES ASSUME MetricInit PROVE MetricInv
  OBVIOUS
<1>1. IInv
  BY InitInv DEF MetricInit
<1>2. Blank
  BY DEF MetricInit, SketchInit, Blank, Values
<1>3. SketchInv
  BY <1>2, BlankInv
<1>4. LateInv
  BY <1>2 DEF LateInv, Blank
<1> QED BY <1>1, <1>3, <1>4 DEF MetricInv

\* DDSketch::new in a cell nobody has used.
LEMMA NewInv ==
  ASSUME SketchInv, LateInv, state \in {"UNINIT", "INIT_IN_PROGRESS"}, SketchNew
  PROVE  SketchInv' /\ LateInv'
<1>1. todo' = [th \in Users |-> <<>>] /\ log' = [v \in Values |-> 0] /\ limit' = limit
  BY DEF LateInv, SketchNew
<1>2. sk' = Fresh'
  BY <1>1, LayoutSame DEF SketchNew, Fresh
<1>3. Blank'
  BY <1>1, <1>2 DEF Blank, SketchInv, TypeInv
<1>4. SketchInv'
  BY <1>3, BlankInv, PTL
<1> QED BY <1>1, <1>4 DEF LateInv

\* Every step of the metric keeps the invariant.
LEMMA MetricStepInv ==
  ASSUME 0 \notin Counts, MetricInv, [MetricNext]_metricVars
  PROVE  MetricInv'
<1> USE DEF MetricInv
<1>u. Users = Threads
  BY SameThreads
<1>1. ASSUME NEW th \in Threads, Construct(th) PROVE MetricInv'
  <2>1. IInv'
    BY <1>1, StepInv DEF Construct, Step, Shared
  <2>2. state = "INIT_IN_PROGRESS"
    BY <1>1 DEF Construct, WriteValue, IInv, ThreadInv, Working
  <2> QED BY <1>1, <2>1, <2>2, NewInv DEF Construct
<1>2. ASSUME NEW th \in Threads, CellStep(th) PROVE MetricInv'
  <2>1. IInv'
    BY <1>2, StepInv DEF CellStep
  <2>2. SketchInv'
    BY <1>2, SameInv DEF CellStep, sketchVars
  <2>3. state' \in {"UNINIT", "INIT_IN_PROGRESS"} => state \in {"UNINIT", "INIT_IN_PROGRESS"}
    BY <1>2 DEF CellStep, Step, Shared, InitCas, FuncReturns, FuncPanics, WriteValue, Publish,
                Spin, Get, ForceLoad, Release, cell
  <2>4. LateInv'
    BY <1>2, <2>3 DEF LateInv, CellStep, sketchVars
  <2> QED BY <2>1, <2>2, <2>4
<1>3. ASSUME NEW th \in Threads, Use(th) PROVE MetricInv'
  <2>1. IInv'
    BY <1>3 DEF Use, vars, IInv, TypeOK, CellInv, ThreadInv, OneWorker
  <2>2. SketchInv'
    BY <1>3, <1>u, SketchStepInv DEF Use
  <2>3. state = "INIT" /\ state' = state
    BY <1>3 DEF Use, vars, IInv, ThreadInv
  <2>4. LateInv'
    BY <2>3 DEF LateInv
  <2> QED BY <2>1, <2>2, <2>4
<1>4. CASE Owner
  <2>1. IInv'
    BY <1>4, OwnerInv DEF Owner
  <2>2. CASE ForceMut /\ SketchNew
    BY <2>1, <2>2, NewInv DEF ForceMut
  <2>3. CASE (ForceMutPanics \/ DropCell \/ IntoInner) /\ UNCHANGED sketchVars
    <3>1. SketchInv'
      BY <2>3, SameInv DEF sketchVars
    <3>2. state' \in {"UNINIT", "INIT_IN_PROGRESS"} => state \in {"UNINIT", "INIT_IN_PROGRESS"}
      BY <2>3 DEF ForceMutPanics, DropCell, IntoInner
    <3>3. LateInv'
      BY <2>3, <3>2 DEF LateInv, sketchVars
    <3> QED BY <2>1, <3>1, <3>3
  <2> QED BY <1>4, <2>2, <2>3 DEF Owner
<1>5. CASE UNCHANGED metricVars
  <2>1. UNCHANGED vars /\ UNCHANGED sketchVars
    BY <1>5 DEF metricVars
  <2>2. IInv'
    BY <2>1 DEF vars, IInv, TypeOK, CellInv, ThreadInv, OneWorker
  <2>3. SketchInv'
    BY <2>1, SameInv DEF sketchVars
  <2>4. LateInv'
    BY <2>1 DEF LateInv, vars, sketchVars
  <2> QED BY <2>2, <2>3, <2>4
<1> QED BY <1>1, <1>2, <1>3, <1>4, <1>5 DEF MetricNext

\* The invariant holds in every reachable state of the metric.
THEOREM MetricInvariance == 0 \notin Counts => (MetricSpec => []MetricInv)
<1> SUFFICES ASSUME 0 \notin Counts PROVE MetricSpec => []MetricInv
  OBVIOUS
<1>1. MetricInv /\ [MetricNext]_metricVars => MetricInv'
  BY MetricStepInv
<1> QED BY MetricInitInv, <1>1, PTL DEF MetricSpec

\* Counting the samples of the values that are there counts all samples.
LEMMA InsertedIs ==
  ASSUME log \in [Values -> Nat], NEW S \in SUBSET Values
  PROVE  Inserted({v \in Present : v \in S}) = Total(log, S)
<1>1. \A v \in Values : v \in Present <=> log[v] # 0
  BY DEF Present
<1>2. Pairs(log, {v \in Present : v \in S}) = Pairs(log, S)
  <2> DEFINE T == {v \in Present : v \in S}
  <2>1. ASSUME NEW p \in Pairs(log, T) PROVE p \in Pairs(log, S)
    <3>1. PICK x \in T, k \in Nat : k \in 1 .. log[x] /\ p = <<x, k>>
      BY PairsHas
    <3> QED BY <3>1, PairsHas
  <2>2. ASSUME NEW p \in Pairs(log, S) PROVE p \in Pairs(log, T)
    <3>1. PICK x \in S, k \in Nat : k \in 1 .. log[x] /\ p = <<x, k>>
      BY PairsHas
    <3>2. x \in T
      BY <1>1, <3>1
    <3> QED BY <3>1, <3>2, PairsHas
  <2> QED BY <2>1, <2>2
<1> QED BY <1>2 DEF Inserted, Total, Pairs

\* With nothing pending the invariant is what the queries rely on.
LEMMA IdleComplete ==
  ASSUME SketchInv, Idle
  PROVE  Complete
<1>0. \A th \in Users : todo[th] = <<>> /\ Ops(todo[th]) = {}
  BY EmptyList DEF Idle
<1>1. ASSUME NEW c \in AddCells PROVE sk[c] = Saturated(Total(log, Want(c)))
  <2>1. PendAll(c) = 0
    <3> DEFINE f == [th \in Users |-> Pend(todo[th], c)]
    <3>1. \A th \in Users : f[th] = 0
      BY <1>0, EmptyList
    <3> HIDE DEF f
    <3>2. Total(f, Users) = 0
      BY <3>1, TotalZero
    <3> QED BY <3>2 DEF PendAll, f
  <2>2. sk[c] \in Nat /\ sk[c] <= U64Max /\ U64Max \in Nat
    BY Counting DEF Counted, SketchInv, Cells
  <2>3. Saturated(sk[c]) = sk[c]
    BY <2>2, SaturatedIs
  <2>4. Saturated(sk[c] + 0) = Saturated(Total(log, Want(c)))
    BY <2>1 DEF SketchInv, AddInv
  <2> QED BY <2>2, <2>3, <2>4
<1>2. log \in [Values -> Nat] /\ Present \subseteq Values
  BY DEF SketchInv, TypeInv, Present
<1>3. sk[CountCell] = Saturated(Inserted(Present))
  <2>1. CountCell \in AddCells /\ Want(CountCell) = Values
    BY DEF AddCells, Want
  <2>2. Inserted({v \in Present : v \in Values}) = Total(log, Values)
    BY <1>2, InsertedIs
  <2>3. {v \in Present : v \in Values} = Present
    BY <1>2
  <2> QED BY <1>1, <2>1, <2>2, <2>3
<1>4. ASSUME NEW b \in 0 .. NumBuckets - 1
      PROVE  sk[Bucket(b)] = Saturated(Inserted({v \in Present : IndexOf(v) = b}))
  <2> DEFINE W == Want(Bucket(b))
  <2>1. Bucket(b) \in AddCells /\ W \in SUBSET Values
    BY ValuesFinite DEF AddCells
  <2>2. Inserted({v \in Present : v \in W}) = Total(log, W)
    BY <1>2, <2>1, InsertedIs
  <2>3. {v \in Present : v \in W} = {v \in Present : IndexOf(v) = b}
    BY <1>2, CellsDiffer DEF Want
  <2> QED BY <1>1, <2>1, <2>2, <2>3
<1>5. Present \subseteq 0 .. U64Max /\ U64Max \in Nat
  BY <1>2, ValuesFinite, SketchAssumption
<1>6. sk[MinCell] = Min(Present \cup {U64Max})
  <2> DEFINE T == Present \cup {U64Max}
  <2>1. T \subseteq Nat /\ sk[MinCell] \in T
    BY <1>5 DEF SketchInv, MinInv
  <2>2. \A v \in Present : sk[MinCell] <= v
    BY <1>0 DEF SketchInv, MinInv
  <2>3. sk[MinCell] <= U64Max
    BY Counting DEF Counted, SketchInv, Cells
  <2>4. \A v \in T : sk[MinCell] <= v
    BY <2>2, <2>3
  <2> HIDE DEF T
  <2>5. Min(T) = sk[MinCell]
    BY <2>1, <2>4, MinIs
  <2> QED BY <2>5 DEF T
<1>7. sk[MaxCell] = Max(Present \cup {0})
  <2> DEFINE T == Present \cup {0}
  <2>1. T \subseteq Nat /\ sk[MaxCell] \in T
    BY <1>5 DEF SketchInv, MaxInv
  <2>2. \A v \in Present : sk[MaxCell] >= v
    BY <1>0 DEF SketchInv, MaxInv
  <2>3. sk[MaxCell] >= 0
    BY <2>1
  <2>4. \A v \in T : sk[MaxCell] >= v
    BY <2>2, <2>3
  <2> HIDE DEF T
  <2>5. Max(T) = sk[MaxCell]
    BY <2>1, <2>4, MaxIs
  <2> QED BY <2>5 DEF T
<1> QED BY <1>3, <1>4, <1>6, <1>7 DEF Complete

\* However the threads race to initialise the metric and to update it, a sketch
\* at rest holds every sample in its bucket and its count, cut at u64::MAX, and
\* the exact min and max.  insert_n of no samples is left out: it moves min and
\* max and counts nothing.
THEOREM NoSampleLost == 0 \notin Counts => (MetricSpec => []NothingLost)
<1> SUFFICES ASSUME 0 \notin Counts PROVE MetricSpec => []NothingLost
  OBVIOUS
<1>1. MetricInv => NothingLost
  BY IdleComplete DEF MetricInv, NothingLost, Settled
<1>2. MetricSpec => []MetricInv
  BY MetricInvariance
<1> QED BY <1>1, <1>2, PTL
=============================================================================
