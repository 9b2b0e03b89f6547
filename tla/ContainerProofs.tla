--------------------------- MODULE ContainerProofs ---------------------------
(***************************************************************************)
(* Machine-checked facts about the containers of hamerkop: the free-list   *)
(* slot map, for every slab size and every limit, and the vectors of fixed *)
(* capacity, for every capacity and any number of vectors and elements.    *)
(***************************************************************************)
EXTENDS StableSlotmap, FixedVec, Integers, FiniteSetTheorems, SequenceTheorems,
        WellFoundedInduction, TLAPS

-----------------------------------------------------------------------------
(* The slot map.                                                           *)

\* The inductive invariant.  None of the parts is inductive alone: insert
\* keeps live elements only because the free list is exact, and the map stays
\* within its limit only because it expands when size already equals NSlots.
IInv ==
  /\ TypeOK
  /\ NeverUnreachable
  /\ FreeListExact
  /\ SizeIsCount
  /\ nslabs <= MaxSlabs

-----------------------------------------------------------------------------
\* Multiplying by the slab size: the arithmetic of flat indices.
LEMMA SlabArith ==
  ASSUME NEW n \in Nat
  PROVE  /\ n * SLABSIZE \in Nat
         /\ (n + 1) * SLABSIZE = n * SLABSIZE + SLABSIZE
BY SlotmapAssumption

\* Fewer slabs hold fewer entries.
LEMMA SlabMonotone ==
  ASSUME NEW m \in Nat, NEW n \in Nat, m <= n
  PROVE  m * SLABSIZE <= n * SLABSIZE
<1>1. PICK d \in Nat : n = m + d
  BY n - m \in Nat, n = m + (n - m)
<1>2. d * SLABSIZE \in Nat /\ m * SLABSIZE \in Nat
  BY SlabArith, <1>1
<1>3. (m + d) * SLABSIZE = m * SLABSIZE + d * SLABSIZE
  BY <1>1, SlotmapAssumption
<1>. QED
  BY <1>1, <1>2, <1>3

\* Every slot is live or vacant, never both.
LEMMA LiveOrVacant ==
  ASSUME TypeOK
  PROVE  /\ Slots = Live \cup Vacant
         /\ Live \cap Vacant = {}
         /\ \A i \in Vacant : slots[i].next \in Nat \cup {SENTINEL}
         /\ \A i \in Live : slots[i].value \in Values
BY DEF TypeOK, Live, Vacant, Entry

\* NSlots slots, finitely many.
LEMMA SlotsFinite ==
  ASSUME nslabs \in Nat
  PROVE  /\ NSlots \in Nat
         /\ IsFiniteSet(Slots)
         /\ Cardinality(Slots) = NSlots
<1>1. NSlots \in Nat
  BY SlabArith DEF NSlots
<1>2. IsFiniteSet(0 .. NSlots - 1)
      /\ Cardinality(0 .. NSlots - 1) = IF 0 > NSlots - 1 THEN 0 ELSE NSlots - 1 - 0 + 1
  BY <1>1, FS_Interval
<1>. QED
  BY <1>1, <1>2 DEF Slots

\* An injection from 1..m into the slots shows m <= NSlots.
LEMMA Pigeonhole ==
  ASSUME nslabs \in Nat, NEW m \in Nat, NEW f \in [1 .. m -> Slots],
         \A j, k \in 1 .. m : f[j] = f[k] => j = k
  PROVE  m <= NSlots
<1>1. IsFiniteSet(1 .. m) /\ Cardinality(1 .. m) = m
  BY FS_Interval
<1>2. SUFFICES ASSUME NSlots < m PROVE FALSE
  BY SlotsFinite
<1>3. \E x, y \in 1 .. m : x # y /\ f[x] = f[y]
  BY <1>1, <1>2, SlotsFinite, FS_PigeonHole
<1>. QED
  BY <1>3
-----------------------------------------------------------------------------
\* An empty free list means that no entry is vacant, so size is NSlots.
LEMMA FullWhenNoHead ==
  ASSUME IInv, head = SENTINEL
  PROVE  Vacant = {} /\ Live = Slots /\ size = NSlots
<1>1. PICK n \in 0 .. NSlots : \E f \in [1 .. n -> Vacant] : IsFreeList(n, f)
  BY DEF IInv, FreeListExact
<1>2. PICK f \in [1 .. n -> Vacant] : IsFreeList(n, f)
  BY <1>1
<1>3. NSlots \in Nat
  BY SlotsFinite DEF IInv, TypeOK
<1>4. n = 0
  <2>. SUFFICES ASSUME n # 0 PROVE FALSE
    OBVIOUS
  <2>1. f[1] \in Vacant /\ head = f[1]
    BY <1>2, <1>3 DEF IsFreeList
  <2>. QED
    BY <2>1, <1>3, SlotmapAssumption DEF Vacant, Slots
<1>5. Vacant = {}
  BY <1>2, <1>4 DEF IsFreeList
<1>. QED
  BY <1>5, LiveOrVacant, SlotsFinite DEF IInv, SizeIsCount, TypeOK

\* A head that is not the sentinel is a vacant entry: insert may take it.
LEMMA HeadVacant ==
  ASSUME IInv, head # SENTINEL
  PROVE  head \in Vacant
<1>1. PICK n \in 0 .. NSlots : \E f \in [1 .. n -> Vacant] : IsFreeList(n, f)
  BY DEF IInv, FreeListExact
<1>2. PICK f \in [1 .. n -> Vacant] : IsFreeList(n, f)
  BY <1>1
<1>3. NSlots \in Nat
  BY SlotsFinite DEF IInv, TypeOK
<1>. QED
  BY <1>2, <1>3 DEF IsFreeList
-----------------------------------------------------------------------------
\* Init establishes the inductive invariant.
LEMMA InitIInv == Init => IInv
<1>. SUFFICES ASSUME Init PROVE IInv
  OBVIOUS
<1>1. 0 * SLABSIZE = 0
  BY SlotmapAssumption
<1>2. NSlots = 0 /\ Slots = {} /\ Live = {} /\ Vacant = {}
  BY <1>1 DEF Init, NSlots, Slots, Live, Vacant
<1>3. TypeOK
  BY <1>1, <1>2 DEF Init, TypeOK, Returned
<1>4. FreeListExact
  <2>. DEFINE f == [j \in 1 .. 0 |-> 0]
  <2>1. f \in [1 .. 0 -> Vacant]
    OBVIOUS
  <2>2. IsFreeList(0, f)
    BY <1>2 DEF IsFreeList, Init
  <2>3. 0 \in 0 .. NSlots
    BY <1>2
  <2>. HIDE DEF f
  <2>. QED
    BY <2>1, <2>2, <2>3 DEF FreeListExact
<1>5. SizeIsCount
  BY <1>2, FS_EmptySet DEF SizeIsCount, Init
<1>. QED
  BY <1>3, <1>4, <1>5, SlotmapAssumption DEF IInv, NeverUnreachable, Init

\* insert at a vacant head preserves the invariant.
LEMMA InsertVacantIInv ==
  ASSUME IInv, NEW v \in Values, InsertVacant(v)
  PROVE  IInv'
<1>. USE DEF IInv
<1>1. head \in Vacant
  BY HeadVacant DEF InsertVacant
<1>2. /\ nslabs' = nslabs
      /\ slots' = [slots EXCEPT ![head] = Element(v)]
      /\ head' = slots[head].next
      /\ size' = size + 1
      /\ ret' = [op |-> "insert", index |-> head, value |-> v]
  BY <1>1 DEF InsertVacant, Take, Vacant
<1>3. NSlots' = NSlots /\ Slots' = Slots /\ NSlots \in Nat /\ Slots \subseteq Nat
  BY <1>2, SlotsFinite DEF NSlots, Slots, TypeOK
<1>4. PICK n \in 0 .. NSlots : \E f \in [1 .. n -> Vacant] : IsFreeList(n, f)
  BY DEF FreeListExact
<1>5. PICK f \in [1 .. n -> Vacant] : IsFreeList(n, f)
  BY <1>4
<1>6. n \in Nat /\ n >= 1 /\ f[1] = head
  <2>1. n \in Nat /\ (n # 0 => n >= 1)
    BY <1>3
  <2>2. head # SENTINEL
    BY DEF InsertVacant
  <2>. QED
    BY <2>1, <2>2, <1>5 DEF IsFreeList
<1>7. slots' \in [Slots -> Entry]
  BY <1>2 DEF TypeOK, Entry, Element
<1>8. /\ Vacant' = Vacant \ {head}
      /\ Live' = Live \cup {head}
      /\ head \notin Live
  BY <1>1, <1>2, <1>3, LiveOrVacant DEF Vacant, Live, Element, TypeOK
<1>9. head' = IF n = 1 THEN SENTINEL ELSE f[2]
  BY <1>2, <1>5, <1>6 DEF IsFreeList
<1>10. head' \in Slots \cup {SENTINEL}
  BY <1>6, <1>9 DEF Vacant
<1>11. TypeOK'
  BY <1>1, <1>2, <1>3, <1>7, <1>10 DEF TypeOK, Returned, Vacant
<1>12. FreeListExact'
  <2>. DEFINE g == [j \in 1 .. n - 1 |-> f[j + 1]]
  <2>1. \A j \in 1 .. n - 1 : f[j + 1] \in Vacant /\ f[j + 1] # head
    BY <1>5, <1>6 DEF IsFreeList
  <2>2. g \in [1 .. n - 1 -> Vacant']
    BY <2>1, <1>8
  <2>3. IsFreeList(n - 1, g)'
    <3>1. head' = IF n - 1 = 0 THEN SENTINEL ELSE g[1]
      BY <1>9, <1>6
    <3>2. \A j \in 1 .. n - 1 :
            slots'[g[j]].next = IF j = n - 1 THEN SENTINEL ELSE g[j + 1]
      <4>. TAKE j \in 1 .. n - 1
      <4>1. slots'[g[j]] = slots[f[j + 1]]
        BY <2>1, <1>2 DEF Vacant, TypeOK
      <4>2. slots[f[j + 1]].next = IF j + 1 = n THEN SENTINEL ELSE f[j + 2]
        BY <1>5, <1>6 DEF IsFreeList
      <4>. QED
        BY <4>1, <4>2, <1>6
    <3>3. \A j, k \in 1 .. n - 1 : g[j] = g[k] => j = k
      <4>. TAKE j, k \in 1 .. n - 1
      <4>. HAVE g[j] = g[k]
      <4>1. f[j + 1] = f[k + 1] /\ j + 1 \in 1 .. n /\ k + 1 \in 1 .. n
        BY <1>6
      <4>. QED
        BY <4>1, <1>5 DEF IsFreeList
    <3>4. \A i \in Vacant' : \E j \in 1 .. n - 1 : g[j] = i
      <4>. TAKE i \in Vacant'
      <4>1. PICK k \in 1 .. n : f[k] = i
        BY <1>5, <1>8 DEF IsFreeList
      <4>2. k # 1
        BY <4>1, <1>6, <1>8
      <4>. QED
        BY <4>1, <4>2, <1>6, k - 1 \in 1 .. n - 1, g[k - 1] = i
    <3>. QED
      BY <3>1, <3>2, <3>3, <3>4 DEF IsFreeList
  <2>4. n - 1 \in 0 .. NSlots'
    BY <1>3, <1>6
  <2>. HIDE DEF g
  <2>. QED
    BY <2>2, <2>3, <2>4 DEF FreeListExact
<1>13. SizeIsCount'
  BY <1>2, <1>8, FS_AddElement DEF SizeIsCount
<1>. QED
  BY <1>2, <1>11, <1>12, <1>13 DEF NeverUnreachable

\* insert into a full map adds a slab and preserves the invariant.
LEMMA InsertExpandingIInv ==
  ASSUME IInv, NEW v \in Values, InsertExpanding(v)
  PROVE  IInv'
<1>. USE DEF IInv
<1>0. PICK N \in Nat : N = NSlots
  BY SlotsFinite DEF TypeOK
<1>1. /\ (nslabs + 1) * SLABSIZE = N + SLABSIZE
      /\ NSlots' = N + SLABSIZE
      /\ Slots = 0 .. N - 1
      /\ Slots' = 0 .. N + SLABSIZE - 1
      /\ nslabs' \in Nat
  <2>1. nslabs \in Nat /\ nslabs' = nslabs + 1
    BY DEF InsertExpanding, TypeOK
  <2>2. (nslabs + 1) * SLABSIZE = N + SLABSIZE
    BY <2>1, <1>0, SlabArith DEF NSlots
  <2>3. NSlots' = N + SLABSIZE
    BY <2>1, <2>2 DEF NSlots
  <2>4. Slots = 0 .. N - 1
    BY <1>0 DEF Slots
  <2>5. Slots' = 0 .. N + SLABSIZE - 1
    BY <2>3, SlotmapAssumption DEF Slots
  <2>6. nslabs' \in Nat
    BY <2>1
  <2>. QED
    BY <2>2, <2>3, <2>4, <2>5, <2>6
<1>2. Vacant = {} /\ Live = 0 .. N - 1 /\ size = N
  BY <1>0, <1>1, FullWhenNoHead DEF InsertExpanding
<1>3. Expanded = [i \in 0 .. N + SLABSIZE - 1 |->
                    IF i < N THEN slots[i]
                    ELSE IF i - N = SLABSIZE - 1 THEN Link(SENTINEL)
                    ELSE Link(N + (i - N) + 1)]
  BY <1>0, <1>1, SlotmapAssumption DEF Expanded, CreateSlab, InsertExpanding
<1>4. Expanded[N] = IF SLABSIZE = 1 THEN Link(SENTINEL) ELSE Link(N + 1)
  BY <1>1, <1>3, SlotmapAssumption
<1>5. /\ slots' = [Expanded EXCEPT ![N] = Element(v)]
      /\ head' = IF SLABSIZE = 1 THEN SENTINEL ELSE N + 1
      /\ size' = N + 1
      /\ ret' = [op |-> "insert", index |-> N, value |-> v]
  BY <1>0, <1>2, <1>4 DEF InsertExpanding, Take, Link
<1>6. slots' = [i \in 0 .. N + SLABSIZE - 1 |->
                  IF i < N THEN slots[i]
                  ELSE IF i = N THEN Element(v)
                  ELSE IF i = N + SLABSIZE - 1 THEN Link(SENTINEL)
                  ELSE Link(i + 1)]
  <2>1. \A i \in 0 .. N + SLABSIZE - 1 : i >= N =>
          /\ N + (i - N) + 1 = i + 1
          /\ (i - N = SLABSIZE - 1 <=> i = N + SLABSIZE - 1)
    BY SlotmapAssumption
  <2>. QED
    BY <2>1, <1>3, <1>5, SlotmapAssumption
<1>7. \A i \in 0 .. N - 1 : slots[i] \in Entry /\ slots[i].tag = "Element"
  BY <1>1, <1>2 DEF TypeOK, Live
<1>8. TypeOK'
  <2>1. slots' \in [Slots' -> Entry]
    BY <1>1, <1>6, <1>7, SlotmapAssumption DEF Entry, Element, Link
  <2>. QED
    BY <2>1, <1>1, <1>5, SlotmapAssumption DEF TypeOK, Returned
<1>9. /\ Live' = 0 .. N
      /\ Vacant' = N + 1 .. N + SLABSIZE - 1
  BY <1>1, <1>6, <1>7, SlotmapAssumption DEF Live, Vacant, Element, Link
<1>10. FreeListExact'
  <2>. DEFINE g == [j \in 1 .. SLABSIZE - 1 |-> N + j]
  <2>1. g \in [1 .. SLABSIZE - 1 -> Vacant']
    BY <1>1, <1>9, SlotmapAssumption
  <2>2. IsFreeList(SLABSIZE - 1, g)'
    <3>1. head' = IF SLABSIZE - 1 = 0 THEN SENTINEL ELSE g[1]
      BY <1>5, SlotmapAssumption
    <3>2. \A j \in 1 .. SLABSIZE - 1 :
            slots'[g[j]].next = IF j = SLABSIZE - 1 THEN SENTINEL ELSE g[j + 1]
      BY <1>1, <1>6, SlotmapAssumption DEF Link
    <3>3. \A j, k \in 1 .. SLABSIZE - 1 : g[j] = g[k] => j = k
      BY <1>1, SlotmapAssumption
    <3>4. \A i \in Vacant' : \E j \in 1 .. SLABSIZE - 1 : g[j] = i
      <4>. TAKE i \in Vacant'
      <4>1. i - N \in 1 .. SLABSIZE - 1 /\ N + (i - N) = i
        BY <1>9, SlotmapAssumption
      <4>2. g[i - N] = i
        BY <4>1
      <4>. QED
        BY <4>1, <4>2
    <3>. QED
      BY <3>1, <3>2, <3>3, <3>4 DEF IsFreeList
  <2>3. SLABSIZE - 1 \in 0 .. NSlots'
    BY <1>1, SlotmapAssumption
  <2>. HIDE DEF g
  <2>. QED
    BY <2>1, <2>2, <2>3 DEF FreeListExact
<1>11. SizeIsCount'
  <2>1. IsFiniteSet(0 .. N) /\ Cardinality(0 .. N) = N + 1
    BY <1>1, FS_Interval
  <2>. QED
    BY <2>1, <1>5, <1>9 DEF SizeIsCount
<1>12. nslabs' <= MaxSlabs
  <2>. SUFFICES ASSUME nslabs = MaxSlabs PROVE FALSE
    BY SlotmapAssumption DEF InsertExpanding, TypeOK
  <2>. QED
    BY <1>0, <1>2, SlabArith, SlotmapAssumption DEF InsertExpanding, Limit, NSlots
<1>. QED
  BY <1>5, <1>8, <1>10, <1>11, <1>12 DEF NeverUnreachable

\* remove of a live index preserves the invariant.
LEMMA RemoveLiveIInv ==
  ASSUME IInv, NEW i \in Index, RemoveLive(i)
  PROVE  IInv'
<1>. USE DEF IInv
<1>1. /\ i \in Live /\ i \in Slots /\ i \notin Vacant
      /\ nslabs' = nslabs
      /\ slots' = [slots EXCEPT ![i] = Link(head)]
      /\ head' = i
      /\ size' = size - 1
      /\ ret' = [op |-> "remove", index |-> i, value |-> slots[i].value]
  BY LiveOrVacant DEF RemoveLive, Live
<1>2. NSlots' = NSlots /\ Slots' = Slots /\ NSlots \in Nat /\ Slots \subseteq Nat
  BY <1>1, SlotsFinite DEF NSlots, Slots, TypeOK
<1>3. PICK n \in 0 .. NSlots : \E f \in [1 .. n -> Vacant] : IsFreeList(n, f)
  BY DEF FreeListExact
<1>4. PICK f \in [1 .. n -> Vacant] : IsFreeList(n, f)
  BY <1>3
<1>5. n \in Nat
  BY <1>2
<1>6. /\ Vacant' = Vacant \cup {i}
      /\ Live' = Live \ {i}
  BY <1>1, <1>2, LiveOrVacant DEF Vacant, Live, Link, TypeOK
<1>7. size' \in Nat /\ SizeIsCount'
  <2>1. IsFiniteSet(Live') /\ Cardinality(Live') = Cardinality(Live) - 1
    BY <1>1, <1>6, FS_RemoveElement DEF SizeIsCount
  <2>2. Cardinality(Live') \in Nat
    BY <2>1, FS_CardinalityType
  <2>. QED
    BY <2>1, <2>2, <1>1 DEF SizeIsCount
<1>8. TypeOK'
  <2>1. Link(head) \in Entry
    BY <1>2 DEF Link, Entry, TypeOK
  <2>2. slots' \in [Slots -> Entry]
    BY <2>1, <1>1 DEF TypeOK
  <2>3. ret' \in Returned
    BY <1>1, <1>2, LiveOrVacant DEF Returned
  <2>. QED
    BY <2>2, <2>3, <1>1, <1>2, <1>7 DEF TypeOK
<1>9. FreeListExact'
  <2>. DEFINE g == [j \in 1 .. n + 1 |-> IF j = 1 THEN i ELSE f[j - 1]]
  <2>1. \A j \in 2 .. n + 1 : j - 1 \in 1 .. n /\ f[j - 1] \in Vacant /\ f[j - 1] # i
    BY <1>1, <1>5
  <2>2. g \in [1 .. n + 1 -> Vacant']
    BY <2>1, <1>5, <1>6
  <2>3. \A j, k \in 1 .. n + 1 : g[j] = g[k] => j = k
    <3>. TAKE j, k \in 1 .. n + 1
    <3>. HAVE g[j] = g[k]
    <3>1. CASE j = 1 \/ k = 1
      BY <3>1, <2>1, <1>5
    <3>2. CASE j # 1 /\ k # 1
      <4>1. f[j - 1] = f[k - 1] /\ j - 1 \in 1 .. n /\ k - 1 \in 1 .. n
        BY <3>2, <1>5
      <4>2. j - 1 = k - 1
        BY <4>1, <1>4 DEF IsFreeList
      <4>. QED
        BY <4>2, <1>5
    <3>. QED
      BY <3>1, <3>2
  <2>4. IsFreeList(n + 1, g)'
    <3>1. head' = IF n + 1 = 0 THEN SENTINEL ELSE g[1]
      BY <1>1, <1>5
    <3>2. \A j \in 1 .. n + 1 :
            slots'[g[j]].next = IF j = n + 1 THEN SENTINEL ELSE g[j + 1]
      <4>. TAKE j \in 1 .. n + 1
      <4>1. CASE j = 1
        <5>1. slots'[g[j]].next = head
          BY <4>1, <1>1 DEF Link, TypeOK
        <5>2. head = IF n = 0 THEN SENTINEL ELSE f[1]
          BY <1>4 DEF IsFreeList
        <5>. QED
          BY <5>1, <5>2, <4>1, <1>5
      <4>2. CASE j # 1
        <5>1. j - 1 \in 1 .. n /\ g[j] = f[j - 1] /\ f[j - 1] # i
          BY <4>2, <1>5, <2>1
        <5>2. slots'[g[j]] = slots[f[j - 1]]
          BY <5>1, <1>1 DEF TypeOK, Vacant
        <5>3. slots[f[j - 1]].next = IF j - 1 = n THEN SENTINEL ELSE f[j]
          BY <5>1, <1>4, <1>5 DEF IsFreeList
        <5>. QED
          BY <5>2, <5>3, <4>2, <1>5
      <4>. QED
        BY <4>1, <4>2
    <3>3. \A x \in Vacant' : \E j \in 1 .. n + 1 : g[j] = x
      <4>. TAKE x \in Vacant'
      <4>1. CASE x = i
        BY <4>1, <1>5, 1 \in 1 .. n + 1
      <4>2. CASE x # i
        <5>1. PICK k \in 1 .. n : f[k] = x
          BY <4>2, <1>4, <1>6 DEF IsFreeList
        <5>2. k + 1 \in 1 .. n + 1 /\ g[k + 1] = x
          BY <5>1, <1>5
        <5>. QED
          BY <5>2
      <4>. QED
        BY <4>1, <4>2
    <3>. QED
      BY <3>1, <3>2, <3>3, <2>3 DEF IsFreeList
  <2>5. n + 1 \in 0 .. NSlots'
    <3>1. g \in [1 .. n + 1 -> Slots]
      BY <2>2, <1>2 DEF Vacant
    <3>. HIDE DEF g
    <3>2. n + 1 <= NSlots
      BY <3>1, <2>3, <1>5, Pigeonhole DEF TypeOK
    <3>. QED
      BY <3>2, <1>2, <1>5
  <2>. HIDE DEF g
  <2>. QED
    BY <2>2, <2>4, <2>5 DEF FreeListExact
<1>. QED
  BY <1>1, <1>7, <1>8, <1>9 DEF NeverUnreachable

\* remove of anything else changes only the returned value.
LEMMA RemoveMissingIInv ==
  ASSUME IInv, NEW i \in Index, RemoveMissing(i)
  PROVE  IInv'
<1>. USE DEF IInv
<1>1. i \in Nat
  BY SlabArith, SlotmapAssumption DEF Index, Limit
<1>2. /\ nslabs' = nslabs /\ slots' = slots /\ head' = head /\ size' = size
      /\ ret' = [op |-> "remove", index |-> i, value |-> None]
  BY DEF RemoveMissing
<1>3. NSlots' = NSlots /\ Slots' = Slots /\ Live' = Live /\ Vacant' = Vacant
  BY <1>2 DEF NSlots, Slots, Live, Vacant
<1>4. TypeOK'
  BY <1>1, <1>2, <1>3 DEF TypeOK, Returned
<1>5. FreeListExact'
  BY <1>2, <1>3 DEF FreeListExact, IsFreeList
<1>6. SizeIsCount'
  BY <1>2, <1>3 DEF SizeIsCount
<1>. QED
  BY <1>2, <1>4, <1>5, <1>6 DEF NeverUnreachable
-----------------------------------------------------------------------------
\* Every step keeps the inductive invariant.
LEMMA NextIInv == IInv /\ [Next]_vars => IInv'
<1>. SUFFICES ASSUME IInv, [Next]_vars PROVE IInv'
  OBVIOUS
<1>1. ASSUME NEW v \in Values, InsertExpanding(v) PROVE IInv'
  BY <1>1, InsertExpandingIInv
<1>2. ASSUME NEW v \in Values, InsertVacant(v) PROVE IInv'
  BY <1>2, InsertVacantIInv
<1>3. ASSUME NEW i \in Index, RemoveMissing(i) PROVE IInv'
  BY <1>3, RemoveMissingIInv
<1>4. ASSUME NEW i \in Index, RemoveLive(i) PROVE IInv'
  BY <1>4, RemoveLiveIInv
<1>5. CASE UNCHANGED vars
  <2>1. /\ nslabs' = nslabs /\ slots' = slots /\ head' = head
        /\ size' = size /\ ret' = ret
    BY <1>5 DEF vars
  <2>2. NSlots' = NSlots /\ Slots' = Slots /\ Live' = Live /\ Vacant' = Vacant
    BY <2>1 DEF NSlots, Slots, Live, Vacant
  <2>3. TypeOK'
    BY <2>1, <2>2 DEF IInv, TypeOK
  <2>4. FreeListExact'
    BY <2>1, <2>2 DEF IInv, FreeListExact, IsFreeList
  <2>5. SizeIsCount'
    BY <2>1, <2>2 DEF IInv, SizeIsCount
  <2>. QED
    BY <2>1, <2>3, <2>4, <2>5 DEF IInv, NeverUnreachable
<1>. QED
  BY <1>1, <1>2, <1>3, <1>4, <1>5 DEF Next

\* The free list, the size and the bound hold together in every reachable
\* state of stable_slotmap.rs.
THEOREM Invariance == Spec => []IInv
<1>. QED
  BY InitIInv, NextIInv, PTL DEF Spec

\* Slots hold elements or links and head is a slot or the sentinel, always.
THEOREM TypeCorrect == Spec => []TypeOK
<1>1. IInv => TypeOK
  BY DEF IInv
<1>. QED
  BY <1>1, Invariance, PTL

\* The links from head visit every vacant entry exactly once: removals in any
\* order, double removals and expansions leave the list intact.
THEOREM FreeListCorrect == Spec => []FreeListExact
<1>1. IInv => FreeListExact
  BY DEF IInv
<1>. QED
  BY <1>1, Invariance, PTL

\* insert never overwrites a live element: its unreachable!() is unreachable.
THEOREM InsertSafe == Spec => []NeverUnreachable
<1>1. IInv => NeverUnreachable
  BY DEF IInv
<1>. QED
  BY <1>1, Invariance, PTL

\* len() counts the live elements.
THEOREM SizeCorrect == Spec => []SizeIsCount
<1>1. IInv => SizeIsCount
  BY DEF IInv
<1>. QED
  BY <1>1, Invariance, PTL

\* No index of a pool limited to Limit elements exceeds Limit, so the cast of
\* a buffer id to u16 is lossless (Limit = 65535 for 64 slabs of 1024).
THEOREM BufferIdFits == Spec => []IndexFits
<1>1. IInv => IndexFits
  <2>. SUFFICES ASSUME IInv, NEW i \in Slots PROVE i <= Limit
    BY DEF IndexFits
  <2>1. NSlots \in Nat /\ NSlots <= MaxSlabs * SLABSIZE
    BY SlabMonotone, SlotsFinite, SlotmapAssumption DEF IInv, TypeOK, NSlots
  <2>2. MaxSlabs * SLABSIZE \in Nat
    BY SlabArith, SlotmapAssumption
  <2>. QED
    BY <2>1, <2>2 DEF Slots, Limit
<1>. QED
  BY <1>1, Invariance, PTL
-----------------------------------------------------------------------------
\* What an insert does to the live elements, whichever entry it takes.
LEMMA InsertEffect ==
  ASSUME IInv, NEW v \in Values, InsertExpanding(v) \/ InsertVacant(v)
  PROVE  \E k \in Index \ Live :
           /\ Live' = Live \cup {k}
           /\ slots'[k].value = v
           /\ \A j \in Live : slots'[j] = slots[j]
           /\ ret' = [op |-> "insert", index |-> k, value |-> v]
<1>. USE DEF IInv
<1>0. PICK N \in Nat : N = NSlots
  BY SlotsFinite DEF TypeOK
<1>1. Limit + 1 \in Nat /\ Limit + 1 = MaxSlabs * SLABSIZE
      /\ N <= MaxSlabs * SLABSIZE /\ Limit \in Int
  BY <1>0, SlabArith, SlabMonotone, SlotmapAssumption DEF Limit, NSlots, TypeOK
<1>2. CASE InsertVacant(v)
  <2>1. head \in Vacant
    BY <1>2, HeadVacant DEF InsertVacant
  <2>2. /\ nslabs' = nslabs
        /\ slots' = [slots EXCEPT ![head] = Element(v)]
        /\ ret' = [op |-> "insert", index |-> head, value |-> v]
    BY <1>2, <2>1 DEF InsertVacant, Take, Vacant
  <2>3. head \in Slots /\ head \notin Live /\ Slots' = Slots
    BY <2>1, <2>2, LiveOrVacant DEF Vacant, Slots, NSlots
  <2>4. head \in Index
    BY <2>3, <1>0, <1>1 DEF Slots, Index
  <2>5. Live' = Live \cup {head}
    BY <2>2, <2>3 DEF Live, Element, TypeOK
  <2>6. slots'[head].value = v /\ \A j \in Live : slots'[j] = slots[j]
    BY <2>2, <2>3 DEF Live, Element, TypeOK
  <2>. QED
    BY <2>2, <2>3, <2>4, <2>5, <2>6
<1>3. CASE InsertExpanding(v)
  <2>1. Slots = 0 .. N - 1 /\ Live = 0 .. N - 1 /\ size = N
    BY <1>0, <1>3, FullWhenNoHead DEF InsertExpanding, Slots
  <2>2. nslabs' = nslabs + 1 /\ (nslabs + 1) * SLABSIZE = N + SLABSIZE
    BY <1>0, <1>3, SlabArith DEF InsertExpanding, NSlots, TypeOK
  <2>3. NSlots' = N + SLABSIZE
    BY <2>2 DEF NSlots
  <2>4. Slots' = 0 .. N + SLABSIZE - 1
    BY <2>3, SlotmapAssumption DEF Slots
  <2>5. Expanded = [i \in 0 .. N + SLABSIZE - 1 |->
                      IF i < N THEN slots[i]
                      ELSE IF i - N = SLABSIZE - 1 THEN Link(head)
                      ELSE Link(N + (i - N) + 1)]
    BY <1>0, <2>2, SlotmapAssumption DEF Expanded, CreateSlab
  <2>8. \A i \in N .. N + SLABSIZE - 1 : Expanded[i].tag = "Link"
    BY <2>5, SlotmapAssumption DEF Link
  <2>9. /\ slots' = [Expanded EXCEPT ![N] = Element(v)]
        /\ ret' = [op |-> "insert", index |-> N, value |-> v]
    BY <1>0, <1>3, <2>8, SlotmapAssumption DEF InsertExpanding, Take
  <2>10. /\ slots'[N] = Element(v)
         /\ \A i \in 0 .. N - 1 : slots'[i] = slots[i]
         /\ \A i \in N + 1 .. N + SLABSIZE - 1 : slots'[i].tag = "Link"
    <3>1. N \in 0 .. N + SLABSIZE - 1
      BY SlotmapAssumption
    <3>2. \A i \in 0 .. N - 1 : i \in 0 .. N + SLABSIZE - 1 /\ i # N
      BY SlotmapAssumption
    <3>3. \A i \in N + 1 .. N + SLABSIZE - 1 :
            i \in 0 .. N + SLABSIZE - 1 /\ i # N /\ i \in N .. N + SLABSIZE - 1
      BY SlotmapAssumption
    <3>4. DOMAIN Expanded = 0 .. N + SLABSIZE - 1
          /\ \A i \in 0 .. N - 1 : Expanded[i] = slots[i]
      BY <2>5, <3>2
    <3>. QED
      BY <2>8, <2>9, <3>1, <3>2, <3>3, <3>4
  <2>11. \A i \in 0 .. N - 1 : slots'[i].tag = "Element"
    BY <2>1, <2>10 DEF Live
  <2>12. Live' = 0 .. N
    BY <2>4, <2>10, <2>11, SlotmapAssumption DEF Live, Element
  <2>13. N \in Index \ Live
    BY <1>1, <2>1 DEF Index
  <2>14. Live' = Live \cup {N}
    BY <2>1, <2>12
  <2>. QED
    BY <2>1, <2>9, <2>10, <2>13, <2>14 DEF Element
<1>. QED
  BY <1>2, <1>3

\* A live index keeps its element until the step that removes it: the indices
\* the executor stores in SQEs, run queues and futures stay valid.
THEOREM StableIndices == Spec => Stable
<1>. DEFINE Keeps == \A i \in Live :
       slots'[i] = slots[i] \/ ret' = [op |-> "remove", index |-> i,
                                       value |-> slots[i].value]
<1>1. IInv /\ [Next]_vars => [Keeps]_vars
  <2>. SUFFICES ASSUME IInv, Next PROVE Keeps
    OBVIOUS
  <2>1. ASSUME NEW v \in Values, InsertExpanding(v) \/ InsertVacant(v) PROVE Keeps
    BY <2>1, InsertEffect
  <2>2. ASSUME NEW i \in Index, RemoveMissing(i) PROVE Keeps
    BY <2>2 DEF RemoveMissing
  <2>3. ASSUME NEW i \in Index, RemoveLive(i) PROVE Keeps
    BY <2>3 DEF RemoveLive, Live, IInv, TypeOK
  <2>. QED
    BY <2>1, <2>2, <2>3 DEF Next
<1>. QED
  BY <1>1, Invariance, PTL DEF Spec, Stable

\* The free-list slot map implements the abstract slot map.
THEOREM Refinement == Spec => ImplementsSlotMap
<1>. DEFINE AMap == [i \in Live |-> slots[i].value]
<1>1. Init => Abstract!Init
  <2>. SUFFICES ASSUME Init PROVE Abstract!Init
    OBVIOUS
  <2>1. 0 * SLABSIZE = 0
    BY SlotmapAssumption
  <2>2. Live = {}
    BY <2>1 DEF Init, Live, Slots, NSlots
  <2>. QED
    BY <2>2 DEF Init, Abstract!Init
<1>2. IInv /\ [Next]_vars => [Abstract!Next]_(Abstract!vars)
  <2>. SUFFICES ASSUME IInv, [Next]_vars
                PROVE  Abstract!Next \/ UNCHANGED Abstract!vars
    OBVIOUS
  <2>1. ASSUME NEW v \in Values, InsertExpanding(v) \/ InsertVacant(v)
        PROVE  Abstract!Next
    <3>1. PICK k \in Index \ Live :
            /\ Live' = Live \cup {k}
            /\ slots'[k].value = v
            /\ \A j \in Live : slots'[j] = slots[j]
            /\ ret' = [op |-> "insert", index |-> k, value |-> v]
      BY <2>1, InsertEffect
    <3>2. AMap' = [j \in Live \cup {k} |-> IF j = k THEN v ELSE AMap[j]]
      BY <3>1
    <3>3. Abstract!Insert(v)
      BY <3>1, <3>2 DEF Abstract!Insert, Abstract!Extend
    <3>. QED
      BY <3>3 DEF Abstract!Next
  <2>2. ASSUME NEW i \in Index, RemoveMissing(i) PROVE Abstract!Next
    <3>1. AMap' = AMap /\ i \notin DOMAIN AMap
      BY <2>2 DEF RemoveMissing, Live, Slots, NSlots
    <3>2. Abstract!Remove(i)
      BY <2>2, <3>1 DEF RemoveMissing, Abstract!Remove
    <3>. QED
      BY <3>2 DEF Abstract!Next
  <2>3. ASSUME NEW i \in Index, RemoveLive(i) PROVE Abstract!Next
    <3>1. /\ i \in Live /\ i \in Slots
          /\ slots' = [slots EXCEPT ![i] = Link(head)]
          /\ Slots' = Slots
          /\ ret' = [op |-> "remove", index |-> i, value |-> slots[i].value]
      BY <2>3 DEF RemoveLive, Live, Slots, NSlots
    <3>2. Live' = Live \ {i} /\ \A j \in Live' : slots'[j] = slots[j]
      BY <3>1 DEF Live, Link, IInv, TypeOK
    <3>3. AMap' = [j \in Live \ {i} |-> AMap[j]]
      BY <3>2
    <3>4. Abstract!Remove(i)
      BY <3>1, <3>3 DEF Abstract!Remove, Abstract!Without
    <3>. QED
      BY <3>4 DEF Abstract!Next
  <2>4. ASSUME UNCHANGED vars PROVE UNCHANGED Abstract!vars
    BY <2>4 DEF vars, Abstract!vars, Live, Slots, NSlots
  <2>. QED
    BY <2>1, <2>2, <2>3, <2>4 DEF Next
<1>. QED
  BY <1>1, <1>2, Invariance, PTL DEF Spec, ImplementsSlotMap, Abstract!Spec

-----------------------------------------------------------------------------
(* The vectors: memory safety in a program that takes no element that      *)
(* needs a drop out of a Drain and appends only where excise_front copies  *)
(* what it should (the two defects of the code that the runs show).        *)

\* The slots of v that hold something: up to the length it had when the Drain
\* that has borrowed it was made.
Filled(v) == IF drain.vec = v THEN drain.len ELSE len[v]
Used(v) == 0 .. Filled(v) - 1

VecTypes ==
  /\ copy \in BOOLEAN
  /\ mem \in [Vecs -> [At -> Elems \cup {Uninit}]]
  /\ len \in [Vecs -> 0 .. Cap]
  /\ owner \in [Elems -> {"client", "vec", "leaked"}]

\* The Drain has cut the vector to the start of its range; of elements that
\* need a drop it has yielded none.
DrainInv ==
  \/ drain = NoDrain
  \/ /\ drain = [vec |-> drain.vec, start |-> drain.start, end |-> drain.end,
                 current |-> drain.current, len |-> drain.len]
     /\ drain.vec \in Vecs /\ drain.len \in 0 .. Cap /\ drain.end \in 0 .. drain.len
     /\ drain.current \in 0 .. drain.end /\ drain.start \in 0 .. drain.current
     /\ len[drain.vec] = drain.start
     /\ ~copy => drain.current = drain.start

SlotInv == \A v \in Vecs : \A i \in Used(v) : mem[v][i] \in Elems

\* No element is in two slots, and the vectors' elements are those that they
\* have to end.
OwnInv ==
  ~copy =>
    /\ \A v, w \in Vecs : \A i \in Used(v), j \in Used(w) :
         mem[v][i] = mem[w][j] => v = w /\ i = j
    /\ \A e \in Elems : owner[e] = "vec" <=> \E v \in Vecs : \E i \in Used(v) : mem[v][i] = e

VecInv == VecTypes /\ DrainInv /\ SlotInv /\ OwnInv /\ sound

\* The elements that v holds.
Had(v) == Held(mem[v], Used(v))

-----------------------------------------------------------------------------
(* One vector changes.                                                     *)

\* v becomes the first n slots of m, and is not borrowed after the call.
Becomes(v, m, n) ==
  /\ n \in 0 .. Cap /\ copy' = copy /\ Sets(v, m, n)
  /\ (drain.vec # v /\ drain' = drain) \/ (drain.vec = v /\ drain' = NoDrain)
  /\ \A i \in 0 .. n - 1 : m[i] \in Elems
  /\ ~copy => \A i, j \in 0 .. n - 1 : m[i] = m[j] => i = j

\* What it holds now is what it has to end; the rest of what it held is the
\* client's or leaked, and what it did not hold was not another vector's.
Passes(v, m, n) ==
  /\ owner' \in [Elems -> {"client", "vec", "leaked"}]
  /\ ~copy => /\ \A i \in 0 .. n - 1 : owner[m[i]] = "vec" => m[i] \in Had(v)
              /\ \A e \in Elems : owner'[e] = "vec" <=>
                   (\E i \in 0 .. n - 1 : m[i] = e) \/ (owner[e] = "vec" /\ e \notin Had(v))

\* Ranges of slots.
LEMMA SlotRange ==
  ASSUME VecInv, NEW v \in Vecs
  PROVE  /\ Filled(v) \in 0 .. Cap /\ Filled(v) \in Nat /\ len[v] \in 0 .. Cap /\ len[v] \in Nat
         /\ Cap \in Nat /\ Used(v) \subseteq At /\ (drain.vec # v => Filled(v) = len[v])
         /\ (drain = NoDrain => drain.vec # v)
<1>1. Cap \in Nat /\ drain = NoDrain => drain.vec # v
  BY VecAssumption DEF NoDrain
<1>2. len[v] \in 0 .. Cap
  BY DEF VecInv, VecTypes
<1>3. Filled(v) \in 0 .. Cap
  BY <1>1, <1>2, VecAssumption DEF VecInv, DrainInv, Filled
<1>4. Used(v) \subseteq At
  BY <1>3, VecAssumption DEF Used, At
<1> QED BY <1>1, <1>2, <1>3, <1>4, VecAssumption DEF Filled

\* The invariant after such a call.
LEMMA OneVec ==
  ASSUME VecInv, NEW v \in Vecs, NEW m, NEW n, Becomes(v, m, n), Passes(v, m, n), sound'
  PROVE  VecInv'
<1>1. n \in 0 .. Cap /\ n \in Nat /\ Cap \in Nat
  BY VecAssumption DEF Becomes
<1>2. /\ mem' = [mem EXCEPT ![v] = Cut(m, n)] /\ len' = [len EXCEPT ![v] = n]
      /\ \A i \in 0 .. n - 1 : m[i] \in Elems
      /\ copy' = copy
  BY DEF Becomes, Sets
<1>3. Cut(m, n) \in [At -> Elems \cup {Uninit}] /\ \A i \in 0 .. n - 1 : Cut(m, n)[i] = m[i]
  <2>1. \A i \in At : i < n => i \in 0 .. n - 1
    BY <1>1 DEF At
  <2>2. \A i \in 0 .. n - 1 : i \in At /\ i < n
    BY <1>1 DEF At
  <2> QED BY <1>2, <2>1, <2>2 DEF Cut
<1>4. VecTypes
  BY DEF VecInv
<1>5. mem'[v] = Cut(m, n) /\ len'[v] = n /\ \A w \in Vecs \ {v} : mem'[w] = mem[w] /\ len'[w] = len[w]
  BY <1>2, <1>4 DEF VecTypes
<1>6. VecTypes'
  BY <1>1, <1>2, <1>3, <1>4 DEF VecTypes, Passes
<1>7. DrainInv'
  <2>1. CASE drain' = NoDrain
    BY <2>1 DEF DrainInv
  <2>2. CASE drain.vec # v /\ drain' = drain
    BY <1>2, <1>5, <2>2 DEF VecInv, DrainInv
  <2> QED BY <2>1, <2>2 DEF Becomes
<1>8. Used(v)' = 0 .. n - 1 /\ \A w \in Vecs \ {v} : Used(w)' = Used(w)
  <2>1. drain'.vec # v
    BY VecAssumption DEF Becomes, NoDrain
  <2>2. ASSUME NEW w \in Vecs \ {v} PROVE (drain'.vec = w <=> drain.vec = w) /\ (drain.vec = w => drain' = drain)
    BY VecAssumption DEF Becomes, NoDrain
  <2> QED BY <1>5, <2>1, <2>2 DEF Used, Filled
<1>9. SlotInv'
  <2>1. \A i \in Used(v)' : mem'[v][i] \in Elems
    BY <1>2, <1>3, <1>5, <1>8
  <2>2. \A w \in Vecs \ {v} : \A i \in Used(w)' : mem'[w][i] \in Elems
    BY <1>5, <1>8 DEF VecInv, SlotInv
  <2> QED BY <2>1, <2>2 DEF SlotInv
<1>10. OwnInv'
  <2> SUFFICES ASSUME ~copy PROVE OwnInv'
    BY <1>2 DEF OwnInv
  <2>1. /\ \A u, w \in Vecs : \A i \in Used(u), j \in Used(w) : mem[u][i] = mem[w][j] => u = w /\ i = j
        /\ \A e \in Elems : owner[e] = "vec" <=> \E w \in Vecs : \E i \in Used(w) : mem[w][i] = e
    BY DEF VecInv, OwnInv
  <2>2. \A i, j \in 0 .. n - 1 : m[i] = m[j] => i = j
    BY DEF Becomes
  <2>3. ASSUME NEW w \in Vecs \ {v}, NEW j \in Used(w), NEW i \in 0 .. n - 1 PROVE m[i] # mem[w][j]
    <3> SUFFICES ASSUME m[i] = mem[w][j] PROVE FALSE
      OBVIOUS
    <3>1. owner[m[i]] = "vec"
      BY <1>2, <2>1
    <3>2. PICK k \in Used(v) : mem[v][k] = m[i]
      BY <3>1 DEF Passes, Had, Held
    <3> QED BY <2>1, <3>2
  <2>4. \A u, w \in Vecs : \A i \in Used(u)', j \in Used(w)' :
          mem'[u][i] = mem'[w][j] => u = w /\ i = j
    <3> TAKE u, w \in Vecs
    <3> TAKE i \in Used(u)', j \in Used(w)'
    <3>1. CASE u = v /\ w = v
      BY <1>3, <1>5, <1>8, <2>2, <3>1
    <3>2. CASE u = v /\ w # v
      BY <1>3, <1>5, <1>8, <2>3, <3>2
    <3>3. CASE u # v /\ w = v
      BY <1>3, <1>5, <1>8, <2>3, <3>3
    <3>4. CASE u # v /\ w # v
      BY <1>5, <1>8, <2>1, <3>4
    <3> QED BY <3>1, <3>2, <3>3, <3>4
  <2>5. ASSUME NEW e \in Elems
        PROVE  owner'[e] = "vec" <=> \E w \in Vecs : \E i \in Used(w)' : mem'[w][i] = e
    <3>1. owner'[e] = "vec" <=> (\E i \in 0 .. n - 1 : m[i] = e) \/ (owner[e] = "vec" /\ e \notin Had(v))
      BY DEF Passes
    <3>2. (\E i \in 0 .. n - 1 : m[i] = e) <=> \E i \in Used(v)' : mem'[v][i] = e
      BY <1>3, <1>5, <1>8
    <3>3. (owner[e] = "vec" /\ e \notin Had(v)) <=> \E w \in Vecs \ {v} : \E i \in Used(w) : mem[w][i] = e
      <4>1. e \in Had(v) <=> \E i \in Used(v) : mem[v][i] = e
        BY DEF Had, Held
      <4> QED BY <2>1, <4>1
    <3>4. (\E w \in Vecs \ {v} : \E i \in Used(w) : mem[w][i] = e)
            <=> \E w \in Vecs \ {v} : \E i \in Used(w)' : mem'[w][i] = e
      BY <1>5, <1>8
    <3> QED BY <3>1, <3>2, <3>3, <3>4
  <2> QED BY <2>4, <2>5 DEF OwnInv
<1> QED BY <1>6, <1>7, <1>9, <1>10 DEF VecInv

\* What v holds, by the invariant.
LEMMA HeldBy ==
  ASSUME VecInv, NEW v \in Vecs
  PROVE  /\ \A i \in Used(v) : mem[v][i] \in Elems /\ mem[v][i] # Uninit /\ i < Cap /\ i \in At /\ mem[v][i] \in Had(v)
         /\ \A e \in Had(v) : e \in Elems /\ \E i \in Used(v) : mem[v][i] = e
         /\ ~copy => /\ \A i, j \in Used(v) : mem[v][i] = mem[v][j] => i = j
                     /\ \A e \in Had(v) : owner[e] = "vec"
<1>1. \A i \in Used(v) : mem[v][i] \in Elems /\ mem[v][i] # Uninit
  BY VecAssumption DEF VecInv, SlotInv
<1>2. \A i \in Used(v) : i < Cap /\ i \in At
  BY SlotRange DEF At
<1>3. \A i \in Used(v) : mem[v][i] \in Had(v)
  BY DEF Had, Held
<1>4. \A e \in Had(v) : e \in Elems /\ \E i \in Used(v) : mem[v][i] = e
  BY <1>1 DEF Had, Held
<1>5. ASSUME ~copy PROVE /\ \A i, j \in Used(v) : mem[v][i] = mem[v][j] => i = j
                         /\ \A e \in Had(v) : owner[e] = "vec"
  BY <1>4, <1>5 DEF VecInv, OwnInv
<1> QED BY <1>1, <1>2, <1>3, <1>4, <1>5

\* Its slots may be read, and their elements ended.
LEMMA MayEnd ==
  ASSUME VecInv, NEW v \in Vecs, NEW S, S \subseteq Used(v)
  PROVE  Owns(mem[v], S)
BY HeldBy DEF Owns

\* A call that adds nothing: what v holds no more is not its to end.
LEMMA Shrinks ==
  ASSUME VecInv, NEW v \in Vecs, NEW m, NEW n,
         owner' \in [Elems -> {"client", "vec", "leaked"}],
         ~copy => \A i \in 0 .. n - 1 : m[i] \in Had(v),
         ~copy => \A e \in Elems : owner'[e] = "vec" <=>
                    owner[e] = "vec" /\ (e \in Had(v) => \E i \in 0 .. n - 1 : m[i] = e)
  PROVE  Passes(v, m, n)
<1> SUFFICES ASSUME ~copy, NEW e \in Elems
             PROVE  owner'[e] = "vec" <=>
                      (\E i \in 0 .. n - 1 : m[i] = e) \/ (owner[e] = "vec" /\ e \notin Had(v))
  BY DEF Passes
<1>1. \A i \in 0 .. n - 1 : owner[m[i]] = "vec" /\ m[i] \in Had(v)
  BY HeldBy
<1> QED BY <1>1

\* A call that keeps what v held and adds what was the client's.
LEMMA Grows ==
  ASSUME VecInv, NEW v \in Vecs, NEW m, NEW n,
         owner' \in [Elems -> {"client", "vec", "leaked"}],
         ~copy => \A i \in 0 .. n - 1 : m[i] \in Had(v) \/ owner[m[i]] = "client",
         ~copy => \A e \in Had(v) : \E i \in 0 .. n - 1 : m[i] = e,
         ~copy => \A e \in Elems : owner'[e] = "vec" <=>
                    owner[e] = "vec" \/ \E i \in 0 .. n - 1 : m[i] = e
  PROVE  Passes(v, m, n)
<1> SUFFICES ASSUME ~copy
             PROVE  /\ \A i \in 0 .. n - 1 : owner[m[i]] = "vec" => m[i] \in Had(v)
                    /\ \A e \in Elems : owner'[e] = "vec" <=>
                         (\E i \in 0 .. n - 1 : m[i] = e) \/ (owner[e] = "vec" /\ e \notin Had(v))
  BY DEF Passes
<1>1. \A i \in 0 .. n - 1 : owner[m[i]] = "vec" => m[i] \in Had(v)
  OBVIOUS
<1> QED BY <1>1

\* An element that is moved out of a slot of v.
LEMMA TakenOut ==
  ASSUME VecInv, NEW v \in Vecs, NEW i \in Used(v), TakeOut(mem[v], i)
  PROVE  /\ owner' \in [Elems -> {"client", "vec", "leaked"}] /\ sound'
         /\ ~copy => \A e \in Elems : owner'[e] = "vec" <=> owner[e] = "vec" /\ e # mem[v][i]
<1>1. Owns(mem[v], {i})
  BY MayEnd
<1>2. sound'
  BY <1>1 DEF TakeOut, VecInv
<1>3. owner' = [e \in Elems |-> IF e \in {mem[v][i]} /\ ~copy THEN "client" ELSE owner[e]]
  BY DEF TakeOut, Give
<1>4. owner \in [Elems -> {"client", "vec", "leaked"}]
  BY DEF VecInv, VecTypes
<1>5. owner' \in [Elems -> {"client", "vec", "leaked"}]
  BY <1>3, <1>4
<1>6. \A e \in Elems : owner'[e] = IF e = mem[v][i] /\ ~copy THEN "client" ELSE owner[e]
  BY <1>3
<1> QED BY <1>2, <1>5, <1>6

\* A loop of drops, whether or not one of them panics.
LEMMA Dropped ==
  ASSUME VecInv, NEW m, NEW lo \in Nat, NEW hi \in Nat, lo <= hi, NEW k \in lo .. hi, NEW lost,
         DropLoop(m, lo, hi, k, lost), Owns(m, lo .. hi - 1)
  PROVE  /\ owner' \in [Elems -> {"client", "vec", "leaked"}] /\ sound'
         /\ ~copy => \A e \in Elems : owner'[e] = "vec" <=>
              owner[e] = "vec" /\ e \notin Held(m, lo .. hi - 1) /\ (k < hi => e \notin lost)
<1> DEFINE last == Lesser(k, hi - 1)
           dropped == Held(m, lo .. last)
           leaked == Held(m, k + 1 .. hi - 1) \cup (IF k < hi THEN lost ELSE {})
<1>1. lo .. last \subseteq lo .. hi - 1 /\ (lo .. last) \cup (k + 1 .. hi - 1) = lo .. hi - 1
  BY DEF Lesser
<1>2. Owns(m, lo .. last)
  BY <1>1 DEF Owns
<1>3. sound'
  BY <1>2 DEF DropLoop, VecInv
<1>4. owner' = [e \in Elems |-> IF copy THEN owner[e] ELSE IF e \in dropped THEN "client"
                                ELSE IF e \in leaked THEN "leaked" ELSE owner[e]]
  BY DEF DropLoop
<1>5. owner \in [Elems -> {"client", "vec", "leaked"}]
  BY DEF VecInv, VecTypes
<1>6. \A e : e \in dropped \/ e \in leaked <=> e \in Held(m, lo .. hi - 1) \/ (k < hi /\ e \in lost)
  BY <1>1 DEF Held
<1> HIDE DEF dropped, leaked
<1>7. owner' \in [Elems -> {"client", "vec", "leaked"}]
  BY <1>4, <1>5
<1>8. ~copy => \A e \in Elems : owner'[e] = "vec" <=> owner[e] = "vec" /\ e \notin dropped /\ e \notin leaked
  BY <1>4
<1> QED BY <1>3, <1>6, <1>7, <1>8

\* An element that the client gives to a vector.
LEMMA Given ==
  ASSUME VecInv, NEW E, Give(E, "vec")
  PROVE  /\ owner' \in [Elems -> {"client", "vec", "leaked"}]
         /\ ~copy => \A e \in Elems : owner'[e] = "vec" <=> owner[e] = "vec" \/ e \in E
<1>1. owner' = [e \in Elems |-> IF e \in E /\ ~copy THEN "vec" ELSE owner[e]]
  BY DEF Give
<1>2. owner \in [Elems -> {"client", "vec", "leaked"}]
  BY DEF VecInv, VecTypes
<1> QED BY <1>1, <1>2

-----------------------------------------------------------------------------
(* The calls that move one element.                                        *)

\* A vector that nothing has borrowed has the slots below its length.
LEMMA FreeSlots ==
  ASSUME VecInv, NEW v \in Vecs, Free(v)
  PROVE  /\ Used(v) = 0 .. len[v] - 1 /\ len[v] \in Nat /\ len[v] <= Cap /\ Cap \in Nat
         /\ drain.vec # v /\ drain' = drain /\ copy' = copy
<1>1. drain.vec # v /\ drain' = drain /\ copy' = copy
  BY DEF Free
<1>2. Filled(v) = len[v] /\ len[v] \in 0 .. Cap /\ Cap \in Nat
  BY <1>1, SlotRange
<1> QED BY <1>1, <1>2 DEF Used

\* A call that changes nothing.
LEMMA VecStutter ==
  ASSUME VecInv, UNCHANGED <<mem, len, owner, drain, copy, sound>>
  PROVE  VecInv'
<1>1. VecTypes' /\ DrainInv'
  BY DEF VecInv, VecTypes, DrainInv
<1>2. \A v : Used(v)' = Used(v)
  BY DEF Used, Filled
<1>3. SlotInv' /\ OwnInv'
  BY <1>2 DEF VecInv, SlotInv, OwnInv
<1>4. sound'
  BY DEF VecInv
<1> QED BY <1>1, <1>3, <1>4 DEF VecInv

\* push
LEMMA PushSafe ==
  ASSUME VecInv, NEW v \in Vecs, NEW e \in Elems, VecPush(v, e)
  PROVE  VecInv'
<1> DEFINE l == len[v]
           m == [mem[v] EXCEPT ![l] = e]
<1>1. Free(v) /\ owner[e] = "client"
  <2>1. 1 \in DOMAIN <<e>> /\ <<e>>[1] = e
    OBVIOUS
  <2>2. Clients(<<e>>)
    BY DEF VecPush
  <2>3. owner[<<e>>[1]] = "client"
    BY <2>1, <2>2 DEF Clients
  <2> QED BY <2>1, <2>3 DEF VecPush
<1>2. Used(v) = 0 .. l - 1 /\ l \in Nat /\ l <= Cap /\ Cap \in Nat
      /\ drain.vec # v /\ drain' = drain /\ copy' = copy
  BY <1>1, FreeSlots
<1>3. CASE Available(v) = 0
  <2>1. UNCHANGED <<mem, len, owner, drain, copy, sound>>
    BY <1>2, <1>3 DEF VecPush
  <2> QED BY <2>1, VecStutter
<1>4. CASE Available(v) # 0
  <2> DEFINE n == l + 1
  <2>1. l < Cap /\ n \in 0 .. Cap
    BY <1>2, <1>4 DEF Available
  <2>2. Sets(v, m, n) /\ Give({e}, "vec") /\ sound'
    BY <1>4 DEF VecPush, VecInv
  <2>3. l \in At /\ mem[v] \in [At -> Elems \cup {Uninit}]
    BY <1>2, <2>1 DEF At, VecInv, VecTypes
  <2>4. \A i \in 0 .. n - 1 : (i \in Used(v) /\ m[i] = mem[v][i]) \/ (i = l /\ m[i] = e)
    <3>1. \A i \in 0 .. n - 1 : i \in 0 .. l - 1 \/ i = l
      BY <1>2
    <3>2. \A i \in 0 .. l - 1 : i # l /\ i \in At
      BY <1>2 DEF At
    <3> QED BY <1>2, <2>3, <3>1, <3>2
  <2>5. l \in 0 .. n - 1 /\ Used(v) \subseteq 0 .. n - 1 /\ m[l] = e
    BY <1>2, <2>3
  <2>6. \A i \in Used(v) : m[i] = mem[v][i]
    BY <1>2, <2>4, <2>5
  <2> HIDE DEF m, n
  <2>7. ASSUME ~copy PROVE e \notin Had(v)
    BY <1>1, <2>7, HeldBy
  <2>8. \A i \in 0 .. n - 1 : m[i] \in Elems
    BY <2>4, HeldBy
  <2>9. ASSUME ~copy PROVE \A i, j \in 0 .. n - 1 : m[i] = m[j] => i = j
    BY <2>4, <2>7, <2>9, HeldBy
  <2>10. Becomes(v, m, n)
    BY <1>2, <2>1, <2>2, <2>8, <2>9 DEF Becomes
  <2>11. owner' \in [Elems -> {"client", "vec", "leaked"}]
         /\ (~copy => \A x \in Elems : owner'[x] = "vec" <=> owner[x] = "vec" \/ x = e)
    BY <2>2, Given
  <2>12. ~copy => \A i \in 0 .. n - 1 : m[i] \in Had(v) \/ owner[m[i]] = "client"
    BY <1>1, <2>4, HeldBy
  <2>13. \A x \in Had(v) : \E i \in 0 .. n - 1 : m[i] = x
    BY <2>5, <2>6, HeldBy
  <2>14. ~copy => \A x \in Elems : owner'[x] = "vec" <=> owner[x] = "vec" \/ \E i \in 0 .. n - 1 : m[i] = x
    <3> SUFFICES ASSUME ~copy, NEW x \in Elems
                 PROVE  owner'[x] = "vec" <=> owner[x] = "vec" \/ \E i \in 0 .. n - 1 : m[i] = x
      OBVIOUS
    <3>1. (\E i \in 0 .. n - 1 : m[i] = x) => x = e \/ owner[x] = "vec"
      BY <2>4, HeldBy
    <3> QED BY <2>5, <2>11, <3>1
  <2>15. Passes(v, m, n)
    BY <2>11, <2>12, <2>13, <2>14, Grows
  <2> QED BY <2>2, <2>10, <2>15, OneVec
<1> QED BY <1>3, <1>4

\* A call that takes slot k out and keeps the others, in some order.
Removes(v, k, m, n) ==
  /\ k \in Used(v) /\ n + 1 = len[v] /\ n \in Nat /\ Free(v)
  /\ Sets(v, m, n) /\ TakeOut(mem[v], k)
  /\ \A i \in 0 .. n - 1 : \E p \in Used(v) \ {k} : m[i] = mem[v][p]
  /\ \A p \in Used(v) \ {k} : \E i \in 0 .. n - 1 : m[i] = mem[v][p]
  /\ ~copy => \A i, j \in 0 .. n - 1 : m[i] = m[j] => i = j

\* pop, remove and swap_remove are such calls.
LEMMA RemovesSafe ==
  ASSUME VecInv, NEW v \in Vecs, NEW k, NEW m, NEW n, Removes(v, k, m, n)
  PROVE  VecInv'
<1>1. Free(v) /\ n + 1 = len[v] /\ n \in Nat /\ Sets(v, m, n) /\ TakeOut(mem[v], k) /\ k \in Used(v)
  BY DEF Removes
<1>2. n \in 0 .. Cap /\ drain.vec # v /\ drain' = drain /\ copy' = copy
  BY <1>1, FreeSlots
<1>3. \A i \in 0 .. n - 1 : \E p \in Used(v) \ {k} : m[i] = mem[v][p]
  BY DEF Removes
<1>4. \A p \in Used(v) \ {k} : \E i \in 0 .. n - 1 : m[i] = mem[v][p]
  BY DEF Removes
<1>5. Becomes(v, m, n)
  BY <1>1, <1>2, <1>3, HeldBy DEF Becomes, Removes
<1>6. owner' \in [Elems -> {"client", "vec", "leaked"}] /\ sound'
      /\ (~copy => \A e \in Elems : owner'[e] = "vec" <=> owner[e] = "vec" /\ e # mem[v][k])
  BY <1>1, TakenOut
<1>7. ASSUME ~copy, NEW e \in Elems
      PROVE  owner'[e] = "vec" <=> owner[e] = "vec" /\ (e \in Had(v) => \E i \in 0 .. n - 1 : m[i] = e)
  <2>1. e \in Had(v) => (e # mem[v][k] <=> \E p \in Used(v) \ {k} : mem[v][p] = e)
    BY <1>1, <1>7, HeldBy
  <2>2. (\E p \in Used(v) \ {k} : mem[v][p] = e) <=> \E i \in 0 .. n - 1 : m[i] = e
    BY <1>3, <1>4
  <2>3. mem[v][k] \in Had(v)
    BY <1>1, HeldBy
  <2> QED BY <1>6, <1>7, <2>1, <2>2, <2>3
<1>8. Passes(v, m, n)
  BY <1>3, <1>6, <1>7, HeldBy, Shrinks
<1> QED BY <1>5, <1>6, <1>8, OneVec

\* pop
LEMMA PopSafe ==
  ASSUME VecInv, NEW v \in Vecs, VecPop(v)
  PROVE  VecInv'
<1> DEFINE n == len[v] - 1
<1>1. Free(v) /\ len[v] > 0 /\ Sets(v, mem[v], n) /\ TakeOut(mem[v], n)
  BY DEF VecPop
<1>2. Used(v) = 0 .. len[v] - 1 /\ len[v] \in Nat
  BY <1>1, FreeSlots
<1>3. n \in Nat /\ n + 1 = len[v] /\ n \in Used(v) /\ 0 .. n - 1 = Used(v) \ {n}
  BY <1>1, <1>2
<1> HIDE DEF n
<1>4. ~copy => \A i, j \in 0 .. n - 1 : mem[v][i] = mem[v][j] => i = j
  BY <1>3, HeldBy
<1>5. Removes(v, n, mem[v], n)
  BY <1>1, <1>3, <1>4 DEF Removes
<1> QED BY <1>5, RemovesSafe

\* swap_remove
LEMMA SwapRemoveSafe ==
  ASSUME VecInv, NEW v \in Vecs, NEW k \in At, VecSwapRemove(v, k)
  PROVE  VecInv'
<1> DEFINE n == len[v] - 1
           m == [mem[v] EXCEPT ![k] = mem[v][n], ![n] = mem[v][k]]
<1>1. Free(v) /\ k < len[v] /\ Sets(v, m, n) /\ TakeOut(mem[v], k)
  BY DEF VecSwapRemove
<1>2. Used(v) = 0 .. len[v] - 1 /\ len[v] \in Nat /\ Cap \in Nat /\ len[v] <= Cap
  BY <1>1, FreeSlots
<1>3. k \in Nat
  BY <1>2 DEF At
<1>4. n \in Nat /\ n + 1 = len[v] /\ n \in Used(v) /\ k \in Used(v) /\ Used(v) \subseteq At
      /\ Used(v) = 0 .. n /\ 0 .. n - 1 = Used(v) \ {n}
  BY <1>1, <1>2, <1>3 DEF At
<1>5. mem[v] \in [At -> Elems \cup {Uninit}]
  BY DEF VecInv, VecTypes
<1>6. \A i \in 0 .. n - 1 : m[i] = IF i = k THEN mem[v][n] ELSE mem[v][i]
  BY <1>4, <1>5
<1> HIDE DEF n, m
<1>7. ASSUME NEW i \in 0 .. n - 1 PROVE \E p \in Used(v) \ {k} : m[i] = mem[v][p]
  BY <1>4, <1>6
<1>8. ASSUME NEW p \in Used(v) \ {k} PROVE \E i \in 0 .. n - 1 : m[i] = mem[v][p]
  <2>1. CASE p = n
    <3>1. k \in 0 .. n - 1 /\ m[k] = mem[v][p]
      BY <1>4, <1>6, <1>8, <2>1
    <3> QED BY <3>1
  <2>2. CASE p # n
    BY <1>4, <1>6, <1>8, <2>2
  <2> QED BY <2>1, <2>2
<1>9. ASSUME ~copy PROVE \A i, j \in 0 .. n - 1 : m[i] = m[j] => i = j
  <2>1. n \notin 0 .. n - 1
    BY <1>4
  <2> QED BY <1>4, <1>6, <1>9, <2>1, HeldBy
<1>10. Removes(v, k, m, n)
  BY <1>1, <1>4, <1>7, <1>8, <1>9 DEF Removes, n, m
<1> QED BY <1>10, RemovesSafe

\* remove
LEMMA RemoveSafe ==
  ASSUME VecInv, NEW v \in Vecs, NEW k \in At, VecRemove(v, k)
  PROVE  VecInv'
<1> DEFINE n == len[v] - 1
           m == Copied(mem[v], mem[v], k + 1, k, len[v] - k - 1)
<1>1. Free(v) /\ k < len[v] /\ Sets(v, m, n) /\ TakeOut(mem[v], k)
  BY DEF VecRemove
<1>2. Used(v) = 0 .. len[v] - 1 /\ len[v] \in Nat /\ Cap \in Nat /\ len[v] <= Cap
  BY <1>1, FreeSlots
<1>3. k \in Nat
  BY <1>2 DEF At
<1>4. n \in Nat /\ n + 1 = len[v] /\ k \in Used(v) /\ Used(v) = 0 .. n /\ n < Cap
  BY <1>1, <1>2, <1>3
<1>5. \A i \in 0 .. n - 1 : m[i] = IF i < k THEN mem[v][i] ELSE mem[v][i + 1]
  <2>1. \A i \in 0 .. n - 1 : i \in At /\ (i \in k .. k + (len[v] - k - 1) - 1 <=> ~(i < k)) /\ i - k + (k + 1) = i + 1 /\ i + 1 < Cap
    BY <1>2, <1>3, <1>4 DEF At
  <2> QED BY <2>1 DEF Copied
<1> HIDE DEF n, m
<1>6. ASSUME NEW i \in 0 .. n - 1 PROVE \E p \in Used(v) \ {k} : m[i] = mem[v][p]
  <2>1. CASE i < k
    BY <1>3, <1>4, <1>5, <2>1
  <2>2. CASE ~(i < k)
    <3>1. i + 1 \in Used(v) \ {k}
      BY <1>3, <1>4, <2>2
    <3> QED BY <1>5, <2>2, <3>1
  <2> QED BY <2>1, <2>2
<1>7. ASSUME NEW p \in Used(v) \ {k} PROVE \E i \in 0 .. n - 1 : m[i] = mem[v][p]
  <2>1. CASE p < k
    <3>1. p \in 0 .. n - 1
      BY <1>3, <1>4, <2>1
    <3> QED BY <1>5, <2>1, <3>1
  <2>2. CASE ~(p < k)
    <3>1. p - 1 \in 0 .. n - 1 /\ ~(p - 1 < k) /\ p - 1 + 1 = p
      BY <1>3, <1>4, <2>2
    <3>2. m[p - 1] = mem[v][p - 1 + 1]
      BY <1>5, <3>1
    <3> QED BY <3>1, <3>2
  <2> QED BY <2>1, <2>2
<1>8. ASSUME ~copy, NEW i \in 0 .. n - 1, NEW j \in 0 .. n - 1, m[i] = m[j] PROVE i = j
  <2> DEFINE f(x) == IF x < k THEN x ELSE x + 1
  <2>1. f(i) \in Used(v) /\ f(j) \in Used(v) /\ (f(i) = f(j) => i = j)
    BY <1>3, <1>4
  <2>2. m[i] = mem[v][f(i)] /\ m[j] = mem[v][f(j)]
    BY <1>5
  <2> HIDE DEF f
  <2> QED BY <1>8, <2>1, <2>2, HeldBy
<1>9. Removes(v, k, m, n)
  BY <1>1, <1>4, <1>6, <1>7, <1>8 DEF Removes, n, m
<1> QED BY <1>9, RemovesSafe

\* insert
LEMMA VecInsertSafe ==
  ASSUME VecInv, NEW v \in Vecs, NEW k \in At, NEW e \in Elems, VecInsert(v, k, e)
  PROVE  VecInv'
<1> DEFINE l == len[v]
           n == l + 1
           c == Copied(mem[v], mem[v], k, k + 1, l - k)
           m == [c EXCEPT ![k] = e]
<1>1. Free(v) /\ k <= l /\ Available(v) > 0 /\ Sets(v, m, n) /\ Give({e}, "vec") /\ sound'
  BY DEF VecInsert, VecInv
<1>2. Used(v) = 0 .. l - 1 /\ l \in Nat /\ Cap \in Nat /\ l <= Cap /\ drain.vec # v /\ drain' = drain /\ copy' = copy
  BY <1>1, FreeSlots
<1>3. k \in Nat /\ l < Cap
  BY <1>1, <1>2 DEF At, Available
<1>4. owner[e] = "client"
  <2>1. 1 \in DOMAIN <<e>> /\ <<e>>[1] = e
    OBVIOUS
  <2>2. Clients(<<e>>)
    BY DEF VecInsert
  <2>3. owner[<<e>>[1]] = "client"
    BY <2>1, <2>2 DEF Clients
  <2> QED BY <2>1, <2>3
<1>5. n \in 0 .. Cap /\ n \in Nat /\ k \in 0 .. n - 1 /\ 0 .. n - 1 = 0 .. l
  BY <1>1, <1>2, <1>3
<1>6. \A i \in 0 .. l : i # k => m[i] = IF i < k THEN mem[v][i] ELSE mem[v][i - 1]
  <2>1. \A i \in 0 .. l : i # k => i \in At /\ (i \in k + 1 .. k + 1 + (l - k) - 1 <=> ~(i < k)) /\ i - (k + 1) + k = i - 1 /\ i - 1 < Cap
    BY <1>2, <1>3 DEF At
  <2>2. \A i \in 0 .. l : i # k => c[i] = IF i < k THEN mem[v][i] ELSE mem[v][i - 1]
    BY <2>1 DEF Copied
  <2>3. DOMAIN c = At
    BY DEF Copied
  <2> HIDE DEF c
  <2> QED BY <2>1, <2>2, <2>3
<1>7. m[k] = e
  <2>1. DOMAIN c = At
    BY DEF Copied
  <2> HIDE DEF c
  <2> QED BY <2>1
<1> HIDE DEF n, m, c
<1> DEFINE f(x) == IF x < k THEN x ELSE x - 1
<1>8. \A i \in 0 .. n - 1 : i = k \/ (f(i) \in Used(v) /\ m[i] = mem[v][f(i)])
  <2>1. \A i \in 0 .. l : i = k \/ f(i) \in Used(v)
    BY <1>1, <1>2, <1>3
  <2> QED BY <1>5, <1>6, <2>1
<1>9. \A i, j \in 0 .. n - 1 : i # k /\ j # k /\ f(i) = f(j) => i = j
  BY <1>3, <1>5
<1>10. \A p \in Used(v) : \E i \in 0 .. n - 1 : i # k /\ f(i) = p
  <2> TAKE p \in Used(v)
  <2>1. CASE p < k
    <3>1. p \in 0 .. n - 1 /\ p # k /\ f(p) = p
      BY <1>2, <1>3, <1>5, <2>1
    <3> QED BY <3>1
  <2>2. CASE ~(p < k)
    <3>1. p + 1 \in 0 .. n - 1 /\ p + 1 # k /\ f(p + 1) = p
      BY <1>2, <1>3, <1>5, <2>2
    <3> QED BY <3>1
  <2> QED BY <2>1, <2>2
<1> HIDE DEF f
<1>11. ASSUME ~copy PROVE e \notin Had(v)
  BY <1>4, <1>11, HeldBy
<1>12. \A i \in 0 .. n - 1 : m[i] \in Elems
  BY <1>7, <1>8, HeldBy
<1>13. ASSUME ~copy PROVE \A i, j \in 0 .. n - 1 : m[i] = m[j] => i = j
  BY <1>7, <1>8, <1>9, <1>11, <1>13, HeldBy
<1>14. Becomes(v, m, n)
  BY <1>1, <1>2, <1>5, <1>12, <1>13 DEF Becomes, m, n, c
<1>15. owner' \in [Elems -> {"client", "vec", "leaked"}]
       /\ (~copy => \A x \in Elems : owner'[x] = "vec" <=> owner[x] = "vec" \/ x = e)
  BY <1>1, Given
<1>16. ~copy => \A i \in 0 .. n - 1 : m[i] \in Had(v) \/ owner[m[i]] = "client"
  BY <1>4, <1>7, <1>8, HeldBy
<1>17. \A x \in Had(v) : \E i \in 0 .. n - 1 : m[i] = x
  <2> TAKE x \in Had(v)
  <2>1. PICK p \in Used(v) : mem[v][p] = x
    BY HeldBy
  <2>2. PICK i \in 0 .. n - 1 : i # k /\ f(i) = p
    BY <1>10
  <2> QED BY <1>8, <2>1, <2>2
<1>18. ~copy => \A x \in Elems : owner'[x] = "vec" <=> owner[x] = "vec" \/ \E i \in 0 .. n - 1 : m[i] = x
  <2> SUFFICES ASSUME ~copy, NEW x \in Elems
               PROVE  owner'[x] = "vec" <=> owner[x] = "vec" \/ \E i \in 0 .. n - 1 : m[i] = x
    OBVIOUS
  <2>1. (\E i \in 0 .. n - 1 : m[i] = x) => x = e \/ owner[x] = "vec"
    BY <1>7, <1>8, HeldBy
  <2> QED BY <1>5, <1>7, <1>15, <2>1
<1>19. Passes(v, m, n)
  BY <1>15, <1>16, <1>17, <1>18, Grows
<1> QED BY <1>1, <1>14, <1>19, OneVec

-----------------------------------------------------------------------------
(* The calls that drop elements or take in several.                        *)

\* m has what v holds, in some order.
Permutes(v, m) ==
  /\ \A i \in Used(v) : m[i] \in Had(v)
  /\ \A e \in Had(v) : \E i \in Used(v) : m[i] = e
  /\ ~copy => \A i, j \in Used(v) : m[i] = m[j] => i = j

\* A vector in any order may be cut, its tail dropped or leaked.
LEMMA CutSafe ==
  ASSUME VecInv, NEW v \in Vecs, NEW m, NEW n \in Nat, NEW k, Free(v), Permutes(v, m),
         n <= len[v], k \in n .. len[v], Sets(v, m, n), DropLoop(m, n, len[v], k, {})
  PROVE  VecInv'
<1>1. /\ Used(v) = 0 .. len[v] - 1 /\ len[v] \in Nat /\ len[v] <= Cap /\ Cap \in Nat
      /\ drain.vec # v /\ drain' = drain /\ copy' = copy
  BY FreeSlots
<1>2. n .. len[v] - 1 \subseteq Used(v) /\ 0 .. n - 1 \subseteq Used(v) /\ n \in 0 .. Cap
      /\ \A i \in Used(v) : i \in 0 .. n - 1 <=> ~(i \in n .. len[v] - 1)
  BY <1>1
<1> DEFINE T == n .. len[v] - 1
           H == 0 .. n - 1
<1> HIDE DEF T, H
<1>3. \A i \in Used(v) : m[i] \in Had(v)
  BY DEF Permutes
<1>4. Owns(m, T)
  <2>1. \A i \in T : i < Cap /\ m[i] # Uninit
    BY <1>1, <1>2, <1>3, HeldBy, VecAssumption DEF T
  <2>2. ASSUME ~copy PROVE \A i, j \in T : owner[m[i]] = "vec" /\ (m[i] = m[j] => i = j)
    BY <1>2, <1>3, <2>2, HeldBy DEF T, Permutes
  <2> QED BY <2>1, <2>2 DEF Owns
<1>5. /\ owner' \in [Elems -> {"client", "vec", "leaked"}] /\ sound'
      /\ ~copy => \A e \in Elems : owner'[e] = "vec" <=> owner[e] = "vec" /\ e \notin Held(m, T)
  <2>1. Owns(m, n .. len[v] - 1)
    BY <1>4 DEF T
  <2>2. /\ owner' \in [Elems -> {"client", "vec", "leaked"}] /\ sound'
        /\ ~copy => \A e \in Elems : owner'[e] = "vec" <=>
             owner[e] = "vec" /\ e \notin Held(m, n .. len[v] - 1) /\ (k < len[v] => e \notin {})
    BY <1>1, <2>1, Dropped
  <2> QED BY <2>2 DEF T
<1>6. \A i \in H : m[i] \in Had(v) /\ m[i] \in Elems
  BY <1>2, <1>3, HeldBy DEF H
<1>7. Becomes(v, m, n)
  <2>1. ~copy => \A i, j \in H : m[i] = m[j] => i = j
    BY <1>2 DEF Permutes, H
  <2> QED BY <1>1, <1>2, <1>6, <2>1 DEF Becomes, H
<1>8. ASSUME ~copy, NEW e \in Elems
      PROVE  owner'[e] = "vec" <=> owner[e] = "vec" /\ (e \in Had(v) => \E i \in H : m[i] = e)
  <2>1. ASSUME e \in Had(v) PROVE e \notin Held(m, T) <=> \E i \in H : m[i] = e
    <3>1. PICK p \in Used(v) : m[p] = e
      BY <2>1 DEF Permutes
    <3>2. \A i \in Used(v) : m[i] = e <=> i = p
      BY <1>8, <3>1 DEF Permutes
    <3>3. e \in Held(m, T) <=> \E i \in T : m[i] = e
      BY DEF Held
    <3> QED BY <1>2, <3>1, <3>2, <3>3 DEF T, H
  <2>2. e \in Held(m, T) => e \in Had(v)
    BY <1>2, <1>3 DEF Held, T
  <2> QED BY <1>5, <1>8, <2>1, <2>2
<1>9. Passes(v, m, n)
  BY <1>5, <1>6, <1>8, Shrinks DEF H
<1> QED BY <1>5, <1>7, <1>9, OneVec

\* truncate, clear and the drop of a vector
LEMMA TruncateSafe ==
  ASSUME VecInv, NEW v \in Vecs, NEW n \in 0 .. Cap, VecTruncate(v, n)
  PROVE  VecInv'
<1>1. Free(v) /\ n \in Nat
  BY VecAssumption DEF VecTruncate
<1>2. len[v] \in Nat /\ drain' = drain /\ copy' = copy
  BY <1>1, FreeSlots
<1>3. CASE n >= len[v]
  <2>1. UNCHANGED <<mem, len, owner, drain, copy, sound>>
    BY <1>2, <1>3 DEF VecTruncate
  <2> QED BY <2>1, VecStutter
<1>4. CASE ~(n >= len[v])
  <2>1. PICK k \in n .. len[v] : DropLoop(mem[v], n, len[v], k, {})
    BY <1>4 DEF VecTruncate
  <2>2. Sets(v, mem[v], n) /\ n <= len[v]
    BY <1>1, <1>2, <1>4 DEF VecTruncate
  <2>3. Permutes(v, mem[v])
    BY HeldBy DEF Permutes
  <2> QED BY <1>1, <2>1, <2>2, <2>3, CutSafe
<1> QED BY <1>3, <1>4

\* What fits of a slice.
LEMMA FittingIs ==
  ASSUME VecInv, NEW v \in Vecs, NEW s \in Slices, NEW n \in 0 .. Len(s), Clients(s)
  PROVE  LET t == Fitting(v, s, n) IN
         /\ Len(t) \in Nat /\ len[v] + Len(t) <= Cap /\ DOMAIN t = 1 .. Len(t)
         /\ \A i \in 1 .. Len(t) : t[i] \in Elems /\ owner[t[i]] = "client"
         /\ \A i, j \in 1 .. Len(t) : t[i] = t[j] => i = j
<1> DEFINE q == Lesser(n, Available(v))
<1>1. PICK m \in 0 .. 2 : s \in [1 .. m -> Elems]
  BY DEF Slices, SeqOf
<1>2. s \in Seq(Elems) /\ Len(s) = m /\ DOMAIN s = 1 .. m /\ m \in Nat /\ n \in Nat /\ n <= m
  BY <1>1
<1>3. q \in Nat /\ q <= m /\ len[v] + q <= Cap
  BY <1>2, SlotRange DEF Lesser, Available
<1>4. \A i \in 1 .. m : s[i] \in Elems /\ owner[s[i]] = "client"
  BY <1>1, <1>2 DEF Clients
<1>5. \A i, j \in 1 .. m : s[i] = s[j] => i = j
  BY <1>2 DEF Clients, IsInjective
<1> HIDE DEF q
<1> DEFINE t == SubSeq(s, 1, q)
<1>6. Len(t) = q /\ DOMAIN t = 1 .. q /\ \A i \in 1 .. q : t[i] = s[i]
  BY <1>2, <1>3
<1>7. Fitting(v, s, n) = t
  BY DEF Fitting, q
<1> HIDE DEF t
<1>8. \A i \in 1 .. q : i \in 1 .. m
  BY <1>2, <1>3
<1> QED BY <1>3, <1>4, <1>5, <1>6, <1>7, <1>8

\* extend, extend_from_slice, write and resize_with
LEMMA ExtendSafe ==
  ASSUME VecInv, NEW v \in Vecs, NEW s \in Slices, NEW u \in 0 .. Len(s),
         VecExtend(v, s, u) \/ VecExtendFromSlice(v, s, u)
  PROVE  VecInv'
<1> DEFINE l == len[v]
           t == Fitting(v, s, u)
           q == Len(t)
           n == l + q
           m == [i \in At |-> IF i \in l .. l + q - 1 THEN t[i - l + 1] ELSE mem[v][i]]
<1>1. Free(v) /\ Clients(s) /\ Sets(v, m, n) /\ Give(ToSet(t), "vec") /\ sound'
  BY DEF VecExtend, VecExtendFromSlice, Extended, VecInv
<1>2. Used(v) = 0 .. l - 1 /\ l \in Nat /\ Cap \in Nat /\ l <= Cap /\ drain.vec # v /\ drain' = drain /\ copy' = copy
  BY <1>1, FreeSlots
<1>3. /\ q \in Nat /\ l + q <= Cap /\ DOMAIN t = 1 .. q
      /\ \A i \in 1 .. q : t[i] \in Elems /\ owner[t[i]] = "client"
      /\ \A i, j \in 1 .. q : t[i] = t[j] => i = j
  BY <1>1, FittingIs
<1> HIDE DEF t, q
<1>4. n \in 0 .. Cap /\ n \in Nat /\ Used(v) \subseteq 0 .. n - 1
  BY <1>2, <1>3
<1>5. \A i \in 0 .. n - 1 : i \in Used(v) \/ (i - l + 1 \in 1 .. q /\ i \in l .. l + q - 1)
  BY <1>2, <1>3
<1>6. \A i \in Used(v) : m[i] = mem[v][i]
  <2>1. \A i \in Used(v) : i \in At /\ i \notin l .. l + q - 1
    BY <1>2, <1>3 DEF At
  <2> QED BY <2>1
<1>7. \A i \in l .. l + q - 1 : m[i] = t[i - l + 1] /\ i - l + 1 \in 1 .. q
  <2>1. \A i \in l .. l + q - 1 : i \in At /\ i - l + 1 \in 1 .. q
    BY <1>2, <1>3 DEF At
  <2> QED BY <2>1
<1> HIDE DEF m, n
<1>8. \A i \in 1 .. q : \E j \in 0 .. n - 1 : m[j] = t[i]
  <2>1. \A a, b \in Nat : \A i \in 1 .. b : \E j \in 0 .. a + b - 1 : j \in a .. a + b - 1 /\ j - a + 1 = i
    <3> TAKE a, b \in Nat
    <3> TAKE i \in 1 .. b
    <3>1. i + a - 1 \in 0 .. a + b - 1 /\ i + a - 1 \in a .. a + b - 1 /\ i + a - 1 - a + 1 = i
      OBVIOUS
    <3> QED BY <3>1
  <2> HIDE DEF l
  <2>2. \A i \in 1 .. q : \E j \in 0 .. n - 1 : j \in l .. l + q - 1 /\ j - l + 1 = i
    BY <1>2, <1>3, <2>1 DEF n
  <2> QED BY <1>7, <2>2
<1>9. \A x : x \in ToSet(t) <=> \E i \in 1 .. q : t[i] = x
  BY <1>3 DEF ToSet
<1>10. \A i \in 0 .. n - 1 : m[i] \in Elems
  BY <1>3, <1>5, <1>6, <1>7, HeldBy
<1>11. \A i \in 0 .. n - 1 : m[i] \in Had(v) \/ owner[m[i]] = "client"
  BY <1>3, <1>5, <1>6, <1>7, HeldBy
<1>12. ASSUME ~copy PROVE \A i, j \in 0 .. n - 1 : m[i] = m[j] => i = j
  <2> TAKE i, j \in 0 .. n - 1
  <2> HAVE m[i] = m[j]
  <2>1. CASE i \in Used(v) /\ j \in Used(v)
    BY <1>6, <1>12, <2>1, HeldBy
  <2>2. CASE i \in l .. l + q - 1 /\ j \in l .. l + q - 1
    <3>1. i - l + 1 = j - l + 1
      BY <1>3, <1>7, <2>2
    <3> QED BY <1>2, <2>2, <3>1
  <2>3. CASE i \in Used(v) /\ j \in l .. l + q - 1
    <3>1. owner[m[i]] = "vec" /\ owner[m[j]] = "client"
      BY <1>3, <1>6, <1>7, <1>12, <2>3, HeldBy
    <3> QED BY <3>1
  <2>4. CASE j \in Used(v) /\ i \in l .. l + q - 1
    <3>1. owner[m[j]] = "vec" /\ owner[m[i]] = "client"
      BY <1>3, <1>6, <1>7, <1>12, <2>4, HeldBy
    <3> QED BY <3>1
  <2> QED BY <1>5, <2>1, <2>2, <2>3, <2>4
<1>13. Becomes(v, m, n)
  BY <1>1, <1>2, <1>4, <1>10, <1>12 DEF Becomes, m, n
<1>14. owner' \in [Elems -> {"client", "vec", "leaked"}]
       /\ (~copy => \A x \in Elems : owner'[x] = "vec" <=> owner[x] = "vec" \/ x \in ToSet(t))
  BY <1>1, Given
<1>15. \A x \in Had(v) : \E i \in 0 .. n - 1 : m[i] = x
  BY <1>4, <1>6, HeldBy
<1>16. ASSUME ~copy, NEW x \in Elems
       PROVE  owner'[x] = "vec" <=> owner[x] = "vec" \/ \E i \in 0 .. n - 1 : m[i] = x
  <2>1. x \in ToSet(t) => \E i \in 0 .. n - 1 : m[i] = x
    BY <1>8, <1>9
  <2>2. ASSUME NEW i \in 0 .. n - 1, m[i] = x PROVE owner[x] = "vec" \/ x \in ToSet(t)
    BY <1>5, <1>6, <1>7, <1>9, <1>16, <2>2, HeldBy
  <2> QED BY <1>14, <1>16, <2>1, <2>2
<1>17. Passes(v, m, n)
  BY <1>11, <1>14, <1>15, <1>16, Grows
<1> QED BY <1>1, <1>13, <1>17, OneVec DEF m, n

\* A set of numbers that is not empty has a least member.
LEMMA LeastSlot ==
  ASSUME NEW S, S \subseteq Nat, S # {}
  PROVE  \E x \in S : \A y \in S : x <= y
<1> DEFINE R == {ss \in Nat \X Nat : ss[1] < ss[2]}
<1>1. IsWellFoundedOn(R, Nat)
  BY NatLessThanWellFounded DEF OpToRel
<1>2. \A x, y \in Nat : y < x => <<y, x>> \in R
  OBVIOUS
<1> HIDE DEF R
<1>3. PICK x \in S : \A y \in S : ~(<<y, x>> \in R)
  BY <1>1, WFMin
<1>4. \A y \in S : ~(y < x)
  BY <1>2, <1>3
<1> QED BY <1>4

-----------------------------------------------------------------------------
(* The loop of retain.                                                     *)

\* One turn of the loop, and the turns up to slot n.
Turn(S, r, i) == IF i \in S THEN SwapDown(r, i) ELSE r

Turns(a, S, n, f) ==
  f[0] = a /\ \A k \in 1 .. n : f[k] = Turn(S, f[k - 1], k - 1)

\* The loop runs to any slot.
LEMMA TurnsExist ==
  ASSUME NEW a, NEW S, NEW n \in Nat
  PROVE  \E f : Turns(a, S, n, f)
<1> DEFINE B == {k \in Nat : ~ \E f : Turns(a, S, k, f)}
<1> SUFFICES ASSUME B # {} PROVE FALSE
  OBVIOUS
<1>1. PICK k \in B : \A y \in B : k <= y
  BY LeastSlot
<1>2. k \in Nat /\ ~ \E f : Turns(a, S, k, f)
  OBVIOUS
<1>3. CASE k = 0
  <2> DEFINE f == [i \in {0} |-> a]
  <2>1. f[0] = a /\ 1 .. k = {}
    BY <1>3
  <2>2. Turns(a, S, k, f)
    BY <2>1 DEF Turns
  <2> QED BY <1>2, <2>2
<1>4. CASE k # 0
  <2>1. k - 1 \in Nat /\ ~(k <= k - 1)
    BY <1>2, <1>4
  <2>2. k - 1 \notin B
    BY <1>1, <2>1
  <2>3. PICK f : Turns(a, S, k - 1, f)
    BY <2>1, <2>2
  <2> DEFINE g == [i \in 0 .. k |-> IF i = k THEN Turn(S, f[k - 1], k - 1) ELSE f[i]]
  <2>4. \A i \in 0 .. k - 1 : g[i] = f[i] /\ i # k
    BY <1>2
  <2>5. g[k] = Turn(S, f[k - 1], k - 1) /\ 0 \in 0 .. k - 1 /\ k - 1 \in 0 .. k - 1
    BY <1>2, <1>4
  <2>6. \A i \in 1 .. k : i = k \/ (i \in 1 .. k - 1 /\ i \in 0 .. k - 1 /\ i - 1 \in 0 .. k - 1)
    BY <1>2
  <2> HIDE DEF g
  <2>7. Turns(a, S, k, g)
    <3>1. g[0] = a
      BY <2>3, <2>4, <2>5 DEF Turns
    <3>2. \A i \in 1 .. k : g[i] = Turn(S, g[i - 1], i - 1)
      BY <2>3, <2>4, <2>5, <2>6 DEF Turns
    <3> QED BY <3>1, <3>2 DEF Turns
  <2> QED BY <1>2, <2>7
<1> QED BY <1>3, <1>4

\* And in one way.
LEMMA TurnsAgree ==
  ASSUME NEW a, NEW S, NEW n \in Nat, NEW p \in Nat, n <= p, NEW f, NEW g,
         Turns(a, S, n, f), Turns(a, S, p, g)
  PROVE  f[n] = g[n]
<1> DEFINE B == {k \in 0 .. n : f[k] # g[k]}
<1> SUFFICES ASSUME B # {} PROVE FALSE
  OBVIOUS
<1>0. B \subseteq Nat
  OBVIOUS
<1> HIDE DEF B
<1>1. PICK k \in B : \A y \in B : k <= y
  BY <1>0, LeastSlot
<1> USE DEF B
<1>2. k \in 0 .. n /\ f[k] # g[k]
  OBVIOUS
<1>3. k # 0
  BY <1>2 DEF Turns
<1>4. k - 1 \in 0 .. n /\ ~(k <= k - 1) /\ k \in 1 .. n /\ k \in 1 .. p
  BY <1>2, <1>3
<1>5. f[k - 1] = g[k - 1]
  BY <1>1, <1>4
<1> QED BY <1>2, <1>4, <1>5 DEF Turns

\* So the recursive definition of the loop is what the loop computes.
LEMMA SwappedIs ==
  ASSUME NEW v, NEW S, NEW n \in Nat
  PROVE  \E g : Swapped(v, S, n) = g[n] /\ \A p \in Nat : Turns([m |-> mem[v], j |-> 0], S, p, g)
<1> DEFINE a == [m |-> mem[v], j |-> 0]
           F == [k \in Nat |-> (CHOOSE f : Turns(a, S, k, f))[k]]
           loop[k \in Nat] == IF k = 0 THEN [m |-> mem[v], j |-> 0]
                              ELSE IF k - 1 \in S THEN SwapDown(loop[k - 1], k - 1) ELSE loop[k - 1]
<1> HIDE DEF a
<1>1. \A k \in Nat : Turns(a, S, k, CHOOSE f : Turns(a, S, k, f))
  BY TurnsExist
<1>2. F[0] = a
  BY <1>1 DEF Turns
<1>3. ASSUME NEW k \in Nat, k # 0 PROVE F[k] = Turn(S, F[k - 1], k - 1)
  <2> DEFINE f == CHOOSE h : Turns(a, S, k, h)
             g == CHOOSE h : Turns(a, S, k - 1, h)
  <2>1. k - 1 \in Nat /\ k - 1 <= k /\ k \in 1 .. k
    BY <1>3
  <2>2. Turns(a, S, k, f) /\ Turns(a, S, k - 1, g)
    BY <1>1, <2>1
  <2>3. F[k] = f[k] /\ F[k - 1] = g[k - 1]
    BY <2>1
  <2> HIDE DEF f, g, F
  <2>4. g[k - 1] = f[k - 1]
    BY <2>1, <2>2, TurnsAgree
  <2>5. f[k] = Turn(S, f[k - 1], k - 1)
    BY <2>1, <2>2 DEF Turns
  <2> QED BY <2>3, <2>4, <2>5
<1>4. F = [k \in Nat |-> F[k]]
  OBVIOUS
<1> HIDE DEF F
<1>5. F = [k \in Nat |-> IF k = 0 THEN [m |-> mem[v], j |-> 0]
                         ELSE IF k - 1 \in S THEN SwapDown(F[k - 1], k - 1) ELSE F[k - 1]]
  BY <1>2, <1>3, <1>4 DEF Turn, a
<1>6. loop = [k \in Nat |-> IF k = 0 THEN [m |-> mem[v], j |-> 0]
                            ELSE IF k - 1 \in S THEN SwapDown(loop[k - 1], k - 1) ELSE loop[k - 1]]
  BY <1>5, Zenon
<1>7. Swapped(v, S, n) = loop[n]
  BY Zenon DEF Swapped
<1> HIDE DEF loop
<1>8. loop[0] = a /\ \A k \in Nat : k # 0 => loop[k] = Turn(S, loop[k - 1], k - 1)
  BY <1>6 DEF Turn, a
<1>9. \A p \in Nat : Turns(a, S, p, loop)
  BY <1>8 DEF Turns
<1> QED BY <1>7, <1>9 DEF a

\* A swap of two slots keeps what v holds.
LEMMA SwapKeeps ==
  ASSUME VecInv, NEW v \in Vecs, NEW m, DOMAIN m = At, Permutes(v, m),
         NEW i \in Used(v), NEW j \in Used(v)
  PROVE  LET s == [m EXCEPT ![i] = m[j], ![j] = m[i]] IN DOMAIN s = At /\ Permutes(v, s)
<1> DEFINE s == [m EXCEPT ![i] = m[j], ![j] = m[i]]
           to(x) == IF x = j THEN i ELSE IF x = i THEN j ELSE x
<1>1. \A x \in Used(v) : x \in At
  BY SlotRange
<1>2. DOMAIN s = At /\ \A x \in Used(v) : s[x] = m[to(x)]
  BY <1>1
<1>3. \A x \in Used(v) : to(x) \in Used(v) /\ to(to(x)) = x
  OBVIOUS
<1> HIDE DEF s, to
<1>4. \A x \in Used(v) : s[x] \in Had(v)
  BY <1>2, <1>3 DEF Permutes
<1>5. \A e \in Had(v) : \E x \in Used(v) : s[x] = e
  <2> TAKE e \in Had(v)
  <2>1. PICK x \in Used(v) : m[x] = e
    BY DEF Permutes
  <2> QED BY <1>2, <1>3, <2>1
<1>6. ASSUME ~copy PROVE \A x, y \in Used(v) : s[x] = s[y] => x = y
  <2> TAKE x, y \in Used(v)
  <2> HAVE s[x] = s[y]
  <2>1. to(x) = to(y)
    BY <1>2, <1>3, <1>6 DEF Permutes
  <2> QED BY <1>3, <2>1
<1> QED BY <1>2, <1>4, <1>5, <1>6 DEF Permutes, s

\* The loop keeps what v holds, and the slots it has kept are below the turn.
LEMMA LoopKeeps ==
  ASSUME VecInv, NEW v \in Vecs, Free(v), NEW S, NEW n \in 0 .. len[v]
  PROVE  Permutes(v, Swapped(v, S, n).m) /\ Swapped(v, S, n).j \in 0 .. n
<1>1. Used(v) = 0 .. len[v] - 1 /\ len[v] \in Nat /\ n \in Nat
  BY FreeSlots
<1> DEFINE a == [m |-> mem[v], j |-> 0]
           Good(r, k) == DOMAIN r.m = At /\ Permutes(v, r.m) /\ r.j \in 0 .. k
<1>2. PICK g : Swapped(v, S, n) = g[n] /\ \A p \in Nat : Turns(a, S, p, g)
  BY <1>1, SwappedIs
<1>3. Turns(a, S, n, g)
  BY <1>1, <1>2
<1> DEFINE B == {k \in 0 .. n : ~Good(g[k], k)}
<1> SUFFICES ASSUME B # {} PROVE FALSE
  BY <1>1, <1>2
<1>4. B \subseteq Nat
  BY <1>1
<1>5. PICK k \in B : \A y \in B : k <= y
  BY <1>4, LeastSlot
<1>6. k \in 0 .. n /\ ~Good(g[k], k)
  OBVIOUS
<1>7. CASE k = 0
  <2>1. g[0] = a
    BY <1>3 DEF Turns
  <2>2. Permutes(v, mem[v])
    BY HeldBy DEF Permutes
  <2>3. DOMAIN mem[v] = At
    BY DEF VecInv, VecTypes
  <2>4. a.m = mem[v] /\ a.j \in 0 .. 0
    OBVIOUS
  <2> QED BY <1>6, <1>7, <2>1, <2>2, <2>3, <2>4
<1>8. CASE k # 0
  <2> DEFINE i == k - 1
             r == g[i]
  <2>1. i \in 0 .. n /\ ~(k <= i) /\ k \in 1 .. n /\ i \in Used(v) /\ k = i + 1 /\ i \in Nat
    BY <1>1, <1>6, <1>8
  <2>2. i \notin B
    BY <1>5, <2>1
  <2>3. DOMAIN r.m = At /\ Permutes(v, r.m) /\ r.j \in 0 .. i
    BY <2>1, <2>2
  <2>4. g[k] = Turn(S, r, i)
    BY <1>3, <2>1 DEF Turns
  <2> HIDE DEF r, i
  <2>5. CASE i \notin S
    <3>1. g[k] = r /\ r.j \in 0 .. k
      BY <2>1, <2>3, <2>4, <2>5 DEF Turn
    <3> QED BY <1>6, <2>3, <3>1
  <2>6. CASE i \in S
    <3> DEFINE q == r.j
               s == [r.m EXCEPT ![i] = r.m[q], ![q] = r.m[i]]
    <3>1. q \in Used(v) /\ q + 1 \in 0 .. k
      BY <1>1, <2>1, <2>3
    <3>2. DOMAIN s = At /\ Permutes(v, s)
      BY <2>1, <2>3, <3>1, SwapKeeps
    <3>3. g[k] = [m |-> s, j |-> q + 1]
      BY <2>4, <2>6 DEF Turn, SwapDown
    <3> HIDE DEF s, q
    <3>4. g[k].m = s /\ g[k].j = q + 1
      BY <3>3
    <3> QED BY <1>6, <3>1, <3>2, <3>4
  <2> QED BY <2>5, <2>6
<1> QED BY <1>7, <1>8

\* retain
LEMMA RetainSafe ==
  ASSUME VecInv, NEW v \in Vecs, NEW S, VecRetain(v, S)
  PROVE  VecInv'
<1> DEFINE r == Swapped(v, S, len[v])
<1>1. Free(v) /\ Sets(v, r.m, r.j) /\ \E k \in r.j .. len[v] : DropLoop(r.m, r.j, len[v], k, {})
  BY DEF VecRetain
<1>2. len[v] \in Nat /\ len[v] \in 0 .. len[v]
  BY <1>1, FreeSlots
<1>3. Permutes(v, r.m) /\ r.j \in 0 .. len[v]
  BY <1>1, <1>2, LoopKeeps
<1> HIDE DEF r
<1>4. PICK k \in r.j .. len[v] : DropLoop(r.m, r.j, len[v], k, {})
  BY <1>1
<1>5. r.j \in Nat /\ r.j <= len[v]
  BY <1>2, <1>3
<1> QED BY <1>1, <1>3, <1>4, <1>5, CutSafe

\* retain, when its predicate panics: all is kept
LEMMA RetainPanicsSafe ==
  ASSUME VecInv, NEW v \in Vecs, NEW S, NEW n \in At, VecRetainPanics(v, S, n)
  PROVE  VecInv'
<1> DEFINE m == Swapped(v, S, n).m
<1>1. Free(v) /\ n < len[v] /\ Sets(v, m, len[v]) /\ owner' = owner /\ sound'
  BY DEF VecRetainPanics, VecInv
<1>2. /\ Used(v) = 0 .. len[v] - 1 /\ len[v] \in Nat /\ len[v] <= Cap /\ Cap \in Nat
      /\ drain.vec # v /\ drain' = drain /\ copy' = copy
  BY <1>1, FreeSlots
<1>3. n \in 0 .. len[v] /\ len[v] \in 0 .. Cap
  BY <1>1, <1>2 DEF At
<1>4. Permutes(v, m)
  BY <1>1, <1>3, LoopKeeps
<1> HIDE DEF m
<1>5. owner \in [Elems -> {"client", "vec", "leaked"}]
  BY DEF VecInv, VecTypes
<1>6. Becomes(v, m, len[v])
  BY <1>1, <1>2, <1>3, <1>4, HeldBy DEF Becomes, Permutes
<1>7. Passes(v, m, len[v])
  <2>1. \A i \in 0 .. len[v] - 1 : m[i] \in Had(v)
    BY <1>2, <1>4 DEF Permutes
  <2>2. \A e \in Elems : owner'[e] = "vec" <=>
          owner[e] = "vec" /\ (e \in Had(v) => \E i \in 0 .. len[v] - 1 : m[i] = e)
    BY <1>1, <1>2, <1>4 DEF Permutes
  <2> QED BY <1>1, <1>5, <2>1, <2>2, Shrinks
<1> QED BY <1>1, <1>6, <1>7, OneVec

-----------------------------------------------------------------------------
(* Drain.                                                                  *)

\* A step of a Drain that moves nothing.
LEMMA SameSlots ==
  ASSUME VecInv, mem' = mem, owner' = owner, copy' = copy, sound',
         len' \in [Vecs -> 0 .. Cap], DrainInv', \A w \in Vecs : Used(w)' = Used(w)
  PROVE  VecInv'
<1>1. VecTypes'
  BY DEF VecInv, VecTypes
<1>2. SlotInv' /\ OwnInv'
  BY DEF VecInv, SlotInv, OwnInv
<1> QED BY <1>1, <1>2 DEF VecInv

\* What the Drain in existence is.
LEMMA DrainIs ==
  ASSUME VecInv, NEW v \in Vecs, drain.vec = v
  PROVE  /\ drain = [vec |-> v, start |-> drain.start, end |-> drain.end,
                     current |-> drain.current, len |-> drain.len]
         /\ drain.len \in Nat /\ drain.len <= Cap /\ drain.end \in Nat /\ drain.end <= drain.len
         /\ drain.current \in Nat /\ drain.current <= drain.end
         /\ drain.start \in Nat /\ drain.start <= drain.current
         /\ Used(v) = 0 .. drain.len - 1 /\ len[v] = drain.start /\ Cap \in Nat
         /\ ~copy => drain.current = drain.start
<1>1. drain # NoDrain
  BY SlotRange
<1>2. Used(v) = 0 .. drain.len - 1
  BY DEF Used, Filled
<1> QED BY <1>1, <1>2, VecAssumption DEF VecInv, DrainInv

\* drain
LEMMA DrainNewSafe ==
  ASSUME VecInv, NEW v \in Vecs, NEW a \in 0 .. Cap, NEW b \in 0 .. Cap, DrainNew(v, a, b)
  PROVE  VecInv'
<1>1. /\ drain = NoDrain /\ a <= b /\ b <= len[v]
      /\ drain' = [vec |-> v, start |-> a, end |-> b, current |-> a, len |-> len[v]]
      /\ len' = [len EXCEPT ![v] = a] /\ copy' = copy /\ mem' = mem /\ owner' = owner /\ sound'
  BY DEF DrainNew, VecInv
<1>2. len \in [Vecs -> 0 .. Cap] /\ Cap \in Nat
  BY VecAssumption DEF VecInv, VecTypes
<1>3. len' \in [Vecs -> 0 .. Cap] /\ len'[v] = a /\ \A w \in Vecs \ {v} : len'[w] = len[w]
  BY <1>1, <1>2
<1>4. DrainInv'
  BY <1>1, <1>2, <1>3 DEF DrainInv
<1>5. \A w \in Vecs : Used(w)' = Used(w)
  <2> TAKE w \in Vecs
  <2>1. drain.vec # w
    BY <1>1, SlotRange
  <2> QED BY <1>1, <1>3, <2>1 DEF Used, Filled
<1> QED BY <1>1, <1>3, <1>4, <1>5, SameSlots

\* Drain::next, of a type that needs no drop
LEMMA DrainNextSafe ==
  ASSUME AvoidDrain, VecInv, NEW v \in Vecs, DrainNext(v)
  PROVE  VecInv'
<1> DEFINE c == drain.current
<1>1. /\ drain.vec = v /\ c < drain.end /\ copy /\ TakeOut(mem[v], c) /\ copy' = copy
      /\ drain' = [drain EXCEPT !.current = @ + 1] /\ mem' = mem /\ len' = len
  BY DEF DrainNext
<1>2. /\ drain = [vec |-> v, start |-> drain.start, end |-> drain.end, current |-> c, len |-> drain.len]
      /\ drain.len \in Nat /\ drain.len <= Cap /\ drain.end \in Nat /\ drain.end <= drain.len
      /\ c \in Nat /\ c <= drain.end /\ drain.start \in Nat /\ drain.start <= c
      /\ Used(v) = 0 .. drain.len - 1 /\ len[v] = drain.start /\ Cap \in Nat
  BY <1>1, DrainIs
<1>3. c \in Used(v)
  BY <1>1, <1>2
<1>4. sound' /\ owner' = owner
  <2>1. sound'
    BY <1>1, <1>3, TakenOut
  <2>2. owner' = [e \in Elems |-> owner[e]]
    BY <1>1 DEF TakeOut, Give
  <2> QED BY <2>1, <2>2 DEF VecInv, VecTypes
<1>5. drain' = [vec |-> v, start |-> drain.start, end |-> drain.end, current |-> c + 1, len |-> drain.len]
  BY <1>1, <1>2
<1>6. c + 1 \in 0 .. drain.end /\ drain.start \in 0 .. c + 1 /\ drain.end \in 0 .. drain.len /\ drain.len \in 0 .. Cap
  BY <1>1, <1>2
<1>7. DrainInv'
  BY <1>1, <1>2, <1>5, <1>6 DEF DrainInv
<1>8. \A w \in Vecs : Used(w)' = Used(w)
  BY <1>1, <1>5 DEF Used, Filled
<1>9. len' \in [Vecs -> 0 .. Cap]
  BY <1>1 DEF VecInv, VecTypes
<1> QED BY <1>1, <1>4, <1>7, <1>8, <1>9, SameSlots

\* A call that keeps the slots K, in some order, and gives the others up.
Keeps(v, K, m, n) ==
  /\ K \subseteq Used(v)
  /\ \A i \in 0 .. n - 1 : \E p \in K : m[i] = mem[v][p]
  /\ \A p \in K : \E i \in 0 .. n - 1 : m[i] = mem[v][p]
  /\ ~copy => \A i, j \in 0 .. n - 1 : m[i] = m[j] => i = j
  /\ ~copy => \A e \in Elems : owner'[e] = "vec" <=>
                owner[e] = "vec" /\ e \notin Held(mem[v], Used(v) \ K)

\* Such a call is safe.
LEMMA KeepsSafe ==
  ASSUME VecInv, NEW v \in Vecs, NEW K, NEW m, NEW n \in 0 .. Cap, Keeps(v, K, m, n),
         owner' \in [Elems -> {"client", "vec", "leaked"}], sound', copy' = copy, Sets(v, m, n),
         drain.vec = v, drain' = NoDrain
  PROVE  VecInv'
<1>1. /\ K \subseteq Used(v)
      /\ \A i \in 0 .. n - 1 : \E p \in K : m[i] = mem[v][p]
      /\ \A p \in K : \E i \in 0 .. n - 1 : m[i] = mem[v][p]
  BY DEF Keeps
<1>2. \A i \in 0 .. n - 1 : m[i] \in Elems /\ m[i] \in Had(v)
  BY <1>1, HeldBy
<1>3. Becomes(v, m, n)
  BY <1>2 DEF Becomes, Keeps
<1>4. ASSUME ~copy, NEW e \in Elems
      PROVE  owner'[e] = "vec" <=> owner[e] = "vec" /\ (e \in Had(v) => \E i \in 0 .. n - 1 : m[i] = e)
  <2>1. owner'[e] = "vec" <=> owner[e] = "vec" /\ e \notin Held(mem[v], Used(v) \ K)
    BY <1>4 DEF Keeps
  <2>2. ASSUME e \in Had(v) PROVE e \notin Held(mem[v], Used(v) \ K) <=> \E i \in 0 .. n - 1 : m[i] = e
    <3>1. PICK p \in Used(v) : mem[v][p] = e
      BY <2>2, HeldBy
    <3>2. \A q \in Used(v) : mem[v][q] = e <=> q = p
      BY <1>4, <3>1, HeldBy
    <3>3. e \notin Held(mem[v], Used(v) \ K) <=> p \in K
      BY <3>1, <3>2 DEF Held
    <3>4. (\E i \in 0 .. n - 1 : m[i] = e) <=> p \in K
      BY <1>1, <3>1, <3>2
    <3> QED BY <3>3, <3>4
  <2>3. e \in Held(mem[v], Used(v) \ K) => e \in Had(v)
    BY DEF Held, Had
  <2> QED BY <2>1, <2>2, <2>3
<1>5. Passes(v, m, n)
  BY <1>2, <1>4, Shrinks
<1> QED BY <1>3, <1>5, OneVec

\* mem::forget of a Drain
LEMMA DrainForgetSafe ==
  ASSUME VecInv, NEW v \in Vecs, DrainForget(v)
  PROVE  VecInv'
<1> DEFINE n == drain.start
           K == 0 .. n - 1
           T == drain.current .. drain.len - 1
<1>1. /\ drain.vec = v /\ Give(Held(mem[v], T), "leaked") /\ Sets(v, mem[v], len[v])
      /\ drain' = NoDrain /\ copy' = copy /\ sound'
  BY DEF DrainForget, VecInv
<1>2. /\ drain.len \in Nat /\ drain.len <= Cap /\ drain.end <= drain.len /\ drain.end \in Nat
      /\ drain.current \in Nat /\ drain.current <= drain.end /\ n \in Nat /\ n <= drain.current
      /\ Used(v) = 0 .. drain.len - 1 /\ len[v] = n /\ Cap \in Nat /\ (~copy => drain.current = n)
  BY <1>1, DrainIs
<1>3. K \subseteq Used(v) /\ n \in 0 .. Cap /\ (~copy => T = Used(v) \ K)
  BY <1>2
<1>4. /\ owner' \in [Elems -> {"client", "vec", "leaked"}]
      /\ ~copy => \A e \in Elems : owner'[e] = "vec" <=> owner[e] = "vec" /\ e \notin Held(mem[v], T)
  <2>1. owner' = [e \in Elems |-> IF e \in Held(mem[v], T) /\ ~copy THEN "leaked" ELSE owner[e]]
    BY <1>1 DEF Give
  <2>2. owner \in [Elems -> {"client", "vec", "leaked"}]
    BY DEF VecInv, VecTypes
  <2> HIDE DEF T
  <2> QED BY <2>1, <2>2
<1> HIDE DEF T, n
<1>5. Keeps(v, K, mem[v], n)
  BY <1>3, <1>4, HeldBy DEF Keeps
<1> QED BY <1>1, <1>2, <1>3, <1>4, <1>5, KeepsSafe

\* The drop of a Drain
LEMMA DrainDropSafe ==
  ASSUME VecInv, NEW v \in Vecs, DrainDrop(v)
  PROVE  VecInv'
<1> DEFINE a == drain.start
           b == drain.end
           l == drain.len
<1>1. drain.vec = v /\ drain' = NoDrain /\ copy' = copy
  BY DEF DrainDrop
<1>2. /\ l \in Nat /\ l <= Cap /\ b \in Nat /\ b <= l /\ a \in Nat /\ a <= b
      /\ Used(v) = 0 .. l - 1 /\ len[v] = a /\ Cap \in Nat
  <2>1. /\ l \in Nat /\ l <= Cap /\ b \in Nat /\ b <= l /\ drain.current \in Nat /\ drain.current <= b
        /\ a \in Nat /\ a <= drain.current /\ Used(v) = 0 .. l - 1 /\ len[v] = a /\ Cap \in Nat
    BY <1>1, DrainIs
  <2> QED BY <2>1
<1>3. PICK k \in a .. b :
        /\ DropLoop(mem[v], a, b, k, Held(mem[v], AfterRange))
        /\ IF k = b THEN Sets(v, Copied(mem[v], mem[v], b, a, l - b), l - (b - a))
                    ELSE Sets(v, mem[v], len[v])
  BY DEF DrainDrop
<1>4. AfterRange = b .. l - 1
  BY DEF AfterRange
<1> HIDE DEF a, b, l
<1>5. Owns(mem[v], a .. b - 1)
  <2>1. a .. b - 1 \subseteq Used(v)
    BY <1>2
  <2> QED BY <2>1, MayEnd
<1>6. /\ owner' \in [Elems -> {"client", "vec", "leaked"}] /\ sound'
      /\ ~copy => \A e \in Elems : owner'[e] = "vec" <=>
           owner[e] = "vec" /\ e \notin Held(mem[v], a .. b - 1) /\ (k < b => e \notin Held(mem[v], b .. l - 1))
  <2>1. DropLoop(mem[v], a, b, k, Held(mem[v], b .. l - 1))
    BY <1>3, <1>4
  <2> DEFINE lost == Held(mem[v], b .. l - 1)
  <2> HIDE DEF lost
  <2>2. DropLoop(mem[v], a, b, k, lost)
    BY <2>1 DEF lost
  <2>3. /\ owner' \in [Elems -> {"client", "vec", "leaked"}] /\ sound'
        /\ ~copy => \A e \in Elems : owner'[e] = "vec" <=>
             owner[e] = "vec" /\ e \notin Held(mem[v], a .. b - 1) /\ (k < b => e \notin lost)
    <3>1. a \in Nat /\ b \in Nat /\ a <= b
      BY <1>2
    <3> QED BY <1>5, <2>2, <3>1, Dropped, ZenonT(60)
  <2> QED BY <2>3 DEF lost
<1>7. CASE k = b
  <2> DEFINE m == Copied(mem[v], mem[v], b, a, l - b)
             n == l - (b - a)
             K == (0 .. a - 1) \cup (b .. l - 1)
             f(i) == IF i < a THEN i ELSE i - a + b
  <2>1. Sets(v, m, n) /\ n \in 0 .. Cap /\ n \in Nat /\ ~(k < b)
    BY <1>2, <1>3, <1>7
  <2>2. K \subseteq Used(v) /\ Used(v) \ K = a .. b - 1
    BY <1>2
  <2>3. \A i \in 0 .. n - 1 : f(i) \in K /\ i \in At /\ (i \in a .. a + (l - b) - 1 /\ i - a + b < Cap <=> ~(i < a))
    BY <1>2 DEF At
  <2>4. \A i \in 0 .. n - 1 : m[i] = mem[v][f(i)]
    BY <2>3 DEF Copied
  <2>5. \A i, j \in 0 .. n - 1 : f(i) = f(j) => i = j
    BY <1>2
  <2>6. \A p \in K : \E i \in 0 .. n - 1 : f(i) = p
    <3> TAKE p \in K
    <3>1. CASE p < a
      <4>1. p \in 0 .. n - 1 /\ f(p) = p
        BY <1>2, <3>1
      <4> QED BY <4>1
    <3>2. CASE ~(p < a)
      <4>1. p - b + a \in 0 .. n - 1 /\ f(p - b + a) = p
        BY <1>2, <3>2
      <4> QED BY <4>1
    <3> QED BY <3>1, <3>2
  <2> HIDE DEF m, n, K, f
  <2>7. ~copy => \A i, j \in 0 .. n - 1 : m[i] = m[j] => i = j
    BY <2>2, <2>3, <2>4, <2>5, HeldBy
  <2>8. ~copy => \A e \in Elems : owner'[e] = "vec" <=> owner[e] = "vec" /\ e \notin Held(mem[v], Used(v) \ K)
    BY <1>6, <2>1, <2>2
  <2>9. Keeps(v, K, m, n)
    BY <2>2, <2>3, <2>4, <2>6, <2>7, <2>8 DEF Keeps
  <2> QED BY <1>1, <1>6, <2>1, <2>9, KeepsSafe
<1>8. CASE k # b
  <2> DEFINE K == 0 .. a - 1
  <2>1. Sets(v, mem[v], a) /\ a \in 0 .. Cap /\ k < b
    BY <1>2, <1>3, <1>8
  <2>2. K \subseteq Used(v) /\ Used(v) \ K = (a .. b - 1) \cup (b .. l - 1)
    BY <1>2
  <2>3. \A e : e \in Held(mem[v], Used(v) \ K) <=>
               e \in Held(mem[v], a .. b - 1) \/ e \in Held(mem[v], b .. l - 1)
    BY <2>2 DEF Held
  <2>4. ~copy => \A e \in Elems : owner'[e] = "vec" <=> owner[e] = "vec" /\ e \notin Held(mem[v], Used(v) \ K)
    BY <1>6, <2>1, <2>3
  <2>5. Keeps(v, K, mem[v], a)
    BY <2>2, <2>4, HeldBy DEF Keeps
  <2> QED BY <1>1, <1>6, <2>1, <2>5, KeepsSafe
<1> QED BY <1>7, <1>8

-----------------------------------------------------------------------------
(* append, where two vectors change.                                       *)

\* The slots after an append, each with the slot that its element came from:
\* slots of v from len[v] on come from the front of w, those of w from n on.
LEMMA Appended ==
  ASSUME AvoidAppend, VecInv, NEW v \in Vecs, NEW w \in Vecs, VecAppend(v, w)
  PROVE  LET n == Lesser(Available(v), len[w]) IN
         /\ v # w /\ n \in Nat /\ n <= len[w] /\ len[v] + n <= Cap /\ VecTypes' /\ DrainInv' /\ sound'
         /\ copy' = copy /\ owner' = owner /\ Used(v) = 0 .. len[v] - 1 /\ Used(w) = 0 .. len[w] - 1
         /\ Used(v)' = 0 .. len[v] + n - 1 /\ Used(w)' = 0 .. len[w] - n - 1
         /\ \A u \in Vecs \ {v, w} : Used(u)' = Used(u) /\ mem'[u] = mem[u]
         /\ \A i \in Used(v)' : mem'[v][i] = IF i < len[v] THEN mem[v][i] ELSE mem[w][i - len[v]]
         /\ \A i \in Used(w)' : mem'[w][i] = mem[w][i + n]
<1> DEFINE n == Lesser(Available(v), len[w])
           lv == len[v]
           lw == len[w]
           mv == Copied(mem[w], mem[v], 0, lv, n)
           mw == Cut(ExciseFront(mem[w], n), lw - n)
<1>1. /\ v # w /\ Free(v) /\ Free(w) /\ owner' = owner
      /\ mem' = [mem EXCEPT ![v] = mv, ![w] = mw]
      /\ len' = [len EXCEPT ![v] = @ + n, ![w] = @ - n]
      /\ sound' = (sound /\ 2 * n <= Cap)
      /\ lw <= 2 * n /\ 2 * n <= Cap
  BY DEF VecAppend
<1>2. Used(v) = 0 .. lv - 1 /\ lv \in Nat /\ lv <= Cap /\ Cap \in Nat /\ drain.vec # v /\ drain' = drain /\ copy' = copy
  BY <1>1, FreeSlots
<1>3. Used(w) = 0 .. lw - 1 /\ lw \in Nat /\ lw <= Cap /\ drain.vec # w
  BY <1>1, FreeSlots
<1>4. n \in Nat /\ n <= lw /\ lv + n <= Cap /\ lw - n \in 0 .. Cap /\ lv + n \in 0 .. Cap
  <2>1. \A c, x, y \in Nat : (x <= c /\ y <= c) =>
          LET z == Lesser(c - x, y) IN z \in Nat /\ z <= y /\ x + z <= c /\ y - z \in 0 .. c /\ x + z \in 0 .. c
    BY DEF Lesser
  <2>2. n = Lesser(Cap - lv, lw)
    BY DEF Available
  <2> HIDE DEF n, lv, lw
  <2> QED BY <1>2, <1>3, <2>1, <2>2
<1>5. VecTypes
  BY DEF VecInv
<1>6. mv \in [At -> Elems \cup {Uninit}] /\ \A i \in 0 .. lv + n - 1 : mv[i] = IF i < lv THEN mem[v][i] ELSE mem[w][i - lv]
  <2>1. \A i \in At : i \in lv .. lv + n - 1 /\ i - lv + 0 < Cap => i - lv + 0 \in At
    BY <1>2, <1>4 DEF At
  <2>2. \A i \in 0 .. lv + n - 1 : i \in At /\ i - lv + 0 = i - lv /\ (i \in lv .. lv + n - 1 /\ i - lv + 0 < Cap <=> ~(i < lv))
    BY <1>2, <1>4 DEF At
  <2> HIDE DEF n, lv
  <2>3. mv \in [At -> Elems \cup {Uninit}]
    BY <1>5, <2>1 DEF VecTypes, Copied
  <2>4. \A i \in 0 .. lv + n - 1 : mv[i] = IF i < lv THEN mem[v][i] ELSE mem[w][i - lv]
    BY <2>2 DEF Copied
  <2> QED BY <2>3, <2>4
<1>7. mw \in [At -> Elems \cup {Uninit}] /\ \A i \in 0 .. lw - n - 1 : mw[i] = mem[w][i + n]
  <2> DEFINE x == ExciseFront(mem[w], n)
  <2>1. \A i \in At : i \in 0 .. 0 + n - 1 /\ i - 0 + n < Cap => i - 0 + n \in At
    BY <1>2, <1>4 DEF At
  <2>2. \A i \in 0 .. lw - n - 1 : i \in At /\ i - 0 + n = i + n /\ i < lw - n /\ i \in 0 .. 0 + n - 1 /\ i - 0 + n < Cap
    BY <1>1, <1>2, <1>3, <1>4 DEF At
  <2> HIDE DEF n, lw
  <2>3. x \in [At -> Elems \cup {Uninit}]
    BY <1>5, <2>1 DEF VecTypes, Copied, ExciseFront
  <2>4. \A i \in 0 .. lw - n - 1 : x[i] = mem[w][i + n]
    BY <2>2 DEF Copied, ExciseFront
  <2> HIDE DEF x
  <2>5. Cut(x, lw - n) \in [At -> Elems \cup {Uninit}] /\ \A i \in 0 .. lw - n - 1 : Cut(x, lw - n)[i] = x[i]
    BY <2>2, <2>3 DEF Cut
  <2> QED BY <2>4, <2>5 DEF x
<1> HIDE DEF n, mv, mw
<1>8. mem'[v] = mv /\ mem'[w] = mw /\ (\A u \in Vecs \ {v, w} : mem'[u] = mem[u])
      /\ mem' \in [Vecs -> [At -> Elems \cup {Uninit}]]
  BY <1>1, <1>5, <1>6, <1>7 DEF VecTypes
<1>9. len'[v] = lv + n /\ len'[w] = lw - n /\ (\A u \in Vecs \ {v, w} : len'[u] = len[u]) /\ len' \in [Vecs -> 0 .. Cap]
  BY <1>1, <1>4, <1>5 DEF VecTypes
<1>10. VecTypes'
  BY <1>1, <1>2, <1>5, <1>8, <1>9 DEF VecTypes
<1>11. DrainInv'
  BY <1>2, <1>3, <1>9 DEF VecInv, DrainInv
<1>12. sound'
  BY <1>1 DEF VecInv
<1>13. Used(v)' = 0 .. lv + n - 1 /\ Used(w)' = 0 .. lw - n - 1 /\ \A u \in Vecs \ {v, w} : Used(u)' = Used(u)
  <2>1. Filled(v)' = lv + n /\ Filled(w)' = lw - n
    BY <1>2, <1>3, <1>9 DEF Filled
  <2>2. \A u \in Vecs \ {v, w} : Filled(u)' = Filled(u)
    BY <1>2, <1>9 DEF Filled
  <2>3. Used(v)' = 0 .. Filled(v)' - 1 /\ Used(w)' = 0 .. Filled(w)' - 1
    BY DEF Used
  <2>4. \A u \in Vecs \ {v, w} : Used(u)' = Used(u)
    BY <2>2 DEF Used
  <2> HIDE DEF lv, lw
  <2>5. (lv + n) - 1 = lv + n - 1 /\ (lw - n) - 1 = lw - n - 1
    BY <1>2, <1>3, <1>4
  <2> QED BY <2>1, <2>3, <2>4, <2>5
<1> QED BY <1>1, <1>2, <1>3, <1>4, <1>6, <1>7, <1>8, <1>10, <1>11, <1>12, <1>13 DEF n

\* append
LEMMA AppendSafe ==
  ASSUME AvoidAppend, VecInv, NEW v \in Vecs, NEW w \in Vecs, VecAppend(v, w)
  PROVE  VecInv'
<1> DEFINE n == Lesser(Available(v), len[w])
           lv == len[v]
           lw == len[w]
<1>1. /\ v # w /\ n \in Nat /\ n <= lw /\ lv + n <= Cap /\ VecTypes' /\ DrainInv' /\ sound'
      /\ copy' = copy /\ owner' = owner /\ Used(v) = 0 .. lv - 1 /\ Used(w) = 0 .. lw - 1
      /\ Used(v)' = 0 .. lv + n - 1 /\ Used(w)' = 0 .. lw - n - 1
      /\ \A u \in Vecs \ {v, w} : Used(u)' = Used(u) /\ mem'[u] = mem[u]
      /\ \A i \in Used(v)' : mem'[v][i] = IF i < lv THEN mem[v][i] ELSE mem[w][i - lv]
      /\ \A i \in Used(w)' : mem'[w][i] = mem[w][i + n]
  BY Appended
<1>2. lv \in Nat /\ lw \in Nat
  BY SlotRange
<1> HIDE DEF n, lv, lw
<1> DEFINE ov(u, i) == IF u = v /\ ~(i < lv) THEN w ELSE u
           oi(u, i) == IF u = v THEN (IF i < lv THEN i ELSE i - lv) ELSE IF u = w THEN i + n ELSE i
<1>3. ASSUME NEW u \in Vecs, NEW i \in Used(u)'
      PROVE  ov(u, i) \in Vecs /\ oi(u, i) \in Used(ov(u, i)) /\ mem'[u][i] = mem[ov(u, i)][oi(u, i)]
  <2>1. CASE u = v /\ i < lv
    <3>1. i \in Used(v)
      BY <1>1, <1>2, <2>1
    <3> QED BY <1>1, <2>1, <3>1
  <2>2. CASE u = v /\ ~(i < lv)
    <3>1. i - lv \in Used(w)
      BY <1>1, <1>2, <2>2
    <3> QED BY <1>1, <2>2, <3>1
  <2>3. CASE u = w
    <3>1. i + n \in Used(w)
      BY <1>1, <1>2, <2>3
    <3> QED BY <1>1, <2>3, <3>1
  <2>4. CASE u # v /\ u # w
    BY <1>1, <2>4
  <2> QED BY <2>1, <2>2, <2>3, <2>4
<1>4. ASSUME NEW u \in Vecs, NEW x \in Vecs, NEW i \in Used(u)', NEW j \in Used(x)',
             ov(u, i) = ov(x, j), oi(u, i) = oi(x, j)
      PROVE  u = x /\ i = j
  <2>1. CASE u = v /\ x = v
    BY <1>1, <1>2, <1>4, <2>1
  <2>2. CASE u = v /\ x # v
    <3>1. ~(i < lv) /\ x = w
      BY <1>4, <2>2
    <3>2. i - lv = j + n /\ i \in 0 .. lv + n - 1 /\ j \in 0 .. lw - n - 1
      BY <1>1, <1>4, <2>2, <3>1
    <3> QED BY <1>1, <1>2, <3>1, <3>2
  <2>3. CASE u # v /\ x = v
    <3>1. ~(j < lv) /\ u = w
      BY <1>4, <2>3
    <3>2. j - lv = i + n /\ j \in 0 .. lv + n - 1 /\ i \in 0 .. lw - n - 1
      BY <1>1, <1>4, <2>3, <3>1
    <3> QED BY <1>1, <1>2, <3>1, <3>2
  <2>4. CASE u # v /\ x # v
    <3>1. u = x
      BY <1>4, <2>4
    <3>2. CASE u = w
      <4>1. i + n = j + n /\ i \in 0 .. lw - n - 1 /\ j \in 0 .. lw - n - 1
        BY <1>1, <1>4, <2>4, <3>1, <3>2
      <4> QED BY <1>1, <1>2, <3>1, <4>1
    <3>3. CASE u # w
      BY <1>4, <2>4, <3>1, <3>3
    <3> QED BY <3>2, <3>3
  <2> QED BY <2>1, <2>2, <2>3, <2>4
<1>5. ASSUME NEW x \in Vecs, NEW p \in Used(x)
      PROVE  \E u \in Vecs : \E i \in Used(u)' : ov(u, i) = x /\ oi(u, i) = p
  <2>1. CASE x = v
    <3>1. p \in Used(v)' /\ p < lv
      BY <1>1, <1>2, <2>1
    <3> QED BY <2>1, <3>1
  <2>2. CASE x = w /\ p < n
    <3>1. p + lv \in Used(v)' /\ ~(p + lv < lv) /\ (p + lv) - lv = p
      BY <1>1, <1>2, <2>2
    <3>2. ov(v, p + lv) = x /\ oi(v, p + lv) = p
      BY <2>2, <3>1
    <3> HIDE DEF ov, oi
    <3> QED BY <3>1, <3>2
  <2>3. CASE x = w /\ ~(p < n)
    <3>1. p - n \in Used(w)' /\ p - n + n = p
      BY <1>1, <1>2, <2>3
    <3> QED BY <1>1, <2>3, <3>1
  <2>4. CASE x # v /\ x # w
    BY <1>1, <2>4
  <2> QED BY <2>1, <2>2, <2>3, <2>4
<1> HIDE DEF ov, oi
<1>6. SlotInv'
  BY <1>3 DEF VecInv, SlotInv
<1>7. ASSUME ~copy PROVE OwnInv'
  <2>1. /\ \A u, x \in Vecs : \A i \in Used(u), j \in Used(x) : mem[u][i] = mem[x][j] => u = x /\ i = j
        /\ \A e \in Elems : owner[e] = "vec" <=> \E u \in Vecs : \E i \in Used(u) : mem[u][i] = e
    BY <1>7 DEF VecInv, OwnInv
  <2>2. ASSUME NEW u \in Vecs, NEW x \in Vecs, NEW i \in Used(u)', NEW j \in Used(x)', mem'[u][i] = mem'[x][j]
        PROVE  u = x /\ i = j
    <3>1. ov(u, i) = ov(x, j) /\ oi(u, i) = oi(x, j)
      BY <1>3, <2>1, <2>2
    <3> QED BY <1>4, <3>1
  <2>3. ASSUME NEW e \in Elems
        PROVE  owner'[e] = "vec" <=> \E u \in Vecs : \E i \in Used(u)' : mem'[u][i] = e
    <3>1. ASSUME NEW x \in Vecs, NEW p \in Used(x), mem[x][p] = e
          PROVE  \E u \in Vecs : \E i \in Used(u)' : mem'[u][i] = e
      BY <1>3, <1>5, <3>1
    <3>2. ASSUME NEW u \in Vecs, NEW i \in Used(u)', mem'[u][i] = e
          PROVE  \E x \in Vecs : \E p \in Used(x) : mem[x][p] = e
      BY <1>3, <3>2
    <3> QED BY <1>1, <2>1, <3>1, <3>2
  <2> QED BY <2>2, <2>3 DEF OwnInv
<1>8. OwnInv'
  BY <1>1, <1>7 DEF OwnInv
<1> QED BY <1>1, <1>6, <1>8 DEF VecInv

-----------------------------------------------------------------------------
(* The theorems.                                                           *)

\* New vectors are empty.
LEMMA VecInitially ==
  VecInit => VecInv
<1> SUFFICES ASSUME VecInit PROVE VecInv
  OBVIOUS
<1>1. /\ copy \in BOOLEAN /\ mem = [v \in Vecs |-> [i \in At |-> Uninit]] /\ len = [v \in Vecs |-> 0]
      /\ owner = [e \in Elems |-> "client"] /\ drain = NoDrain /\ sound
  BY DEF VecInit
<1>2. VecTypes
  BY <1>1, VecAssumption DEF VecTypes
<1>3. DrainInv
  BY <1>1 DEF DrainInv
<1>4. \A v \in Vecs : Used(v) = {}
  BY <1>1, VecAssumption DEF Used, Filled, NoDrain
<1>5. SlotInv /\ OwnInv
  BY <1>1, <1>4 DEF SlotInv, OwnInv
<1> QED BY <1>1, <1>2, <1>3, <1>5 DEF VecInv

\* Every call keeps the invariant.
LEMMA VecStepSafe ==
  ASSUME AvoidDrain, AvoidAppend, VecInv, [VecNext]_vecVars
  PROVE  VecInv'
<1>1. CASE UNCHANGED vecVars
  BY <1>1, VecStutter DEF vecVars
<1>2. ASSUME NEW v \in Vecs, VecStep(v) PROVE VecInv'
  <2>1. CASE VecPop(v)
    BY <2>1, PopSafe
  <2>2. CASE DrainNext(v)
    BY <2>2, DrainNextSafe
  <2>3. CASE DrainDrop(v)
    BY <2>3, DrainDropSafe
  <2>4. CASE DrainForget(v)
    BY <2>4, DrainForgetSafe
  <2>5. ASSUME NEW e \in Elems, VecPush(v, e) PROVE VecInv'
    BY <2>5, PushSafe
  <2>6. ASSUME NEW e \in Elems, NEW k \in At, VecInsert(v, k, e) PROVE VecInv'
    BY <2>6, VecInsertSafe
  <2>7. ASSUME NEW k \in At, VecSwapRemove(v, k) PROVE VecInv'
    BY <2>7, SwapRemoveSafe
  <2>8. ASSUME NEW k \in At, VecRemove(v, k) PROVE VecInv'
    BY <2>8, RemoveSafe
  <2>9. ASSUME NEW n \in 0 .. Cap, VecTruncate(v, n) PROVE VecInv'
    BY <2>9, TruncateSafe
  <2>10. ASSUME NEW s \in Slices, NEW n \in 0 .. Len(s),
                VecExtend(v, s, n) \/ VecExtendFromSlice(v, s, n)
         PROVE  VecInv'
    BY <2>10, ExtendSafe
  <2>11. ASSUME NEW S, VecRetain(v, S) PROVE VecInv'
    BY <2>11, RetainSafe
  <2>12. ASSUME NEW S, NEW n \in At, VecRetainPanics(v, S, n) PROVE VecInv'
    BY <2>12, RetainPanicsSafe
  <2>13. ASSUME NEW a \in 0 .. Cap, NEW b \in 0 .. Cap, DrainNew(v, a, b) PROVE VecInv'
    BY <2>13, DrainNewSafe
  <2> QED
    BY <1>2, <2>1, <2>2, <2>3, <2>4, <2>5, <2>6, <2>7, <2>8, <2>9, <2>10, <2>11, <2>12, <2>13 DEF VecStep
<1>3. ASSUME NEW v \in Vecs, NEW w \in Vecs, VecAppend(v, w) PROVE VecInv'
  BY <1>3, AppendSafe
<1> QED BY <1>1, <1>2, <1>3 DEF VecNext

\* The elements of a piece of a vector.
LEMMA PieceHolds ==
  ASSUME VecInv, NEW v \in Vecs, NEW lo \in Nat, NEW hi \in Nat, lo <= hi, lo .. hi - 1 \subseteq Used(v)
  PROVE  Piece(v, lo, hi) \in Seq(Elems) /\ ToSet(Piece(v, lo, hi)) = Held(mem[v], lo .. hi - 1)
<1> DEFINE p == Piece(v, lo, hi)
<1>1. hi - lo \in Nat /\ (\A n \in 1 .. hi - lo : lo + n - 1 \in lo .. hi - 1)
      /\ \A i \in lo .. hi - 1 : \E n \in 1 .. hi - lo : lo + n - 1 = i
  <2>1. hi - lo \in Nat /\ \A n \in 1 .. hi - lo : lo + n - 1 \in lo .. hi - 1
    OBVIOUS
  <2>2. ASSUME NEW i \in lo .. hi - 1 PROVE \E n \in 1 .. hi - lo : lo + n - 1 = i
    <3>1. i - lo + 1 \in 1 .. hi - lo /\ lo + (i - lo + 1) - 1 = i
      OBVIOUS
    <3> QED BY <3>1
  <2> QED BY <2>1, <2>2
<1>2. DOMAIN p = 1 .. hi - lo /\ \A n \in 1 .. hi - lo : p[n] = mem[v][lo + n - 1]
  BY DEF Piece
<1>3. \A n \in 1 .. hi - lo : p[n] \in Elems
  BY <1>1, <1>2, HeldBy
<1>4. p = [n \in 1 .. hi - lo |-> p[n]]
  BY DEF Piece
<1>5. p \in Seq(Elems)
  <2> DEFINE d == hi - lo
  <2> HIDE DEF d, p
  <2>1. d \in Nat /\ p \in [1 .. d -> Elems]
    BY <1>1, <1>3, <1>4 DEF d
  <2> QED BY <2>1, SeqDef
<1> DEFINE D == 1 .. hi - lo
           R == lo .. hi - 1
<1> HIDE DEF p, D, R
<1>6. ToSet(p) = Held(mem[v], R)
  <2>1. DOMAIN p = D /\ \A n \in D : p[n] = mem[v][lo + n - 1]
    BY <1>2 DEF D
  <2>2. (\A n \in D : lo + n - 1 \in R) /\ \A i \in R : \E n \in D : lo + n - 1 = i
    BY <1>1 DEF D, R
  <2>3. (\A n \in D : \E i \in R : p[n] = mem[v][i]) /\ \A i \in R : \E n \in D : p[n] = mem[v][i]
    BY <2>1, <2>2
  <2> QED BY <2>1, <2>3 DEF ToSet, Held
<1> QED BY <1>5, <1>6 DEF p, R

\* The elements of two sequences, one after the other.
LEMMA ConcatHolds ==
  ASSUME NEW E, NEW s \in Seq(E), NEW t \in Seq(E)
  PROVE  ToSet(s \o t) = ToSet(s) \cup ToSet(t)
<1> DEFINE a == Len(s)
           b == Len(t)
           u == s \o t
<1>1. a \in Nat /\ b \in Nat /\ DOMAIN s = 1 .. a /\ DOMAIN t = 1 .. b
  BY LenProperties
<1>2. /\ u \in Seq(E) /\ Len(u) = a + b
      /\ \A i \in 1 .. a + b : u[i] = IF i <= a THEN s[i] ELSE t[i - a]
  BY ConcatProperties
<1>3. DOMAIN u = 1 .. a + b
  BY <1>2, LenProperties
<1> HIDE DEF a, b, u
<1>4. /\ \A i \in 1 .. a + b : (i <= a /\ i \in 1 .. a) \/ (~(i <= a) /\ i - a \in 1 .. b)
      /\ \A i \in 1 .. a : i \in 1 .. a + b /\ i <= a
      /\ \A i \in 1 .. b : i + a \in 1 .. a + b /\ ~(i + a <= a) /\ (i + a) - a = i
  BY <1>1
<1>5. ASSUME NEW e PROVE e \in ToSet(u) <=> e \in ToSet(s) \/ e \in ToSet(t)
  <2>1. e \in ToSet(u) <=> \E i \in 1 .. a + b : u[i] = e
    BY <1>3 DEF ToSet
  <2>2. (e \in ToSet(s) <=> \E i \in 1 .. a : s[i] = e) /\ (e \in ToSet(t) <=> \E i \in 1 .. b : t[i] = e)
    BY <1>1 DEF ToSet
  <2>3. ASSUME NEW i \in 1 .. a + b, u[i] = e PROVE (\E j \in 1 .. a : s[j] = e) \/ (\E j \in 1 .. b : t[j] = e)
    BY <1>2, <1>4, <2>3
  <2>4. ASSUME NEW j \in 1 .. a, s[j] = e PROVE \E i \in 1 .. a + b : u[i] = e
    BY <1>2, <1>4, <2>4
  <2>5. ASSUME NEW j \in 1 .. b, t[j] = e PROVE \E i \in 1 .. a + b : u[i] = e
    <3>1. u[j + a] = t[j] /\ j + a \in 1 .. a + b
      BY <1>2, <1>4
    <3> QED BY <2>5, <3>1
  <2> QED BY <2>1, <2>2, <2>3, <2>4, <2>5
<1> QED BY <1>5 DEF u

\* What the contents of a vector, and what a Drain has still to yield, hold.
LEMMA ContentsHold ==
  ASSUME VecInv, NEW v \in Vecs
  PROVE  /\ ToSet(Contents(v)) \subseteq Had(v)
         /\ drain.vec # v => ToSet(Contents(v)) = Had(v)
         /\ drain.vec = v => ToSet(Pending) \subseteq Had(v)
         /\ drain.vec = v /\ ~copy => ToSet(Contents(v)) \cup ToSet(Pending) = Had(v)
<1>1. CASE drain.vec # v
  <2>1. Contents(v) = Piece(v, 0, len[v]) /\ len[v] \in Nat /\ Used(v) = 0 .. len[v] - 1
    BY <1>1, SlotRange DEF Contents, Used, Filled
  <2>2. ToSet(Piece(v, 0, len[v])) = Held(mem[v], 0 .. len[v] - 1)
    BY <2>1, PieceHolds
  <2> QED BY <1>1, <2>1, <2>2 DEF Had
<1>2. CASE drain.vec = v
  <2> DEFINE a == drain.start
             b == drain.end
             c == drain.current
             l == drain.len
  <2>1. /\ l \in Nat /\ b \in Nat /\ b <= l /\ c \in Nat /\ c <= b /\ a \in Nat /\ a <= c
        /\ Used(v) = 0 .. l - 1 /\ (~copy => c = a)
    BY <1>2, DrainIs
  <2>2. drain # NoDrain
    BY <1>2, SlotRange
  <2>3. Contents(v) = Piece(v, 0, a) \o Piece(v, b, l) /\ Pending = Piece(v, c, b)
    BY <1>2, <2>2 DEF Contents, Pending
  <2> HIDE DEF a, b, c, l
  <2>4. 0 .. a - 1 \subseteq Used(v) /\ b .. l - 1 \subseteq Used(v) /\ c .. b - 1 \subseteq Used(v)
        /\ (c = a => Used(v) = ((0 .. a - 1) \cup (b .. l - 1)) \cup (c .. b - 1))
    BY <2>1
  <2>5. Piece(v, 0, a) \in Seq(Elems) /\ ToSet(Piece(v, 0, a)) = Held(mem[v], 0 .. a - 1)
    BY <2>1, <2>4, PieceHolds
  <2>6. Piece(v, b, l) \in Seq(Elems) /\ ToSet(Piece(v, b, l)) = Held(mem[v], b .. l - 1)
    BY <2>1, <2>4, PieceHolds
  <2>7. ToSet(Pending) = Held(mem[v], c .. b - 1)
    BY <2>1, <2>3, <2>4, PieceHolds
  <2>8. ToSet(Contents(v)) = Held(mem[v], 0 .. a - 1) \cup Held(mem[v], b .. l - 1)
    BY <2>3, <2>5, <2>6, ConcatHolds
  <2>9. \A A, B : Held(mem[v], A) \cup Held(mem[v], B) = Held(mem[v], A \cup B)
    BY DEF Held
  <2>10. \A A : A \subseteq Used(v) => Held(mem[v], A) \subseteq Had(v)
    BY DEF Held, Had
  <2>11. ~copy => ToSet(Contents(v)) \cup ToSet(Pending) = Had(v)
    <3> DEFINE A == 0 .. a - 1
               B == b .. l - 1
               C == c .. b - 1
    <3>1. ~copy => Used(v) = (A \cup B) \cup C
      BY <2>1, <2>4
    <3>2. ToSet(Contents(v)) = Held(mem[v], A) \cup Held(mem[v], B) /\ ToSet(Pending) = Held(mem[v], C)
      BY <2>7, <2>8
    <3> HIDE DEF A, B, C
    <3>3. Held(mem[v], A) \cup Held(mem[v], B) = Held(mem[v], A \cup B)
      BY <2>9
    <3>4. Held(mem[v], A \cup B) \cup Held(mem[v], C) = Held(mem[v], (A \cup B) \cup C)
      BY <2>9
    <3> QED BY <3>1, <3>2, <3>3, <3>4 DEF Had
  <2> QED BY <1>2, <2>4, <2>7, <2>8, <2>10, <2>11
<1> QED BY <1>1, <1>2

\* The invariant gives memory safety.
LEMMA VecInvSafe ==
  VecInv => MemorySafe
<1> SUFFICES ASSUME VecInv PROVE MemorySafe
  OBVIOUS
<1>1. sound
  BY DEF VecInv
<1>2. ASSUME NEW v \in Vecs PROVE Uninit \notin ToSet(Contents(v))
  BY ContentsHold, HeldBy, VecAssumption
<1>3. ASSUME ~copy
      PROVE  {e \in Elems : owner[e] = "vec"} = ToSet(Pending) \cup UNION {ToSet(Contents(v)) : v \in Vecs}
  <2>1. \A e \in Elems : owner[e] = "vec" <=> \E v \in Vecs : e \in Had(v)
    BY <1>3 DEF VecInv, OwnInv, Had, Held
  <2>2. \A v \in Vecs : Had(v) \subseteq Elems
    BY HeldBy
  <2>3. ToSet(Pending) = {} \/ (drain.vec \in Vecs /\ ToSet(Pending) \subseteq Had(drain.vec))
    <3>1. CASE drain = NoDrain
      BY <3>1 DEF Pending, ToSet
    <3>2. CASE drain # NoDrain
      <4>1. drain.vec \in Vecs
        BY <3>2 DEF VecInv, DrainInv
      <4> QED BY <4>1, ContentsHold
    <3> QED BY <3>1, <3>2
  <2>4. \A v \in Vecs : ToSet(Contents(v)) \subseteq Had(v)
    BY ContentsHold
  <2>5. \A v \in Vecs : Had(v) \subseteq ToSet(Contents(v)) \cup ToSet(Pending)
    BY <1>3, ContentsHold
  <2> QED BY <2>1, <2>2, <2>3, <2>4, <2>5
<1> QED BY <1>1, <1>2, <1>3 DEF MemorySafe

\* The invariant holds whatever calls are made, in any order and whichever of
\* the client's closures, clones and drops panic: next of a Drain is called
\* only where T needs no drop, append only where excise_front copies enough.
THEOREM VecInvariance ==
  AvoidDrain /\ AvoidAppend => (VecSpec => []VecInv)
<1> SUFFICES ASSUME AvoidDrain, AvoidAppend PROVE VecSpec => []VecInv
  OBVIOUS
<1>1. VecInit => VecInv
  BY VecInitially
<1>2. VecInv /\ [VecNext]_vecVars => VecInv'
  BY VecStepSafe
<1> QED BY <1>1, <1>2, PTL DEF VecSpec

\* So no unsafe block of fixedvec.rs reads outside of the slice or a slot that
\* was never written, ends an element twice, or forgets one.
THEOREM VecsMemorySafe ==
  AvoidDrain /\ AvoidAppend => (VecSpec => []MemorySafe)
<1> SUFFICES ASSUME AvoidDrain, AvoidAppend PROVE VecSpec => []MemorySafe
  OBVIOUS
<1>1. VecSpec => []VecInv
  BY VecInvariance
<1>2. VecInv => MemorySafe
  BY VecInvSafe
<1> QED BY <1>1, <1>2, PTL

=============================================================================
