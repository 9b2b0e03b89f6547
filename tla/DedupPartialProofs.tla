-------------------------- MODULE DedupPartialProofs --------------------------
(***************************************************************************)
(* dedup_partial loses no id and dereferences no stale pointer, for every  *)
(* vector, every table size and every pair of hash functions.              *)
(***************************************************************************)
EXTENDS DedupPartial, TLAPS

\* The types, and the position of the loop: i never runs past the end by more
\* than one although the vector shrinks behind it.
DedupType ==
  /\ input \in Seq(Ids) /\ data \in Seq(Ids)
  /\ i \in Nat /\ 1 <= i /\ i <= Len(data) + 1
  /\ table \in [Buckets -> Nat]
  /\ hash1 \in [Ids -> Buckets] /\ hash2 \in [Ids -> Buckets]

\* The two guarantees are inductive together only: a removal is harmless because
\* the pointer it went by refers to another element that stays.
DedupInv == DedupType /\ KeepsEveryValue /\ PointersStable

\* swap_remove: all but the last position keep their element, and position k
\* gets the last one.
LEMMA SwapOutElements ==
  ASSUME NEW s \in Seq(Ids), NEW k \in 1 .. Len(s)
  PROVE  /\ SwapOut(s, k) \in Seq(Ids)
         /\ Len(SwapOut(s, k)) = Len(s) - 1
         /\ \A j \in 1 .. Len(s) - 1 : SwapOut(s, k)[j] = IF j = k THEN s[Len(s)] ELSE s[j]
<1> DEFINE t == [s EXCEPT ![k] = s[Len(s)]]
<1>1. t \in Seq(Ids) /\ Len(t) = Len(s)
  OBVIOUS
<1>2. \A j \in 1 .. Len(s) : t[j] = IF j = k THEN s[Len(s)] ELSE s[j]
  OBVIOUS
<1> HIDE DEF t
<1>3. SubSeq(t, 1, Len(s) - 1) \in Seq(Ids) /\ Len(SubSeq(t, 1, Len(s) - 1)) = Len(s) - 1
  BY <1>1
<1>4. \A j \in 1 .. Len(s) - 1 : SubSeq(t, 1, Len(s) - 1)[j] = t[j]
  BY <1>1
<1> QED
  BY <1>2, <1>3, <1>4 DEF SwapOut, t

\* swap_remove of an element that occurs elsewhere loses no value.
LEMMA SwapOutKeeps ==
  ASSUME NEW s \in Seq(Ids), NEW k \in 1 .. Len(s), NEW p \in 1 .. k - 1, s[p] = s[k]
  PROVE  ToSet(SwapOut(s, k)) = ToSet(s)
<1> DEFINE r == SwapOut(s, k)
<1>1. r \in Seq(Ids) /\ Len(r) = Len(s) - 1 /\ DOMAIN r = 1 .. Len(s) - 1
  BY SwapOutElements
<1>2. \A j \in 1 .. Len(s) - 1 : r[j] = IF j = k THEN s[Len(s)] ELSE s[j]
  BY SwapOutElements
<1> HIDE DEF r
<1>3. ASSUME NEW j \in 1 .. Len(s) - 1
      PROVE  \E m \in 1 .. Len(s) : r[j] = s[m]
  BY <1>2
<1>4. ASSUME NEW m \in 1 .. Len(s)
      PROVE  \E j \in 1 .. Len(s) - 1 : s[m] = r[j]
  <2>1. CASE m = k
    BY <1>2, <2>1
  <2>2. CASE m # k /\ m = Len(s)
    BY <1>2, <2>2
  <2>3. CASE m # k /\ m # Len(s)
    BY <1>2, <2>3
  <2> QED
    BY <2>1, <2>2, <2>3
<1>5. DOMAIN s = 1 .. Len(s)
  OBVIOUS
<1>6. ToSet(s) = {s[m] : m \in 1 .. Len(s)} /\ ToSet(r) = {r[j] : j \in 1 .. Len(s) - 1}
  BY <1>1, <1>5 DEF ToSet
<1>7. ToSet(r) = ToSet(s)
  BY <1>3, <1>4, <1>6
<1> QED
  BY <1>7 DEF r

\* The loop starts with an empty table.
LEMMA DedupInitInv == DedupInit => DedupInv
<1> SUFFICES ASSUME DedupInit PROVE DedupInv
  OBVIOUS
<1>1. input \in Seq(Ids)
  BY DEF DedupInit, BoundedSeq, SeqOf
<1> QED
  BY <1>1 DEF DedupInit, DedupInv, DedupType, KeepsEveryValue, PointersStable

\* A step that removes an element: the pointer that matched refers to another
\* position, before i, which swap_remove leaves alone.
LEMMA RemoveInv ==
  ASSUME DedupInv, RemoveDuplicate
  PROVE  DedupInv'
<1> USE DEF DedupInv, DedupType
<1>1. /\ i \in 1 .. Len(data) /\ data[i] \in Ids
      /\ data' = SwapOut(data, i)
      /\ UNCHANGED <<input, i, table, hash1, hash2>>
  BY DEF RemoveDuplicate
<1>2. PICK b \in Buckets : table[b] # 0 /\ data[table[b]] = data[i]
  BY <1>1 DEF RemoveDuplicate, Seen, PtrCmp
<1>3. table[b] \in 1 .. i - 1
  BY <1>1, <1>2 DEF PointersStable
<1>4. /\ data' \in Seq(Ids) /\ Len(data') = Len(data) - 1
      /\ \A j \in 1 .. i - 1 : data'[j] = data[j]
  <2>1. /\ SwapOut(data, i) \in Seq(Ids)
        /\ Len(SwapOut(data, i)) = Len(data) - 1
        /\ \A j \in 1 .. Len(data) - 1 :
             SwapOut(data, i)[j] = IF j = i THEN data[Len(data)] ELSE data[j]
    BY <1>1, SwapOutElements
  <2>2. \A j \in 1 .. i - 1 : j \in 1 .. Len(data) - 1 /\ j # i
    BY <1>1
  <2>3. \A j \in 1 .. i - 1 : SwapOut(data, i)[j] = data[j]
    BY <2>1, <2>2
  <2> QED
    BY <1>1, <2>1, <2>3, Zenon
<1>5. DedupType'
  BY <1>1, <1>4
<1>6. KeepsEveryValue'
  BY <1>1, <1>2, <1>3, SwapOutKeeps DEF KeepsEveryValue
<1>7. PointersStable'
  <2> SUFFICES ASSUME NEW c \in Buckets, table[c] # 0
               PROVE  /\ table[c] < i /\ table[c] <= Len(data')
                      /\ c \in {hash1[data'[table[c]]], hash2[data'[table[c]]]}
    BY <1>1 DEF PointersStable
  <2>1. table[c] \in 1 .. i - 1 /\ c \in {hash1[data[table[c]]], hash2[data[table[c]]]}
    BY DEF PointersStable
  <2>2. data'[table[c]] = data[table[c]]
    BY <1>4, <2>1
  <2>3. i <= Len(data) /\ Len(data) \in Nat /\ Len(data') = Len(data) - 1
    BY <1>1, <1>4
  <2>4. table[c] < i /\ table[c] <= Len(data')
    BY <2>1, <2>3
  <2> QED
    BY <2>1, <2>2, <2>4
<1> QED
  BY <1>5, <1>6, <1>7

\* A step that keeps an element stores a pointer to it in one of its buckets.
LEMMA KeepInv ==
  ASSUME DedupInv, Keep
  PROVE  DedupInv'
<1> USE DEF DedupInv, DedupType
<1>1. i \in 1 .. Len(data) /\ data[i] \in Ids
  BY DEF Keep
<1>2. BucketFor(data[i]) \in {hash1[data[i]], hash2[data[i]]}
  BY <1>1 DEF BucketFor
<1>3. /\ table' = [table EXCEPT ![BucketFor(data[i])] = i]
      /\ i' = i + 1 /\ UNCHANGED <<input, data, hash1, hash2>>
  BY DEF Keep, Pointer
<1>4. DedupType' /\ KeepsEveryValue'
  BY <1>1, <1>2, <1>3 DEF KeepsEveryValue
<1>5. PointersStable'
  BY <1>1, <1>2, <1>3 DEF PointersStable
<1> QED
  BY <1>4, <1>5

\* Both guarantees hold at every step of the loop.
THEOREM DedupInvariance == DedupSpec => []DedupInv
<1>1. DedupInv /\ [DedupNext]_dedupVars => DedupInv'
  <2> SUFFICES ASSUME DedupInv, [DedupNext]_dedupVars PROVE DedupInv'
    OBVIOUS
  <2>1. CASE RemoveDuplicate
    BY <2>1, RemoveInv
  <2>2. CASE Keep
    BY <2>2, KeepInv
  <2>3. CASE UNCHANGED dedupVars
    BY <2>3 DEF dedupVars, DedupInv, DedupType, KeepsEveryValue, PointersStable
  <2> QED
    BY <2>1, <2>2, <2>3 DEF DedupNext
<1> QED
  BY DedupInitInv, <1>1, PTL DEF DedupSpec

\* dedup_partial keeps every value of the run queue and invents none.
THEOREM DedupKeepsEveryValue == DedupSpec => []KeepsEveryValue
BY DedupInvariance, PTL DEF DedupInv

\* The pointers in the table refer to elements that were kept and do not move.
THEOREM DedupPointersStable == DedupSpec => []PointersStable
BY DedupInvariance, PTL DEF DedupInv
=============================================================================
