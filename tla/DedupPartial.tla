----------------------------- MODULE DedupPartial -----------------------------
(***************************************************************************)
(* hamerkop/src/util/dedup.rs: the best-effort deduplication of the run    *)
(* queue, one loop iteration per step.  The hash table holds pointers into *)
(* the vector, here indices; the two hash functions are arbitrary.         *)
(***************************************************************************)
EXTENDS Naturals, Sequences, SequencesExt

CONSTANTS Ids, Buckets, MaxLen

ASSUME DedupAssumption == MaxLen \in Nat /\ Buckets # {}

VARIABLES
  input,          \* history: the vector as it was
  data, i,        \* i counts from 1, the code's i is one less
  table,          \* bucket -> index into data, 0 for the null pointer
  hash1, hash2

dedupVars == <<input, data, i, table, hash1, hash2>>

DedupInit ==
  /\ input \in BoundedSeq(Ids, MaxLen)
  /\ data = input /\ i = 1
  /\ table = [b \in Buckets |-> 0]
  /\ hash1 \in [Ids -> Buckets] /\ hash2 \in [Ids -> Buckets]

\* ptr_cmp
PtrCmp(p, v) == p # 0 /\ data[p] = v

\* Seeded fault: any occupied bucket counts as a match.
BadSeen(v) == table[hash1[v]] # 0 /\ table[hash2[v]] # 0

Seen(v) == PtrCmp(table[hash1[v]], v) \/ PtrCmp(table[hash2[v]], v)

\* Vec::swap_remove
SwapOut(s, k) == SubSeq([s EXCEPT ![k] = s[Len(s)]], 1, Len(s) - 1)

RemoveDuplicate ==
  /\ i <= Len(data) /\ Seen(data[i])
  /\ data' = SwapOut(data, i)
  /\ UNCHANGED <<input, i, table, hash1, hash2>>

\* The bucket that keeps v: a free one, or one of the two in turn.
BucketFor(v) ==
  CASE table[hash1[v]] = 0 -> hash1[v]
    [] table[hash1[v]] # 0 /\ table[hash2[v]] = 0 -> hash2[v]
    [] OTHER -> IF (i - 1) % 2 = 0 THEN hash1[v] ELSE hash2[v]

\* Seeded fault: the pointer stored is the one of the next element.
BadPointer == i + 1

Pointer == i

Keep ==
  /\ i <= Len(data) /\ ~Seen(data[i])
  /\ table' = [table EXCEPT ![BucketFor(data[i])] = Pointer]
  /\ i' = i + 1
  /\ UNCHANGED <<input, data, hash1, hash2>>

DedupNext == RemoveDuplicate \/ Keep
DedupSpec == DedupInit /\ [][DedupNext]_dedupVars

-----------------------------------------------------------------------------
\* The second guarantee of the doc comment, at every step: no value is lost
\* and none is invented.  The run queue therefore keeps every woken task.
KeepsEveryValue == ToSet(data) = ToSet(input)

\* The SAFETY comment: pointers refer to elements that were kept, which
\* swap_remove no longer moves, and to the values that were hashed.
PointersStable ==
  \A b \in Buckets : table[b] # 0 =>
    /\ table[b] < i /\ table[b] <= Len(data)
    /\ b \in {hash1[data[table[b]]], hash2[data[table[b]]]}
=============================================================================
