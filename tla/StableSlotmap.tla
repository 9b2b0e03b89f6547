---------------------------- MODULE StableSlotmap ----------------------------
(***************************************************************************)
(* hamerkop/src/stable_slotmap.rs: the slot map behind the executor's      *)
(* tasks, completions and pool buffers.  Vacant entries form a singly      *)
(* linked free list threaded through the slabs; head is its first index.   *)
(*                                                                         *)
(* The slabs are modelled flat: entry (index / SLABSIZE, index % SLABSIZE) *)
(* of the code is slots[index], and slot_at(index) is None exactly when    *)
(* index is outside Slots.  SENTINEL (usize::MAX) is no index: a Vec holds *)
(* at most isize::MAX bytes.                                               *)
(***************************************************************************)
EXTENDS Naturals, FiniteSets

CONSTANTS
  Values,     \* what is stored
  None,       \* the None of the returned Option
  SLABSIZE,   \* entries per slab (1024 in the code)
  MaxSlabs,   \* the buffer pool's limit in slabs (64 in the code)
  SENTINEL    \* end of the free list

ASSUME SlotmapAssumption ==
  /\ SLABSIZE \in Nat \ {0}
  /\ MaxSlabs \in Nat \ {0}
  /\ SENTINEL \notin Nat
  /\ None \notin Values

VARIABLES
  nslabs,     \* slabs.len()
  slots,      \* all entries, by flat index
  head,       \* first vacant index, or SENTINEL
  size,       \* number of elements
  ret         \* what the last operation returned

vars == <<nslabs, slots, head, size, ret>>

-----------------------------------------------------------------------------
Element(v) == [tag |-> "Element", value |-> v]
Link(n)    == [tag |-> "Link", next |-> n]

NSlots == nslabs * SLABSIZE
Slots  == 0 .. NSlots - 1
Live   == {i \in Slots : slots[i].tag = "Element"}
Vacant == {i \in Slots : slots[i].tag = "Link"}

\* provide_buffer inserts only while len() < u16::MAX; with 64 slabs of 1024
\* entries that limit is MaxSlabs * SLABSIZE - 1.
Limit == MaxSlabs * SLABSIZE - 1

\* The indices a client may hold or try, one past the limit included.
Index == 0 .. Limit + 1

Init ==
  /\ nslabs = 0
  /\ slots = [i \in 0 .. 0 * SLABSIZE - 1 |-> Link(SENTINEL)]
  /\ head = SENTINEL
  /\ size = 0
  /\ ret = [op |-> "new", index |-> None, value |-> None]

\* A new slab links base, base + 1, ... and ends in the old head.
CreateSlab(oldHead, base) ==
  [i \in 0 .. SLABSIZE - 1 |->
     IF i = SLABSIZE - 1 THEN Link(oldHead) ELSE Link(base + i + 1)]

\* Seeded fault: the new slab starts one entry early.
BadExpanded ==
  LET base == NSlots IN
  [i \in 0 .. (nslabs + 1) * SLABSIZE - 1 |->
     IF i + 1 < base THEN slots[i]
     ELSE IF i < base THEN Link(base) ELSE CreateSlab(head, base)[i - base]]

Expanded ==
  LET base == NSlots IN
  [i \in 0 .. (nslabs + 1) * SLABSIZE - 1 |->
     IF i < base THEN slots[i] ELSE CreateSlab(head, base)[i - base]]

\* Seeded fault: the index is read from head after head was updated.
BadTake(s, index, v) ==
  /\ s[index].tag = "Link"
  /\ slots' = [s EXCEPT ![index] = Element(v)]
  /\ head' = s[index].next
  /\ size' = size + 1
  /\ ret' = [op |-> "insert", index |-> s[index].next, value |-> v]

\* insert: next_slot (which expands when the free list is empty), then take
\* the entry at head.  A head that is not a Link is the code's unreachable!().
Take(s, index, v) ==
  LET vacant == s[index].tag = "Link" IN
  /\ slots' = IF vacant THEN [s EXCEPT ![index] = Element(v)] ELSE s
  /\ head' = IF vacant THEN s[index].next ELSE index
  /\ size' = IF vacant THEN size + 1 ELSE size
  /\ ret' = [op |-> IF vacant THEN "insert" ELSE "panic",
             index |-> index, value |-> v]

InsertExpanding(v) ==
  /\ size < Limit
  /\ head = SENTINEL
  /\ nslabs' = nslabs + 1
  /\ Take(Expanded, NSlots, v)

InsertVacant(v) ==
  /\ size < Limit
  /\ head # SENTINEL
  /\ nslabs' = nslabs
  /\ Take(slots, head, v)

\* remove of an index that is out of range or already vacant returns None.
RemoveMissing(i) ==
  /\ i \notin Live
  /\ ret' = [op |-> "remove", index |-> i, value |-> None]
  /\ UNCHANGED <<nslabs, slots, head, size>>

\* Seeded faults: the freed entry is not linked to the old head; head is not
\* moved to the freed entry.
BadRemoveLink(i) ==
  /\ i \in Live
  /\ ret' = [op |-> "remove", index |-> i, value |-> slots[i].value]
  /\ slots' = [slots EXCEPT ![i] = Link(SENTINEL)]
  /\ head' = i
  /\ size' = size - 1
  /\ nslabs' = nslabs

BadRemoveHead(i) ==
  /\ i \in Live
  /\ ret' = [op |-> "remove", index |-> i, value |-> slots[i].value]
  /\ slots' = [slots EXCEPT ![i] = Link(head)]
  /\ size' = size - 1
  /\ UNCHANGED <<nslabs, head>>

RemoveLive(i) ==
  /\ i \in Live
  /\ ret' = [op |-> "remove", index |-> i, value |-> slots[i].value]
  /\ slots' = [slots EXCEPT ![i] = Link(head)]
  /\ head' = i
  /\ size' = size - 1
  /\ nslabs' = nslabs

Next ==
  \/ \E v \in Values : InsertExpanding(v) \/ InsertVacant(v)
  \/ \E i \in Index : RemoveMissing(i) \/ RemoveLive(i)

Spec == Init /\ [][Next]_vars

-----------------------------------------------------------------------------
Entry == [tag : {"Element"}, value : Values]
           \cup [tag : {"Link"}, next : Nat \cup {SENTINEL}]

Returned == [op : {"new", "insert", "remove", "panic"},
             index : Nat \cup {None}, value : Values \cup {None}]

\* Type invariant: every slot holds an element or a link, and head is a slot
\* of the map or the sentinel.
TypeOK ==
  /\ nslabs \in Nat
  /\ slots \in [Slots -> Entry]
  /\ head \in Slots \cup {SENTINEL}
  /\ size \in Nat
  /\ ret \in Returned

\* f lists the vacant entries in the order the links visit them from head:
\* each exactly once, ending in SENTINEL.
IsFreeList(n, f) ==
  /\ head = IF n = 0 THEN SENTINEL ELSE f[1]
  /\ \A j \in 1 .. n :
       slots[f[j]].next = IF j = n THEN SENTINEL ELSE f[j + 1]
  /\ \A j, k \in 1 .. n : f[j] = f[k] => j = k
  /\ \A i \in Vacant : \E j \in 1 .. n : f[j] = i

\* The links starting at head visit every vacant entry exactly once and stop:
\* no removal order, double removal or expansion breaks the list, makes a
\* cycle, or leaks a vacant entry.
FreeListExact ==
  \E n \in 0 .. NSlots : \E f \in [1 .. n -> Vacant] : IsFreeList(n, f)

\* insert never reaches its unreachable!(): the entry it takes is vacant, so a
\* live element (a task, a completion, a buffer) is never overwritten.
NeverUnreachable == ret.op # "panic"

\* len() is the number of live elements, which Runtime::is_empty and the
\* buffer limit of provide_buffer rely on.
SizeIsCount == IsFiniteSet(Live) /\ size = Cardinality(Live)

\* Every index fits the limit: `bufid as u16` in provide_buffer loses nothing.
\* (Expanding only when nothing is vacant is what keeps this true.)
IndexFits == \A i \in Slots : i <= Limit

\* An element stays at its index, with its value, until it is removed.
Stable ==
  [][\A i \in Live : slots'[i] = slots[i] \/ ret' = [op |-> "remove",
       index |-> i, value |-> slots[i].value]]_vars

\* The free-list implementation is a slot map.
Abstract == INSTANCE SlotMap WITH map <- [i \in Live |-> slots[i].value]

\* Every behaviour of the free-list slot map is one of the abstract slot map:
\* insert hands out an index nobody holds, remove returns what was inserted.
ImplementsSlotMap == Abstract!Spec

=============================================================================
