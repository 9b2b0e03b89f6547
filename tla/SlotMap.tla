------------------------------- MODULE SlotMap -------------------------------
(***************************************************************************)
(* What a slot map promises its clients, with no free list in sight: a     *)
(* finite map from indices to values, where insert picks an index that is  *)
(* not in use and remove forgets exactly the index it is given.  The last  *)
(* result is part of the state because clients store the index they get    *)
(* back (as a task id, a cqid or a buffer id) and use it later.            *)
(***************************************************************************)
EXTENDS Naturals

CONSTANTS
  Values,   \* what is stored
  Index,    \* the indices an implementation may hand out
  None      \* the None of the returned Option

VARIABLES
  map,      \* live index -> value
  ret       \* what the last operation returned

vars == <<map, ret>>

Extend(f, i, v) == [j \in DOMAIN f \cup {i} |-> IF j = i THEN v ELSE f[j]]
Without(f, i)   == [j \in DOMAIN f \ {i} |-> f[j]]

Init ==
  /\ map = [i \in {} |-> None]
  /\ ret = [op |-> "new", index |-> None, value |-> None]

Insert(v) ==
  \E i \in Index \ DOMAIN map :
    /\ map' = Extend(map, i, v)
    /\ ret' = [op |-> "insert", index |-> i, value |-> v]

Remove(i) ==
  /\ map' = IF i \in DOMAIN map THEN Without(map, i) ELSE map
  /\ ret' = [op |-> "remove", index |-> i,
             value |-> IF i \in DOMAIN map THEN map[i] ELSE None]

Next == (\E v \in Values : Insert(v)) \/ (\E i \in Index : Remove(i))

Spec == Init /\ [][Next]_vars
=============================================================================
