----------------------------- MODULE MCContainers -----------------------------
(***************************************************************************)
(* The containers of hamerkop, each by itself; they share no state, so     *)
(* a behaviour is about the one that `part` names.                         *)
(*                                                                         *)
(* - StableSlotmap: two slabs of three entries, so the map expands twice,  *)
(*   reaches its limit with the last slab partly used, and entries are     *)
(*   removed in every order.                                               *)
(* - DedupPartial: all vectors up to a length, under all hash functions.   *)
(* - FixedVec: every call on va; vb is filled by push and appended to and  *)
(*   from.                                                                 *)
(***************************************************************************)
EXTENDS StableSlotmap, DedupPartial, FixedVec

CONSTANTS va, vb, e1, e2, e3

VARIABLE part

MCVecs == {va, vb}
MCElems == {e1, e2, e3}

MCInit ==
  /\ part \in {"slot map", "dedup", "vec"}
  /\ Init /\ VecInit /\ DedupInit
  /\ done.vec = va
  /\ part # "vec" => copy
  /\ part # "dedup" =>
       LET b == CHOOSE c \in Buckets : TRUE IN
       input = <<>> /\ \A id \in Ids : hash1[id] = b /\ hash2[id] = b

SlotMapStep == part = "slot map" /\ Next /\ UNCHANGED <<part, dedupVars, vecVars>>

DedupStep == part = "dedup" /\ DedupNext /\ UNCHANGED <<part, vars, vecVars>>

VecsStep ==
  /\ part = "vec"
  /\ \/ VecStep(va)
     \/ \E e \in Elems : VecPush(vb, e)
     \/ VecAppend(va, vb) \/ VecAppend(vb, va)
  /\ UNCHANGED <<part, vars, dedupVars>>

MCNext == SlotMapStep \/ DedupStep \/ VecsStep

MCSpec == MCInit /\ [][MCNext]_<<part, vars, dedupVars, vecVars>>

Symmetry == Permutations(MCElems)
=============================================================================
