---------------------------- MODULE DisjointChunks ----------------------------
(***************************************************************************)
(* hamerkop/src/util/disjoint_chunks.rs: an iterator over the chunks of N  *)
(* elements of two slices taken as one.                                    *)
(***************************************************************************)
EXTENDS Naturals, Sequences, SequencesExt

CONSTANT N

\* new: a stack of slices, the first one on top; tmp is the chunk that next is
\* putting together, and none says that there was not enough left for one.
New(a, b) == [tmp |-> <<>>, none |-> FALSE, slices |-> <<b, a>>]

Smaller(m, n) == IF m < n THEN m ELSE n

\* The body of the loop in next: the part of the chunk the top slice has; a
\* slice that is used up is popped, and without slices there is no chunk.
TakePart(s) ==
  IF s.slices = <<>> THEN [s EXCEPT !.none = TRUE]
  ELSE LET first == Last(s.slices)
           count == Smaller(Len(first), N - Len(s.tmp))
           left == SubSeq(first, count + 1, Len(first))
       IN [tmp |-> s.tmp \o SubSeq(first, 1, count), none |-> FALSE,
           slices |-> Front(s.slices) \o (IF left = <<>> THEN <<>> ELSE <<left>>)]

\* The end of the loop: next returns the chunk.
IsWhole(s) == Len(s.tmp) = N
Taken(s) == [s EXCEPT !.tmp = <<>>]
=============================================================================
