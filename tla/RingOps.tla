------------------------------- MODULE RingOps -------------------------------
(***************************************************************************)
(* The pure arithmetic of the rings: wrapping_dist of uring/src/sqe.rs and *)
(* the indexing and iteration of RingBuf (uring/src/ringbuf.rs).  Cursors  *)
(* are numbers modulo U32; `x & mask` is x % (mask + 1).                   *)
(***************************************************************************)
EXTENDS Naturals, Sequences

CONSTANT U32   \* 2^32 scaled down

Add32(a, b) == (a + b) % U32
Sub32(a, b) == (a + U32 - b) % U32

\* Seeded fault: no special case for equal positions.
BadWrappingDist(a, b, mask) == Sub32(a % (mask + 1), b % (mask + 1)) % (mask + 1)

\* wrapping_dist, with its special case for equal positions.
WrappingDist(a, b, mask) ==
  IF a % (mask + 1) = b % (mask + 1)
  THEN mask + 1
  ELSE Sub32(a % (mask + 1), b % (mask + 1)) % (mask + 1)

\* Slot of the index-th entry of a RingBuf (get_unchecked).
Slot(offset, index, size) == (offset + index) % size

\* RingBuf::into_iter: one slice, or the end of the backing array chained with
\* its beginning.
IntoIter(ring, offset, len, size) ==
  LET end == (offset + len) % size IN
  IF end = offset + len
  THEN [i \in 1 .. len |-> ring[offset + i - 1]]
  ELSE [i \in 1 .. size - offset |-> ring[offset + i - 1]]
         \o [i \in 1 .. end |-> ring[i - 1]]
=============================================================================
